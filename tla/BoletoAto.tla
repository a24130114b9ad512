----------------------------- MODULE BoletoAto -----------------------------
(***************************************************************************)
(* The Boleto de Ato of one reserva: emission, verification and            *)
(* cancellation over the same rows, the same titles and the same lease,    *)
(* with the customer, the CV, the bank and the restarts of the server.     *)
(***************************************************************************)
EXTENDS BoletoEmissao, BoletoVerificacao, BoletoCancelamento

vars == <<dadosVars, emissaoVars, verificacaoVars, canc>>

TypeOK == DadosTypeOK /\ EmissaoTypeOK /\ VerificacaoTypeOK /\ CancTypeOK

Init == DadosInit /\ EmissaoInit /\ VerificacaoInit /\ CancInit

\* A restart of the server ends every run, round and cancellation.
Queda == /\ Reiniciar
         /\ vf' = SemRodada /\ marcar' = 0
         /\ canc' = [CancNovo EXCEPT !.res = canc.res]

Next == \/ EmissaoNext /\ UNCHANGED <<verificacaoVars, canc>>
        \/ VerificacaoNext /\ UNCHANGED <<emissaoVars, canc>>
        \/ CancNext /\ UNCHANGED <<emissaoVars, verificacaoVars>>
        \/ Ambiente /\ UNCHANGED <<emissaoVars, verificacaoVars, canc>>
        \/ Queda

Spec == Init /\ [][Next]_vars

\* Every run, round and cancellation goes on (each await settles or times
\* out); boletoWindowScheduler and the daily check fire again and again.
Justica ==
  /\ \A l \in Linhas : WF_vars(Passo(l) /\ UNCHANGED <<verificacaoVars, canc>>)
  /\ WF_vars((\E l \in Linhas : Retomar(l)) /\ UNCHANGED <<verificacaoVars, canc>>)
  /\ WF_vars(FimRetomada /\ UNCHANGED <<verificacaoVars, canc>>)
  /\ WF_vars((\E v \in Verificadores : IniciarRodada(v)) /\ UNCHANGED <<emissaoVars, canc>>)
  /\ \A v \in Verificadores : WF_vars(PassoVf(v) /\ UNCHANGED <<emissaoVars, canc>>)
  /\ WF_vars(PassoCanc /\ UNCHANGED <<emissaoVars, verificacaoVars>>)

FairSpec == Spec /\ Justica
-----------------------------------------------------------------------------
(* Safety. *)

\* An automatic retry is safe: a queued row never registered a title, so the
\* resumed run cannot register a second one for the same activation.
FilaSemTitulo == \A n \in NNs : dono[n] # 0 => h[dono[n]].status # "queued"

\* No activation registers two titles, whatever is retried, queued or crashes.
UmTituloPorLinha == \A m, n \in NNs : dono[m] = dono[n] /\ dono[m] # 0 => m = n

\* An emitted row carries the number of a title its own run registered, though
\* two runs may have computed the same number.
EmitidaTemTitulo == \A l \in Emitidas : h[l].nn # Nulo /\ dono[h[l].nn] = l

\* What a row says of its boleto is what the bank shows: paid only if it was
\* paid, cancelled only if the title can be read there as written off.
RegistroFiel ==
  \A l \in Emitidas :
    /\ h[l].pay = "paid" => titulo[h[l].nn] = "pago"
    /\ h[l].pay = "cancelled" => "baixado" \in Leituras(h[l].nn)

\* The CV stage is never scheduled for a row that tells the customer "a reserva
\* permanece na situacao atual": queued, skipped or ignored.
PermaneceNaSituacao ==
  \A l \in Linhas : h[l].status \in {"queued", "skipped"} \/ h[l].ignorado
                      => h[l].situacao = "nenhuma"

\* At most one open title for the reserva.
UmTituloAberto == Cardinality({n \in NNs : titulo[n] = "aberto"}) <= 1

\* A payment recorded is never undone.
PagoNaoRegride ==
  [][\A l \in Linhas : h[l].pay = "paid" => h'[l].pay = "paid"]_vars

\* A boleto that was paid is not replaced: the emission that follows the
\* write-off of the previous one only starts if the previous one was not paid.
SubstituiSoNaoPago ==
  [][\A l \in Linhas : pc[l] = "baixa" /\ pc'[l] = "emissao"
                         => titulo[h[ex[l].prev].nn] # "pago"]_vars

\* The gate lets a cancellation go only if no boleto is recorded as paid.
GateBarraPago == [][canc'.res = "segue" /\ canc.res # "segue" => Pagas = {}]_vars

\* Once the gate let a cancellation go, neither the activation it looked at nor a
\* later one emits a boleto for the reserva: at most a run of an older row does,
\* one that overlaps the latest or was queued before it came.
CanceladaNaoEmite ==
  [][canc.res = "segue" =>
       \A n \in NNs : titulo[n] = "nao" /\ titulo'[n] # "nao"
                        => \E k \in Consideradas : dono'[n] < k]_vars
-----------------------------------------------------------------------------
(* Liveness, under Justica. *)

\* Whoever is told that the emission happens by itself gets an outcome: no row
\* stays in progress or in the queue for ever.
TodaLinhaTermina ==
  \A l \in Linhas : h[l].status \in {"processing", "queued"}
                      ~> h[l].status \in {"success", "skipped", "error"}

\* A payment of an emitted boleto ends up in its row.
PagamentoDetectado ==
  \A l \in Linhas :
    (l \in Pendentes /\ titulo[h[l].nn] = "pago") ~> h[l].pay = "paid"
=============================================================================
