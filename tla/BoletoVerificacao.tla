------------------------- MODULE BoletoVerificacao -------------------------
(***************************************************************************)
(* runDailyCheck under the daily scheduler and under checkPaymentNow, and  *)
(* markHistoryCancelled.  A round holds the lease, lists the boletos to    *)
(* look at, and for each one reads the title at the bank, writes it off if *)
(* it is due and open, and applies what it read to the row.                *)
(***************************************************************************)
EXTENDS BoletoDados

VARIABLES vf,     \* the round of each verifier
          marcar  \* the row an admin is marking as written off (0: none)

verificacaoVars == <<vf, marcar>>
soVf == <<h, titulo, dono, cv, janela, ativo, leaseVars, marcar>>

Rodada == [pc: {"parado", "lote", "ler", "gravar"}, itens: SUBSET (Linhas \X BOOLEAN),
           l: Linhas \cup {0}, lida: {"-", "aberto", "pago", "baixado"},
           baixou: BOOLEAN, visto: {"-", "pending", "paid", "cancelled"}]
RodadaNova == [pc |-> "parado", itens |-> {}, l |-> 0, lida |-> "-",
               baixou |-> FALSE, visto |-> "-"]

VerificacaoTypeOK == /\ vf \in [Verificadores -> Rodada]
                     /\ marcar \in Linhas \cup {0}

SemRodada == [v \in Verificadores |-> RodadaNova]
VerificacaoInit == /\ vf = SemRodada
                   /\ marcar = 0

\* Eligible rows: pending, and cancelled ones in the revalidation window.  The
\* flag says whether decidirAcao may ask for a write-off.
ComNumero == {l \in Linhas : h[l].status = "success" /\ h[l].nn # Nulo}
Elegiveis == {<<l, TRUE>> : l \in {k \in ComNumero : h[k].pay = "pending"}}
             \cup {<<l, FALSE>> : l \in {k \in ComNumero : h[k].pay = "cancelled"}}

\* withLock of the scheduler or the acquire of checkPaymentNow, then findAll.
\* A busy lease ends the attempt with nothing changed.
IniciarRodada(v) ==
  /\ vf[v].pc = "parado"
  /\ Elegiveis # {}
  /\ TryAcquire(v)
  /\ vf' = [vf EXCEPT ![v].pc = "lote", ![v].itens = Elegiveis]
  /\ UNCHANGED <<h, titulo, dono, cv, janela, ativo, marcar>>

Terminar(v, i) == vf' = [vf EXCEPT ![v].pc = "lote", ![v].itens = @ \ {i},
                                   ![v].l = 0, ![v].lida = "-",
                                   ![v].baixou = FALSE, ![v].visto = "-"]

\* A boleto the round learns nothing about: outside the revalidation window,
\* company unknown, session or query failed, title not found.
Pular(v, i) == /\ vf[v].pc = "lote" /\ i \in vf[v].itens
               /\ ~i[2] \/ Pode("consulta")
               /\ Terminar(v, i)
               /\ UNCHANGED soVf

\* consultarTituloDetalhado: an open title that is not due changes nothing.
ConsultarMut(v, i) ==
  /\ vf[v].pc = "lote" /\ i \in vf[v].itens
  /\ \E s \in Leituras(h[i[1]].nn) :
       IF s # "baixado" THEN Terminar(v, i)
       ELSE vf' = [vf EXCEPT ![v].pc = "ler", ![v].l = i[1], ![v].lida = s]
  /\ UNCHANGED soVf
Consultar(v, i) ==
  /\ vf[v].pc = "lote" /\ i \in vf[v].itens
  /\ \E s \in Leituras(h[i[1]].nn) :
       IF s = "aberto" THEN Terminar(v, i)
       ELSE vf' = [vf EXCEPT ![v].pc = "ler", ![v].l = i[1], ![v].lida = s]
  /\ UNCHANGED soVf

\* Due, read as open: baixarTitulo, confirmed or (baixa) submitted without a
\* confirmation the code recognises.
ConsultarEBaixar(v, i) ==
  /\ vf[v].pc = "lote" /\ i \in vf[v].itens /\ i[2]
  /\ titulo[h[i[1]].nn] = "aberto"
  /\ titulo' = [titulo EXCEPT ![h[i[1]].nn] = "baixado"]
  /\ \/ vf' = [vf EXCEPT ![v].pc = "ler", ![v].l = i[1], ![v].lida = "aberto",
                         ![v].baixou = TRUE]
     \/ Pode("baixa") /\ Terminar(v, i)
  /\ UNCHANGED <<h, dono, cv, janela, ativo, leaseVars, marcar>>

\* aplicarResultado: findByPk, events, then the update.
LerLinha(v) == /\ vf[v].pc = "ler"
               /\ vf' = [vf EXCEPT ![v].pc = "gravar", ![v].visto = h[vf[v].l].pay]
               /\ UNCHANGED soVf

\* What the update writes: paid is recorded over anything else; a write-off
\* found at the bank never undoes a payment seen; one just made is recorded.
NovoPay(r, pay) == CASE r.lida = "pago" /\ r.visto # "paid" -> "paid"
                     [] r.lida = "baixado" /\ r.visto = "pending" -> "cancelled"
                     [] r.baixou -> "cancelled"
                     [] OTHER -> pay

Item(v) == CHOOSE i \in vf[v].itens : i[1] = vf[v].l
Gravar(v) == /\ vf[v].pc = "gravar"
             /\ Update(vf[v].l, [h[vf[v].l] EXCEPT !.pay = NovoPay(vf[v], @)])
             /\ Terminar(v, Item(v))
             /\ UNCHANGED <<titulo, dono, cv, janela, ativo, leaseVars, marcar>>

\* End of the round, or the batch crashes: the finally releases the lease.
EncerrarRodada(v) == /\ vf[v].pc = "lote"
                     /\ vf[v].itens = {} \/ Pode("consulta")
                     /\ Release(v)
                     /\ vf' = [vf EXCEPT ![v] = RodadaNova]
                     /\ UNCHANGED <<h, titulo, dono, cv, janela, ativo, marcar>>

\* markHistoryCancelled: offered on an emitted, pending boleto; the admin has
\* written the title off in the portal.  Read, then write.
LerParaMarcar(l) == /\ Pode("baixaExterna")
                    /\ marcar = 0
                    /\ l \in Linhas
                    /\ h[l].status = "success" /\ h[l].pay = "pending"
                    /\ h[l].nn # Nulo => titulo[h[l].nn] = "baixado"
                    /\ marcar' = l
                    /\ UNCHANGED <<h, titulo, dono, cv, janela, ativo, leaseVars, vf>>
MarcarBaixado == /\ marcar # 0
                 /\ Update(marcar, [h[marcar] EXCEPT !.pay = "cancelled"])
                 /\ marcar' = 0
                 /\ UNCHANGED <<titulo, dono, cv, janela, ativo, leaseVars, vf>>

PassoVf(v) == \/ \E i \in vf[v].itens : Pular(v, i) \/ Consultar(v, i) \/ ConsultarEBaixar(v, i)
              \/ LerLinha(v) \/ Gravar(v) \/ EncerrarRodada(v)

VerificacaoNext ==
  \/ \E v \in Verificadores : IniciarRodada(v) \/ PassoVf(v)
  \/ (\E l \in Linhas : LerParaMarcar(l)) \/ MarcarBaixado
=============================================================================
