---------------------------- MODULE ReservaCancel ----------------------------
(***************************************************************************)
(* processReservaCancel: a webhook of the CV, or a person, asks for the    *)
(* cancellation of a reserva. The run brakes on a burst, drops duplicates, *)
(* reads the reserva in the CV, checks the contract in Sienge, deletes it, *)
(* reads again, and gives the unit back to sale; or it moves the reserva   *)
(* to Pendencia. The gate of the ato is BoletoCancelamento's ValidarAto,   *)
(* of which only the answer shows here.                                    *)
(***************************************************************************)
EXTENDS ReservaDados

Criou(c, r, manual) ==
  caso' = [caso EXCEPT ![c] = [r |-> r, status |-> "processing", manual |-> manual,
                               criado |-> 0, recente |-> TRUE]]
Ir(c, pc) == corrida' = [corrida EXCEPT ![c].pc = pc]
Mexer(c) == caso' = [caso EXCEPT ![c].recente = TRUE]
\* A plausible slip: the reserva is still taken for in flight.
EncerrarMut(c, status) == caso' = [caso EXCEPT ![c].status = status] /\ UNCHANGED corrida
Encerrar(c, status) == /\ caso' = [caso EXCEPT ![c].status = status]
                       /\ corrida' = [corrida EXCEPT ![c] = Parada]
\* finishBlocked, finishError.
Barrar(c, fim) == corrida' = [corrida EXCEPT ![c] =
                    [Parada EXCEPT !.pc = "pendencia", !.etapa = corrida[c].etapa, !.fim = fim]]
\* The contract is out of the way.
Seguir(c) == corrida' = [corrida EXCEPT ![c] =
               [Parada EXCEPT !.pc = "situacao", !.etapa = corrida[c].etapa]]

estavel == <<modo, rajada, fora, quedas>>
semExt == <<externo, estavel>>
-----------------------------------------------------------------------------
(* Reception, burst brake, duplicates. *)

\* A webhook, whatever it says of the reserva, or the buttons of the screen. A
\* reserva in flight is left alone.
Receber(r, manual) ==
  /\ ~EmVoo(r)
  /\ \E c \in Casos :
       /\ caso[c].status = "nenhum" /\ \A d \in 1..(c - 1) : caso[d].status # "nenhum"
       /\ Criou(c, r, manual)
       /\ corrida' = [corrida EXCEPT ![c] = [Parada EXCEPT !.pc = "inicio"]]
       /\ LET juntos == {d \in Casos : /\ caso[d].status # "nenhum" /\ ~caso[d].manual
                                       /\ caso[d].criado < Espera} \cup {c}
          IN rajada' = IF ~manual /\ modo = "comFreio" /\ Cardinality(juntos) > Teto
                         THEN rajada \cup juntos ELSE rajada
  /\ fora' = IF manual /\ ComSucesso(r) THEN fora \cup {r} ELSE fora
  /\ UNCHANGED <<modo, externo, quedas>>

\* Kill switch, then avaliarRajada up to its sleep.
Comecar(c) ==
  /\ corrida[c].pc = "inicio"
  /\ IF modo = "desligada" /\ ~caso[c].manual THEN Encerrar(c, "skipped")
     ELSE IF caso[c].manual \/ modo = "semFreio" THEN Ir(c, "dedupe") /\ UNCHANGED caso
     ELSE IF NaJanela(c) > Teto THEN Encerrar(c, "held")
     ELSE /\ corrida' = [corrida EXCEPT ![c].pc = "espera", ![c].resta = Espera]
          /\ UNCHANGED caso
  /\ UNCHANGED semExt

\* The window has settled: the second count. (A plausible slip: only the first.)
AcordarMut(c) == /\ corrida[c].pc = "espera" /\ corrida[c].resta = 0
                 /\ Ir(c, "dedupe") /\ UNCHANGED <<caso, semExt>>
Acordar(c) == /\ corrida[c].pc = "espera" /\ corrida[c].resta = 0
              /\ IF NaJanela(c) > Teto THEN Encerrar(c, "held")
                                       ELSE Ir(c, "dedupe") /\ UNCHANGED caso
              /\ UNCHANGED semExt

\* Another run in the last quarter of an hour, or an earlier success.
\* (A plausible slip: only the first.)
DuplicadoMut(c) == OutroVivo(c)
Duplicado(c) == OutroVivo(c) \/ (~caso[c].manual /\ ComSucesso(caso[c].r))
Deduplicar(c) == /\ corrida[c].pc = "dedupe"
                 /\ IF Duplicado(c) THEN Encerrar(c, "ignored")
                                    ELSE Ir(c, "ler") /\ UNCHANGED caso
                 /\ UNCHANGED semExt
-----------------------------------------------------------------------------
(* What the run reads. *)

\* The reserva, live in the CV: the webhook alone is not believed.
LerReserva(c) ==
  /\ corrida[c].pc = "ler"
  /\ LET r == caso[c].r
     IN IF cv[r].vida = "cancelada"
          THEN /\ Mexer(c)
               /\ corrida' = [corrida EXCEPT ![c].pc = "contratos", ![c].etapa = cv[r].etapa]
          ELSE Encerrar(c, "skipped")
  /\ UNCHANGED semExt

\* The active contracts of the reserva, as they are now, and the checks 3.1 to 3.5
\* of the one that it should have: what validarCliente and the like compare is bom.
Apto(ks) == \A k \in ks : contrato[k].bom
LerContratos(c) ==
  /\ corrida[c].pc = "contratos"
  /\ LET r == caso[c].r
         meus == PorReserva(r)
     IN IF r \in ComCodigo \/ Cardinality(meus) = 1
          THEN corrida' = [corrida EXCEPT
                 ![c].pc = IF r \in ComCodigo THEN "unidade" ELSE "ato",
                 ![c].meus = meus, ![c].apto = Apto(meus)]
          ELSE Barrar(c, "blocked")
  /\ UNCHANGED <<caso, semExt>>

\* Those of its unit. Without a contract any of them bars; with one, another makes
\* it unfit, and the gate is asked all the same. (A plausible slip: two contracts
\* of the reserva pass.)
LerUnidadeMut(c) ==
  /\ corrida[c].pc = "unidade"
  /\ LET meus == corrida[c].meus
     IN IF meus = {} /\ PorUnidade(caso[c].r) # {} THEN Barrar(c, "blocked")
        ELSE corrida' = [corrida EXCEPT ![c].pc = IF meus = {} THEN "numero" ELSE "ato"]
  /\ UNCHANGED <<caso, semExt>>
LerUnidade(c) ==
  /\ corrida[c].pc = "unidade"
  /\ LET meus == corrida[c].meus
         outros == PorUnidade(caso[c].r) \ meus
     IN IF Cardinality(meus) > 1 \/ (meus = {} /\ outros # {}) THEN Barrar(c, "blocked")
        ELSE corrida' = [corrida EXCEPT ![c].pc = IF meus = {} THEN "numero" ELSE "ato",
                                        ![c].apto = @ /\ outros = {}]
  /\ UNCHANGED <<caso, semExt>>

\* Without a contract: by the number of the integration, then by the document of
\* the holder, which may be missing or fail.
LerNumero(c) == /\ corrida[c].pc = "numero"
                /\ IF PorNumero(caso[c].r) # {} THEN Barrar(c, "blocked")
                                                ELSE Ir(c, "documento")
                /\ UNCHANGED <<caso, semExt>>
LerDocumento(c) == /\ corrida[c].pc = "documento"
                   /\ \E consulta \in {TRUE} \cup {~Pode("documento")} :
                        IF consulta /\ PorDocumento(caso[c].r) # {}
                          THEN Barrar(c, "blocked") ELSE Ir(c, "ato")
                   /\ UNCHANGED <<caso, semExt>>

\* A call that throws: the catch of the run, which knows the stage or not yet.
Estourar(c) ==
  /\ Pode("api")
  /\ corrida[c].pc \in {"ler", "contratos", "unidade", "numero", "reler", "relerUnidade"}
  /\ IF corrida[c].pc = "ler" THEN Encerrar(c, "error")
                              ELSE Barrar(c, "error") /\ UNCHANGED caso
  /\ UNCHANGED semExt

\* validarAto, then the sum of the checks.
Ato(c) ==
  /\ corrida[c].pc = "ato"
  /\ \E passa \in BOOLEAN :
       IF ~passa \/ (corrida[c].meus # {} /\ ~corrida[c].apto) THEN Barrar(c, "blocked")
       ELSE IF corrida[c].meus = {} THEN Seguir(c) ELSE Ir(c, "excluir")
  /\ UNCHANGED <<caso, semExt>>
-----------------------------------------------------------------------------
(* What the run changes. *)

Excluidos(ks) == [k \in Contratos |-> IF k \in ks THEN Extinto ELSE contrato[k]]

\* DELETE: done, refused, accepted without effect, or done without an answer.
Excluir(c) ==
  /\ corrida[c].pc = "excluir"
  /\ \/ Ir(c, "reler") /\ contrato' = Excluidos(corrida[c].meus)
     \/ Pode("exclui") /\ Ir(c, "reler") /\ UNCHANGED contrato
     \/ /\ Pode("exclui") /\ Barrar(c, "error")
        /\ contrato' \in {contrato, Excluidos(corrida[c].meus)}
  /\ UNCHANGED <<caso, cv, dono, estavel>>

\* The contract must be gone, and nothing else may hold the unit.
Reler(c) ==
  /\ corrida[c].pc = "reler"
  /\ IF PorReserva(caso[c].r) \cap corrida[c].meus # {}
       THEN Barrar(c, "error") /\ UNCHANGED caso
       ELSE /\ IF caso[c].r \in ComCodigo THEN Ir(c, "relerUnidade") ELSE Seguir(c)
            /\ Mexer(c)
  /\ UNCHANGED semExt
RelerUnidade(c) ==
  /\ corrida[c].pc = "relerUnidade"
  /\ IF PorUnidade(caso[c].r) # {} THEN Barrar(c, "error") ELSE Seguir(c)
  /\ UNCHANGED <<caso, semExt>>

\* aplicarSituacaoCv: nothing to do if the run read that stage; a failure is only a
\* warning.
Aplicar(c, etapa) ==
  \/ corrida[c].etapa = etapa /\ UNCHANGED <<cv, caso>>
  \/ corrida[c].etapa # etapa /\ Mexer(c) /\ cv' = [cv EXCEPT ![caso[c].r].etapa = etapa]
  \/ corrida[c].etapa # etapa /\ Pode("etapa") /\ UNCHANGED <<cv, caso>>
Situacao(c) == /\ corrida[c].pc = "situacao"
               /\ Aplicar(c, "cancelada") /\ Ir(c, "liberar")
               /\ UNCHANGED <<dono, contrato, estavel>>

\* The unit is put up for sale, whoever has it. Taken and not answered, it will be
\* tried again. (A plausible slip: the failure is not looked at.)
Solta(r) == /\ dono' = [dono EXCEPT ![Unidade[r]] = Nulo]
            /\ fora' = fora \cup ({dono[Unidade[r]]} \ {r, Nulo})
LiberarMut(c) == LET r == caso[c].r IN
  /\ corrida[c].pc = "liberar"
  /\ \/ Ir(c, "concluir") /\ Solta(r)
     \/ Pode("libera") /\ Ir(c, "concluir") /\ UNCHANGED <<dono, fora>>
  /\ UNCHANGED <<modo, caso, cv, contrato, rajada, quedas>>
Liberar(c) == LET r == caso[c].r IN
  /\ corrida[c].pc = "liberar"
  /\ \/ Ir(c, "concluir") /\ Solta(r)
     \/ /\ Pode("libera") /\ Barrar(c, "error")
        /\ \/ UNCHANGED <<dono, fora>>
           \/ /\ dono' = [dono EXCEPT ![Unidade[r]] = Nulo]
              /\ fora' = fora \cup ({r, dono[Unidade[r]]} \ {Nulo})
  /\ UNCHANGED <<modo, caso, cv, contrato, rajada, quedas>>

Concluir(c) == /\ corrida[c].pc = "concluir" /\ Encerrar(c, "success")
               /\ UNCHANGED semExt

\* finishBlocked, finishError: the stage, then the row.
Pendencia(c) == /\ corrida[c].pc = "pendencia"
                /\ Aplicar(c, "pendencia") /\ Ir(c, "gravar")
                /\ UNCHANGED <<dono, contrato, estavel>>
Gravar(c) == /\ corrida[c].pc = "gravar" /\ Encerrar(c, corrida[c].fim)
             /\ UNCHANGED semExt
-----------------------------------------------------------------------------
\* The database answers at once next to these times. Only the brake looks at the
\* age of a row, and at that of an automatic one.
Mais(n, max) == IF n < max THEN n + 1 ELSE n
Depois(x) == IF x.r = Nulo \/ x.manual THEN x
             ELSE [x EXCEPT !.criado = Mais(@, Janela + 1)]
Passar == /\ modo = "comFreio"
          /\ \A c \in Casos : /\ corrida[c].pc # "inicio"
                              /\ corrida[c].pc = "espera" => corrida[c].resta > 0
          /\ caso' = [c \in Casos |-> Depois(caso[c])]
          /\ corrida' = [c \in Casos |-> IF corrida[c].pc = "espera"
                           THEN [corrida[c] EXCEPT !.resta = @ - 1] ELSE corrida[c]]
          /\ UNCHANGED semExt

\* A quarter of an hour, far longer than the times of the brake. While a run is alive
\* nobody else looks at its row.
Envelhecer(c) == /\ caso[c].status = "processing" /\ corrida[c].pc = "parado"
                 /\ caso[c].recente /\ caso' = [caso EXCEPT ![c].recente = FALSE]
                 /\ UNCHANGED <<corrida, semExt>>

\* Runs end where they are, and their rows stay in processing. A release that was
\* made is recorded nowhere.
Reiniciar ==
  /\ quedas < MaxQuedas /\ quedas' = quedas + 1
  /\ corrida' = [c \in Casos |-> Parada]
  /\ fora' = fora \cup {caso[c].r : c \in {d \in Casos : corrida[d].pc = "concluir"}}
  /\ UNCHANGED <<modo, externo, caso, rajada>>

Passo(c) == \/ Comecar(c) \/ Acordar(c) \/ Deduplicar(c)
            \/ LerReserva(c) \/ LerContratos(c) \/ LerUnidade(c) \/ LerNumero(c)
            \/ LerDocumento(c) \/ Estourar(c) \/ Ato(c)
            \/ Excluir(c) \/ Reler(c) \/ RelerUnidade(c)
            \/ Situacao(c) \/ Liberar(c) \/ Concluir(c)
            \/ Pendencia(c) \/ Gravar(c)

Next == \/ \E r \in Reservas, manual \in BOOLEAN : Receber(r, manual)
        \/ \E c \in Casos : Passo(c)
        \/ \E c \in Casos : Envelhecer(c)
        \/ Ambiente \/ Passar \/ Reiniciar

Spec == Init /\ [][Next]_vars
-----------------------------------------------------------------------------
\* Case c gives its unit back in this step.
Libera(c) == LET u == Unidade[caso[c].r]
             IN /\ corrida[c].pc = "liberar" /\ corrida'[c] # corrida[c]
                /\ dono[u] # Nulo /\ dono'[u] = Nulo

\* A unit goes back to sale only from the cancelled reserva that has it, and with no
\* active contract in Sienge: duplicates of the webhook, retries after a failure in
\* the middle and restarts never put up a unit that was sold again.
LiberacaoSegura ==
  [][\A c \in Casos : Libera(c) /\ caso[c].r \notin fora =>
       LET r == caso[c].r
       IN /\ dono[Unidade[r]] = r /\ cv[r].vida = "cancelada"
          /\ PorReserva(r) = {} /\ (r \in ComCodigo => PorUnidade(r) = {})]_vars

\* The automation deletes the contract of a cancelled reserva only, when it is the
\* only one of that reserva and, if the unit has a code, of the unit.
ExclusaoCerta ==
  [][\A c \in Casos, k \in Contratos :
       /\ corrida[c].pc = "excluir" /\ corrida'[c] # corrida[c]
       /\ k \in Vivos /\ contrato'[k] = Extinto /\ contrato[k].r \notin fora
       => /\ cv[contrato[k].r].vida = "cancelada"
          /\ PorReserva(contrato[k].r) = {k}
          /\ contrato[k].r \in ComCodigo => PorUnidade(contrato[k].r) = {k}]_vars

\* Of a burst no case runs, not even the first: each has waited until it saw the
\* others.
RajadaRetida == \A c \in rajada : /\ corrida[c].pc \in {"parado", "inicio", "espera"}
                                  /\ caso[c].status \in {"processing", "held", "skipped"}

\* A success, after which every webhook is ignored, means that both sides are done.
SucessoDosDoisLados ==
  \A r \in Reservas : ComSucesso(r) => dono[Unidade[r]] # r /\ PorReserva(r) = {}

\* What the module says of a barred cancellation: the reserva waits in Pendencia,
\* so that Cancelada holds only what was cancelled on both sides.
BarradaEmPendencia ==
  [][\A c \in Casos : corrida[c].pc = "gravar" /\ corrida'[c].pc = "parado" =>
       cv'[caso[c].r].etapa # "cancelada"]_vars
=============================================================================
