----------------------------- MODULE PaymentFlow -----------------------------
(***************************************************************************)
(* A launch from the request to the payment: the pipeline, the polls of    *)
(* contractApprovalScheduler and of "verificar agora", the run that        *)
(* creditorPollingScheduler resumes, and the buttons of the screen.        *)
(***************************************************************************)
EXTENDS PagamentoEsteira

CONSTANT MaxQuedas     \* restarts of the server
ASSUME QuedasAssumption == MaxQuedas \in Nat

VARIABLE quedas

vars == <<dadosVars, quedas>>

TypeOK == DadosTypeOK /\ quedas \in 0..MaxQuedas
Init == DadosInit /\ quedas = 0
-----------------------------------------------------------------------------
(* Polls: the row is loaded, Sienge is asked, the stage moves.              *)

Carrega(p, pc) == proc' = [proc EXCEPT ![p].pc = pc, ![p].lido = row.stage]

\* pollContractStatus. Only a row that was waiting when it was loaded goes on, and
\* the update takes it only if it still is: one of the polls starts the measurement.
PollContrato1(p) == /\ Em(p, "pollContrato1") /\ UNCHANGED <<row, sienge>>
                    /\ IF row.contrato THEN Carrega(p, "pollContrato2") ELSE Fim(p)
\* Bug: the approval of the contract is not looked at.
PollContrato2Mut(p) == /\ Em(p, "pollContrato2") /\ UNCHANGED <<row, sienge>>
                       /\ IF proc[p].lido = "awaiting_authorization"
                            THEN Ir(p, "pollContrato3") ELSE Fim(p)
PollContrato2(p) == /\ Em(p, "pollContrato2") /\ UNCHANGED <<row, sienge>>
                    /\ IF sienge.autorizado /\ proc[p].lido = "awaiting_authorization"
                         THEN Ir(p, "pollContrato3") ELSE Fim(p)
\* Bug: the stage is moved without asking that it still is the one waited in.
PollContrato3Mut(p) == /\ Em(p, "pollContrato3") /\ UNCHANGED sienge
                       /\ Etapa("creating_measurement") /\ Ir(p, "medir1")
PollContrato3(p) == /\ Em(p, "pollContrato3") /\ UNCHANGED sienge
                    /\ IF row.stage = "awaiting_authorization"
                         THEN Etapa("creating_measurement") /\ Ir(p, "medir1")
                         ELSE Fim(p) /\ UNCHANGED row

\* pollMeasurementStatus.
PollMedicao1(p) ==
  /\ Em(p, "pollMedicao1") /\ UNCHANGED <<row, sienge>>
  /\ IF row.med # 0
       THEN proc' = [proc EXCEPT ![p].pc = "pollMedicao2", ![p].lido = row.stage,
                                 ![p].num = row.med]
       ELSE Fim(p)
\* Bug: the authorization of the contract is taken for that of the measurement.
PollMedicao2Mut(p) == /\ Em(p, "pollMedicao2") /\ UNCHANGED <<row, sienge>>
                      /\ IF /\ sienge.autorizado
                            /\ proc[p].lido = "awaiting_measurement_authorization"
                           THEN Ir(p, "pollMedicao3") ELSE Fim(p)
PollMedicao2(p) == /\ Em(p, "pollMedicao2") /\ UNCHANGED <<row, sienge>>
                   /\ IF /\ sienge.meds[proc[p].num].autorizada
                         /\ proc[p].lido = "awaiting_measurement_authorization"
                        THEN Ir(p, "pollMedicao3") ELSE Fim(p)
PollMedicao3(p) == /\ Em(p, "pollMedicao3") /\ UNCHANGED sienge
                   /\ IF row.stage = "awaiting_measurement_authorization"
                        THEN Etapa("creating_titulo") /\ Ir(p, "titular1")
                        ELSE Fim(p) /\ UNCHANGED row

\* pollTituloStatus: a paid title is seen even if its boleto could not be registered.
PollTitulo1(p) ==
  /\ Em(p, "pollTitulo1") /\ UNCHANGED <<row, sienge>>
  /\ IF row.tit # 0
       THEN proc' = [proc EXCEPT ![p].pc = "pollTitulo2", ![p].lido = row.stage,
                                 ![p].num = row.tit]
       ELSE Fim(p)
\* Bug: a title with no open parcel is taken as paid, one not yet split into parcels too.
PollTitulo2Mut(p) ==
  /\ Em(p, "pollTitulo2") /\ Fim(p) /\ UNCHANGED sienge
  /\ IF proc[p].lido \in {"awaiting_titulo_authorization", "titulo_created"}
       THEN EtapaStatus("titulo_pago", "titulo_pago") ELSE UNCHANGED row
PollTitulo2(p) ==
  /\ Em(p, "pollTitulo2") /\ Fim(p) /\ UNCHANGED sienge
  /\ IF /\ sienge.tits[proc[p].num].pago
        /\ proc[p].lido \in {"awaiting_titulo_authorization", "titulo_created"}
       THEN EtapaStatus("titulo_pago", "titulo_pago") ELSE UNCHANGED row

PassoPoll(p) == \/ PollContrato1(p) \/ PollContrato2(p) \/ PollContrato3(p)
                \/ PollMedicao1(p) \/ PollMedicao2(p) \/ PollMedicao3(p)
                \/ PollTitulo1(p) \/ PollTitulo2(p)

\* What the cycle of the scheduler picks, from the row as it lists it.
Ativo == row.status \notin {"cancelado", "titulo_pago"}
\* Bug: measurements are listed in the stage they had before they wait.
TarefasMut == {t \in {"pollContrato1", "pollMedicao1", "registrar1", "pollTitulo1"} :
                 Ativo /\ CASE t = "pollContrato1" -> row.stage = "awaiting_authorization"
                                                      /\ row.contrato
                            [] t = "pollMedicao1" ->
                                 row.stage = "measurement_created" /\ row.med # 0
                            [] t = "registrar1" -> row.stage = "titulo_created" /\ row.tit # 0
                                                   /\ row.boleto # "permanente"
                            [] t = "pollTitulo1" ->
                                 row.stage = "awaiting_titulo_authorization" /\ row.tit # 0}
Tarefas == {t \in {"pollContrato1", "pollMedicao1", "registrar1", "pollTitulo1"} :
              Ativo /\ CASE t = "pollContrato1" -> row.stage = "awaiting_authorization"
                                                   /\ row.contrato
                         [] t = "pollMedicao1" ->
                              row.stage = "awaiting_measurement_authorization" /\ row.med # 0
                         [] t = "registrar1" -> row.stage = "titulo_created" /\ row.tit # 0
                                                /\ row.boleto # "permanente"
                         [] t = "pollTitulo1" ->
                              row.stage = "awaiting_titulo_authorization" /\ row.tit # 0}
Agendar(p) == /\ Em(p, "livre") /\ UNCHANGED <<row, sienge, pedidos, quedas, fora>>
              /\ \E t \in Tarefas : Ir(p, t)

Sozinho == UmaPorVez => \A q \in Processos : proc[q].pc \in {"livre"} \cup Polls

\* creditorPollingScheduler: the supplier of a launch whose form was sent.
RetomarCredor(p) == /\ Em(p, "livre") /\ row.credor = "not_found" /\ row.rid
                    /\ Sozinho
                    /\ Iniciar(p) /\ UNCHANGED <<pedidos, quedas, fora>>
-----------------------------------------------------------------------------
(* People. *)

Terminais == {"creditor_not_found", "contract_not_found", "contract_manual_block",
              "contract_error", "additive_error", "measurement_error", "titulo_error",
              "idle", "items_insufficient"}
Botao == pedidos < MaxPedidos /\ pedidos' = pedidos + 1 /\ UNCHANGED quedas
Pedir(p) == Em(p, "livre") /\ Botao
Marca(o) == fora' = fora \cup {o}

\* A launch that is thought stuck is run from the start, whatever it already has.
Recomeca == row.stage \in Stuck \ {"contract_manual_block"}
RunPipeline(p) == /\ Pedir(p) /\ Sozinho
                  /\ UmaPorVez => \/ row.stage \in Terminais
                                  \/ Recomeca /\ \A q \in Processos : proc[q].pc = "livre"
                  /\ IF Recomeca THEN Marca("refeito") ELSE UNCHANGED fora
                  /\ Iniciar(p)

\* The steps that the screen offers one by one.
Clicar(p) == /\ Pode("clique") /\ Pedir(p) /\ Sozinho /\ Marca("clique")
             /\ \E pc \in {"credor1", "contrato1", "valida1"} :
                  proc' = [proc EXCEPT ![p] = [Livre EXCEPT !.pc = pc, !.solto = TRUE]]
             /\ UNCHANGED <<row, sienge>>
Criar(p) == /\ Pode("cria") /\ Pedir(p) /\ Sozinho /\ Marca("mao")
            /\ UmaPorVez => row.stage \in Terminais
            /\ \E pc \in {"criar1", "titular1"} :
                 proc' = [proc EXCEPT ![p] = [Livre EXCEPT !.pc = pc, !.solto = TRUE]]
            /\ UNCHANGED <<row, sienge>>

\* registerBoletoController: a person may give the number of a title.
RegistrarTitulo(p) == /\ Pode("cria") /\ Pedir(p) /\ Marca("mao")
                      /\ \E n \in {row.tit} \cup DOMAIN sienge.tits :
                           row' = [row EXCEPT !.tit = n]
                      /\ Ir(p, "registrar1") /\ UNCHANGED sienge

\* pollNow: the poll of the stage.
PollNow(p) ==
  /\ Pode("agora") /\ Pedir(p) /\ UNCHANGED <<row, sienge, fora>>
  /\ \/ /\ row.stage \in {"awaiting_authorization", "contract_found", "contract_created",
                          "additive_created"}
        /\ Ir(p, "pollContrato1")
     \/ /\ row.stage \in {"awaiting_measurement_authorization", "measurement_created"}
        /\ Ir(p, "pollMedicao1")
     \/ /\ row.stage \in {"awaiting_titulo_authorization", "titulo_created"}
        /\ Ir(p, "pollTitulo1")

\* continueExistingContractPipeline: a person vouches for the contract.
Continuar(p) == /\ Pedir(p) /\ Sozinho /\ row.contrato
                /\ UmaPorVez => row.stage = "contract_manual_block"
                /\ row' = [row EXCEPT !.auto = TRUE]
                /\ Ir(p, "aditivo1") /\ UNCHANGED <<sienge, fora>>

\* stepUpdateBoleto: a new boleto for a title that exists.
TrocarBoleto(p) == /\ Pode("boleto") /\ Pedir(p) /\ row.tit # 0
                   /\ row' = [row EXCEPT !.boleto = "ok"]
                   /\ Ir(p, "trocar1") /\ UNCHANGED <<sienge, fora>>
Trocar1(p) == /\ Em(p, "trocar1") /\ UNCHANGED <<row, sienge>>
              /\ Ir(p, "trocar2") \/ Fim(p)
Trocar2(p) == /\ Em(p, "trocar2") /\ Fim(p) /\ UNCHANGED sienge
              /\ IF row.stage \in {"awaiting_titulo_authorization", "titulo_pago"}
                   THEN UNCHANGED row ELSE Etapa("awaiting_titulo_authorization")

\* abort, cancel, mark as paid, advance, send the form: writes of the row alone.
NaLinha == Botao /\ UNCHANGED <<sienge, proc, fora>>
Abortar == Pode("aborto") /\ NaLinha /\ Ativo /\ EtapaStatus("aborted", "erro")
Cancelar == /\ Pode("cancela") /\ NaLinha /\ Ativo
            /\ row' = [row EXCEPT !.status = "cancelado"]
MarcarPago == /\ Pode("paga") /\ NaLinha /\ row.status = "titulo"
              /\ row' = [row EXCEPT !.status = "titulo_pago"]
Fluxo == <<"fornecedor", "contrato", "aditivo", "medicao", "titulo">>
AvancarStatus == /\ Pode("avanca") /\ NaLinha
                 /\ \E i \in 1..(Len(Fluxo) - 1) :
                      row.status = Fluxo[i] /\ row' = [row EXCEPT !.status = Fluxo[i + 1]]
EnviarRid == /\ row.credor = "not_found" /\ ~row.rid /\ NaLinha
             /\ row' = [row EXCEPT !.rid = TRUE]
-----------------------------------------------------------------------------
(* Sienge, and restarts. *)

Externamente(s) == sienge' = s /\ UNCHANGED <<row, proc, pedidos, quedas, fora>>
Cadastrar == ~sienge.credor /\ Externamente([sienge EXCEPT !.credor = TRUE])
Autorizar == ~sienge.autorizado /\ Externamente([sienge EXCEPT !.autorizado = TRUE])
AutorizarMedicao(m) == /\ m \in DOMAIN sienge.meds /\ ~sienge.meds[m].autorizada
                       /\ Externamente([sienge EXCEPT !.meds[m].autorizada = TRUE])
Pagar(t) == /\ t \in DOMAIN sienge.tits /\ ~sienge.tits[t].pago
            /\ Externamente([sienge EXCEPT !.tits[t].pago = TRUE])

Reiniciar == /\ quedas < MaxQuedas /\ quedas' = quedas + 1
             /\ proc' = [p \in Processos |-> Livre]
             /\ fora' = IF proc' = proc THEN fora ELSE fora \cup {"queda"}
             /\ UNCHANGED <<row, sienge, pedidos>>

Passo(p) == /\ PassoEsteira(p) \/ PassoPoll(p) \/ Trocar1(p) \/ Trocar2(p)
            /\ fora' = IF \E s \in {"criar3", "aditivo3", "medir3", "titular3"} :
                               Em(p, s) /\ row'.status = "erro" /\ proc'[p] = Livre
                         THEN fora \cup {"incerta"} ELSE fora
            /\ UNCHANGED <<pedidos, quedas>>

Next == \/ \E p \in Processos :
             \/ Passo(p) \/ Agendar(p) \/ RetomarCredor(p)
             \/ RunPipeline(p) \/ Clicar(p) \/ Criar(p) \/ RegistrarTitulo(p) \/ PollNow(p)
             \/ Continuar(p) \/ TrocarBoleto(p)
        \/ Abortar \/ Cancelar \/ MarcarPago \/ AvancarStatus \/ EnviarRid
        \/ Cadastrar \/ Autorizar
        \/ \E n \in 1..MaxMedicoes : AutorizarMedicao(n) \/ Pagar(n)
        \/ Reiniciar

Spec == Init /\ [][Next]_vars

\* Browsers and calls end; the schedulers fire. Sienge's people owe nothing.
FairSpec == /\ Spec
            /\ \A p \in Processos : WF_vars(Passo(p)) /\ WF_vars(Agendar(p))
-----------------------------------------------------------------------------
\* In the automatic course, with polls that overlap and runs that are repeated where
\* they failed, a launch is measured once and gets one title: it is paid once.
UmTitulo == UmaPorVez /\ fora = {} => Len(sienge.meds) <= 1 /\ Len(sienge.tits) <= 1

\* People did not take a creation upon themselves, nor send the launch back to an
\* earlier stage with a single step.
NaEsteira == UmaPorVez /\ fora \cap {"mao", "clique"} = {}

\* No measurement of a contract or an additive that waits for its authorization,
\* whatever fails, restarts, is aborted or starts over.
MedicaoRegular == NaEsteira => \A m \in DOMAIN sienge.meds : sienge.meds[m].regular

\* Nor a title without the authorization of its measurement.
TituloAutorizado == NaEsteira =>
  \A t \in DOMAIN sienge.tits : sienge.meds[sienge.tits[t].med].autorizada

\* A launch is shown as paid only when its own title is, unless it was started over
\* with a title in hand.
PagoConfere == NaEsteira /\ "refeito" \notin fora /\ row.stage = "titulo_pago" =>
                 row.tit # 0 /\ sienge.tits[row.tit].pago

\* A contract of people gets an additive only after a person said so, or another
\* launch is taken for the proof.
AditivoConfirmado ==
  [][sienge'.contrato = "manual" /\ sienge.autorizado /\ ~sienge'.autorizado =>
       Colega \/ row.auto]_vars

\* An authorization is acted upon: the measurement of an authorized contract and the
\* title of an authorized measurement are started, unless the launch is stopped.
AutorizacaoAvanca ==
  /\ row.stage = "awaiting_authorization" /\ Ativo /\ row.contrato /\ sienge.autorizado
       ~> row.stage # "awaiting_authorization" \/ ~Ativo
  /\ row.stage = "awaiting_measurement_authorization" /\ Ativo /\ row.med # 0
        /\ sienge.meds[row.med].autorizada
       ~> row.stage # "awaiting_measurement_authorization" \/ ~Ativo
=============================================================================
