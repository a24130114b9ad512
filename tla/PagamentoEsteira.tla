-------------------------- MODULE PagamentoEsteira --------------------------
(***************************************************************************)
(* The steps of PaymentFlowPipelineService. Each loads the row, patches    *)
(* its stage, works in Sienge (an API call, or the browser), and patches   *)
(* what came of it: other processes come between, and the server may stop. *)
(***************************************************************************)
EXTENDS PagamentoDados

Stuck == {"creating_contract", "creating_additive", "creating_measurement",
          "creating_titulo", "contract_manual_block", "aborted"}

\* runFullPipeline: straight to the measurement or to the title if they failed; a
\* stage that may be stuck is reset.
Iniciar(p) ==
  /\ LET s == row.stage
     IN /\ proc' = [proc EXCEPT ![p] =
                      [Livre EXCEPT !.pc = CASE s = "measurement_error" -> "medir1"
                                             [] s = "titulo_error" -> "titular1"
                                             [] OTHER -> "credor1",
                                    !.bypass = (s = "contract_manual_block")]]
        /\ IF s \in Stuck THEN Etapa("idle") ELSE UNCHANGED row
  /\ UNCHANGED sienge

\* stepFindCreditor, and what the pipeline does of its result.
Credor1(p) == /\ Em(p, "credor1")
              /\ EtapaStatus("searching_creditor", "fornecedor")
              /\ Ir(p, "credor2") /\ UNCHANGED sienge
Credor2(p) ==
  /\ Em(p, "credor2") /\ UNCHANGED sienge
  /\ \/ /\ sienge.credor
        /\ row' = [row EXCEPT !.stage = "creditor_found", !.credor = "found",
                              !.cid = TRUE]
        /\ Segue(p, "checa1")
     \/ /\ ~sienge.credor
        /\ row' = [row EXCEPT !.stage = "creditor_not_found", !.credor = "not_found"]
        /\ Fim(p)
     \/ /\ Pode("falha")
        /\ row' = [row EXCEPT !.stage = "creditor_not_found", !.credor = "not_found",
                              !.status = "erro"]
        /\ Fim(p)

\* The pipeline looks for an abort after the creditor and after the contract.
Checa(p, daqui, para) == /\ Em(p, daqui)
                         /\ IF row.stage = "aborted" THEN Fim(p) ELSE Ir(p, para)
                         /\ UNCHANGED <<row, sienge>>
Checa1(p) == Checa(p, "checa1", "contrato1")

\* stepFindContract.
Contrato1(p) == /\ Em(p, "contrato1")
                /\ IF row.cid
                     THEN EtapaStatus("searching_contract", "contrato") /\ Ir(p, "contrato2")
                     ELSE Fim(p) /\ UNCHANGED row
                /\ UNCHANGED sienge
Contrato2(p) ==
  /\ Em(p, "contrato2") /\ UNCHANGED sienge
  /\ \/ /\ sienge.contrato # "nada"
        /\ row' = [row EXCEPT !.stage = "contract_found", !.contrato = TRUE]
        /\ Segue(p, "comContrato")
     \/ /\ sienge.contrato = "nada"
        /\ Etapa("contract_not_found") /\ Segue(p, "semContrato")
     \/ Pode("falha") /\ Erro(p, "contract_not_found")

Checa2(p) == Checa(p, "semContrato", "criar1")

\* A contract that nobody of the automation created is left to people, unless this
\* run started from that block.
Evidencia == row.auto \/ Colega
\* Bug: the contract that the search found counts as the automation's own.
DecideMut(p) ==
  /\ Em(p, "comContrato") /\ UNCHANGED sienge
  /\ \/ row.stage = "aborted" /\ Fim(p) /\ UNCHANGED row
     \/ row.stage # "aborted" /\ Ir(p, "aditivo1") /\ UNCHANGED row
Decide(p) ==
  /\ Em(p, "comContrato") /\ UNCHANGED sienge
  /\ \/ row.stage = "aborted" /\ Fim(p) /\ UNCHANGED row
     \/ /\ row.stage # "aborted" /\ (Evidencia \/ proc[p].bypass)
        /\ row' = [row EXCEPT !.auto = IF Evidencia THEN @ ELSE TRUE]
        /\ Ir(p, "aditivo1")
     \/ /\ row.stage # "aborted" /\ ~Evidencia /\ ~proc[p].bypass
        /\ Erro(p, "contract_manual_block")

\* stepValidateItems: a step of its own, never of the pipeline.
Valida1(p) == /\ Em(p, "valida1")
              /\ IF row.contrato THEN Etapa("validating_items") /\ Ir(p, "valida2")
                 ELSE Fim(p) /\ UNCHANGED row
              /\ UNCHANGED sienge
Valida2(p) == /\ Em(p, "valida2") /\ UNCHANGED sienge
              /\ \/ Etapa("ready") /\ Fim(p)
                 \/ Erro(p, "items_insufficient")
                 \/ Pode("falha") /\ Fim(p) /\ UNCHANGED row

\* The browser may fail before Sienge took what it typed (falha) or after (incerta);
\* it may not have read the number of what it made (semNumero), and then a patch with
\* null writes nothing, null being what its instance has.
Falha(p, e, daqui, s) == Pode(e) /\ Em(p, daqui) /\ Erro(p, s) /\ UNCHANGED sienge

\* stepCreateContract leaves the status alone until it fails; an update writes no
\* field that its instance already has.
Criar1(p) == /\ Em(p, "criar1") /\ Etapa("creating_contract")
             /\ proc' = [proc EXCEPT ![p].pc = "criar2", ![p].erro = (row.status = "erro")]
             /\ UNCHANGED sienge
FalhaContrato(p, e, daqui) ==
  /\ Pode(e) /\ Em(p, daqui) /\ Fim(p) /\ UNCHANGED sienge
  /\ row' = [row EXCEPT !.stage = "contract_error",
                        !.status = IF proc[p].erro THEN @ ELSE "erro"]
Criar2(p) == \/ /\ Em(p, "criar2") /\ Ir(p, "criar3")
                /\ sienge' = [sienge EXCEPT !.contrato = "robo", !.autorizado = FALSE]
                /\ UNCHANGED row
             \/ FalhaContrato(p, "falha", "criar2")
Criar3(p) == \/ /\ Em(p, "criar3")
                /\ \E lido \in {TRUE, ~Pode("semNumero")} :
                     row' = [row EXCEPT !.stage = "contract_created", !.auto = TRUE,
                                        !.contrato = @ \/ lido]
                /\ Segue(p, "esperaContrato") /\ UNCHANGED sienge
             \/ FalhaContrato(p, "incerta", "criar3")
\* stepCreateAdditive: the additive has to be authorized like a new contract.
Aditivo1(p) == /\ Em(p, "aditivo1")
               /\ IF row.contrato
                    THEN EtapaStatus("creating_additive", "aditivo") /\ Ir(p, "aditivo2")
                    ELSE Fim(p) /\ UNCHANGED row
               /\ UNCHANGED sienge
Aditivo2(p) == \/ /\ Em(p, "aditivo2") /\ Ir(p, "aditivo3")
                  /\ sienge' = [sienge EXCEPT !.autorizado = FALSE]
                  /\ UNCHANGED row
               \/ Falha(p, "falha", "aditivo2", "additive_error")
Aditivo3(p) == \/ /\ Em(p, "aditivo3") /\ Etapa("additive_created")
                  /\ Ir(p, "esperaAditivo") /\ UNCHANGED sienge
               \/ Falha(p, "incerta", "aditivo3", "additive_error")
\* The last patch of a pipeline, whatever happened to the row since.
Esperar(p) == /\ \/ Em(p, "esperaContrato") /\ EtapaStatus("awaiting_authorization", "contrato")
                 \/ Em(p, "esperaAditivo") /\ EtapaStatus("awaiting_authorization", "aditivo")
              /\ Fim(p) /\ UNCHANGED sienge

\* stepCreateMeasurement: the files are attached between the last two patches.
Medir1(p) == /\ Em(p, "medir1")
             /\ IF row.contrato
                  THEN /\ row' = [row EXCEPT !.stage = "creating_measurement",
                                             !.status = "medicao", !.med = 0]
                       /\ Ir(p, "medir2")
                  ELSE Fim(p) /\ UNCHANGED row
             /\ UNCHANGED sienge
Medir2(p) ==
  \/ /\ Em(p, "medir2") /\ Len(sienge.meds) < MaxMedicoes
     /\ sienge' = [sienge EXCEPT !.meds = Append(@, [regular |-> sienge.autorizado,
                                                     autorizada |-> FALSE])]
     /\ proc' = [proc EXCEPT ![p].pc = "medir3", ![p].num = Len(sienge.meds) + 1]
     /\ UNCHANGED row
  \/ Falha(p, "falha", "medir2", "measurement_error")
Lido(p) == {proc[p].num} \cup {n \in {0} : Pode("semNumero")}
Medir3(p) == \/ /\ Em(p, "medir3")
                /\ \E n \in Lido(p) :
                     row' = [row EXCEPT !.stage = "measurement_created", !.med = IF n = 0 THEN @ ELSE n]
                /\ Ir(p, "medir4") /\ UNCHANGED sienge
             \/ Falha(p, "incerta", "medir3", "measurement_error")
Medir4(p) == /\ Em(p, "medir4") /\ Etapa("awaiting_measurement_authorization")
             /\ Fim(p) /\ UNCHANGED sienge

\* stepCreateTitulo: the boleto is registered in the background.
\* Bug: the title is made without asking for the measurement's number.
Titular1Mut(p) ==
  /\ Em(p, "titular1") /\ UNCHANGED sienge
  /\ row' = [row EXCEPT !.stage = "creating_titulo", !.status = "titulo", !.tit = 0]
  /\ proc' = [proc EXCEPT ![p].pc = "titular2", ![p].num = row.med]
Titular1(p) ==
  /\ Em(p, "titular1")
  /\ IF row.med # 0
       THEN /\ row' = [row EXCEPT !.stage = "creating_titulo", !.status = "titulo",
                                  !.tit = 0, !.boleto = "ok"]
            /\ proc' = [proc EXCEPT ![p].pc = "titular2", ![p].num = row.med]
       ELSE Fim(p) /\ UNCHANGED row
  /\ UNCHANGED sienge
Titular2(p) ==
  \/ /\ Em(p, "titular2") /\ Len(sienge.tits) < MaxMedicoes
     /\ sienge' = [sienge EXCEPT !.tits = Append(@, [med |-> proc[p].num, pago |-> FALSE])]
     /\ proc' = [proc EXCEPT ![p].pc = "titular3", ![p].num = Len(sienge.tits) + 1]
     /\ UNCHANGED row
  \/ Falha(p, "falha", "titular2", "titulo_error")
Titular3(p) ==
  \/ /\ Em(p, "titular3") /\ UNCHANGED sienge
     /\ \E n \in Lido(p) :
          /\ row' = [row EXCEPT !.stage = "titulo_created", !.tit = IF n = 0 THEN @ ELSE n]
          /\ IF n # 0 THEN Ir(p, "registrar1") ELSE Fim(p)
  \/ Falha(p, "incerta", "titular3", "titulo_error")

\* stepRegisterBoleto: without a title, or the code of the boleto, nothing is asked
\* of Sienge; without an instalment nothing is written; an error is kept only while
\* the stage is still titulo_created.
Registrar1(p) ==
  /\ Em(p, "registrar1") /\ UNCHANGED <<row, sienge>>
  /\ \/ row.tit # 0 /\ proc' = [proc EXCEPT ![p].pc = "registrar2", ![p].lido = row.stage]
     \/ (row.tit = 0 \/ Pode("boleto")) /\ Fim(p)
Registrar2(p) ==
  /\ Em(p, "registrar2") /\ Fim(p) /\ UNCHANGED sienge
  /\ \/ row' = [row EXCEPT !.stage = IF proc[p].lido = "awaiting_titulo_authorization"
                                        THEN @ ELSE "awaiting_titulo_authorization"]
     \/ /\ Pode("boleto")
        /\ \/ UNCHANGED row
           \/ \E e \in {"transitorio", "permanente"} :
                row' = [row EXCEPT !.boleto = IF row.stage = "titulo_created" THEN e ELSE @]

PassoEsteira(p) ==
  \/ Credor1(p) \/ Credor2(p) \/ Checa1(p) \/ Contrato1(p) \/ Contrato2(p)
  \/ Checa2(p) \/ Decide(p)
  \/ Valida1(p) \/ Valida2(p)
  \/ Criar1(p) \/ Criar2(p) \/ Criar3(p) \/ Aditivo1(p) \/ Aditivo2(p) \/ Aditivo3(p)
  \/ Esperar(p) \/ Medir1(p) \/ Medir2(p) \/ Medir3(p) \/ Medir4(p)
  \/ Titular1(p) \/ Titular2(p) \/ Titular3(p) \/ Registrar1(p) \/ Registrar2(p)
=============================================================================
