--------------------------- MODULE PagamentoDados ---------------------------
(***************************************************************************)
(* A payment launch (payment_launches), what Sienge holds of it, and the   *)
(* processes that work on it: pipelines, single steps, polls. A patch      *)
(* writes the fields it names over whatever the row has by then.           *)
(***************************************************************************)
EXTENDS Integers, Sequences, FiniteSets

CONSTANTS
  Processos,
  Colega,      \* another launch of the automation has the same contract
  UmaPorVez,   \* runs and creations of a launch do not overlap, are asked for where
               \* it has stopped, and start over when no poll of it is under way
  MaxPedidos,  \* things that people start
  MaxMedicoes, \* measurements and titles in Sienge
  Eventos      \* what may happen besides

ASSUME PagamentoAssumption ==
  /\ Colega \in BOOLEAN /\ UmaPorVez \in BOOLEAN
  /\ MaxPedidos \in Nat /\ MaxMedicoes \in Nat

VARIABLES
  row,       \* pipelineStage, status, siengeCreditorStatus, whether it has a creditor
             \* (siengeCreditorId), ridEmailSent, whether it has a contract and who
             \* created it, numbers, error of the boleto
  sienge,    \* creditor, contract, additives, measurements and titles there
  proc,
  pedidos,   \* things started by people
  fora       \* what happened out of the automatic course (history): a browser that
             \* failed after Sienge took it, a restart, a run that starts over, single
             \* steps, a creation by hand

dadosVars == <<row, sienge, proc, pedidos, fora>>

Pode(e) == e \in Eventos

Stages == {"idle", "searching_creditor", "creditor_not_found", "creditor_found",
           "searching_contract", "contract_not_found", "contract_found",
           "contract_manual_block", "validating_items", "items_insufficient", "ready",
           "creating_contract", "contract_created", "contract_error",
           "creating_additive", "additive_created", "additive_error",
           "awaiting_authorization",
           "creating_measurement", "measurement_created", "measurement_error",
           "awaiting_measurement_authorization",
           "creating_titulo", "titulo_created", "titulo_error",
           "awaiting_titulo_authorization", "titulo_pago", "aborted"}
Status == {"fornecedor", "contrato", "aditivo", "medicao", "titulo", "titulo_pago",
           "erro", "cancelado"}
Numero == 0..MaxMedicoes    \* 0 is null

Launch == [stage: Stages, status: Status, credor: {"vazio", "not_found", "found"},
           cid: BOOLEAN, rid: BOOLEAN, contrato: BOOLEAN, auto: BOOLEAN,
           med: Numero, tit: Numero, boleto: {"ok", "transitorio", "permanente"}]

\* In Sienge: a measurement remembers whether the contract was authorized when it
\* was made, a title its measurement.
Medicao == [regular: BOOLEAN, autorizada: BOOLEAN]
Titulo == [med: 1..MaxMedicoes, pago: BOOLEAN]
Sienge == [credor: BOOLEAN, contrato: {"nada", "manual", "robo"}, autorizado: BOOLEAN,
           meds: Seq(Medicao), tits: Seq(Titulo)]

\* Pcs of a process: the step it is about to take.
Esteira == {"credor1", "credor2", "checa1", "contrato1", "contrato2",
            "semContrato", "comContrato",
            "valida1", "valida2",
            "criar1", "criar2", "criar3", "aditivo1", "aditivo2", "aditivo3",
            "esperaContrato", "esperaAditivo",
            "medir1", "medir2", "medir3", "medir4", "titular1", "titular2", "titular3"}
Polls == {"pollContrato1", "pollContrato2", "pollContrato3",
          "pollMedicao1", "pollMedicao2", "pollMedicao3", "pollTitulo1", "pollTitulo2"}
Boletos == {"registrar1", "registrar2", "trocar1", "trocar2"}
Processo == [pc: {"livre"} \cup Esteira \cup Polls \cup Boletos,
             solto: BOOLEAN,      \* a single step, not a pipeline
             bypass: BOOLEAN,     \* bypassAutoCheck
             lido: Stages,        \* the stage in its instance of the row
             erro: BOOLEAN,       \* its instance has the status erro
             num: Numero]         \* a number it holds: a measurement or a title
Livre == [pc |-> "livre", solto |-> FALSE, bypass |-> FALSE, lido |-> "idle",
          erro |-> FALSE, num |-> 0]

DadosTypeOK == /\ row \in Launch
               /\ sienge \in Sienge
               /\ Len(sienge.meds) <= MaxMedicoes /\ Len(sienge.tits) <= MaxMedicoes
               /\ proc \in [Processos -> Processo]
               /\ pedidos \in 0..MaxPedidos
               /\ fora \subseteq {"incerta", "queda", "refeito", "clique", "mao"}

DadosInit ==
  /\ row = [stage |-> "idle", status |-> "fornecedor", credor |-> "vazio", cid |-> FALSE,
            rid |-> FALSE, contrato |-> FALSE, auto |-> FALSE, med |-> 0, tit |-> 0, boleto |-> "ok"]
  /\ sienge \in [credor: BOOLEAN, contrato: {"nada", "manual"}, autorizado: {TRUE},
                 meds: {<<>>}, tits: {<<>>}]
  /\ proc = [p \in Processos |-> Livre]
  /\ pedidos = 0 /\ fora = {}

Em(p, pc) == proc[p].pc = pc
Ir(p, pc) == proc' = [proc EXCEPT ![p].pc = pc]
Fim(p) == proc' = [proc EXCEPT ![p] = Livre]
\* A pipeline goes on, a single step is over.
Segue(p, pc) == IF proc[p].solto THEN Fim(p) ELSE Ir(p, pc)

Etapa(s) == row' = [row EXCEPT !.stage = s]
EtapaStatus(s, t) == row' = [row EXCEPT !.stage = s, !.status = t]
Erro(p, s) == EtapaStatus(s, "erro") /\ Fim(p)
=============================================================================
