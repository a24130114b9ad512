-------------------------- MODULE PaymentFlow_passos --------------------------
(***************************************************************************)
(* What each step of PaymentFlow does to the row, to its process and to    *)
(* Sienge (one operator Faz<Step> for a step, and the lemma that the step  *)
(* does it), the inductive invariant of PaymentFlow, and that the steps of *)
(* the pipeline and of the polls keep it. What a launch has in Sienge is   *)
(* safe because of where its one run may be, and of what the polls under   *)
(* way may still do: the invariant relates both to the stage of the row.   *)
(***************************************************************************)
EXTENDS PaymentFlow, TLAPS

(* What the small steps do to the process and to the row. *)

Pcs == {"livre"} \cup Esteira \cup Polls \cup Boletos
Tipos == row \in Launch /\ proc \in [Processos -> Processo]
Outros(p) == \A q \in Processos \ {p} : proc'[q] = proc[q]
\* What the invariant looks at in a row besides its stage.
MesmaLinha == /\ row'.credor = row.credor /\ row'.auto = row.auto
              /\ row'.med = row.med /\ row'.tit = row.tit

LEMMA IrFato ==
  ASSUME Tipos, NEW p \in Processos, NEW c \in Pcs, Ir(p, c)
  PROVE  /\ proc' \in [Processos -> Processo] /\ Outros(p)
         /\ proc'[p].pc = c /\ proc'[p].num = proc[p].num /\ proc'[p].lido = proc[p].lido
<1>1. proc[p] \in Processo
  BY DEF Tipos
<1>2. /\ proc' = [proc EXCEPT ![p] = [proc[p] EXCEPT !.pc = c]]
      /\ proc'[p] = [proc[p] EXCEPT !.pc = c]
  BY DEF Ir, Tipos
<1>3. [proc[p] EXCEPT !.pc = c] \in Processo
  BY <1>1 DEF Processo, Pcs
<1> QED
  BY <1>1, <1>2, <1>3 DEF Tipos, Outros, Processo

LEMMA LivreTipo == Livre \in Processo /\ Livre.pc = "livre"
  BY PagamentoAssumption DEF Livre, Processo, Stages, Numero

LEMMA FimFato ==
  ASSUME Tipos, NEW p \in Processos, Fim(p)
  PROVE  /\ proc' \in [Processos -> Processo] /\ Outros(p)
         /\ proc'[p] = Livre /\ proc'[p].pc = "livre"
  BY LivreTipo DEF Fim, Tipos, Outros

LEMMA SegueFato ==
  ASSUME Tipos, NEW p \in Processos, NEW c \in Pcs, Segue(p, c)
  PROVE  /\ proc' \in [Processos -> Processo] /\ Outros(p)
         /\ proc'[p].pc \in {"livre", c}
  BY IrFato, FimFato DEF Segue

LEMMA EtapaFato ==
  ASSUME Tipos, NEW s \in Stages, Etapa(s)
  PROVE  row' \in Launch /\ MesmaLinha /\ row'.stage = s
  BY DEF Etapa, Tipos, Launch, MesmaLinha

LEMMA EtapaStatusFato ==
  ASSUME Tipos, NEW s \in Stages, NEW t \in Status, EtapaStatus(s, t)
  PROVE  row' \in Launch /\ MesmaLinha /\ row'.stage = s /\ row'.status = t
<1> DEFINE r == [row EXCEPT !.stage = s]
<1>1. r \in Launch /\ row' = [r EXCEPT !.status = t]
  BY DEF EtapaStatus, Tipos, Launch
<1>2. /\ row'.stage = s /\ row'.status = t /\ row'.credor = row.credor
      /\ row'.auto = row.auto /\ row'.med = row.med /\ row'.tit = row.tit
  BY DEF EtapaStatus, Tipos, Launch
<1> QED
  BY <1>1, <1>2 DEF Launch, MesmaLinha

LEMMA ErroFato ==
  ASSUME Tipos, NEW p \in Processos, NEW s \in Stages, Erro(p, s)
  PROVE  /\ row' \in Launch /\ MesmaLinha /\ row'.stage = s /\ row'.status = "erro"
         /\ proc' \in [Processos -> Processo] /\ Outros(p)
         /\ proc'[p] = Livre /\ proc'[p].pc = "livre"
  BY EtapaStatusFato, FimFato DEF Erro, Status
-----------------------------------------------------------------------------
(* What each step of the pipeline does, as the invariant sees it. *)

FazCredor1(p) ==
  /\ Tipos' /\ Outros(p) /\ MesmaLinha /\ UNCHANGED sienge
  /\ proc[p].pc = "credor1" /\ proc'[p].pc = "credor2"
  /\ row'.stage = "searching_creditor"
LEMMA Credor1Fato == ASSUME Tipos, NEW p \in Processos, Credor1(p) PROVE FazCredor1(p)
  BY EtapaStatusFato, IrFato DEF FazCredor1, Credor1, Tipos, Em, Pcs, Esteira, Stages, Status

FazCredor2(p) ==
  /\ Tipos' /\ Outros(p) /\ UNCHANGED sienge
  /\ row'.auto = row.auto /\ row'.med = row.med /\ row'.tit = row.tit
  /\ proc[p].pc = "credor2"
  /\ \/ /\ proc'[p].pc \in {"livre", "checa1"}
        /\ row'.stage = "creditor_found" /\ row'.credor = "found"
     \/ /\ proc'[p].pc = "livre"
        /\ row'.stage = "creditor_not_found" /\ row'.credor = "not_found"
LEMMA Credor2Fato == ASSUME Tipos, NEW p \in Processos, Credor2(p) PROVE FazCredor2(p)
<1> USE DEF FazCredor2
<1>1. row \in Launch
  BY DEF Tipos
<1>2. CASE /\ row' = [row EXCEPT !.stage = "creditor_found", !.credor = "found", !.cid = TRUE]
           /\ Segue(p, "checa1")
  BY <1>1, <1>2, SegueFato DEF Credor2, Tipos, Em, Pcs, Esteira, Launch, Stages
<1>3. CASE /\ row' = [row EXCEPT !.stage = "creditor_not_found", !.credor = "not_found"]
           /\ Fim(p)
  BY <1>1, <1>3, FimFato DEF Credor2, Tipos, Em, Launch, Stages
<1>4. CASE /\ row' = [row EXCEPT !.stage = "creditor_not_found", !.credor = "not_found",
                                 !.status = "erro"]
           /\ Fim(p)
  <2>1. /\ row' \in Launch /\ row'.stage = "creditor_not_found"
        /\ row'.credor = "not_found" /\ row'.auto = row.auto
        /\ row'.med = row.med /\ row'.tit = row.tit
    BY <1>1, <1>4 DEF Launch, Stages, Status
  <2> QED
    BY <1>4, <2>1, FimFato DEF Credor2, Tipos, Em
<1> QED
  BY <1>2, <1>3, <1>4 DEF Credor2

LEMMA ChecaFato ==
  ASSUME Tipos, NEW p \in Processos, NEW a, NEW b \in Pcs, Checa(p, a, b)
  PROVE  /\ Tipos' /\ Outros(p) /\ UNCHANGED <<row, sienge>>
         /\ proc[p].pc = a /\ proc'[p].pc \in {"livre", b}
  BY FimFato, IrFato DEF Checa, Tipos, Em

FazContrato1(p) ==
  /\ Tipos' /\ Outros(p) /\ MesmaLinha /\ UNCHANGED sienge
  /\ proc[p].pc = "contrato1"
  /\ \/ proc'[p].pc = "contrato2" /\ row'.stage = "searching_contract"
     \/ proc'[p].pc = "livre" /\ row' = row
LEMMA Contrato1Fato ==
  ASSUME Tipos, NEW p \in Processos, Contrato1(p)
  PROVE  FazContrato1(p)
  BY EtapaStatusFato, IrFato, FimFato
     DEF FazContrato1, Contrato1, Tipos, Em, Pcs, Esteira, Stages, Status, MesmaLinha

FazContrato2(p) ==
  /\ Tipos' /\ Outros(p) /\ MesmaLinha /\ UNCHANGED sienge
  /\ proc[p].pc = "contrato2"
  /\ \/ proc'[p].pc \in {"livre", "comContrato"} /\ row'.stage = "contract_found"
     \/ proc'[p].pc \in {"livre", "semContrato"} /\ row'.stage = "contract_not_found"
LEMMA Contrato2Fato ==
  ASSUME Tipos, NEW p \in Processos, Contrato2(p)
  PROVE  FazContrato2(p)
<1> USE DEF FazContrato2
<1>1. row \in Launch
  BY DEF Tipos
<1>2. CASE /\ row' = [row EXCEPT !.stage = "contract_found", !.contrato = TRUE]
           /\ Segue(p, "comContrato")
  BY <1>1, <1>2, SegueFato DEF Contrato2, Tipos, Em, Pcs, Esteira, Launch, Stages, MesmaLinha
<1>3. CASE Etapa("contract_not_found") /\ Segue(p, "semContrato")
  BY <1>3, EtapaFato, SegueFato DEF Contrato2, Tipos, Em, Pcs, Esteira, Stages
<1>4. CASE Erro(p, "contract_not_found")
  BY <1>4, ErroFato DEF Contrato2, Tipos, Em, Stages
<1> QED
  BY <1>2, <1>3, <1>4 DEF Contrato2

FazDecide(p) ==
  /\ Tipos' /\ Outros(p) /\ UNCHANGED sienge
  /\ row'.credor = row.credor /\ row'.med = row.med /\ row'.tit = row.tit
  /\ proc[p].pc = "comContrato"
  /\ \/ proc'[p].pc = "livre" /\ row' = row
     \/ /\ proc'[p].pc = "aditivo1" /\ row'.stage = row.stage
        /\ Colega \/ row'.auto
        /\ row.auto => row'.auto
     \/ /\ proc'[p].pc = "livre" /\ row'.stage = "contract_manual_block"
        /\ row'.auto = row.auto
LEMMA DecideFato == ASSUME Tipos, NEW p \in Processos, Decide(p) PROVE FazDecide(p)
<1> USE DEF FazDecide
<1>1. row \in Launch
  BY DEF Tipos
<1>2. CASE Fim(p) /\ UNCHANGED row
  BY <1>2, FimFato DEF Decide, Tipos, Em
<1>3. CASE row' = [row EXCEPT !.auto = IF Evidencia THEN @ ELSE TRUE] /\ Ir(p, "aditivo1")
  <2>1. CASE Evidencia
    BY <1>1, <1>3, <2>1, IrFato DEF Decide, Tipos, Em, Pcs, Esteira, Launch, Evidencia
  <2>2. CASE ~Evidencia
    BY <1>1, <1>3, <2>2, IrFato DEF Decide, Tipos, Em, Pcs, Esteira, Launch
  <2> QED
    BY <2>1, <2>2
<1>4. CASE Erro(p, "contract_manual_block")
  BY <1>4, ErroFato DEF Decide, Tipos, Em, Stages, MesmaLinha
<1> QED
  BY <1>2, <1>3, <1>4 DEF Decide

FazValida1(p) ==
  /\ Tipos' /\ Outros(p) /\ MesmaLinha /\ UNCHANGED sienge
  /\ proc[p].pc = "valida1"
  /\ \/ proc'[p].pc = "valida2" /\ row'.stage = "validating_items"
     \/ proc'[p].pc = "livre" /\ row' = row
LEMMA Valida1Fato == ASSUME Tipos, NEW p \in Processos, Valida1(p) PROVE FazValida1(p)
  BY EtapaFato, IrFato, FimFato
     DEF FazValida1, Valida1, Tipos, Em, Pcs, Esteira, Stages, MesmaLinha

FazValida2(p) ==
  /\ Tipos' /\ Outros(p) /\ MesmaLinha /\ UNCHANGED sienge
  /\ proc[p].pc = "valida2" /\ proc'[p].pc = "livre"
  /\ row' = row \/ row'.stage \in {"ready", "items_insufficient"}
LEMMA Valida2Fato == ASSUME Tipos, NEW p \in Processos, Valida2(p) PROVE FazValida2(p)
  BY EtapaFato, FimFato, ErroFato DEF FazValida2, Valida2, Tipos, Em, Stages, MesmaLinha

LEMMA FalhaFato ==
  ASSUME Tipos, NEW p \in Processos, NEW e, NEW a, NEW s \in Stages, Falha(p, e, a, s)
  PROVE  /\ Tipos' /\ Outros(p) /\ MesmaLinha /\ UNCHANGED sienge
         /\ proc[p].pc = a /\ proc'[p] = Livre /\ proc'[p].pc = "livre"
         /\ row'.stage = s /\ row'.status = "erro"
  BY ErroFato DEF Falha, Tipos, Em

LEMMA FalhaContratoFato ==
  ASSUME Tipos, NEW p \in Processos, NEW e, NEW a, FalhaContrato(p, e, a)
  PROVE  /\ Tipos' /\ Outros(p) /\ MesmaLinha /\ UNCHANGED sienge
         /\ proc[p].pc = a /\ proc'[p].pc = "livre" /\ row'.stage = "contract_error"
<1>1. row \in Launch
  BY DEF Tipos
<1>2. CASE proc[p].erro
  BY <1>1, <1>2, FimFato DEF FalhaContrato, Tipos, Em, Launch, Stages, MesmaLinha
<1>3. CASE ~proc[p].erro
  <2>1. row' = [row EXCEPT !.stage = "contract_error", !.status = "erro"]
    BY <1>3 DEF FalhaContrato
  <2>2. row' \in Launch /\ MesmaLinha /\ row'.stage = "contract_error"
    BY <1>1, <2>1 DEF Launch, Stages, Status, MesmaLinha
  <2> QED
    BY <2>2, FimFato DEF FalhaContrato, Tipos, Em
<1> QED
  BY <1>2, <1>3

FazCriar1(p) ==
  /\ Tipos' /\ Outros(p) /\ MesmaLinha /\ UNCHANGED sienge
  /\ proc[p].pc = "criar1" /\ proc'[p].pc = "criar2"
  /\ row'.stage = "creating_contract"
LEMMA Criar1Fato == ASSUME Tipos, NEW p \in Processos, Criar1(p) PROVE FazCriar1(p)
<1> USE DEF FazCriar1
<1>1. row' \in Launch /\ MesmaLinha /\ row'.stage = "creating_contract"
  BY EtapaFato DEF Criar1, Stages
<1>2. proc[p] \in Processo /\ (row.status = "erro") \in BOOLEAN
  BY DEF Tipos
<1>3. proc' = [proc EXCEPT ![p] = [proc[p] EXCEPT !.pc = "criar2", !.erro = (row.status = "erro")]]
  BY <1>2 DEF Criar1, Tipos, Processo
<1>4. /\ [proc[p] EXCEPT !.pc = "criar2", !.erro = (row.status = "erro")] \in Processo
      /\ [proc[p] EXCEPT !.pc = "criar2", !.erro = (row.status = "erro")].pc = "criar2"
  BY <1>2 DEF Processo, Esteira
<1> QED
  BY <1>1, <1>3, <1>4 DEF Criar1, Tipos, Em, Outros

\* What Sienge is after a creation by the browser.
FazCriar2(p) ==
  /\ Tipos' /\ Outros(p) /\ MesmaLinha /\ proc[p].pc = "criar2"
  /\ \/ /\ proc'[p].pc = "criar3" /\ row' = row
        /\ sienge' = [sienge EXCEPT !.contrato = "robo", !.autorizado = FALSE]
     \/ /\ proc'[p].pc = "livre" /\ row'.stage = "contract_error"
        /\ sienge' = sienge
LEMMA Criar2Fato == ASSUME Tipos, NEW p \in Processos, Criar2(p) PROVE FazCriar2(p)
  BY IrFato, FalhaContratoFato DEF FazCriar2, Criar2, Tipos, Em, Pcs, Esteira, MesmaLinha

FazCriar3(p) ==
  /\ Tipos' /\ Outros(p) /\ UNCHANGED sienge
  /\ row'.credor = row.credor /\ row'.med = row.med /\ row'.tit = row.tit
  /\ row.auto => row'.auto
  /\ proc[p].pc = "criar3"
  /\ \/ proc'[p].pc \in {"livre", "esperaContrato"} /\ row'.stage = "contract_created"
     \/ proc'[p].pc = "livre" /\ row'.stage = "contract_error"
LEMMA Criar3Fato == ASSUME Tipos, NEW p \in Processos, Criar3(p) PROVE FazCriar3(p)
<1> USE DEF FazCriar3
<1>1. row \in Launch
  BY DEF Tipos
<1>2. ASSUME NEW lido \in BOOLEAN,
             row' = [row EXCEPT !.stage = "contract_created", !.auto = TRUE,
                                !.contrato = @ \/ lido]
      PROVE  /\ row' \in Launch /\ row'.stage = "contract_created" /\ row'.auto
             /\ row'.credor = row.credor /\ row'.med = row.med /\ row'.tit = row.tit
  <2>1. (row.contrato \/ lido) \in BOOLEAN
    OBVIOUS
  <2> QED
    BY <1>1, <1>2, <2>1 DEF Launch, Stages
<1>3. CASE /\ Em(p, "criar3")
           /\ \E lido \in {TRUE, ~Pode("semNumero")} :
                row' = [row EXCEPT !.stage = "contract_created", !.auto = TRUE,
                                   !.contrato = @ \/ lido]
           /\ Segue(p, "esperaContrato") /\ UNCHANGED sienge
  <2>1. PICK lido \in {TRUE, ~Pode("semNumero")} :
          row' = [row EXCEPT !.stage = "contract_created", !.auto = TRUE,
                             !.contrato = @ \/ lido]
    BY <1>3
  <2>2. lido \in BOOLEAN
    BY DEF Pode
  <2>3. /\ row' \in Launch /\ row'.stage = "contract_created" /\ row'.auto
        /\ row'.credor = row.credor /\ row'.med = row.med /\ row'.tit = row.tit
    BY <1>2, <2>1, <2>2
  <2>4. /\ proc' \in [Processos -> Processo] /\ Outros(p)
        /\ proc'[p].pc \in {"livre", "esperaContrato"}
    BY <1>3, SegueFato DEF Pcs, Esteira
  <2> QED
    BY <1>3, <2>3, <2>4 DEF Tipos, Em
<1>4. CASE FalhaContrato(p, "incerta", "criar3")
  BY <1>4, FalhaContratoFato DEF MesmaLinha, Tipos
<1> QED
  BY <1>3, <1>4 DEF Criar3

FazAditivo1(p) ==
  /\ Tipos' /\ Outros(p) /\ MesmaLinha /\ UNCHANGED sienge
  /\ proc[p].pc = "aditivo1"
  /\ \/ proc'[p].pc = "aditivo2" /\ row'.stage = "creating_additive"
     \/ proc'[p].pc = "livre" /\ row' = row
LEMMA Aditivo1Fato == ASSUME Tipos, NEW p \in Processos, Aditivo1(p) PROVE FazAditivo1(p)
  BY EtapaStatusFato, IrFato, FimFato
     DEF FazAditivo1, Aditivo1, Tipos, Em, Pcs, Esteira, Stages, Status, MesmaLinha

FazAditivo2(p) ==
  /\ Tipos' /\ Outros(p) /\ MesmaLinha /\ proc[p].pc = "aditivo2"
  /\ \/ /\ proc'[p].pc = "aditivo3" /\ row' = row
        /\ sienge' = [sienge EXCEPT !.autorizado = FALSE]
     \/ /\ proc'[p].pc = "livre" /\ row'.stage = "additive_error"
        /\ sienge' = sienge
LEMMA Aditivo2Fato == ASSUME Tipos, NEW p \in Processos, Aditivo2(p) PROVE FazAditivo2(p)
  BY IrFato, FalhaFato DEF FazAditivo2, Aditivo2, Tipos, Em, Pcs, Esteira, Stages, MesmaLinha

FazAditivo3(p) ==
  /\ Tipos' /\ Outros(p) /\ MesmaLinha /\ UNCHANGED sienge
  /\ proc[p].pc = "aditivo3"
  /\ \/ proc'[p].pc = "esperaAditivo" /\ row'.stage = "additive_created"
     \/ proc'[p].pc = "livre" /\ row'.stage = "additive_error"
LEMMA Aditivo3Fato == ASSUME Tipos, NEW p \in Processos, Aditivo3(p) PROVE FazAditivo3(p)
  BY EtapaFato, IrFato, FalhaFato DEF FazAditivo3, Aditivo3, Tipos, Em, Pcs, Esteira, Stages

FazEsperar(p) ==
  /\ Tipos' /\ Outros(p) /\ MesmaLinha /\ UNCHANGED sienge
  /\ proc[p].pc \in {"esperaContrato", "esperaAditivo"} /\ proc'[p].pc = "livre"
  /\ row'.stage = "awaiting_authorization"
LEMMA EsperarFato == ASSUME Tipos, NEW p \in Processos, Esperar(p) PROVE FazEsperar(p)
  BY EtapaStatusFato, FimFato DEF FazEsperar, Esperar, Tipos, Em, Stages, Status

FazMedir1(p) ==
  /\ Tipos' /\ Outros(p) /\ UNCHANGED sienge
  /\ row'.credor = row.credor /\ row'.auto = row.auto /\ row'.tit = row.tit
  /\ proc[p].pc = "medir1"
  /\ \/ /\ proc'[p].pc = "medir2" /\ row'.med = 0
        /\ row'.stage = "creating_measurement"
     \/ proc'[p].pc = "livre" /\ row' = row
LEMMA Medir1Fato == ASSUME Tipos, NEW p \in Processos, Medir1(p) PROVE FazMedir1(p)
<1> USE DEF FazMedir1
<1>1. row \in Launch
  BY DEF Tipos
<1>2. CASE row.contrato
  <2>1. row' = [row EXCEPT !.stage = "creating_measurement", !.status = "medicao", !.med = 0]
    BY <1>2 DEF Medir1
  <2>2. /\ row' \in Launch /\ row'.stage = "creating_measurement" /\ row'.med = 0
        /\ row'.credor = row.credor /\ row'.auto = row.auto /\ row'.tit = row.tit
    <3>1. "creating_measurement" \in Stages /\ "medicao" \in Status /\ 0 \in Numero
      BY PagamentoAssumption DEF Stages, Status, Numero
    <3> QED
      BY <1>1, <2>1, <3>1 DEF Launch
  <2> QED
    BY <1>2, <2>2, IrFato DEF Medir1, Tipos, Em, Pcs, Esteira
<1>3. CASE ~row.contrato
  BY <1>3, FimFato DEF Medir1, Tipos, Em
<1> QED
  BY <1>2, <1>3

LEMMA IrComNumeroFato ==
  ASSUME Tipos, NEW p \in Processos, NEW c \in Pcs, NEW n \in Numero,
         proc' = [proc EXCEPT ![p].pc = c, ![p].num = n]
  PROVE  /\ proc' \in [Processos -> Processo] /\ Outros(p)
         /\ proc'[p].pc = c /\ proc'[p].num = n /\ proc'[p].lido = proc[p].lido
<1>1. proc[p] \in Processo
  BY DEF Tipos
<1>2. proc' = [proc EXCEPT ![p] = [proc[p] EXCEPT !.pc = c, !.num = n]]
  BY DEF Tipos
<1>3. /\ [proc[p] EXCEPT !.pc = c, !.num = n] \in Processo
      /\ [proc[p] EXCEPT !.pc = c, !.num = n].pc = c
      /\ [proc[p] EXCEPT !.pc = c, !.num = n].num = n
      /\ [proc[p] EXCEPT !.pc = c, !.num = n].lido = proc[p].lido
  BY <1>1 DEF Processo, Pcs
<1> QED
  BY <1>2, <1>3 DEF Tipos, Outros

FazMedir2(p) ==
  /\ Tipos' /\ Outros(p) /\ MesmaLinha /\ proc[p].pc = "medir2"
  /\ \/ /\ proc'[p].pc = "medir3" /\ proc'[p].num = Len(sienge.meds) + 1
        /\ row' = row /\ Len(sienge.meds) < MaxMedicoes
        /\ sienge' = [sienge EXCEPT !.meds =
                        Append(@, [regular |-> sienge.autorizado, autorizada |-> FALSE])]
     \/ /\ proc'[p].pc = "livre" /\ row'.stage = "measurement_error"
        /\ sienge' = sienge
LEMMA Medir2Fato ==
  ASSUME Tipos, sienge \in Sienge, NEW p \in Processos, Medir2(p)
  PROVE  FazMedir2(p)
<1> USE DEF FazMedir2
<1>1. CASE Falha(p, "falha", "medir2", "measurement_error")
  BY <1>1, FalhaFato DEF Stages, Em
<1>2. CASE ~Falha(p, "falha", "medir2", "measurement_error")
  <2>1. Len(sienge.meds) + 1 \in Numero
    BY <1>2, PagamentoAssumption DEF Medir2, Sienge, Numero
  <2>2. proc' = [proc EXCEPT ![p].pc = "medir3", ![p].num = Len(sienge.meds) + 1]
    BY <1>2 DEF Medir2
  <2>3. /\ proc' \in [Processos -> Processo] /\ Outros(p)
        /\ proc'[p].pc = "medir3" /\ proc'[p].num = Len(sienge.meds) + 1
    BY <2>1, <2>2, IrComNumeroFato DEF Pcs, Esteira
  <2> QED
    BY <1>2, <2>3 DEF Medir2, Tipos, Em, MesmaLinha
<1> QED
  BY <1>1, <1>2

FazMedir3(p) ==
  /\ Tipos' /\ Outros(p) /\ UNCHANGED sienge
  /\ row'.credor = row.credor /\ row'.auto = row.auto /\ row'.tit = row.tit
  /\ proc[p].pc = "medir3"
  /\ \/ /\ proc'[p].pc = "medir4" /\ row'.stage = "measurement_created"
        /\ row'.med \in {row.med, proc[p].num}
     \/ /\ proc'[p] = Livre /\ proc'[p].pc = "livre" /\ row'.med = row.med
        /\ row'.stage = "measurement_error" /\ row'.status = "erro"
LEMMA Medir3Fato == ASSUME Tipos, NEW p \in Processos, Medir3(p) PROVE FazMedir3(p)
<1> USE DEF FazMedir3
<1>1. row \in Launch /\ proc[p].num \in Numero
  BY DEF Tipos, Processo
<1>2. CASE Falha(p, "incerta", "medir3", "measurement_error")
  BY <1>2, FalhaFato DEF Stages, MesmaLinha
<1>3. CASE ~Falha(p, "incerta", "medir3", "measurement_error")
  <2>1. PICK n \in Lido(p) :
          row' = [row EXCEPT !.stage = "measurement_created", !.med = IF n = 0 THEN @ ELSE n]
    BY <1>3 DEF Medir3
  <2>2. n \in {0, proc[p].num}
    BY <2>1 DEF Lido
  <2>3. PICK m \in {row.med, proc[p].num} :
          row' = [row EXCEPT !.stage = "measurement_created", !.med = m]
    BY <2>1, <2>2
  <2>4. /\ row' \in Launch /\ row'.stage = "measurement_created" /\ row'.med = m
        /\ row'.credor = row.credor /\ row'.auto = row.auto /\ row'.tit = row.tit
    BY <1>1, <2>3 DEF Launch, Stages
  <2> QED
    BY <1>3, <2>4, IrFato DEF Medir3, Tipos, Em, Pcs, Esteira
<1> QED
  BY <1>2, <1>3

FazMedir4(p) ==
  /\ Tipos' /\ Outros(p) /\ MesmaLinha /\ UNCHANGED sienge
  /\ proc[p].pc = "medir4" /\ proc'[p].pc = "livre"
  /\ row'.stage = "awaiting_measurement_authorization"
LEMMA Medir4Fato == ASSUME Tipos, NEW p \in Processos, Medir4(p) PROVE FazMedir4(p)
  BY EtapaFato, FimFato DEF FazMedir4, Medir4, Tipos, Em, Stages

FazTitular1(p) ==
  /\ Tipos' /\ Outros(p) /\ UNCHANGED sienge
  /\ row'.credor = row.credor /\ row'.auto = row.auto /\ row'.med = row.med
  /\ proc[p].pc = "titular1"
  /\ \/ /\ proc'[p].pc = "titular2" /\ proc'[p].num = row.med /\ row.med # 0
        /\ row'.tit = 0 /\ row'.stage = "creating_titulo"
     \/ proc'[p].pc = "livre" /\ row' = row
LEMMA Titular1Fato == ASSUME Tipos, NEW p \in Processos, Titular1(p) PROVE FazTitular1(p)
<1> USE DEF FazTitular1
<1>1. row \in Launch /\ row.med \in Numero
  BY DEF Tipos, Launch
<1>2. CASE row.med # 0
  <2>1. row' = [row EXCEPT !.stage = "creating_titulo", !.status = "titulo",
                           !.tit = 0, !.boleto = "ok"]
    BY <1>2 DEF Titular1
  <2>2. /\ row' \in Launch /\ row'.stage = "creating_titulo" /\ row'.tit = 0
        /\ row'.credor = row.credor /\ row'.auto = row.auto /\ row'.med = row.med
    <3>1. "creating_titulo" \in Stages /\ "titulo" \in Status /\ 0 \in Numero
      BY PagamentoAssumption DEF Stages, Status, Numero
    <3> QED
      BY <1>1, <2>1, <3>1 DEF Launch
  <2>3. /\ proc' \in [Processos -> Processo] /\ Outros(p)
        /\ proc'[p].pc = "titular2" /\ proc'[p].num = row.med
    BY <1>1, <1>2, IrComNumeroFato DEF Titular1, Pcs, Esteira
  <2> QED
    BY <1>2, <2>2, <2>3 DEF Titular1, Tipos, Em
<1>3. CASE row.med = 0
  BY <1>3, FimFato DEF Titular1, Tipos, Em
<1> QED
  BY <1>2, <1>3

FazTitular2(p) ==
  /\ Tipos' /\ Outros(p) /\ MesmaLinha /\ proc[p].pc = "titular2"
  /\ \/ /\ proc'[p].pc = "titular3" /\ proc'[p].num = Len(sienge.tits) + 1
        /\ row' = row /\ Len(sienge.tits) < MaxMedicoes
        /\ sienge' = [sienge EXCEPT !.tits =
                        Append(@, [med |-> proc[p].num, pago |-> FALSE])]
     \/ /\ proc'[p].pc = "livre" /\ row'.stage = "titulo_error"
        /\ sienge' = sienge
LEMMA Titular2Fato ==
  ASSUME Tipos, sienge \in Sienge, NEW p \in Processos, Titular2(p)
  PROVE  FazTitular2(p)
<1> USE DEF FazTitular2
<1>1. CASE Falha(p, "falha", "titular2", "titulo_error")
  BY <1>1, FalhaFato DEF Stages, Em
<1>2. CASE ~Falha(p, "falha", "titular2", "titulo_error")
  <2>1. Len(sienge.tits) + 1 \in Numero
    BY <1>2, PagamentoAssumption DEF Titular2, Sienge, Numero
  <2>2. proc' = [proc EXCEPT ![p].pc = "titular3", ![p].num = Len(sienge.tits) + 1]
    BY <1>2 DEF Titular2
  <2>3. /\ proc' \in [Processos -> Processo] /\ Outros(p)
        /\ proc'[p].pc = "titular3" /\ proc'[p].num = Len(sienge.tits) + 1
    BY <2>1, <2>2, IrComNumeroFato DEF Pcs, Esteira
  <2> QED
    BY <1>2, <2>3 DEF Titular2, Tipos, Em, MesmaLinha
<1> QED
  BY <1>1, <1>2

FazTitular3(p) ==
  /\ Tipos' /\ Outros(p) /\ UNCHANGED sienge
  /\ row'.credor = row.credor /\ row'.auto = row.auto /\ row'.med = row.med
  /\ proc[p].pc = "titular3"
  /\ \/ /\ proc'[p].pc \in {"livre", "registrar1"} /\ row'.stage = "titulo_created"
        /\ row'.tit \in {row.tit, proc[p].num}
     \/ /\ proc'[p] = Livre /\ proc'[p].pc = "livre" /\ row'.tit = row.tit
        /\ row'.stage = "titulo_error" /\ row'.status = "erro"
LEMMA Titular3Fato == ASSUME Tipos, NEW p \in Processos, Titular3(p) PROVE FazTitular3(p)
<1> USE DEF FazTitular3
<1>1. row \in Launch /\ proc[p].num \in Numero
  BY DEF Tipos, Processo
<1>2. CASE Falha(p, "incerta", "titular3", "titulo_error")
  BY <1>2, FalhaFato DEF Stages, MesmaLinha
<1>3. CASE ~Falha(p, "incerta", "titular3", "titulo_error")
  <2>1. PICK n \in Lido(p) :
          /\ row' = [row EXCEPT !.stage = "titulo_created", !.tit = IF n = 0 THEN @ ELSE n]
          /\ IF n # 0 THEN Ir(p, "registrar1") ELSE Fim(p)
    BY <1>3 DEF Titular3
  <2>2. n \in {0, proc[p].num}
    BY <2>1 DEF Lido
  <2>3. PICK m \in {row.tit, proc[p].num} :
          row' = [row EXCEPT !.stage = "titulo_created", !.tit = m]
    BY <2>1, <2>2
  <2>4. /\ row' \in Launch /\ row'.stage = "titulo_created" /\ row'.tit = m
        /\ row'.credor = row.credor /\ row'.auto = row.auto /\ row'.med = row.med
    BY <1>1, <2>3 DEF Launch, Stages
  <2>5. /\ proc' \in [Processos -> Processo] /\ Outros(p)
        /\ proc'[p].pc \in {"livre", "registrar1"}
    BY <2>1, IrFato, FimFato DEF Pcs, Boletos
  <2> QED
    BY <1>3, <2>4, <2>5 DEF Titular3, Tipos, Em
<1> QED
  BY <1>2, <1>3

FazRegistrar1(p) ==
  /\ Tipos' /\ Outros(p) /\ UNCHANGED <<row, sienge>>
  /\ proc[p].pc = "registrar1" /\ proc'[p].pc \in {"livre", "registrar2"}
LEMMA Registrar1Fato ==
  ASSUME Tipos, NEW p \in Processos, Registrar1(p)
  PROVE  FazRegistrar1(p)
<1> USE DEF FazRegistrar1
<1>1. proc[p] \in Processo /\ row.stage \in Stages
  BY DEF Tipos, Launch
<1>2. CASE proc' = [proc EXCEPT ![p].pc = "registrar2", ![p].lido = row.stage]
  <2>1. proc' = [proc EXCEPT ![p] = [proc[p] EXCEPT !.pc = "registrar2", !.lido = row.stage]]
    BY <1>2 DEF Tipos
  <2>2. /\ [proc[p] EXCEPT !.pc = "registrar2", !.lido = row.stage] \in Processo
        /\ [proc[p] EXCEPT !.pc = "registrar2", !.lido = row.stage].pc = "registrar2"
    BY <1>1 DEF Processo, Boletos
  <2> QED
    BY <2>1, <2>2 DEF Registrar1, Tipos, Em, Outros
<1>3. CASE Fim(p)
  BY <1>3, FimFato DEF Registrar1, Tipos, Em
<1> QED
  BY <1>2, <1>3 DEF Registrar1

FazRegistrar2(p) ==
  /\ Tipos' /\ Outros(p) /\ MesmaLinha /\ UNCHANGED sienge
  /\ proc[p].pc = "registrar2" /\ proc'[p].pc = "livre"
  /\ row'.stage \in {row.stage, "awaiting_titulo_authorization"}
LEMMA Registrar2Fato ==
  ASSUME Tipos, NEW p \in Processos, Registrar2(p)
  PROVE  FazRegistrar2(p)
<1> USE DEF FazRegistrar2
<1>1. row \in Launch
  BY DEF Tipos
<1>2. CASE row' = [row EXCEPT !.stage = IF proc[p].lido = "awaiting_titulo_authorization"
                                          THEN @ ELSE "awaiting_titulo_authorization"]
  <2>1. PICK s \in {row.stage, "awaiting_titulo_authorization"} : row' = [row EXCEPT !.stage = s]
    BY <1>2
  <2> QED
    BY <1>1, <2>1, FimFato DEF Registrar2, Tipos, Em, Launch, Stages, MesmaLinha
<1>3. ASSUME NEW e \in {"transitorio", "permanente"},
             row' = [row EXCEPT !.boleto = IF row.stage = "titulo_created" THEN e ELSE @]
      PROVE  row' \in Launch /\ MesmaLinha /\ row'.stage = row.stage
  <2>1. PICK b \in {row.boleto, e} : row' = [row EXCEPT !.boleto = b]
    BY <1>3
  <2> QED
    BY <1>1, <2>1 DEF Launch, MesmaLinha
<1>4. ASSUME UNCHANGED row PROVE row' \in Launch /\ MesmaLinha /\ row'.stage = row.stage
  BY <1>1, <1>4 DEF MesmaLinha
<1> QED
  BY <1>2, <1>3, <1>4, FimFato DEF Registrar2, Tipos, Em
-----------------------------------------------------------------------------
(* What a poll does. *)

LEMMA CarregaFato ==
  ASSUME Tipos, NEW p \in Processos, NEW c \in Pcs, Carrega(p, c)
  PROVE  /\ proc' \in [Processos -> Processo] /\ Outros(p)
         /\ proc'[p].pc = c /\ proc'[p].lido = row.stage
<1>1. proc[p] \in Processo /\ row.stage \in Stages
  BY DEF Tipos, Launch
<1>2. proc' = [proc EXCEPT ![p] = [proc[p] EXCEPT !.pc = c, !.lido = row.stage]]
  BY DEF Carrega, Tipos
<1>3. /\ [proc[p] EXCEPT !.pc = c, !.lido = row.stage] \in Processo
      /\ [proc[p] EXCEPT !.pc = c, !.lido = row.stage].pc = c
      /\ [proc[p] EXCEPT !.pc = c, !.lido = row.stage].lido = row.stage
  BY <1>1 DEF Processo, Pcs
<1> QED
  BY <1>2, <1>3 DEF Tipos, Outros

LEMMA CarregaNumeroFato ==
  ASSUME Tipos, NEW p \in Processos, NEW c \in Pcs, NEW n \in Numero,
         proc' = [proc EXCEPT ![p].pc = c, ![p].lido = row.stage, ![p].num = n]
  PROVE  /\ proc' \in [Processos -> Processo] /\ Outros(p)
         /\ proc'[p].pc = c /\ proc'[p].lido = row.stage /\ proc'[p].num = n
<1>1. proc[p] \in Processo /\ row.stage \in Stages
  BY DEF Tipos, Launch
<1> DEFINE q == [proc[p] EXCEPT !.pc = c, !.lido = row.stage, !.num = n]
<1>2. proc' = [proc EXCEPT ![p] = q]
  BY DEF Tipos
<1>3. q \in Processo /\ q.pc = c /\ q.lido = row.stage /\ q.num = n
  BY <1>1 DEF Processo, Pcs
<1> QED
  BY <1>2, <1>3 DEF Tipos, Outros

FazPollContrato1(p) ==
  /\ Tipos' /\ Outros(p) /\ UNCHANGED <<row, sienge>>
  /\ proc[p].pc = "pollContrato1"
  /\ \/ proc'[p].pc = "pollContrato2" /\ proc'[p].lido = row.stage
     \/ proc'[p].pc = "livre"
LEMMA PollContrato1Fato ==
  ASSUME Tipos, NEW p \in Processos, PollContrato1(p)
  PROVE  FazPollContrato1(p)
  BY CarregaFato, FimFato DEF FazPollContrato1, PollContrato1, Tipos, Em, Pcs, Polls

FazPollContrato2(p) ==
  /\ Tipos' /\ Outros(p) /\ UNCHANGED <<row, sienge>>
  /\ proc[p].pc = "pollContrato2"
  /\ \/ /\ proc'[p].pc = "pollContrato3" /\ sienge.autorizado
        /\ proc[p].lido = "awaiting_authorization"
     \/ proc'[p].pc = "livre"
LEMMA PollContrato2Fato ==
  ASSUME Tipos, NEW p \in Processos, PollContrato2(p)
  PROVE  FazPollContrato2(p)
  BY IrFato, FimFato DEF FazPollContrato2, PollContrato2, Tipos, Em, Pcs, Polls

FazPollContrato3(p) ==
  /\ Tipos' /\ Outros(p) /\ MesmaLinha /\ UNCHANGED sienge
  /\ proc[p].pc = "pollContrato3"
  /\ \/ /\ proc'[p].pc = "medir1" /\ row.stage = "awaiting_authorization"
        /\ row'.stage = "creating_measurement"
     \/ proc'[p].pc = "livre" /\ row' = row
LEMMA PollContrato3Fato ==
  ASSUME Tipos, NEW p \in Processos, PollContrato3(p)
  PROVE  FazPollContrato3(p)
  BY EtapaFato, IrFato, FimFato
     DEF FazPollContrato3, PollContrato3, Tipos, Em, Pcs, Esteira, Stages, MesmaLinha

FazPollMedicao1(p) ==
  /\ Tipos' /\ Outros(p) /\ UNCHANGED <<row, sienge>>
  /\ proc[p].pc = "pollMedicao1"
  /\ \/ /\ proc'[p].pc = "pollMedicao2" /\ proc'[p].lido = row.stage
        /\ proc'[p].num = row.med /\ row.med # 0
     \/ proc'[p].pc = "livre"
LEMMA PollMedicao1Fato ==
  ASSUME Tipos, NEW p \in Processos, PollMedicao1(p)
  PROVE  FazPollMedicao1(p)
<1> USE DEF FazPollMedicao1
<1>1. row.med \in Numero
  BY DEF Tipos, Launch
<1>2. CASE row.med # 0
  <2>1. /\ proc' \in [Processos -> Processo] /\ Outros(p)
        /\ proc'[p].pc = "pollMedicao2" /\ proc'[p].lido = row.stage /\ proc'[p].num = row.med
    <3>1. proc' = [proc EXCEPT ![p].pc = "pollMedicao2", ![p].lido = row.stage, ![p].num = row.med]
      BY <1>2 DEF PollMedicao1
    <3>2. "pollMedicao2" \in Pcs
      BY DEF Pcs, Polls
    <3> QED
      BY <1>1, <3>1, <3>2, CarregaNumeroFato, ZenonT(90)
  <2> QED
    BY <1>2, <2>1 DEF PollMedicao1, Tipos, Em
<1>3. CASE row.med = 0
  BY <1>3, FimFato DEF PollMedicao1, Tipos, Em
<1> QED
  BY <1>2, <1>3

FazPollMedicao2(p) ==
  /\ Tipos' /\ Outros(p) /\ UNCHANGED <<row, sienge>>
  /\ proc[p].pc = "pollMedicao2"
  /\ \/ /\ proc'[p].pc = "pollMedicao3" /\ sienge.meds[proc[p].num].autorizada
        /\ proc'[p].num = proc[p].num
        /\ proc[p].lido = "awaiting_measurement_authorization"
     \/ proc'[p].pc = "livre"
LEMMA PollMedicao2Fato ==
  ASSUME Tipos, NEW p \in Processos, PollMedicao2(p)
  PROVE  FazPollMedicao2(p)
  BY IrFato, FimFato DEF FazPollMedicao2, PollMedicao2, Tipos, Em, Pcs, Polls

FazPollMedicao3(p) ==
  /\ Tipos' /\ Outros(p) /\ MesmaLinha /\ UNCHANGED sienge
  /\ proc[p].pc = "pollMedicao3"
  /\ \/ /\ proc'[p].pc = "titular1"
        /\ row.stage = "awaiting_measurement_authorization"
        /\ row'.stage = "creating_titulo"
     \/ proc'[p].pc = "livre" /\ row' = row
LEMMA PollMedicao3Fato ==
  ASSUME Tipos, NEW p \in Processos, PollMedicao3(p)
  PROVE  FazPollMedicao3(p)
  BY EtapaFato, IrFato, FimFato
     DEF FazPollMedicao3, PollMedicao3, Tipos, Em, Pcs, Esteira, Stages, MesmaLinha

FazPollTitulo1(p) ==
  /\ Tipos' /\ Outros(p) /\ UNCHANGED <<row, sienge>>
  /\ proc[p].pc = "pollTitulo1"
  /\ \/ proc'[p].pc = "pollTitulo2" /\ proc'[p].num = row.tit /\ row.tit # 0
     \/ proc'[p].pc = "livre"
LEMMA PollTitulo1Fato ==
  ASSUME Tipos, NEW p \in Processos, PollTitulo1(p)
  PROVE  FazPollTitulo1(p)
<1> USE DEF FazPollTitulo1
<1>1. row.tit \in Numero
  BY DEF Tipos, Launch
<1>2. CASE row.tit # 0
  <2>1. /\ proc' \in [Processos -> Processo] /\ Outros(p)
        /\ proc'[p].pc = "pollTitulo2" /\ proc'[p].lido = row.stage /\ proc'[p].num = row.tit
    <3>1. proc' = [proc EXCEPT ![p].pc = "pollTitulo2", ![p].lido = row.stage, ![p].num = row.tit]
      BY <1>2 DEF PollTitulo1
    <3>2. "pollTitulo2" \in Pcs
      BY DEF Pcs, Polls
    <3> QED
      BY <1>1, <3>1, <3>2, CarregaNumeroFato, ZenonT(90)
  <2> QED
    BY <1>2, <2>1 DEF PollTitulo1, Tipos, Em
<1>3. CASE row.tit = 0
  BY <1>3, FimFato DEF PollTitulo1, Tipos, Em
<1> QED
  BY <1>2, <1>3

FazPollTitulo2(p) ==
  /\ Tipos' /\ Outros(p) /\ MesmaLinha /\ UNCHANGED sienge
  /\ proc[p].pc = "pollTitulo2" /\ proc'[p].pc = "livre"
  /\ \/ row'.stage = "titulo_pago" /\ sienge.tits[proc[p].num].pago
     \/ row' = row
LEMMA PollTitulo2Fato ==
  ASSUME Tipos, NEW p \in Processos, PollTitulo2(p)
  PROVE  FazPollTitulo2(p)
  BY EtapaStatusFato, FimFato DEF FazPollTitulo2, PollTitulo2, Tipos, Em, Stages, Status, MesmaLinha
-----------------------------------------------------------------------------
(* What the schedulers and the people start. *)

LEMMA IniciarFato ==
  ASSUME Tipos, NEW p \in Processos, Iniciar(p)
  PROVE  /\ Tipos' /\ Outros(p) /\ MesmaLinha /\ UNCHANGED sienge
         /\ proc'[p].pc = CASE row.stage = "measurement_error" -> "medir1"
                            [] row.stage = "titulo_error" -> "titular1"
                            [] OTHER -> "credor1"
         /\ row'.stage = IF row.stage \in Stuck THEN "idle" ELSE row.stage
<1>1. PICK c \in {"medir1", "titular1", "credor1"}, b \in BOOLEAN :
        /\ proc' = [proc EXCEPT ![p] = [Livre EXCEPT !.pc = c, !.bypass = b]]
        /\ c = CASE row.stage = "measurement_error" -> "medir1"
                 [] row.stage = "titulo_error" -> "titular1"
                 [] OTHER -> "credor1"
  BY DEF Iniciar
<1>2. /\ [Livre EXCEPT !.pc = c, !.bypass = b] \in Processo
      /\ [Livre EXCEPT !.pc = c, !.bypass = b].pc = c
  BY LivreTipo DEF Processo, Esteira
<1>3. /\ row' \in Launch /\ MesmaLinha
      /\ row'.stage = IF row.stage \in Stuck THEN "idle" ELSE row.stage
  BY EtapaFato DEF Iniciar, Tipos, Stages, MesmaLinha
<1> QED
  BY <1>1, <1>2, <1>3 DEF Iniciar, Tipos, Outros

LEMMA SoltoFato ==
  ASSUME Tipos, NEW p \in Processos, NEW c \in Pcs,
         proc' = [proc EXCEPT ![p] = [Livre EXCEPT !.pc = c, !.solto = TRUE]]
  PROVE  proc' \in [Processos -> Processo] /\ Outros(p) /\ proc'[p].pc = c
<1>1. /\ [Livre EXCEPT !.pc = c, !.solto = TRUE] \in Processo
      /\ [Livre EXCEPT !.pc = c, !.solto = TRUE].pc = c
  BY LivreTipo DEF Processo, Pcs
<1> QED
  BY <1>1 DEF Tipos, Outros
-----------------------------------------------------------------------------
(* The invariant. *)

\* The numbers that the row, the processes and the titles carry exist in Sienge.
MedExiste == row.med <= Len(sienge.meds)
TitExiste == row.tit <= Len(sienge.tits)
NumExiste ==
  \A p \in Processos :
    /\ proc[p].pc \in {"titular2", "pollMedicao2", "pollMedicao3"}
         => proc[p].num \in 1..Len(sienge.meds)
    /\ proc[p].pc = "medir3" => proc[p].num <= Len(sienge.meds)
    /\ proc[p].pc = "titular3" => proc[p].num <= Len(sienge.tits)
    /\ proc[p].pc = "pollTitulo2" => proc[p].num \in 1..Len(sienge.tits)
TituloDeMedicao == \A t \in 1..Len(sienge.tits) : sienge.tits[t].med <= Len(sienge.meds)
Numeros == MedExiste /\ TitExiste /\ NumExiste /\ TituloDeMedicao

\* An additive begins only after the word of a person, or the proof of another launch.
AditivoDito == \A p \in Processos : proc[p].pc \in {"aditivo1", "aditivo2"} => Colega \/ row.auto

\* A run is at work, and its part before the measurement.
Corre(p) == proc[p].pc \in Esteira
Medindo == {"medir1", "medir2", "medir3", "medir4"}
Titulando == {"titular1", "titular2", "titular3"}
Inicio == Esteira \ (Medindo \cup Titulando)

\* One run at a time, none while the launch waits for an authorization, and past its
\* first step with the launch in no stage where a run ends.
UmCorredor == \A p, q \in Processos : Corre(p) /\ Corre(q) => p = q
CorreForaDaEspera ==
  \A p \in Processos :
    /\ Corre(p) => row.stage \notin {"awaiting_authorization",
                                     "awaiting_measurement_authorization"}
    /\ proc[p].pc \in Inicio => row.stage # "measurement_error"
    /\ proc[p].pc \in {"medir2", "medir3", "medir4", "titular2", "titular3"}
         => row.stage \notin Terminais

\* A supplier that was not found: only its search may be going on.
SemCredor == row.credor = "not_found" =>
  /\ row.stage \in {"creditor_not_found", "searching_creditor", "idle", "aborted",
                    "awaiting_titulo_authorization", "titulo_pago"}
  /\ \A p \in Processos : Corre(p) => proc[p].pc \in {"credor1", "credor2"}

\* Where the launch may still start from before its measurement, and its title.
Parada == Terminais \ {"measurement_error", "titulo_error"}
Cedo == \/ row.stage \in Parada \/ row.credor = "not_found"
        \/ \E p \in Processos : proc[p].pc \in Inicio
AntesDeMedir == \/ Cedo \/ row.stage \in {"awaiting_authorization", "measurement_error"}
                \/ \E p \in Processos : proc[p].pc \in {"medir1", "medir2"}
AteMedida == \/ Cedo \/ row.stage \in {"awaiting_authorization", "measurement_error"}
             \/ \E p \in Processos : proc[p].pc \in Medindo
AntesDeTitular == \/ AteMedida
                  \/ row.stage \in {"awaiting_measurement_authorization", "titulo_error"}
                  \/ \E p \in Processos : proc[p].pc \in {"titular1", "titular2"}

\* A poll that may still start a measurement, or a title.
PollaContrato(p) == \/ proc[p].pc = "pollContrato3"
                    \/ proc[p].pc = "pollContrato2" /\ proc[p].lido = "awaiting_authorization"
PollaMedicao(p) == \/ proc[p].pc = "pollMedicao3"
                   \/ /\ proc[p].pc = "pollMedicao2"
                      /\ proc[p].lido = "awaiting_measurement_authorization"
SemPollAtrasado == \A p \in Processos : /\ Cedo => ~PollaContrato(p)
                                        /\ AteMedida => ~PollaMedicao(p)

\* Who measures, or may, has the authorization of the contract.
Autorizado ==
  /\ row.stage = "measurement_error" => sienge.autorizado
  /\ \A p \in Processos :
       /\ proc[p].pc \in Medindo => sienge.autorizado
       /\ proc[p].pc = "pollContrato3" /\ row.stage = "awaiting_authorization"
            => sienge.autorizado
MedicoesRegulares == \A m \in 1..Len(sienge.meds) : sienge.meds[m].regular

\* Who makes a title, or may, has the authorization of its measurement.
Liberada(n) == n # 0 => sienge.meds[n].autorizada
Liberado ==
  /\ row.stage = "titulo_error" => Liberada(row.med)
  /\ \A p \in Processos :
       /\ proc[p].pc \in Titulando => Liberada(row.med)
       /\ proc[p].pc \in {"titular2", "pollMedicao3"} => Liberada(proc[p].num)
       /\ PollaMedicao(p) /\ row.stage = "awaiting_measurement_authorization"
            => proc[p].num = row.med
TitulosLiberados == \A t \in 1..Len(sienge.tits) : Liberada(sienge.tits[t].med)

\* Without a start over, a launch with a title is past every run; without any accident
\* it has one measurement and one title.
ComTitulo ==
  /\ row.tit # 0 => ~AntesDeTitular /\ \A p \in Processos : ~Corre(p)
  /\ row.stage = "titulo_pago" => row.tit # 0 /\ sienge.tits[row.tit].pago
  /\ \A p \in Processos : proc[p].pc = "pollTitulo2" => proc[p].num = row.tit
Unicos == /\ Len(sienge.meds) <= 1 /\ Len(sienge.tits) <= 1
          /\ AntesDeMedir => Len(sienge.meds) = 0
          /\ AntesDeTitular => Len(sienge.tits) = 0

Seguro == /\ UmCorredor /\ CorreForaDaEspera /\ SemCredor /\ SemPollAtrasado
          /\ Autorizado /\ MedicoesRegulares /\ Liberado /\ TitulosLiberados
Coerente == /\ Numeros /\ AditivoDito
            /\ NaEsteira => Seguro
            /\ NaEsteira /\ "refeito" \notin fora => ComTitulo
            /\ NaEsteira /\ fora = {} => Unicos
IInv == TypeOK /\ Coerente
-----------------------------------------------------------------------------
(* Every step keeps the invariant: what the step does, and the invariant. *)

\* The history of a step of a process.
Fora(p) == fora' = IF \E s \in {"criar3", "aditivo3", "medir3", "titular3"} :
                            Em(p, s) /\ row'.status = "erro" /\ proc'[p] = Livre
                     THEN fora \cup {"incerta"} ELSE fora

LEMMA TiposValem == IInv => Tipos
  BY DEF IInv, TypeOK, DadosTypeOK, Tipos

USE DEF Coerente, Numeros, MedExiste, TitExiste, NumExiste, TituloDeMedicao, AditivoDito,
        NaEsteira, Seguro, UmCorredor, CorreForaDaEspera, Corre, SemCredor, SemPollAtrasado,
        Autorizado, MedicoesRegulares, Liberado, Liberada, TitulosLiberados,
        ComTitulo, Unicos, Cedo, AntesDeMedir, AteMedida, AntesDeTitular, Parada, Terminais,
        PollaContrato, PollaMedicao, Esteira, Inicio, Medindo, Titulando,
        MesmaLinha, Outros

\* The search of the supplier.
LEMMA Credor1Inv == ASSUME IInv, NEW p \in Processos, FazCredor1(p), Fora(p) PROVE Coerente'
  BY DEF IInv, FazCredor1, Fora, Tipos

LEMMA Credor2Inv == ASSUME IInv, NEW p \in Processos, FazCredor2(p), Fora(p) PROVE Coerente'
<1>1. Numeros' /\ AditivoDito'
  BY DEF IInv, FazCredor2, Tipos
<1>2. NaEsteira' => Seguro'
  BY DEF IInv, FazCredor2, Fora, Tipos
<1>3. NaEsteira' /\ "refeito" \notin fora' => ComTitulo'
  BY DEF IInv, FazCredor2, Fora, Tipos
<1>4. NaEsteira' /\ fora' = {} => Unicos'
  BY DEF IInv, FazCredor2, Fora, Tipos
<1> QED
  BY <1>1, <1>2, <1>3, <1>4

\* Between the supplier and the measurement, a run leaves the rest of the launch alone.
LEMMA InicioInv ==
  ASSUME IInv, NEW p \in Processos, Outros(p), Tipos', fora \subseteq fora',
         row'.credor = row.credor, row'.med = row.med, row'.tit = row.tit,
         row.auto => row'.auto,
         proc[p].pc \in Inicio \ {"credor1", "credor2"},
         proc'[p].pc \in {"livre"} \cup (Inicio \ {"credor1", "credor2"}),
         proc'[p].pc \in {"aditivo1", "aditivo2"}
           => proc[p].pc = "aditivo1" \/ Colega \/ row'.auto,
         row'.stage \notin {"awaiting_authorization", "awaiting_measurement_authorization",
                            "measurement_error", "titulo_error", "titulo_pago"}
           \/ row'.stage = row.stage,
         sienge'.meds = sienge.meds, sienge'.tits = sienge.tits
  PROVE  Coerente'
  BY DEF IInv, Tipos

LEMMA EsperarInv == ASSUME IInv, NEW p \in Processos, FazEsperar(p), Fora(p) PROVE Coerente'
  BY DEF IInv, FazEsperar, Fora, Tipos

\* The measurement.
LEMMA Medir1Inv == ASSUME IInv, NEW p \in Processos, FazMedir1(p), Fora(p) PROVE Coerente'
  BY DEF IInv, FazMedir1, Fora, Tipos

\* What Sienge has after one more measurement, and one more title.
LEMMA AnexaMedicao ==
  ASSUME TypeOK, NEW m \in Medicao,
         sienge' = [sienge EXCEPT !.meds = Append(@, m)]
  PROVE  /\ Len(sienge'.meds) = Len(sienge.meds) + 1
         /\ \A i \in 1..Len(sienge.meds) : sienge'.meds[i] = sienge.meds[i]
         /\ sienge'.meds[Len(sienge.meds) + 1] = m
         /\ sienge'.tits = sienge.tits /\ sienge'.autorizado = sienge.autorizado
         /\ sienge' \in Sienge
<1>1. sienge \in Sienge /\ sienge.meds \in Seq(Medicao)
  BY DEF TypeOK, DadosTypeOK, Sienge
<1>2. Append(sienge.meds, m) \in Seq(Medicao)
  BY <1>1
<1>3. sienge'.meds = Append(sienge.meds, m)
  BY <1>1 DEF Sienge
<1>4. /\ sienge' \in Sienge
      /\ sienge'.tits = sienge.tits /\ sienge'.autorizado = sienge.autorizado
  BY <1>1, <1>2 DEF Sienge
<1> QED
  BY <1>1, <1>3, <1>4

LEMMA AnexaTitulo ==
  ASSUME TypeOK, NEW t \in Titulo,
         sienge' = [sienge EXCEPT !.tits = Append(@, t)]
  PROVE  /\ Len(sienge'.tits) = Len(sienge.tits) + 1
         /\ \A i \in 1..Len(sienge.tits) : sienge'.tits[i] = sienge.tits[i]
         /\ sienge'.tits[Len(sienge.tits) + 1] = t
         /\ sienge'.meds = sienge.meds /\ sienge'.autorizado = sienge.autorizado
         /\ sienge' \in Sienge
<1>1. sienge \in Sienge /\ sienge.tits \in Seq(Titulo)
  BY DEF TypeOK, DadosTypeOK, Sienge
<1>2. Append(sienge.tits, t) \in Seq(Titulo)
  BY <1>1
<1>3. sienge'.tits = Append(sienge.tits, t)
  BY <1>1 DEF Sienge
<1>4. /\ sienge' \in Sienge
      /\ sienge'.meds = sienge.meds /\ sienge'.autorizado = sienge.autorizado
  BY <1>1, <1>2 DEF Sienge
<1> QED
  BY <1>1, <1>3, <1>4

LEMMA MedidaDoTitulo ==
  ASSUME sienge \in Sienge
  PROVE  \A t \in 1..Len(sienge.tits) : sienge.tits[t].med \in Nat \ {0}
<1>1. sienge.tits \in Seq(Titulo)
  BY DEF Sienge
<1>2. \A t \in 1..Len(sienge.tits) : sienge.tits[t] \in Titulo
  BY <1>1
<1> QED
  BY <1>2, PagamentoAssumption DEF Titulo

LEMMA Medir3Inv == ASSUME IInv, NEW p \in Processos, FazMedir3(p), Fora(p) PROVE Coerente'
<1>0. /\ row.med \in Nat /\ row.tit \in Nat /\ proc[p].num \in Nat
      /\ Len(sienge.meds) \in Nat /\ Len(sienge.tits) \in Nat
  BY DEF IInv, TypeOK, DadosTypeOK, Launch, Processo, Numero, Sienge
<1>1. Numeros' /\ AditivoDito'
  BY <1>0 DEF IInv, FazMedir3, Em, Tipos
<1>2. ASSUME NaEsteira' PROVE Seguro'
  <2>1. Seguro
    BY <1>2 DEF IInv, Fora
  <2>2. UmCorredor' /\ CorreForaDaEspera' /\ SemCredor'
    BY <2>1 DEF FazMedir3, Tipos
  <2>3. SemPollAtrasado'
    BY <2>1 DEF FazMedir3, Tipos
  <2>4. Autorizado' /\ MedicoesRegulares' /\ TitulosLiberados'
    BY <2>1 DEF FazMedir3, Tipos
  <2>5. Liberado'
    BY <2>1 DEF FazMedir3, Tipos
  <2> QED
    BY <2>2, <2>3, <2>4, <2>5
<1>3. NaEsteira' /\ "refeito" \notin fora' => ComTitulo'
  BY <1>0 DEF IInv, FazMedir3, Fora, Em, Tipos
<1>4. ASSUME NaEsteira', fora' = {} PROVE Unicos'
  <2>1. Unicos /\ Seguro
    BY <1>4 DEF IInv, Fora
  <2>2. ~(Em(p, "medir3") /\ row'.status = "erro" /\ proc'[p] = Livre)
    BY <1>4 DEF Fora
  <2>3. row'.stage = "measurement_created" /\ proc'[p].pc = "medir4"
    BY <2>2 DEF FazMedir3, Em
  <2> QED
    BY <1>0, <2>1, <2>3 DEF FazMedir3, Tipos
<1> QED
  BY <1>1, <1>2, <1>3, <1>4

LEMMA Medir4Inv == ASSUME IInv, NEW p \in Processos, FazMedir4(p), Fora(p) PROVE Coerente'
  BY DEF IInv, FazMedir4, Fora, Tipos

LEMMA Titular1Inv == ASSUME IInv, NEW p \in Processos, FazTitular1(p), Fora(p) PROVE Coerente'
<1>0. /\ row.med \in Nat /\ row.tit \in Nat /\ proc[p].num \in Nat
      /\ Len(sienge.meds) \in Nat /\ Len(sienge.tits) \in Nat
  BY DEF IInv, TypeOK, DadosTypeOK, Launch, Processo, Numero, Sienge
<1>1. Numeros' /\ AditivoDito'
  BY <1>0 DEF IInv, FazTitular1, Em, Tipos
<1>2. ASSUME NaEsteira' PROVE Seguro'
  <2>1. Seguro
    BY <1>2 DEF IInv, Fora
  <2>2. UmCorredor' /\ CorreForaDaEspera' /\ SemCredor'
    BY <2>1 DEF FazTitular1, Tipos
  <2>3. SemPollAtrasado'
    BY <2>1 DEF FazTitular1, Tipos
  <2>4. Autorizado' /\ MedicoesRegulares' /\ TitulosLiberados'
    BY <2>1 DEF FazTitular1, Tipos
  <2>5. Liberado'
    BY <2>1 DEF FazTitular1, Tipos
  <2> QED
    BY <2>2, <2>3, <2>4, <2>5
<1>3. NaEsteira' /\ "refeito" \notin fora' => ComTitulo'
  BY <1>0 DEF IInv, FazTitular1, Fora, Em, Tipos
<1>4. NaEsteira' /\ fora' = {} => Unicos'
  BY <1>0 DEF IInv, FazTitular1, Fora, Em, Tipos
<1> QED
  BY <1>1, <1>2, <1>3, <1>4

LEMMA Titular3Inv == ASSUME IInv, NEW p \in Processos, FazTitular3(p), Fora(p) PROVE Coerente'
<1>0. /\ row.med \in Nat /\ row.tit \in Nat /\ proc[p].num \in Nat
      /\ Len(sienge.meds) \in Nat /\ Len(sienge.tits) \in Nat
  BY DEF IInv, TypeOK, DadosTypeOK, Launch, Processo, Numero, Sienge
<1>1. Numeros' /\ AditivoDito'
  BY <1>0 DEF IInv, FazTitular3, Tipos
<1>2. ASSUME NaEsteira' PROVE Seguro'
  <2>1. Seguro
    BY <1>2 DEF IInv, Fora
  <2>2. UmCorredor' /\ CorreForaDaEspera' /\ SemCredor'
    BY <1>0, <2>1 DEF FazTitular3, Tipos
  <2>3. SemPollAtrasado'
    BY <1>0, <2>1 DEF FazTitular3, Tipos
  <2>4. Autorizado' /\ MedicoesRegulares' /\ TitulosLiberados'
    BY <1>0, <2>1 DEF FazTitular3, Tipos
  <2>5. Liberado'
    BY <1>0, <2>1 DEF IInv, FazTitular3, Tipos
  <2> QED
    BY <2>2, <2>3, <2>4, <2>5
<1>3. ASSUME NaEsteira', "refeito" \notin fora' PROVE ComTitulo'
  <2>1. ComTitulo /\ Seguro
    BY <1>3 DEF IInv, Fora
  <2> QED
    BY <1>0, <2>1 DEF IInv, FazTitular3, Tipos
<1>4. ASSUME NaEsteira', fora' = {} PROVE Unicos'
  <2>1. Unicos /\ Seguro
    BY <1>4 DEF IInv, Fora
  <2>2. ~(Em(p, "titular3") /\ row'.status = "erro" /\ proc'[p] = Livre)
    BY <1>4 DEF Fora
  <2>3. row'.stage = "titulo_created" /\ proc'[p].pc \in {"livre", "registrar1"}
    BY <2>2 DEF FazTitular3, Em
  <2> QED
    BY <1>0, <2>1, <2>3 DEF IInv, FazTitular3, Tipos
<1> QED
  BY <1>1, <1>2, <1>3, <1>4

LEMMA Medir2Inv ==
  ASSUME IInv, NEW p \in Processos, FazMedir2(p), Fora(p)
  PROVE  /\ sienge' \in Sienge
         /\ Len(sienge'.meds) <= MaxMedicoes /\ Len(sienge'.tits) <= MaxMedicoes
         /\ Coerente'
<1>0. /\ row.med \in Nat /\ row.tit \in Nat /\ proc[p].num \in Nat
      /\ Len(sienge.meds) \in Nat /\ Len(sienge.tits) \in Nat /\ MaxMedicoes \in Nat
      /\ Len(sienge.meds) <= MaxMedicoes /\ Len(sienge.tits) <= MaxMedicoes
      /\ sienge \in Sienge
  BY PagamentoAssumption DEF IInv, TypeOK, DadosTypeOK, Launch, Processo, Numero, Sienge
<1>1. CASE proc'[p].pc = "livre"
  <2>1. sienge' = sienge /\ row'.stage = "measurement_error"
    BY <1>1 DEF FazMedir2
  <2> QED
    BY <1>0, <1>1, <2>1 DEF IInv, FazMedir2, Fora, Em, Tipos
<1>2. CASE proc'[p].pc = "medir3"
  <2> DEFINE m == [regular |-> sienge.autorizado, autorizada |-> FALSE]
             n == Len(sienge.meds)
  <2>1. /\ m \in Medicao /\ row' = row /\ n < MaxMedicoes /\ proc'[p].num = n + 1
        /\ sienge' = [sienge EXCEPT !.meds = Append(@, m)]
    BY <1>0, <1>2 DEF FazMedir2, Medicao, Sienge
  <2>2. /\ Len(sienge'.meds) = n + 1 /\ sienge'.tits = sienge.tits
        /\ \A i \in 1..n : sienge'.meds[i] = sienge.meds[i]
        /\ sienge'.meds[n + 1] = m
        /\ sienge'.autorizado = sienge.autorizado /\ sienge' \in Sienge
    BY <2>1, AnexaMedicao DEF IInv
  <2>0. /\ Tipos /\ Tipos' /\ Outros(p) /\ proc[p].pc = "medir2" /\ row' = row
    BY <1>2, <2>1, TiposValem DEF FazMedir2
  <2>3. fora' = fora
    BY <1>2, LivreTipo DEF Fora
  <2>4. m.regular = sienge.autorizado /\ m.autorizada = FALSE
    OBVIOUS
  <2> HIDE DEF m, n
  <2>5. n \in Nat /\ n = Len(sienge.meds)
    BY <1>0 DEF n
  <2>6. Numeros' /\ AditivoDito'
    <3>1. Numeros /\ AditivoDito
      BY DEF IInv
    <3>2. MedExiste' /\ TitExiste' /\ AditivoDito'
      BY <1>0, <1>2, <2>0, <2>2, <2>5, <3>1
    <3>3. NumExiste'
      <4>1. \A q \in Processos : proc[q].num \in Nat
        BY <2>0 DEF Tipos, Processo, Numero
      <4>2. \A q \in Processos \ {p} : proc'[q] = proc[q]
        BY <2>0
      <4>3. ASSUME NEW q \in Processos
            PROVE  /\ proc'[q].pc \in {"titular2", "pollMedicao2", "pollMedicao3"}
                        => proc'[q].num \in 1..Len(sienge'.meds)
                   /\ proc'[q].pc = "medir3" => proc'[q].num <= Len(sienge'.meds)
                   /\ proc'[q].pc = "titular3" => proc'[q].num <= Len(sienge'.tits)
                   /\ proc'[q].pc = "pollTitulo2" => proc'[q].num \in 1..Len(sienge'.tits)
        <5>1. CASE q # p
          BY <1>0, <2>2, <2>5, <3>1, <4>1, <4>2, <5>1
        <5>2. CASE q = p
          BY <1>0, <1>2, <2>1, <2>2, <2>5, <5>2
        <5> QED
          BY <5>1, <5>2
      <4> QED
        BY <4>3
    <3>4. TituloDeMedicao'
      <4>1. \A t \in 1..Len(sienge.tits) : sienge.tits[t].med \in Nat
        BY <1>0, MedidaDoTitulo
      <4> QED
        BY <1>0, <2>2, <2>5, <3>1, <4>1
    <3> QED
      BY <3>2, <3>3, <3>4
  <2>7. ASSUME NaEsteira' PROVE Seguro'
    <3>1. Seguro /\ Numeros
      BY <2>3, <2>7 DEF IInv
    <3>2. UmCorredor' /\ CorreForaDaEspera' /\ SemCredor'
      BY <1>2, <2>0, <3>1 DEF Tipos
    <3>3. SemPollAtrasado'
      BY <1>2, <2>0, <3>1 DEF Tipos
    <3>4. Autorizado' /\ MedicoesRegulares'
      BY <1>0, <1>2, <2>0, <2>1, <2>2, <2>4, <2>5, <3>1 DEF Tipos
    <3>5. Liberado'
      <4>1. \A i \in 1..n : sienge'.meds[i].autorizada = sienge.meds[i].autorizada
        BY <2>2
      <4>2. row.stage = "titulo_error" => Liberada(row.med)'
        BY <1>0, <2>0, <2>5, <3>1, <4>1
      <4>3. \A q \in Processos : proc'[q].pc \notin Titulando
        BY <1>2, <2>0, <3>1
      <4>4. (\A q \in Processos : proc[q].pc = "pollMedicao3" => Liberada(proc[q].num))'
        BY <1>2, <2>0, <2>5, <3>1, <4>1
      <4> QED
        BY <1>2, <2>0, <3>1, <4>2, <4>3, <4>4
    <3>6. TitulosLiberados'
      <4>1. \A t \in 1..Len(sienge.tits) : sienge.tits[t].med \in 1..n
        BY <1>0, <2>5, <3>1, MedidaDoTitulo
      <4>2. \A i \in 1..n : sienge'.meds[i].autorizada = sienge.meds[i].autorizada
        BY <2>2
      <4> QED
        BY <2>2, <3>1, <4>1, <4>2
    <3> QED
      BY <3>2, <3>3, <3>4, <3>5, <3>6
  <2>8. ASSUME NaEsteira', "refeito" \notin fora' PROVE ComTitulo'
    <3>1. ComTitulo /\ Seguro
      BY <2>3, <2>8 DEF IInv
    <3> QED
      BY <1>0, <1>2, <2>0, <2>1, <2>2, <3>1 DEF Tipos
  <2>9. ASSUME NaEsteira', fora' = {} PROVE Unicos'
    <3>1. Unicos /\ Seguro
      BY <2>3, <2>9 DEF IInv
    <3>2. n = 0
      BY <2>0, <2>5, <3>1
    <3>3. Len(sienge'.meds) = 1 /\ Len(sienge'.tits) = 0
      BY <2>0, <2>2, <3>1, <3>2
    <3>4. ~AntesDeMedir'
      BY <1>2, <2>0, <3>1 DEF Tipos
    <3> QED
      BY <3>3, <3>4
  <2>10. Coerente'
    BY <2>6, <2>7, <2>8, <2>9
  <2>11. Len(sienge'.meds) <= MaxMedicoes /\ Len(sienge'.tits) <= MaxMedicoes
    BY <1>0, <2>1, <2>2, <2>5
  <2> QED
    BY <2>2, <2>10, <2>11
<1> QED
  BY <1>1, <1>2 DEF FazMedir2

LEMMA Titular2Inv ==
  ASSUME IInv, NEW p \in Processos, FazTitular2(p), Fora(p)
  PROVE  /\ sienge' \in Sienge
         /\ Len(sienge'.meds) <= MaxMedicoes /\ Len(sienge'.tits) <= MaxMedicoes
         /\ Coerente'
<1>0. /\ row.med \in Nat /\ row.tit \in Nat /\ proc[p].num \in 1..Len(sienge.meds)
      /\ Len(sienge.meds) \in Nat /\ Len(sienge.tits) \in Nat /\ MaxMedicoes \in Nat
      /\ Len(sienge.meds) <= MaxMedicoes /\ Len(sienge.tits) <= MaxMedicoes
      /\ sienge \in Sienge
  BY PagamentoAssumption
     DEF IInv, TypeOK, DadosTypeOK, Launch, Processo, Numero, Sienge, FazTitular2
<1>1. CASE proc'[p].pc = "livre"
  <2>1. sienge' = sienge /\ row'.stage = "titulo_error"
    BY <1>1 DEF FazTitular2
  <2>0. /\ Tipos /\ Outros(p) /\ MesmaLinha /\ proc[p].pc = "titular2" /\ fora \subseteq fora'
    BY TiposValem DEF FazTitular2, Fora
  <2>2. Numeros' /\ AditivoDito'
    BY <1>0, <1>1, <2>0, <2>1 DEF IInv
  <2>3. ASSUME NaEsteira' PROVE Seguro'
    <3>1. Seguro
      BY <2>0, <2>3 DEF IInv
    <3>2. UmCorredor' /\ CorreForaDaEspera' /\ SemCredor' /\ SemPollAtrasado'
      BY <1>1, <2>0, <2>1, <3>1
    <3>3. Autorizado' /\ MedicoesRegulares' /\ Liberado' /\ TitulosLiberados'
      BY <1>1, <2>0, <2>1, <3>1
    <3> QED
      BY <3>2, <3>3
  <2>4. ASSUME NaEsteira', "refeito" \notin fora' PROVE ComTitulo'
    <3>1. ComTitulo /\ Seguro
      BY <2>0, <2>4 DEF IInv
    <3> QED
      BY <1>1, <2>0, <2>1, <3>1
  <2>5. ASSUME NaEsteira', fora' = {} PROVE Unicos'
    <3>1. Unicos /\ Seguro
      BY <2>0, <2>5 DEF IInv
    <3> QED
      BY <1>1, <2>0, <2>1, <3>1
  <2> QED
    BY <1>0, <2>1, <2>2, <2>3, <2>4, <2>5
<1>2. CASE proc'[p].pc = "titular3"
  <2> DEFINE t == [med |-> proc[p].num, pago |-> FALSE]
             n == Len(sienge.tits)
  <2>1. /\ t \in Titulo /\ row' = row /\ n < MaxMedicoes /\ proc'[p].num = n + 1
        /\ sienge' = [sienge EXCEPT !.tits = Append(@, t)]
    BY <1>0, <1>2 DEF FazTitular2, Titulo, Sienge
  <2>2. /\ Len(sienge'.tits) = n + 1 /\ sienge'.meds = sienge.meds
        /\ \A i \in 1..n : sienge'.tits[i] = sienge.tits[i]
        /\ sienge'.tits[n + 1] = t
        /\ sienge'.autorizado = sienge.autorizado /\ sienge' \in Sienge
    BY <2>1, AnexaTitulo DEF IInv
  <2>0. /\ Tipos /\ Tipos' /\ Outros(p) /\ proc[p].pc = "titular2" /\ row' = row
    BY <1>2, <2>1, TiposValem DEF FazTitular2
  <2>3. fora' = fora
    BY <1>2, LivreTipo DEF Fora
  <2>4. t.med = proc[p].num /\ t.pago = FALSE
    OBVIOUS
  <2> HIDE DEF t, n
  <2>5. n \in Nat /\ n = Len(sienge.tits)
    BY <1>0 DEF n
  <2>6. Numeros' /\ AditivoDito'
    <3>1. Numeros /\ AditivoDito
      BY DEF IInv
    <3>2. MedExiste' /\ TitExiste' /\ AditivoDito'
      BY <1>0, <1>2, <2>0, <2>2, <2>5, <3>1
    <3>3. NumExiste'
      <4>1. \A q \in Processos : proc[q].num \in Nat
        BY <2>0 DEF Tipos, Processo, Numero
      <4>2. \A q \in Processos \ {p} : proc'[q] = proc[q]
        BY <2>0
      <4>3. ASSUME NEW q \in Processos
            PROVE  /\ proc'[q].pc \in {"titular2", "pollMedicao2", "pollMedicao3"}
                        => proc'[q].num \in 1..Len(sienge'.meds)
                   /\ proc'[q].pc = "medir3" => proc'[q].num <= Len(sienge'.meds)
                   /\ proc'[q].pc = "titular3" => proc'[q].num <= Len(sienge'.tits)
                   /\ proc'[q].pc = "pollTitulo2" => proc'[q].num \in 1..Len(sienge'.tits)
        <5>1. CASE q # p
          BY <1>0, <2>2, <2>5, <3>1, <4>1, <4>2, <5>1
        <5>2. CASE q = p
          BY <1>0, <1>2, <2>1, <2>2, <2>5, <5>2
        <5> QED
          BY <5>1, <5>2
      <4> QED
        BY <4>3
    <3>4. TituloDeMedicao'
      BY <1>0, <2>2, <2>4, <2>5, <3>1
    <3> QED
      BY <3>2, <3>3, <3>4
  <2>7. ASSUME NaEsteira' PROVE Seguro'
    <3>1. Seguro /\ Numeros
      BY <2>3, <2>7 DEF IInv
    <3>2. UmCorredor' /\ CorreForaDaEspera' /\ SemCredor'
      BY <1>2, <2>0, <3>1 DEF Tipos
    <3>3. SemPollAtrasado'
      BY <1>2, <2>0, <3>1 DEF Tipos
    <3>4. Autorizado' /\ MedicoesRegulares'
      BY <1>0, <1>2, <2>0, <2>1, <2>2, <3>1 DEF Tipos
    <3>5. Liberado'
      BY <1>2, <2>0, <2>2, <3>1
    <3>6. TitulosLiberados'
      <4>1. Liberada(proc[p].num)
        BY <2>0, <3>1
      <4>2. \A i \in 1..(n + 1) : i \in 1..n \/ i = n + 1
        BY <2>5
      <4>3. \A i \in 1..n : sienge'.tits[i].med = sienge.tits[i].med
        BY <2>2
      <4>4. \A i \in 1..n : Liberada(sienge.tits[i].med)
        BY <2>5, <3>1
      <4> QED
        BY <2>2, <2>4, <4>1, <4>2, <4>3, <4>4
    <3> QED
      BY <3>2, <3>3, <3>4, <3>5, <3>6
  <2>8. ASSUME NaEsteira', "refeito" \notin fora' PROVE ComTitulo'
    <3>1. ComTitulo /\ Seguro /\ Numeros
      BY <2>3, <2>8 DEF IInv
    <3> QED
      BY <1>0, <1>2, <2>0, <2>1, <2>2, <2>5, <3>1 DEF Tipos
  <2>9. ASSUME NaEsteira', fora' = {} PROVE Unicos'
    <3>1. Unicos /\ Seguro
      BY <2>3, <2>9 DEF IInv
    <3>2. n = 0
      BY <2>0, <2>5, <3>1
    <3>3. Len(sienge'.tits) = 1 /\ Len(sienge'.meds) <= 1
      BY <2>0, <2>2, <3>1, <3>2
    <3>4. ~AntesDeTitular'
      BY <1>2, <2>0, <3>1 DEF Tipos
    <3>5. ~AntesDeMedir'
      BY <1>2, <2>0, <3>1 DEF Tipos
    <3> QED
      BY <3>3, <3>4, <3>5
  <2>10. Coerente'
    BY <2>6, <2>7, <2>8, <2>9
  <2>11. Len(sienge'.meds) <= MaxMedicoes /\ Len(sienge'.tits) <= MaxMedicoes
    BY <1>0, <2>1, <2>2, <2>5
  <2> QED
    BY <2>2, <2>10, <2>11
<1> QED
  BY <1>1, <1>2 DEF FazTitular2
-----------------------------------------------------------------------------
(* The registering of a boleto, and its replacement: late, any time. *)
LEMMA BoletoInv ==
  ASSUME IInv, NEW p \in Processos, Tipos', Outros(p), MesmaLinha, UNCHANGED sienge,
         fora \subseteq fora',
         ~Corre(p),
         proc'[p].pc \in {"livre", "pollContrato1", "pollMedicao1", "pollTitulo1"} \cup Boletos,
         row'.stage \in {row.stage, "awaiting_titulo_authorization"}
  PROVE  Coerente'
<1>0. /\ row.med \in Nat /\ row.tit \in Nat /\ proc[p].num \in Nat
      /\ Len(sienge.meds) \in Nat /\ Len(sienge.tits) \in Nat
  BY DEF IInv, TypeOK, DadosTypeOK, Launch, Processo, Numero, Sienge
<1>1. Numeros' /\ AditivoDito'
  BY <1>0 DEF IInv, Boletos, Tipos
<1>2. ASSUME NaEsteira' PROVE Seguro'
  <2>1. Seguro
    BY <1>2 DEF IInv
  <2>2. UmCorredor' /\ CorreForaDaEspera' /\ SemCredor'
    BY <1>0, <2>1 DEF Boletos, Tipos
  <2>3. SemPollAtrasado'
    BY <1>0, <2>1 DEF Boletos, Tipos
  <2>4. Autorizado' /\ MedicoesRegulares' /\ TitulosLiberados'
    BY <1>0, <2>1 DEF Boletos, Tipos
  <2>5. Liberado'
    BY <1>0, <2>1 DEF IInv, Boletos, Tipos
  <2> QED
    BY <2>2, <2>3, <2>4, <2>5
<1>3. ASSUME NaEsteira', "refeito" \notin fora' PROVE ComTitulo'
  <2>1. ComTitulo
    BY <1>3 DEF IInv
  <2> QED
    BY <1>0, <2>1 DEF IInv, Boletos, Tipos
<1>4. ASSUME NaEsteira', fora' = {} PROVE Unicos'
  <2>1. Unicos
    BY <1>4 DEF IInv
  <2> QED
    BY <1>0, <2>1 DEF IInv, Boletos, Tipos
<1> QED
  BY <1>1, <1>2, <1>3, <1>4

LEMMA PollContrato1Inv ==
  ASSUME IInv, NEW p \in Processos, FazPollContrato1(p), Fora(p) PROVE Coerente'
<1>0. /\ row.med \in Nat /\ row.tit \in Nat /\ proc[p].num \in Nat
      /\ Len(sienge.meds) \in Nat /\ Len(sienge.tits) \in Nat
  BY DEF IInv, TypeOK, DadosTypeOK, Launch, Processo, Numero, Sienge
<1>1. Numeros' /\ AditivoDito'
  BY <1>0 DEF IInv, FazPollContrato1, Tipos
<1>2. ASSUME NaEsteira' PROVE Seguro'
  <2>1. Seguro
    BY <1>2 DEF IInv, Fora
  <2>2. UmCorredor' /\ CorreForaDaEspera' /\ SemCredor'
    BY <1>0, <2>1 DEF FazPollContrato1, Tipos
  <2>3. SemPollAtrasado'
    BY <1>0, <2>1 DEF FazPollContrato1, Tipos
  <2>4. Autorizado' /\ MedicoesRegulares' /\ TitulosLiberados'
    BY <1>0, <2>1 DEF FazPollContrato1, Tipos
  <2>5. Liberado'
    BY <1>0, <2>1 DEF IInv, FazPollContrato1, Tipos
  <2> QED
    BY <2>2, <2>3, <2>4, <2>5
<1>3. ASSUME NaEsteira', "refeito" \notin fora' PROVE ComTitulo'
  <2>1. ComTitulo
    BY <1>3 DEF IInv, Fora
  <2> QED
    BY <1>0, <2>1 DEF IInv, FazPollContrato1, Tipos
<1>4. ASSUME NaEsteira', fora' = {} PROVE Unicos'
  <2>1. Unicos
    BY <1>4 DEF IInv, Fora
  <2> QED
    BY <1>0, <2>1 DEF IInv, FazPollContrato1, Em, Fora, Tipos
<1> QED
  BY <1>1, <1>2, <1>3, <1>4

LEMMA PollContrato2Inv ==
  ASSUME IInv, NEW p \in Processos, FazPollContrato2(p), Fora(p) PROVE Coerente'
<1>0. /\ row.med \in Nat /\ row.tit \in Nat /\ proc[p].num \in Nat
      /\ Len(sienge.meds) \in Nat /\ Len(sienge.tits) \in Nat
  BY DEF IInv, TypeOK, DadosTypeOK, Launch, Processo, Numero, Sienge
<1>1. Numeros' /\ AditivoDito'
  BY <1>0 DEF IInv, FazPollContrato2, Tipos
<1>2. ASSUME NaEsteira' PROVE Seguro'
  <2>1. Seguro
    BY <1>2 DEF IInv, Fora
  <2>2. UmCorredor' /\ CorreForaDaEspera' /\ SemCredor'
    BY <1>0, <2>1 DEF FazPollContrato2, Tipos
  <2>3. SemPollAtrasado'
    BY <1>0, <2>1 DEF FazPollContrato2, Tipos
  <2>4. Autorizado' /\ MedicoesRegulares' /\ TitulosLiberados'
    BY <1>0, <2>1 DEF FazPollContrato2, Tipos
  <2>5. Liberado'
    BY <1>0, <2>1 DEF IInv, FazPollContrato2, Tipos
  <2> QED
    BY <2>2, <2>3, <2>4, <2>5
<1>3. ASSUME NaEsteira', "refeito" \notin fora' PROVE ComTitulo'
  <2>1. ComTitulo
    BY <1>3 DEF IInv, Fora
  <2> QED
    BY <1>0, <2>1 DEF IInv, FazPollContrato2, Tipos
<1>4. ASSUME NaEsteira', fora' = {} PROVE Unicos'
  <2>1. Unicos
    BY <1>4 DEF IInv, Fora
  <2> QED
    BY <1>0, <2>1 DEF IInv, FazPollContrato2, Em, Fora, Tipos
<1> QED
  BY <1>1, <1>2, <1>3, <1>4

LEMMA PollContrato3Inv ==
  ASSUME IInv, NEW p \in Processos, FazPollContrato3(p), Fora(p) PROVE Coerente'
<1>0. /\ row.med \in Nat /\ row.tit \in Nat /\ proc[p].num \in Nat
      /\ Len(sienge.meds) \in Nat /\ Len(sienge.tits) \in Nat
  BY DEF IInv, TypeOK, DadosTypeOK, Launch, Processo, Numero, Sienge
<1>1. Numeros' /\ AditivoDito'
  BY <1>0 DEF IInv, FazPollContrato3, Tipos
<1>2. ASSUME NaEsteira' PROVE Seguro'
  <2>1. Seguro
    BY <1>2 DEF IInv, Fora
  <2>2. UmCorredor' /\ CorreForaDaEspera' /\ SemCredor'
    BY <1>0, <2>1 DEF FazPollContrato3, Tipos
  <2>3. SemPollAtrasado'
    BY <1>0, <2>1 DEF FazPollContrato3, Tipos
  <2>4. Autorizado' /\ MedicoesRegulares' /\ TitulosLiberados'
    BY <1>0, <2>1 DEF FazPollContrato3, Tipos
  <2>5. Liberado'
    BY <1>0, <2>1 DEF IInv, FazPollContrato3, Tipos
  <2> QED
    BY <2>2, <2>3, <2>4, <2>5
<1>3. ASSUME NaEsteira', "refeito" \notin fora' PROVE ComTitulo'
  <2>1. ComTitulo /\ Seguro
    BY <1>3 DEF IInv, Fora
  <2> QED
    BY <1>0, <2>1 DEF IInv, FazPollContrato3, Tipos
<1>4. ASSUME NaEsteira', fora' = {} PROVE Unicos'
  <2>1. Unicos /\ Seguro
    BY <1>4 DEF IInv, Fora
  <2> QED
    BY <1>0, <2>1 DEF IInv, FazPollContrato3, Em, Fora, Tipos
<1> QED
  BY <1>1, <1>2, <1>3, <1>4

LEMMA PollMedicao1Inv ==
  ASSUME IInv, NEW p \in Processos, FazPollMedicao1(p), Fora(p) PROVE Coerente'
<1>0. /\ row.med \in Nat /\ row.tit \in Nat /\ proc[p].num \in Nat
      /\ Len(sienge.meds) \in Nat /\ Len(sienge.tits) \in Nat
  BY DEF IInv, TypeOK, DadosTypeOK, Launch, Processo, Numero, Sienge
<1>1. Numeros' /\ AditivoDito'
  BY <1>0 DEF IInv, FazPollMedicao1, Tipos
<1>2. ASSUME NaEsteira' PROVE Seguro'
  <2>1. Seguro
    BY <1>2 DEF IInv, Fora
  <2>2. UmCorredor' /\ CorreForaDaEspera' /\ SemCredor'
    BY <1>0, <2>1 DEF FazPollMedicao1, Tipos
  <2>3. SemPollAtrasado'
    BY <1>0, <2>1 DEF FazPollMedicao1, Tipos
  <2>4. Autorizado' /\ MedicoesRegulares' /\ TitulosLiberados'
    BY <1>0, <2>1 DEF FazPollMedicao1, Tipos
  <2>5. Liberado'
    BY <1>0, <2>1 DEF IInv, FazPollMedicao1, Tipos
  <2> QED
    BY <2>2, <2>3, <2>4, <2>5
<1>3. ASSUME NaEsteira', "refeito" \notin fora' PROVE ComTitulo'
  <2>1. ComTitulo
    BY <1>3 DEF IInv, Fora
  <2> QED
    BY <1>0, <2>1 DEF IInv, FazPollMedicao1, Tipos
<1>4. ASSUME NaEsteira', fora' = {} PROVE Unicos'
  <2>1. Unicos
    BY <1>4 DEF IInv, Fora
  <2> QED
    BY <1>0, <2>1 DEF IInv, FazPollMedicao1, Em, Fora, Tipos
<1> QED
  BY <1>1, <1>2, <1>3, <1>4

LEMMA PollMedicao2Inv ==
  ASSUME IInv, NEW p \in Processos, FazPollMedicao2(p), Fora(p) PROVE Coerente'
<1>0. /\ row.med \in Nat /\ row.tit \in Nat /\ proc[p].num \in Nat
      /\ Len(sienge.meds) \in Nat /\ Len(sienge.tits) \in Nat
  BY DEF IInv, TypeOK, DadosTypeOK, Launch, Processo, Numero, Sienge
<1>1. Numeros' /\ AditivoDito'
  BY <1>0 DEF IInv, FazPollMedicao2, Tipos
<1>2. ASSUME NaEsteira' PROVE Seguro'
  <2>1. Seguro
    BY <1>2 DEF IInv, Fora
  <2>2. UmCorredor' /\ CorreForaDaEspera' /\ SemCredor'
    BY <1>0, <2>1 DEF FazPollMedicao2, Tipos
  <2>3. SemPollAtrasado'
    BY <1>0, <2>1 DEF FazPollMedicao2, Tipos
  <2>4. Autorizado' /\ MedicoesRegulares' /\ TitulosLiberados'
    BY <1>0, <2>1 DEF FazPollMedicao2, Tipos
  <2>5. Liberado'
    BY <1>0, <2>1 DEF IInv, FazPollMedicao2, Tipos
  <2> QED
    BY <2>2, <2>3, <2>4, <2>5
<1>3. ASSUME NaEsteira', "refeito" \notin fora' PROVE ComTitulo'
  <2>1. ComTitulo
    BY <1>3 DEF IInv, Fora
  <2> QED
    BY <1>0, <2>1 DEF IInv, FazPollMedicao2, Tipos
<1>4. ASSUME NaEsteira', fora' = {} PROVE Unicos'
  <2>1. Unicos
    BY <1>4 DEF IInv, Fora
  <2> QED
    BY <1>0, <2>1 DEF IInv, FazPollMedicao2, Em, Fora, Tipos
<1> QED
  BY <1>1, <1>2, <1>3, <1>4

LEMMA PollMedicao3Inv ==
  ASSUME IInv, NEW p \in Processos, FazPollMedicao3(p), Fora(p) PROVE Coerente'
<1>0. /\ row.med \in Nat /\ row.tit \in Nat /\ proc[p].num \in Nat
      /\ Len(sienge.meds) \in Nat /\ Len(sienge.tits) \in Nat
  BY DEF IInv, TypeOK, DadosTypeOK, Launch, Processo, Numero, Sienge
<1>1. Numeros' /\ AditivoDito'
  BY <1>0 DEF IInv, FazPollMedicao3, Tipos
<1>2. ASSUME NaEsteira' PROVE Seguro'
  <2>1. Seguro
    BY <1>2 DEF IInv, Fora
  <2>2. UmCorredor' /\ CorreForaDaEspera' /\ SemCredor'
    BY <1>0, <2>1 DEF FazPollMedicao3, Tipos
  <2>3. SemPollAtrasado'
    BY <1>0, <2>1 DEF FazPollMedicao3, Tipos
  <2>4. Autorizado' /\ MedicoesRegulares' /\ TitulosLiberados'
    BY <1>0, <2>1 DEF FazPollMedicao3, Tipos
  <2>5. Liberado'
    BY <1>0, <2>1 DEF IInv, FazPollMedicao3, Tipos
  <2> QED
    BY <2>2, <2>3, <2>4, <2>5
<1>3. ASSUME NaEsteira', "refeito" \notin fora' PROVE ComTitulo'
  <2>1. ComTitulo
    BY <1>3 DEF IInv, Fora
  <2> QED
    BY <1>0, <2>1 DEF IInv, FazPollMedicao3, Tipos
<1>4. ASSUME NaEsteira', fora' = {} PROVE Unicos'
  <2>1. Unicos
    BY <1>4 DEF IInv, Fora
  <2> QED
    BY <1>0, <2>1 DEF IInv, FazPollMedicao3, Em, Fora, Tipos
<1> QED
  BY <1>1, <1>2, <1>3, <1>4

LEMMA PollTitulo1Inv ==
  ASSUME IInv, NEW p \in Processos, FazPollTitulo1(p), Fora(p) PROVE Coerente'
<1>0. /\ row.med \in Nat /\ row.tit \in Nat /\ proc[p].num \in Nat
      /\ Len(sienge.meds) \in Nat /\ Len(sienge.tits) \in Nat
  BY DEF IInv, TypeOK, DadosTypeOK, Launch, Processo, Numero, Sienge
<1>1. Numeros' /\ AditivoDito'
  BY <1>0 DEF IInv, FazPollTitulo1, Tipos
<1>2. ASSUME NaEsteira' PROVE Seguro'
  <2>1. Seguro
    BY <1>2 DEF IInv, Fora
  <2>2. UmCorredor' /\ CorreForaDaEspera' /\ SemCredor'
    BY <1>0, <2>1 DEF FazPollTitulo1, Tipos
  <2>3. SemPollAtrasado'
    BY <1>0, <2>1 DEF FazPollTitulo1, Tipos
  <2>4. Autorizado' /\ MedicoesRegulares' /\ TitulosLiberados'
    BY <1>0, <2>1 DEF FazPollTitulo1, Tipos
  <2>5. Liberado'
    BY <1>0, <2>1 DEF IInv, FazPollTitulo1, Tipos
  <2> QED
    BY <2>2, <2>3, <2>4, <2>5
<1>3. ASSUME NaEsteira', "refeito" \notin fora' PROVE ComTitulo'
  <2>1. ComTitulo
    BY <1>3 DEF IInv, Fora
  <2> QED
    BY <1>0, <2>1 DEF IInv, FazPollTitulo1, Tipos
<1>4. ASSUME NaEsteira', fora' = {} PROVE Unicos'
  <2>1. Unicos
    BY <1>4 DEF IInv, Fora
  <2> QED
    BY <1>0, <2>1 DEF IInv, FazPollTitulo1, Em, Fora, Tipos
<1> QED
  BY <1>1, <1>2, <1>3, <1>4

LEMMA PollTitulo2Inv ==
  ASSUME IInv, NEW p \in Processos, FazPollTitulo2(p), Fora(p) PROVE Coerente'
<1>0. /\ row.med \in Nat /\ row.tit \in Nat /\ proc[p].num \in Nat
      /\ Len(sienge.meds) \in Nat /\ Len(sienge.tits) \in Nat
  BY DEF IInv, TypeOK, DadosTypeOK, Launch, Processo, Numero, Sienge
<1>1. Numeros' /\ AditivoDito'
  BY <1>0 DEF IInv, FazPollTitulo2, Tipos
<1>2. ASSUME NaEsteira' PROVE Seguro'
  <2>1. Seguro
    BY <1>2 DEF IInv, Fora
  <2>2. UmCorredor' /\ CorreForaDaEspera' /\ SemCredor'
    BY <1>0, <2>1 DEF FazPollTitulo2, Tipos
  <2>3. SemPollAtrasado'
    BY <1>0, <2>1 DEF FazPollTitulo2, Tipos
  <2>4. Autorizado' /\ MedicoesRegulares' /\ TitulosLiberados'
    BY <1>0, <2>1 DEF FazPollTitulo2, Tipos
  <2>5. Liberado'
    BY <1>0, <2>1 DEF IInv, FazPollTitulo2, Tipos
  <2> QED
    BY <2>2, <2>3, <2>4, <2>5
<1>3. ASSUME NaEsteira', "refeito" \notin fora' PROVE ComTitulo'
  <2>1. ComTitulo
    BY <1>3 DEF IInv, Fora
  <2> QED
    BY <1>0, <2>1 DEF IInv, FazPollTitulo2, Tipos
<1>4. ASSUME NaEsteira', fora' = {} PROVE Unicos'
  <2>1. Unicos
    BY <1>4 DEF IInv, Fora
  <2> QED
    BY <1>0, <2>1 DEF IInv, FazPollTitulo2, Em, Fora, Tipos
<1> QED
  BY <1>1, <1>2, <1>3, <1>4
=============================================================================
