-------------------------- MODULE PaymentFlow_proofs --------------------------
(***************************************************************************)
(* The safety of PaymentFlow for every number of processes, requests,      *)
(* measurements and restarts: what people, schedulers, Sienge and restarts *)
(* do keeps the invariant of PaymentFlow_passos too, and the properties    *)
(* that MCPaymentFlow checks follow from it.                               *)
(***************************************************************************)
EXTENDS PaymentFlow_passos

(* What is started, written or changed outside of a step, and the invariant. *)

USE DEF Coerente, Numeros, MedExiste, TitExiste, NumExiste, TituloDeMedicao, AditivoDito,
        NaEsteira, Seguro, UmCorredor, CorreForaDaEspera, Corre, SemCredor, SemPollAtrasado,
        Autorizado, MedicoesRegulares, Liberado, Liberada, TitulosLiberados,
        ComTitulo, Unicos, Cedo, AntesDeMedir, AteMedida, AntesDeTitular, Parada, Terminais,
        PollaContrato, PollaMedicao, Esteira, Inicio, Medindo, Titulando,
        MesmaLinha, Outros

SiengeTipo == /\ sienge \in Sienge
              /\ Len(sienge.meds) <= MaxMedicoes /\ Len(sienge.tits) <= MaxMedicoes

LEMMA TipoTodo ==
  ASSUME TypeOK, Tipos', SiengeTipo', pedidos' \in 0..MaxPedidos, quedas' \in 0..MaxQuedas,
         fora' \subseteq fora \cup {"incerta", "queda", "refeito", "clique", "mao"}
  PROVE  TypeOK'
  BY DEF TypeOK, DadosTypeOK, Tipos, SiengeTipo

LEMMA SiengeIgual == ASSUME IInv, UNCHANGED sienge PROVE SiengeTipo'
  BY DEF IInv, TypeOK, DadosTypeOK, SiengeTipo

\* Nothing that Sienge holds changes, and the history only grows.
LEMMA InicioTipo ==
  ASSUME IInv, Tipos', UNCHANGED <<sienge, quedas>>,
         pedidos' = pedidos \/ (pedidos < MaxPedidos /\ pedidos' = pedidos + 1),
         fora' \subseteq fora \cup {"refeito", "clique", "mao"}
  PROVE  TypeOK'
<1>1. SiengeTipo' /\ quedas' \in 0..MaxQuedas
  BY SiengeIgual DEF IInv, TypeOK
<1>2. pedidos' \in 0..MaxPedidos
  BY PagamentoAssumption DEF IInv, TypeOK, DadosTypeOK
<1> QED
  BY <1>1, <1>2, TipoTodo DEF IInv

\* What people do by hand is out of the automatic course.
LEMMA AMaoInv ==
  ASSUME IInv, NEW p \in Processos, Outros(p), UNCHANGED sienge, ~NaEsteira',
         row'.auto = row.auto, row'.med = row.med,
         row'.tit = row.tit \/ row'.tit \in 1..Len(sienge.tits),
         proc'[p].pc \in {"credor1", "contrato1", "valida1", "criar1", "titular1", "registrar1"}
  PROVE  Coerente'
<1>1. /\ Len(sienge.meds) \in Nat /\ Len(sienge.tits) \in Nat
      /\ proc \in [Processos -> Processo]
  BY DEF IInv, TypeOK, DadosTypeOK, Sienge
<1>2. Numeros' /\ AditivoDito'
  BY <1>1 DEF IInv
<1> QED
  BY <1>2

\* A run that starts where the last one ended, or over again.
LEMMA PartidaInv ==
  ASSUME IInv, NEW p \in Processos, Iniciar(p), Sozinho,
         proc[p].pc = "livre",
         fora' = fora \/ fora' = fora \cup {"refeito"},
         UmaPorVez =>
           \/ row.stage \in Terminais
           \/ row.credor = "not_found" /\ row.stage \notin Terminais
           \/ Recomeca /\ "refeito" \in fora' /\ \A q \in Processos : proc[q].pc = "livre"
  PROVE  Coerente'
<1>0. /\ Tipos' /\ Outros(p) /\ MesmaLinha /\ UNCHANGED sienge /\ Tipos
      /\ proc'[p].pc = CASE row.stage = "measurement_error" -> "medir1"
                         [] row.stage = "titulo_error" -> "titular1"
                         [] OTHER -> "credor1"
      /\ row'.stage = IF row.stage \in Stuck THEN "idle" ELSE row.stage
  BY TiposValem, IniciarFato
<1>1. proc'[p].pc \in {"medir1", "titular1", "credor1"} /\ fora \subseteq fora'
  BY <1>0
<1>2. Numeros' /\ AditivoDito'
  BY <1>0, <1>1 DEF IInv, Tipos
<1>3. ASSUME NaEsteira' PROVE Seguro'
  <2>1. Seguro /\ \A q \in Processos : ~Corre(q)
    BY <1>1, <1>3 DEF IInv, Sozinho, Polls
  <2>2. UmCorredor'
    BY <1>0, <2>1 DEF Tipos
  <2>3. CorreForaDaEspera' /\ SemCredor'
    BY <1>0, <1>1, <1>3, <2>1 DEF Recomeca, Stuck, Tipos
  <2>4. SemPollAtrasado'
    BY <1>0, <1>3, <2>1 DEF Recomeca, Stuck, Tipos
  <2>5. Autorizado' /\ MedicoesRegulares'
    BY <1>0, <2>1 DEF Stuck, Tipos
  <2>6. Liberado' /\ TitulosLiberados'
    BY <1>0, <2>1 DEF Stuck, Tipos
  <2> QED
    BY <2>2, <2>3, <2>4, <2>5, <2>6
<1>4. ASSUME NaEsteira', "refeito" \notin fora' PROVE ComTitulo'
  <2>1. ComTitulo /\ Seguro
    BY <1>1, <1>4 DEF IInv
  <2>2. row.stage \in Terminais \/ row.credor = "not_found"
    BY <1>4
  <2>3. row.tit = 0 /\ row.stage # "titulo_pago"
    BY <2>1, <2>2
  <2> QED
    BY <1>0, <1>1, <2>1, <2>3 DEF Stuck, Tipos
<1>5. ASSUME NaEsteira', fora' = {} PROVE Unicos'
  <2>1. Unicos /\ Seguro
    BY <1>1, <1>5 DEF IInv
  <2>2. row.stage \in Terminais \/ row.credor = "not_found"
    BY <1>5
  <2> QED
    BY <1>0, <1>1, <2>1, <2>2 DEF Stuck, Tipos
<1> QED
  BY <1>2, <1>3, <1>4, <1>5

LEMMA ContinuarInv == ASSUME IInv, NEW p \in Processos, Continuar(p) PROVE IInv'
<1>1. /\ Tipos /\ Sozinho /\ proc[p].pc = "livre"
      /\ pedidos < MaxPedidos /\ pedidos' = pedidos + 1 /\ UNCHANGED <<sienge, quedas, fora>>
      /\ UmaPorVez => row.stage = "contract_manual_block"
      /\ row' = [row EXCEPT !.auto = TRUE]
  BY TiposValem DEF Continuar, Pedir, Botao, Em
<1>2. /\ proc' \in [Processos -> Processo] /\ Outros(p) /\ proc'[p].pc = "aditivo1"
  BY <1>1, IrFato DEF Continuar, Pcs, Esteira
<1>3. /\ row' \in Launch /\ row'.auto /\ row'.stage = row.stage /\ row'.credor = row.credor
      /\ row'.med = row.med /\ row'.tit = row.tit
  BY <1>1 DEF Tipos, Launch
<1>4. Tipos' /\ TypeOK'
  <2>1. Tipos'
    BY <1>2, <1>3 DEF Tipos
  <2> QED
    BY <1>1, <2>1, InicioTipo
<1>5. Numeros' /\ AditivoDito'
  BY <1>1, <1>2, <1>3 DEF IInv, Tipos
<1>6. ASSUME NaEsteira' PROVE Seguro'
  <2>1. Seguro /\ (\A q \in Processos : ~Corre(q)) /\ row.stage = "contract_manual_block"
    BY <1>1, <1>6 DEF IInv, Sozinho, Polls
  <2> QED
    BY <1>1, <1>2, <1>3, <2>1 DEF Tipos
<1>7. ASSUME NaEsteira', "refeito" \notin fora' PROVE ComTitulo'
  <2>1. ComTitulo /\ row.stage = "contract_manual_block"
    BY <1>1, <1>7 DEF IInv
  <2> QED
    BY <1>1, <1>2, <1>3, <2>1 DEF Tipos
<1>8. ASSUME NaEsteira', fora' = {} PROVE Unicos'
  <2>1. Unicos /\ row.stage = "contract_manual_block"
    BY <1>1, <1>8 DEF IInv
  <2> QED
    BY <1>1, <1>2, <1>3, <2>1 DEF Tipos
<1>9. Coerente'
  BY <1>5, <1>6, <1>7, <1>8
<1> QED
  BY <1>4, <1>9 DEF IInv

LEMMA LinhaInv ==
  ASSUME IInv, MesmaLinha, row' \in Launch, UNCHANGED <<sienge, proc, quedas>>, fora' = fora,
         pedidos < MaxPedidos, pedidos' = pedidos + 1, row'.stage \in {row.stage, "aborted"}
  PROVE  IInv'
<1>1. TypeOK'
  BY InicioTipo, TiposValem DEF Tipos
<1>2. Numeros' /\ AditivoDito'
  BY DEF IInv
<1>3. ASSUME NaEsteira' PROVE Seguro'
  <2>1. Seguro
    BY <1>3 DEF IInv
  <2> QED
    BY <2>1
<1>4. ASSUME NaEsteira', "refeito" \notin fora' PROVE ComTitulo'
  <2>1. ComTitulo
    BY <1>4 DEF IInv
  <2> QED
    BY <2>1
<1>5. ASSUME NaEsteira', fora' = {} PROVE Unicos'
  <2>1. Unicos
    BY <1>5 DEF IInv
  <2> QED
    BY <2>1
<1>6. Coerente'
  BY <1>2, <1>3, <1>4, <1>5
<1> QED
  BY <1>1, <1>6 DEF IInv

\* Sienge only gains: a supplier, an authorization, a payment.
LEMMA SoGanhaInv ==
  ASSUME IInv, UNCHANGED <<row, proc, pedidos, quedas, fora>>, sienge' \in Sienge,
         Len(sienge'.meds) = Len(sienge.meds), Len(sienge'.tits) = Len(sienge.tits),
         sienge.autorizado => sienge'.autorizado,
         \A m \in 1..Len(sienge.meds) :
           /\ sienge'.meds[m].regular = sienge.meds[m].regular
           /\ sienge.meds[m].autorizada => sienge'.meds[m].autorizada,
         \A t \in 1..Len(sienge.tits) :
           /\ sienge'.tits[t].med = sienge.tits[t].med
           /\ sienge.tits[t].pago => sienge'.tits[t].pago
  PROVE  IInv'
<1>0. /\ row.med \in Nat /\ row.tit \in Nat /\ Len(sienge.meds) \in Nat
      /\ Len(sienge.tits) \in Nat /\ proc \in [Processos -> Processo] /\ sienge \in Sienge
  BY DEF IInv, TypeOK, DadosTypeOK, Launch, Numero, Sienge
<1>1. TypeOK'
  BY DEF IInv, TypeOK, DadosTypeOK
<1>2. Numeros' /\ AditivoDito'
  BY DEF IInv
<1>3. ASSUME NaEsteira' PROVE Seguro'
  <2>1. Seguro /\ Numeros
    BY <1>3 DEF IInv
  <2>2. /\ UmCorredor' /\ CorreForaDaEspera' /\ SemCredor' /\ SemPollAtrasado'
        /\ Autorizado' /\ MedicoesRegulares'
    BY <2>1
  <2>3. \A n \in 0..Len(sienge.meds) : Liberada(n) => Liberada(n)'
    OBVIOUS
  <2>4. Liberado'
    <3>1. \A p \in Processos : proc[p].pc \in {"titular2", "pollMedicao3"}
            => proc[p].num \in 0..Len(sienge.meds)
      BY <1>0, <2>1
    <3>2. row.med \in 0..Len(sienge.meds)
      BY <1>0, <2>1
    <3> QED
      BY <2>1, <2>3, <3>1, <3>2
  <2>5. TitulosLiberados'
    <3>1. \A t \in 1..Len(sienge.tits) : sienge.tits[t].med \in 0..Len(sienge.meds)
      BY <1>0, <2>1, MedidaDoTitulo
    <3> QED
      BY <2>1, <2>3, <3>1
  <2> QED
    BY <2>2, <2>4, <2>5
<1>4. ASSUME NaEsteira', "refeito" \notin fora' PROVE ComTitulo'
  <2>1. ComTitulo /\ Numeros
    BY <1>4 DEF IInv
  <2> QED
    BY <1>0, <2>1
<1>5. ASSUME NaEsteira', fora' = {} PROVE Unicos'
  <2>1. Unicos
    BY <1>5 DEF IInv
  <2> QED
    BY <2>1
<1>6. Coerente'
  BY <1>2, <1>3, <1>4, <1>5
<1> QED
  BY <1>1, <1>6 DEF IInv

LEMMA ReiniciarInv == ASSUME IInv, Reiniciar PROVE IInv'
<1>1. /\ proc' = [q \in Processos |-> Livre] /\ UNCHANGED <<row, sienge, pedidos>>
      /\ fora' = (IF proc' = proc THEN fora ELSE fora \cup {"queda"})
      /\ quedas < MaxQuedas /\ quedas' = quedas + 1
  BY DEF Reiniciar
<1>2. \A q \in Processos : proc'[q].pc = "livre"
  BY <1>1, LivreTipo
<1>3. Tipos' /\ SiengeTipo' /\ fora \subseteq fora'
  BY <1>1, TiposValem, LivreTipo, SiengeIgual DEF Tipos
<1>4. TypeOK'
  <2>1. quedas' \in 0..MaxQuedas /\ pedidos' \in 0..MaxPedidos
    BY <1>1, QuedasAssumption DEF IInv, TypeOK, DadosTypeOK
  <2> QED
    BY <1>1, <1>3, <2>1, TipoTodo DEF IInv
<1>5. Numeros' /\ AditivoDito'
  BY <1>1, <1>2 DEF IInv
<1>6. ASSUME NaEsteira' PROVE Seguro'
  <2>1. Seguro
    BY <1>3, <1>6 DEF IInv
  <2> QED
    BY <1>1, <1>2, <2>1
<1>7. ASSUME NaEsteira', "refeito" \notin fora' PROVE ComTitulo'
  <2>1. ComTitulo
    BY <1>3, <1>7 DEF IInv
  <2> QED
    BY <1>1, <1>2, <2>1
<1>8. ASSUME NaEsteira', fora' = {} PROVE Unicos'
  <2>1. Unicos
    BY <1>3, <1>8 DEF IInv
  <2>2. proc' = proc
    BY <1>1, <1>8
  <2> QED
    BY <1>1, <2>1, <2>2
<1>9. Coerente'
  BY <1>5, <1>6, <1>7, <1>8
<1> QED
  BY <1>4, <1>9 DEF IInv

LEMMA ParadoInv == ASSUME IInv, UNCHANGED vars PROVE IInv'
  BY DEF vars, dadosVars, IInv, TypeOK, DadosTypeOK

LEMMA InitIInv == Init => IInv
<1> SUFFICES ASSUME Init PROVE IInv
  OBVIOUS
<1>1. /\ row = [stage |-> "idle", status |-> "fornecedor", credor |-> "vazio", cid |-> FALSE,
                rid |-> FALSE, contrato |-> FALSE, auto |-> FALSE, med |-> 0, tit |-> 0,
                boleto |-> "ok"]
      /\ proc = [p \in Processos |-> Livre] /\ pedidos = 0 /\ fora = {} /\ quedas = 0
      /\ sienge \in [credor: BOOLEAN, contrato: {"nada", "manual"}, autorizado: {TRUE},
                     meds: {<<>>}, tits: {<<>>}]
  BY DEF Init, DadosInit
<1>2. sienge.meds = <<>> /\ sienge.tits = <<>> /\ Len(sienge.meds) = 0 /\ Len(sienge.tits) = 0
      /\ sienge \in Sienge
  <2>1. sienge.meds = <<>> /\ sienge.tits = <<>>
    BY <1>1
  <2>2. <<>> \in Seq(Medicao) /\ <<>> \in Seq(Titulo)
    OBVIOUS
  <2> QED
    BY <1>1, <2>1, <2>2 DEF Sienge
<1>3. row \in Launch
  BY <1>1, PagamentoAssumption DEF Launch, Stages, Status, Numero
<1>4. \A p \in Processos : proc[p].pc = "livre" /\ proc[p] \in Processo
  BY <1>1, LivreTipo
<1>5. TypeOK
  BY <1>1, <1>2, <1>3, <1>4, PagamentoAssumption, QuedasAssumption
     DEF TypeOK, DadosTypeOK
<1>6. row.stage = "idle" /\ row.med = 0 /\ row.tit = 0 /\ row.credor = "vazio"
  BY <1>1
<1>7. Coerente
  BY <1>2, <1>4, <1>6
<1> QED
  BY <1>5, <1>7 DEF IInv
-----------------------------------------------------------------------------
(* The steps of the processes together; from here on the invariant is a name. *)

HIDE DEF Coerente, Numeros, MedExiste, TitExiste, NumExiste, TituloDeMedicao,
         AditivoDito, Seguro, UmCorredor, CorreForaDaEspera, SemCredor, SemPollAtrasado,
         Autorizado, MedicoesRegulares, Liberado, Liberada, TitulosLiberados, ComTitulo,
         Unicos, Cedo, AntesDeMedir, AteMedida, AntesDeTitular, Parada, Terminais,
         PollaContrato, PollaMedicao

\* A contract, or its additive: what Sienge holds waits for an authorization.
LEMMA SiengeContrato ==
  ASSUME IInv, NEW c \in {sienge.contrato, "robo"},
         sienge' = [sienge EXCEPT !.contrato = c, !.autorizado = FALSE]
  PROVE  SiengeTipo' /\ sienge'.meds = sienge.meds /\ sienge'.tits = sienge.tits
<1>1. SiengeTipo
  BY DEF IInv, TypeOK, DadosTypeOK, SiengeTipo
<1>2. c \in {"nada", "manual", "robo"}
  BY <1>1 DEF SiengeTipo, Sienge
<1>3. /\ sienge' \in Sienge
      /\ sienge'.meds = sienge.meds /\ sienge'.tits = sienge.tits
  BY <1>1, <1>2 DEF SiengeTipo, Sienge
<1> QED
  BY <1>1, <1>3 DEF SiengeTipo

LEMMA Criar2Inv ==
  ASSUME IInv, NEW p \in Processos, FazCriar2(p), Fora(p)
  PROVE  SiengeTipo' /\ Coerente'
<1>1. CASE sienge' = sienge /\ proc'[p].pc = "livre" /\ row'.stage = "contract_error"
  <2>1. SiengeTipo'
    BY <1>1, SiengeIgual
  <2> QED
    BY <1>1, <2>1, InicioInv DEF FazCriar2, Fora
<1>2. CASE /\ proc'[p].pc = "criar3" /\ row' = row
           /\ sienge' = [sienge EXCEPT !.contrato = "robo", !.autorizado = FALSE]
  <2>1. SiengeTipo' /\ sienge'.meds = sienge.meds /\ sienge'.tits = sienge.tits
    BY <1>2, SiengeContrato
  <2> QED
    BY <1>2, <2>1, InicioInv DEF FazCriar2, Fora
<1> QED
  BY <1>1, <1>2 DEF FazCriar2

LEMMA Aditivo2Inv ==
  ASSUME IInv, NEW p \in Processos, FazAditivo2(p), Fora(p)
  PROVE  SiengeTipo' /\ Coerente'
<1>1. CASE sienge' = sienge /\ proc'[p].pc = "livre" /\ row'.stage = "additive_error"
  <2>1. SiengeTipo'
    BY <1>1, SiengeIgual
  <2> QED
    BY <1>1, <2>1, InicioInv DEF FazAditivo2, Fora
<1>2. CASE /\ proc'[p].pc = "aditivo3" /\ row' = row
           /\ sienge' = [sienge EXCEPT !.autorizado = FALSE]
  <2>1. sienge' = [sienge EXCEPT !.contrato = sienge.contrato, !.autorizado = FALSE]
    BY <1>2 DEF IInv, TypeOK, DadosTypeOK, Sienge
  <2>2. SiengeTipo' /\ sienge'.meds = sienge.meds /\ sienge'.tits = sienge.tits
    BY <2>1, SiengeContrato
  <2> QED
    BY <1>2, <2>2, InicioInv DEF FazAditivo2, Fora
<1> QED
  BY <1>1, <1>2 DEF FazAditivo2

LEMMA Trocar1Fato ==
  ASSUME Tipos, NEW p \in Processos, Trocar1(p)
  PROVE  /\ Tipos' /\ Outros(p) /\ UNCHANGED <<row, sienge>>
         /\ proc[p].pc = "trocar1" /\ proc'[p].pc \in {"livre", "trocar2"}
  BY IrFato, FimFato DEF Trocar1, Tipos, Em, Pcs, Boletos

LEMMA Trocar2Fato ==
  ASSUME Tipos, NEW p \in Processos, Trocar2(p)
  PROVE  /\ Tipos' /\ Outros(p) /\ MesmaLinha /\ UNCHANGED sienge
         /\ proc[p].pc = "trocar2" /\ proc'[p].pc = "livre"
         /\ row'.stage \in {row.stage, "awaiting_titulo_authorization"}
  BY EtapaFato, FimFato DEF Trocar2, Tipos, Em, Stages

LEMMA PassoEsteiraInv ==
  ASSUME IInv, NEW p \in Processos, PassoEsteira(p), Fora(p)
  PROVE  Tipos' /\ SiengeTipo' /\ Coerente'
<1>0. Tipos /\ fora \subseteq fora' /\ (UNCHANGED sienge => SiengeTipo')
      /\ sienge \in Sienge
  BY TiposValem, SiengeIgual DEF Fora, IInv, TypeOK, DadosTypeOK
<1>1. CASE Credor1(p)
  BY <1>0, <1>1, Credor1Fato, Credor1Inv DEF FazCredor1
<1>2. CASE Credor2(p)
  BY <1>0, <1>2, Credor2Fato, Credor2Inv DEF FazCredor2
<1>3. CASE Checa1(p)
  <2>1. Checa(p, "checa1", "contrato1") /\ "contrato1" \in Pcs
    BY <1>3 DEF Checa1, Pcs
  <2> QED
    BY <1>0, <2>1, ChecaFato, InicioInv
<1>4. CASE Contrato1(p)
  BY <1>0, <1>4, Contrato1Fato, InicioInv DEF FazContrato1
<1>5. CASE Contrato2(p)
  BY <1>0, <1>5, Contrato2Fato, InicioInv DEF FazContrato2
<1>6. CASE Checa2(p)
  <2>1. Checa(p, "semContrato", "criar1") /\ "criar1" \in Pcs
    BY <1>6 DEF Checa2, Pcs
  <2> QED
    BY <1>0, <2>1, ChecaFato, InicioInv
<1>7. CASE Decide(p)
  <2>1. FazDecide(p)
    BY <1>0, <1>7, DecideFato
  <2>2. /\ row.auto => row'.auto
        /\ proc[p].pc = "comContrato" /\ proc'[p].pc \in {"livre", "aditivo1"}
        /\ proc'[p].pc = "aditivo1" => Colega \/ row'.auto
        /\ row'.stage \in {row.stage, "contract_manual_block"}
    BY <2>1 DEF FazDecide
  <2>3. /\ Tipos' /\ Outros(p) /\ sienge' = sienge
        /\ row'.credor = row.credor /\ row'.med = row.med /\ row'.tit = row.tit
    BY <2>1 DEF FazDecide
  <2> QED
    BY <1>0, <2>2, <2>3, InicioInv
<1>8. CASE Valida1(p)
  BY <1>0, <1>8, Valida1Fato, InicioInv DEF FazValida1
<1>9. CASE Valida2(p)
  BY <1>0, <1>9, Valida2Fato, InicioInv DEF FazValida2
<1>10. CASE Criar1(p)
  BY <1>0, <1>10, Criar1Fato, InicioInv DEF FazCriar1
<1>11. CASE Criar2(p)
  <2>1. FazCriar2(p) /\ Tipos'
    BY <1>0, <1>11, Criar2Fato DEF FazCriar2
  <2> QED
    BY <2>1, Criar2Inv DEF SiengeTipo
<1>12. CASE Criar3(p)
  BY <1>0, <1>12, Criar3Fato, InicioInv DEF FazCriar3
<1>13. CASE Aditivo1(p)
  BY <1>0, <1>13, Aditivo1Fato, InicioInv DEF FazAditivo1
<1>14. CASE Aditivo2(p)
  <2>1. FazAditivo2(p) /\ Tipos'
    BY <1>0, <1>14, Aditivo2Fato DEF FazAditivo2
  <2> QED
    BY <2>1, Aditivo2Inv DEF SiengeTipo
<1>15. CASE Aditivo3(p)
  BY <1>0, <1>15, Aditivo3Fato, InicioInv DEF FazAditivo3
<1>16. CASE Esperar(p)
  BY <1>0, <1>16, EsperarFato, EsperarInv DEF FazEsperar
<1>17. CASE Medir1(p)
  BY <1>0, <1>17, Medir1Fato, Medir1Inv DEF FazMedir1
<1>18. CASE Medir2(p)
  <2>1. FazMedir2(p) /\ Tipos'
    BY <1>0, <1>18, Medir2Fato DEF FazMedir2
  <2> QED
    BY <2>1, Medir2Inv DEF SiengeTipo
<1>19. CASE Medir3(p)
  BY <1>0, <1>19, Medir3Fato, Medir3Inv DEF FazMedir3
<1>20. CASE Medir4(p)
  BY <1>0, <1>20, Medir4Fato, Medir4Inv DEF FazMedir4
<1>21. CASE Titular1(p)
  BY <1>0, <1>21, Titular1Fato, Titular1Inv DEF FazTitular1
<1>22. CASE Titular2(p)
  <2>1. FazTitular2(p) /\ Tipos'
    BY <1>0, <1>22, Titular2Fato DEF FazTitular2
  <2> QED
    BY <2>1, Titular2Inv DEF SiengeTipo
<1>23. CASE Titular3(p)
  BY <1>0, <1>23, Titular3Fato, Titular3Inv DEF FazTitular3
<1>24. CASE Registrar1(p)
  BY <1>0, <1>24, Registrar1Fato, BoletoInv DEF FazRegistrar1, Boletos
<1>25. CASE Registrar2(p)
  BY <1>0, <1>25, Registrar2Fato, BoletoInv DEF FazRegistrar2, Boletos
<1> QED
  BY <1>1, <1>2, <1>3, <1>4, <1>5, <1>6, <1>7, <1>8, <1>9, <1>10, <1>11, <1>12, <1>13,
     <1>14, <1>15, <1>16, <1>17, <1>18, <1>19, <1>20, <1>21, <1>22, <1>23, <1>24, <1>25
     DEF PassoEsteira

LEMMA PassoPollInv ==
  ASSUME IInv, NEW p \in Processos, PassoPoll(p), Fora(p)
  PROVE  Tipos' /\ SiengeTipo' /\ Coerente'
<1>0. Tipos /\ (UNCHANGED sienge => SiengeTipo')
  BY TiposValem, SiengeIgual
<1>1. CASE PollContrato1(p)
  BY <1>0, <1>1, PollContrato1Fato, PollContrato1Inv DEF FazPollContrato1
<1>2. CASE PollContrato2(p)
  BY <1>0, <1>2, PollContrato2Fato, PollContrato2Inv DEF FazPollContrato2
<1>3. CASE PollContrato3(p)
  BY <1>0, <1>3, PollContrato3Fato, PollContrato3Inv DEF FazPollContrato3
<1>4. CASE PollMedicao1(p)
  BY <1>0, <1>4, PollMedicao1Fato, PollMedicao1Inv DEF FazPollMedicao1
<1>5. CASE PollMedicao2(p)
  BY <1>0, <1>5, PollMedicao2Fato, PollMedicao2Inv DEF FazPollMedicao2
<1>6. CASE PollMedicao3(p)
  BY <1>0, <1>6, PollMedicao3Fato, PollMedicao3Inv DEF FazPollMedicao3
<1>7. CASE PollTitulo1(p)
  BY <1>0, <1>7, PollTitulo1Fato, PollTitulo1Inv DEF FazPollTitulo1
<1>8. CASE PollTitulo2(p)
  BY <1>0, <1>8, PollTitulo2Fato, PollTitulo2Inv DEF FazPollTitulo2
<1> QED
  BY <1>1, <1>2, <1>3, <1>4, <1>5, <1>6, <1>7, <1>8 DEF PassoPoll

LEMMA PassoInv ==
  ASSUME IInv, NEW p \in Processos, Passo(p)
  PROVE  IInv'
<1>1. Fora(p) /\ UNCHANGED <<pedidos, quedas>> /\ Tipos
  BY TiposValem DEF Passo, Fora
<1>2. (UNCHANGED sienge => SiengeTipo') /\ fora \subseteq fora'
  BY <1>1, SiengeIgual DEF Fora
<1>3. Tipos' /\ SiengeTipo' /\ Coerente'
  <2>1. CASE PassoEsteira(p)
    BY <1>1, <2>1, PassoEsteiraInv
  <2>2. CASE PassoPoll(p)
    BY <1>1, <2>2, PassoPollInv
  <2>3. CASE Trocar1(p)
    BY <1>1, <1>2, <2>3, Trocar1Fato, BoletoInv DEF Boletos
  <2>4. CASE Trocar2(p)
    BY <1>1, <1>2, <2>4, Trocar2Fato, BoletoInv
  <2> QED
    BY <2>1, <2>2, <2>3, <2>4 DEF Passo
<1>4. /\ pedidos' \in 0..MaxPedidos /\ quedas' \in 0..MaxQuedas
      /\ fora' \subseteq fora \cup {"incerta", "queda", "refeito", "clique", "mao"}
  BY <1>1 DEF Fora, IInv, TypeOK, DadosTypeOK
<1>5. TypeOK'
  BY <1>3, <1>4, TipoTodo DEF IInv
<1> QED
  BY <1>3, <1>5 DEF IInv
-----------------------------------------------------------------------------
(* What the schedulers and the people start, the row alone, Sienge alone. *)

LEMMA AgendarInv == ASSUME IInv, NEW p \in Processos, Agendar(p) PROVE IInv'
<1>1. PICK t \in {"pollContrato1", "pollMedicao1", "registrar1", "pollTitulo1"} : Ir(p, t)
  BY DEF Agendar, Tarefas
<1>2. /\ Tipos /\ proc' \in [Processos -> Processo] /\ Outros(p) /\ proc'[p].pc = t
  BY <1>1, TiposValem, IrFato DEF Pcs, Polls, Boletos
<1>3. /\ Tipos' /\ UNCHANGED <<row, sienge, quedas>> /\ proc[p].pc = "livre"
      /\ pedidos' = pedidos /\ fora' = fora
  BY <1>2 DEF Agendar, Em, Tipos
<1>4. TypeOK'
  BY <1>3, InicioTipo
<1>5. Coerente'
  BY <1>2, <1>3, BoletoInv DEF Boletos
<1> QED
  BY <1>4, <1>5 DEF IInv

LEMMA PollNowInv == ASSUME IInv, NEW p \in Processos, PollNow(p) PROVE IInv'
<1>1. PICK t \in {"pollContrato1", "pollMedicao1", "pollTitulo1"} : Ir(p, t)
  BY DEF PollNow
<1>2. /\ Tipos /\ proc' \in [Processos -> Processo] /\ Outros(p) /\ proc'[p].pc = t
  BY <1>1, TiposValem, IrFato DEF Pcs, Polls
<1>3. /\ Tipos' /\ UNCHANGED <<row, sienge, quedas, fora>> /\ proc[p].pc = "livre"
      /\ pedidos < MaxPedidos /\ pedidos' = pedidos + 1
  BY <1>2 DEF PollNow, Pedir, Botao, Em, Tipos
<1>4. TypeOK'
  BY <1>3, InicioTipo
<1>5. Coerente'
  BY <1>2, <1>3, BoletoInv
<1> QED
  BY <1>4, <1>5 DEF IInv

LEMMA TrocarBoletoInv == ASSUME IInv, NEW p \in Processos, TrocarBoleto(p) PROVE IInv'
<1>1. /\ Tipos /\ proc' \in [Processos -> Processo] /\ Outros(p) /\ proc'[p].pc = "trocar1"
  BY TiposValem, IrFato DEF TrocarBoleto, Pcs, Boletos
<1>2. row' \in Launch /\ MesmaLinha /\ row'.stage = row.stage
  BY <1>1 DEF TrocarBoleto, Tipos, Launch
<1>3. /\ Tipos' /\ UNCHANGED <<sienge, quedas, fora>> /\ proc[p].pc = "livre"
      /\ pedidos < MaxPedidos /\ pedidos' = pedidos + 1
  BY <1>1, <1>2 DEF TrocarBoleto, Pedir, Botao, Em, Tipos
<1>4. TypeOK'
  BY <1>3, InicioTipo
<1>5. Coerente'
  BY <1>1, <1>2, <1>3, BoletoInv DEF Boletos
<1> QED
  BY <1>4, <1>5 DEF IInv

LEMMA ClicarInv == ASSUME IInv, NEW p \in Processos, Clicar(p) PROVE IInv'
<1>1. PICK c \in {"credor1", "contrato1", "valida1"} :
        proc' = [proc EXCEPT ![p] = [Livre EXCEPT !.pc = c, !.solto = TRUE]]
  BY DEF Clicar
<1>2. /\ Tipos /\ proc' \in [Processos -> Processo] /\ Outros(p) /\ proc'[p].pc = c
  BY <1>1, TiposValem, SoltoFato DEF Pcs, Esteira
<1>3. /\ Tipos' /\ UNCHANGED <<row, sienge, quedas>> /\ fora' = fora \cup {"clique"}
      /\ pedidos < MaxPedidos /\ pedidos' = pedidos + 1
  BY <1>2 DEF Clicar, Pedir, Botao, Marca, Tipos
<1>4. TypeOK'
  BY <1>3, InicioTipo
<1>5. Coerente'
  <2>1. ~NaEsteira'
    BY <1>3
  <2> QED
    BY <1>2, <1>3, <2>1, AMaoInv
<1> QED
  BY <1>4, <1>5 DEF IInv

LEMMA CriarInv == ASSUME IInv, NEW p \in Processos, Criar(p) PROVE IInv'
<1>1. PICK c \in {"criar1", "titular1"} :
        proc' = [proc EXCEPT ![p] = [Livre EXCEPT !.pc = c, !.solto = TRUE]]
  BY DEF Criar
<1>2. /\ Tipos /\ proc' \in [Processos -> Processo] /\ Outros(p) /\ proc'[p].pc = c
  BY <1>1, TiposValem, SoltoFato DEF Pcs, Esteira
<1>3. /\ Tipos' /\ UNCHANGED <<row, sienge, quedas>> /\ fora' = fora \cup {"mao"}
      /\ pedidos < MaxPedidos /\ pedidos' = pedidos + 1
  BY <1>2 DEF Criar, Pedir, Botao, Marca, Tipos
<1>4. TypeOK'
  BY <1>3, InicioTipo
<1>5. Coerente'
  <2>1. ~NaEsteira'
    BY <1>3
  <2> QED
    BY <1>2, <1>3, <2>1, AMaoInv
<1> QED
  BY <1>4, <1>5 DEF IInv

LEMMA RegistrarTituloInv == ASSUME IInv, NEW p \in Processos, RegistrarTitulo(p) PROVE IInv'
<1>1. PICK n \in {row.tit} \cup DOMAIN sienge.tits : row' = [row EXCEPT !.tit = n]
  BY DEF RegistrarTitulo
<1>2. /\ Tipos /\ proc' \in [Processos -> Processo] /\ Outros(p)
      /\ proc'[p].pc = "registrar1"
  BY TiposValem, IrFato DEF RegistrarTitulo, Pcs, Boletos
<1>3. DOMAIN sienge.tits = 1..Len(sienge.tits) /\ Len(sienge.tits) <= MaxMedicoes
      /\ Len(sienge.tits) \in Nat
  BY DEF IInv, TypeOK, DadosTypeOK, Sienge
<1>4. n \in Numero
  BY <1>1, <1>2, <1>3, PagamentoAssumption DEF Tipos, Launch, Numero
<1>5. /\ row' \in Launch /\ row'.tit = n /\ row'.auto = row.auto /\ row'.med = row.med
  BY <1>1, <1>2, <1>4 DEF Tipos, Launch
<1>6. /\ Tipos' /\ UNCHANGED <<sienge, quedas>> /\ fora' = fora \cup {"mao"}
      /\ pedidos < MaxPedidos /\ pedidos' = pedidos + 1
  BY <1>2, <1>5 DEF RegistrarTitulo, Pedir, Botao, Marca, Tipos
<1>7. TypeOK'
  BY <1>6, InicioTipo
<1>8. Coerente'
  <2>1. ~NaEsteira'
    BY <1>6
  <2> QED
    BY <1>1, <1>2, <1>3, <1>5, <1>6, <2>1, AMaoInv
<1> QED
  BY <1>7, <1>8 DEF IInv

LEMMA RetomarCredorInv == ASSUME IInv, NEW p \in Processos, RetomarCredor(p) PROVE IInv'
<1>1. /\ Tipos /\ Iniciar(p) /\ Sozinho /\ row.credor = "not_found" /\ proc[p].pc = "livre"
      /\ pedidos' = pedidos /\ fora' = fora /\ UNCHANGED quedas
  BY TiposValem DEF RetomarCredor, Em
<1>2. Tipos' /\ UNCHANGED sienge
  BY <1>1, IniciarFato
<1>3. TypeOK'
  BY <1>1, <1>2, InicioTipo
<1>4. Coerente'
  BY <1>1, PartidaInv
<1> QED
  BY <1>3, <1>4 DEF IInv

LEMMA RunPipelineInv == ASSUME IInv, NEW p \in Processos, RunPipeline(p) PROVE IInv'
<1>1. /\ Tipos /\ Iniciar(p) /\ Sozinho /\ proc[p].pc = "livre"
      /\ pedidos < MaxPedidos /\ pedidos' = pedidos + 1 /\ UNCHANGED quedas
      /\ fora' = IF Recomeca THEN fora \cup {"refeito"} ELSE fora
      /\ UmaPorVez => \/ row.stage \in Terminais
                      \/ Recomeca /\ \A q \in Processos : proc[q].pc = "livre"
  BY TiposValem DEF RunPipeline, Pedir, Botao, Em, Marca
<1>2. Tipos' /\ UNCHANGED sienge
  BY <1>1, IniciarFato
<1>3. TypeOK'
  BY <1>1, <1>2, InicioTipo
<1>4. Coerente'
  BY <1>1, PartidaInv
<1> QED
  BY <1>3, <1>4 DEF IInv

LEMMA NaLinhaInv ==
  ASSUME IInv, Abortar \/ Cancelar \/ MarcarPago \/ AvancarStatus \/ EnviarRid
  PROVE  IInv'
<1>1. row \in Launch
  BY TiposValem DEF Tipos
<1>2. /\ UNCHANGED <<sienge, proc, quedas>> /\ fora' = fora
      /\ pedidos < MaxPedidos /\ pedidos' = pedidos + 1
  BY DEF Abortar, Cancelar, MarcarPago, AvancarStatus, EnviarRid, NaLinha, Botao
<1>3. row' \in Launch /\ MesmaLinha /\ row'.stage \in {row.stage, "aborted"}
  <2>1. CASE Abortar
    BY <2>1, TiposValem, EtapaStatusFato DEF Abortar, Stages, Status
  <2>2. ASSUME NEW t \in Status, row' = [row EXCEPT !.status = t]
        PROVE  row' \in Launch /\ MesmaLinha /\ row'.stage = row.stage
    BY <1>1, <2>2 DEF Launch
  <2>3. CASE Cancelar \/ MarcarPago
    BY <2>2, <2>3 DEF Cancelar, MarcarPago, Status
  <2>4. CASE AvancarStatus
    <3>1. PICK i \in 1..4 : row' = [row EXCEPT !.status = Fluxo[i + 1]]
      BY <2>4 DEF AvancarStatus, Fluxo
    <3>2. Fluxo[i + 1] \in Status
      BY DEF Fluxo, Status
    <3> QED
      BY <2>2, <3>1, <3>2
  <2>5. CASE EnviarRid
    BY <1>1, <2>5 DEF EnviarRid, Launch
  <2> QED
    BY <2>1, <2>3, <2>4, <2>5
<1> QED
  BY <1>2, <1>3, LinhaInv

LEMMA SiengeInv ==
  ASSUME IInv, Cadastrar \/ Autorizar \/ \E n \in 1..MaxMedicoes : AutorizarMedicao(n) \/ Pagar(n)
  PROVE  IInv'
<1>1. /\ sienge \in Sienge /\ sienge.meds \in Seq(Medicao) /\ sienge.tits \in Seq(Titulo)
      /\ Len(sienge.meds) \in Nat /\ Len(sienge.tits) \in Nat
  BY DEF IInv, TypeOK, DadosTypeOK, Sienge
<1>2. CASE Cadastrar \/ Autorizar
  <2>1. /\ sienge' \in Sienge /\ sienge'.meds = sienge.meds /\ sienge'.tits = sienge.tits
        /\ sienge.autorizado => sienge'.autorizado
        /\ UNCHANGED <<row, proc, pedidos, quedas, fora>>
    BY <1>1, <1>2 DEF Cadastrar, Autorizar, Externamente, Sienge
  <2> QED
    BY <2>1, SoGanhaInv
<1>3. ASSUME NEW m \in 1..MaxMedicoes, AutorizarMedicao(m) PROVE IInv'
  <2> DEFINE r == [sienge.meds[m] EXCEPT !.autorizada = TRUE]
             s == [sienge.meds EXCEPT ![m] = r]
  <2>1. m \in 1..Len(sienge.meds) /\ sienge.meds[m] \in Medicao
    BY <1>1, <1>3 DEF AutorizarMedicao
  <2>2. r \in Medicao /\ r.regular = sienge.meds[m].regular /\ r.autorizada
    BY <2>1 DEF Medicao
  <2>3. /\ s \in Seq(Medicao) /\ Len(s) = Len(sienge.meds)
        /\ \A i \in 1..Len(sienge.meds) : s[i] = IF i = m THEN r ELSE sienge.meds[i]
    BY <1>1, <2>1, <2>2
  <2>4. /\ UNCHANGED <<row, proc, pedidos, quedas, fora>> /\ sienge' = [sienge EXCEPT !.meds = s]
    BY <1>1, <1>3, <2>1 DEF AutorizarMedicao, Externamente, Sienge
  <2> HIDE DEF r, s
  <2>5. /\ sienge' \in Sienge /\ sienge'.meds = s /\ sienge'.tits = sienge.tits
        /\ sienge'.autorizado = sienge.autorizado
    BY <1>1, <2>3, <2>4 DEF Sienge
  <2> QED
    BY <2>2, <2>3, <2>4, <2>5, SoGanhaInv
<1>4. ASSUME NEW t \in 1..MaxMedicoes, Pagar(t) PROVE IInv'
  <2> DEFINE r == [sienge.tits[t] EXCEPT !.pago = TRUE]
             s == [sienge.tits EXCEPT ![t] = r]
  <2>1. t \in 1..Len(sienge.tits) /\ sienge.tits[t] \in Titulo
    BY <1>1, <1>4 DEF Pagar
  <2>2. r \in Titulo /\ r.med = sienge.tits[t].med /\ r.pago
    BY <2>1 DEF Titulo
  <2>3. /\ s \in Seq(Titulo) /\ Len(s) = Len(sienge.tits)
        /\ \A i \in 1..Len(sienge.tits) : s[i] = IF i = t THEN r ELSE sienge.tits[i]
    BY <1>1, <2>1, <2>2
  <2>4. /\ UNCHANGED <<row, proc, pedidos, quedas, fora>> /\ sienge' = [sienge EXCEPT !.tits = s]
    BY <1>1, <1>4, <2>1 DEF Pagar, Externamente, Sienge
  <2> HIDE DEF r, s
  <2>5. /\ sienge' \in Sienge /\ sienge'.tits = s /\ sienge'.meds = sienge.meds
        /\ sienge'.autorizado = sienge.autorizado
    BY <1>1, <2>3, <2>4 DEF Sienge
  <2> QED
    BY <2>2, <2>3, <2>4, <2>5, SoGanhaInv
<1> QED
  BY <1>2, <1>3, <1>4
-----------------------------------------------------------------------------
(* The inductive invariant, and what follows from it. *)

LEMMA NextIInv == IInv /\ [Next]_vars => IInv'
<1> SUFFICES ASSUME IInv, [Next]_vars PROVE IInv'
  OBVIOUS
<1>1. CASE UNCHANGED vars
  BY <1>1, ParadoInv
<1>2. ASSUME NEW p \in Processos,
             \/ Passo(p) \/ Agendar(p) \/ RetomarCredor(p) \/ RunPipeline(p) \/ Clicar(p)
             \/ Criar(p) \/ RegistrarTitulo(p) \/ PollNow(p) \/ Continuar(p) \/ TrocarBoleto(p)
      PROVE  IInv'
  BY <1>2, PassoInv, AgendarInv, RetomarCredorInv, RunPipelineInv, ClicarInv, CriarInv,
     RegistrarTituloInv, PollNowInv, ContinuarInv, TrocarBoletoInv
<1>3. CASE Abortar \/ Cancelar \/ MarcarPago \/ AvancarStatus \/ EnviarRid
  BY <1>3, NaLinhaInv
<1>4. CASE Cadastrar \/ Autorizar \/ \E n \in 1..MaxMedicoes : AutorizarMedicao(n) \/ Pagar(n)
  BY <1>4, SiengeInv
<1>5. CASE Reiniciar
  BY <1>5, ReiniciarInv
<1> QED
  BY <1>1, <1>2, <1>3, <1>4, <1>5 DEF Next

\* Whatever the schedulers, the people, Sienge and the restarts do, and in any number,
\* the row of a launch, the processes that work on it and what Sienge holds agree as the
\* code of the pipeline counts on.
THEOREM Coerencia == Spec => []IInv
  BY InitIInv, NextIInv, PTL DEF Spec

\* Every variable keeps its type: a number in the row, in a process or in a title never
\* grows past the measurements and titles there are.
THEOREM Tipagem == Spec => []TypeOK
<1>1. IInv => TypeOK
  BY DEF IInv
<1> QED
  BY <1>1, Coerencia, PTL

\* In the automatic course of runFullPipeline and of the polls, a launch is measured at
\* most once and has at most one title.
THEOREM UmaVez == Spec => []UmTitulo
<1>1. IInv => UmTitulo
  BY DEF IInv, Coerente, Unicos, UmTitulo
<1> QED
  BY <1>1, Coerencia, PTL

\* stepCreateMeasurement never measures a contract, or an additive, that still waits for
\* its authorization, though runs fail, are aborted, start over, or die with the server.
THEOREM SoContratoAutorizado == Spec => []MedicaoRegular
<1>1. IInv => MedicaoRegular
  <2> SUFFICES ASSUME IInv, NaEsteira PROVE \A m \in DOMAIN sienge.meds : sienge.meds[m].regular
    BY DEF MedicaoRegular
  <2>1. DOMAIN sienge.meds = 1..Len(sienge.meds) /\ MedicoesRegulares
    BY DEF IInv, Coerente, Seguro, TypeOK, DadosTypeOK, Sienge
  <2> QED
    BY <2>1 DEF MedicoesRegulares
<1> QED
  BY <1>1, Coerencia, PTL

\* stepCreateTitulo never makes a title of a measurement that still waits for its own.
THEOREM SoMedicaoAutorizada == Spec => []TituloAutorizado
<1>1. IInv => TituloAutorizado
  <2> SUFFICES ASSUME IInv, NaEsteira
               PROVE  \A t \in DOMAIN sienge.tits : sienge.meds[sienge.tits[t].med].autorizada
    BY DEF TituloAutorizado
  <2>1. /\ DOMAIN sienge.tits = 1..Len(sienge.tits) /\ TitulosLiberados
        /\ \A t \in 1..Len(sienge.tits) : sienge.tits[t].med # 0
    BY MedidaDoTitulo DEF IInv, Coerente, Seguro, TypeOK, DadosTypeOK, Sienge
  <2> QED
    BY <2>1 DEF TitulosLiberados, Liberada
<1> QED
  BY <1>1, Coerencia, PTL

\* The stage titulo_pago of a launch that was not started over is the truth about its title.
THEOREM PagoDeVerdade == Spec => []PagoConfere
<1>1. IInv => PagoConfere
  BY DEF IInv, Coerente, ComTitulo, PagoConfere
<1> QED
  BY <1>1, Coerencia, PTL

\* A contract that people made gets an additive only after a person, or another launch,
\* vouched for it: the bypass of a run that starts from the block writes so in the row.
THEOREM AditivoComAval == Spec => AditivoConfirmado
<1> DEFINE A == sienge'.contrato = "manual" /\ sienge.autorizado /\ ~sienge'.autorizado
                  => Colega \/ row.auto
<1>1. IInv /\ [Next]_vars => [A]_vars
  <2> SUFFICES ASSUME IInv, Next, sienge'.contrato = "manual",
                      sienge.autorizado, ~sienge'.autorizado
               PROVE  Colega \/ row.auto
    OBVIOUS
  <2>1. Tipos /\ sienge \in Sienge
    BY TiposValem DEF IInv, TypeOK, DadosTypeOK
  <2>2. sienge' # sienge
    OBVIOUS
  <2>3. PICK p \in Processos : Passo(p)
    <3>1. ASSUME NEW p \in Processos, RetomarCredor(p) \/ RunPipeline(p)
          PROVE  UNCHANGED sienge
      BY <3>1 DEF RetomarCredor, RunPipeline, Iniciar
    <3>2. ~(Cadastrar \/ Autorizar)
      BY <2>1 DEF Cadastrar, Autorizar, Externamente, Sienge
    <3>3. ~\E n \in 1..MaxMedicoes : AutorizarMedicao(n) \/ Pagar(n)
      BY <2>1 DEF AutorizarMedicao, Pagar, Externamente, Sienge
    <3> QED
      BY <2>2, <3>1, <3>2, <3>3
         DEF Next, Agendar, Clicar, Criar, RegistrarTitulo, PollNow, Continuar, TrocarBoleto,
             Abortar, Cancelar, MarcarPago, AvancarStatus, EnviarRid, NaLinha, Reiniciar
  <2>4. PassoEsteira(p)
    BY <2>2, <2>3 DEF Passo, PassoPoll, PollContrato1, PollContrato2, PollContrato3,
       PollMedicao1, PollMedicao2, PollMedicao3, PollTitulo1, PollTitulo2, Trocar1, Trocar2
  <2>5. Criar2(p) \/ Aditivo2(p) \/ Medir2(p) \/ Titular2(p)
    BY <2>2, <2>4
       DEF PassoEsteira, Credor1, Credor2, Checa, Checa1, Contrato1, Contrato2, Checa2, Decide,
           Valida1, Valida2, Criar1, Criar3, FalhaContrato, Aditivo1, Aditivo3, Falha, Esperar,
           Medir1, Medir3, Medir4, Titular1, Titular3, Registrar1, Registrar2
  <2>6. ~Criar2(p)
    BY <2>1, <2>2, Criar2Fato DEF FazCriar2, Sienge
  <2>7. ~Medir2(p) /\ ~Titular2(p)
    BY <2>1, <2>2 DEF Medir2, Titular2, Falha, Sienge
  <2>8. proc[p].pc = "aditivo2"
    BY <2>1, <2>5, <2>6, <2>7, Aditivo2Fato DEF FazAditivo2
  <2> QED
    BY <2>8 DEF IInv, Coerente, AditivoDito
<1> QED
  BY <1>1, Coerencia, PTL DEF Spec, AditivoConfirmado
=============================================================================
