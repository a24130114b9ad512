-------------------------- MODULE BoletoAto_tipos --------------------------
(***************************************************************************)
(* Type correctness of BoletoAto for every choice of its constants: one    *)
(* lemma per module for the steps of that module, then the theorem.        *)
(***************************************************************************)
EXTENDS BoletoAto, FiniteSetTheorems, TLAPS

\* Types alone are not inductive: what a step stores is typed only because of
\* what earlier steps established.

\* A run decides on conditions it read from a reserva that has them.
FotoLida == \A l \in Linhas : pc[l] = "prazo" => ex[l].foto \in Conds

\* A row learns a number, and a run carries one past the emission, only when
\* the bank has a title under it.
NumeroRegistrado ==
  \A l \in Linhas : /\ h[l].nn # Nulo => titulo[h[l].nn] # "nao"
                    /\ pc[l] \in {"posBaixa", "upload"} => titulo[ex[l].seq] # "nao"

\* A round and a cancellation look only at rows that have a number.
RodadaComNumero ==
  \A v \in Verificadores : /\ \A i \in vf[v].itens : h[i[1]].nn # Nulo
                           /\ vf[v].pc \in {"ler", "gravar"} => vf[v].l \in Linhas
CancComNumero ==
  canc.pc \in {"lock", "portal", "gravar"} => canc.l \in Linhas /\ h[canc.l].nn # Nulo

IInvTipo == TypeOK /\ FotoLida /\ NumeroRegistrado /\ RodadaComNumero /\ CancComNumero

LEMMA InitTipo == ASSUME Init PROVE TypeOK
<1> USE DadosAssumption, NinguemAssumption
<1>1. LinhaNova \in Linha
  BY DEF LinhaNova, Linha, Status
<1>2. DadosTypeOK
  BY <1>1 DEF Init, DadosInit, DadosTypeOK, LeaseInit, LeaseTypeOK, NNs
<1>3. EmissaoTypeOK
  BY DEF Init, EmissaoInit, EmissaoTypeOK, TodasParadas, TodasNovas, ExecNova,
         Exec, Passos, NNs
<1>4. VerificacaoTypeOK
  BY DEF Init, VerificacaoInit, VerificacaoTypeOK, SemRodada, RodadaNova, Rodada
<1>5. CancTypeOK
  BY DEF Init, CancInit, CancTypeOK, CancNovo, Cancelamento
<1> QED
  BY <1>2, <1>3, <1>4, <1>5 DEF TypeOK

\* The count that makes a nosso numero fits: a row has fewer than MaxLinhas
\* rows before it.
LEMMA ContagemCabe == ASSUME NEW l \in Linhas PROVE Cardinality(Anteriores(l)) \in NNs
<1> USE DadosAssumption
<1>1. l \in 1 .. MaxLinhas /\ l - 1 \in Nat /\ 1 \in Int /\ l - 1 \in Int
  BY DEF Linhas
<1>2. /\ IsFiniteSet(1 .. l - 1)
      /\ Cardinality(1 .. l - 1) = IF 1 > l - 1 THEN 0 ELSE (l - 1) - 1 + 1
  BY <1>1, FS_Interval
<1>3. Anteriores(l) \subseteq 1 .. l - 1
  BY DEF Anteriores
<1>4. /\ IsFiniteSet(Anteriores(l))
      /\ Cardinality(Anteriores(l)) <= Cardinality(1 .. l - 1)
  BY <1>2, <1>3, FS_Subset
<1>5. Cardinality(Anteriores(l)) \in Nat
  BY <1>4, FS_CardinalityType
<1> QED
  BY <1>1, <1>2, <1>4, <1>5 DEF NNs

\* Moving on and stopping keep the types of pc and ex.
LEMMA IrTipo == ASSUME EmissaoTypeOK, NEW l \in Linhas, NEW p \in Passos, Ir(l, p)
                PROVE  pc' \in [Linhas -> Passos]
  BY DEF EmissaoTypeOK, Ir

LEMMA PararTipo == ASSUME EmissaoTypeOK, NEW l \in Linhas, Parar(l)
                   PROVE  pc' \in [Linhas -> Passos] /\ ex' \in [Linhas -> Exec]
<1>1. ExecNova \in Exec
  BY DadosAssumption DEF ExecNova, Exec, NNs
<1> QED
  BY <1>1 DEF EmissaoTypeOK, Parar, Ir, Passos

LEMMA SoltarTipo == ASSUME LeaseTypeOK, NEW o \in Owners, Release(o) PROVE LeaseTypeOK'
  BY DEF LeaseTypeOK, Release, leaseVars

LEMMA PegarTipo == ASSUME LeaseTypeOK, NEW o \in Owners, TryAcquire(o) PROVE LeaseTypeOK'
  BY DEF LeaseTypeOK, TryAcquire

LEMMA VencerTipo == ASSUME LeaseTypeOK, Expire PROVE LeaseTypeOK'
  BY DEF LeaseTypeOK, Expire

LEMMA Donos == /\ Linhas \subseteq Owners /\ Verificadores \subseteq Owners
               /\ Cancelador \in Owners
  BY DadosAssumption

\* A row written with a value of its type keeps the table typed.
LEMMA UpdateTipo == ASSUME h \in [Linhas -> Linha], NEW l \in Linhas, NEW r \in Linha,
                           Update(l, r)
                    PROVE  h' \in [Linhas -> Linha]
  BY DEF Update

\* A step that only writes the row and moves its run.
LEMMA SoLinhaTipo == ASSUME DadosTypeOK, EmissaoTypeOK, UNCHANGED soLinha,
                            h' \in [Linhas -> Linha],
                            pc' \in [Linhas -> Passos], ex' \in [Linhas -> Exec]
                     PROVE  DadosTypeOK' /\ EmissaoTypeOK'
  BY DEF DadosTypeOK, EmissaoTypeOK, soLinha, leaseVars, LeaseTypeOK


\* The columns the services write, shape by shape, keep a row typed.
LEMMA St == ASSUME NEW r \in Linha, NEW s \in Status
         PROVE  [r EXCEPT !.status = s] \in Linha
  BY DEF Linha
LEMMA StPe == ASSUME NEW r \in Linha, NEW s \in Status
           PROVE  [r EXCEPT !.status = s, !.pessoa = TRUE] \in Linha
  BY DEF Linha
LEMMA StIgPe == ASSUME NEW r \in Linha, NEW s \in Status
             PROVE  [r EXCEPT !.status = s, !.ignorado = TRUE, !.pessoa = TRUE] \in Linha
  BY DEF Linha
LEMMA StIgCoPe == ASSUME NEW r \in Linha, NEW s \in Status, NEW c \in Conds
               PROVE  [r EXCEPT !.status = s, !.ignorado = TRUE, !.cond = c, !.pessoa = TRUE] \in Linha
  BY DEF Linha
LEMMA StPrPe == ASSUME NEW r \in Linha, NEW s \in Status
             PROVE  [r EXCEPT !.status = s, !.processada = FALSE, !.pessoa = TRUE] \in Linha
  BY DEF Linha
LEMMA StPrTe == ASSUME NEW r \in Linha, NEW s \in Status, NEW k \in 0 .. MaxReag
             PROVE  [r EXCEPT !.status = s, !.processada = FALSE, !.tentativas = k] \in Linha
  BY DEF Linha
LEMMA StPeSi == ASSUME NEW r \in Linha, NEW s \in Status,
                        NEW t \in {"nenhuma", "erro", "sucesso"}
             PROVE  [r EXCEPT !.status = s, !.pessoa = TRUE, !.situacao = t] \in Linha
  BY DEF Linha
LEMMA StSi == ASSUME NEW r \in Linha, NEW s \in Status,
                      NEW t \in {"nenhuma", "erro", "sucesso"}
           PROVE  [r EXCEPT !.status = s, !.situacao = t] \in Linha
  BY DEF Linha
LEMMA PeCo == ASSUME NEW r \in Linha, NEW c \in Conds
           PROVE  [r EXCEPT !.pessoa = TRUE, !.cond = c] \in Linha
  BY DEF Linha
LEMMA Pr == ASSUME NEW r \in Linha
         PROVE  [r EXCEPT !.processada = TRUE] \in Linha
  BY DEF Linha
LEMMA Si == ASSUME NEW r \in Linha, NEW t \in {"nenhuma", "erro", "sucesso"}
         PROVE  [r EXCEPT !.situacao = t] \in Linha
  BY DEF Linha
LEMMA Nn == ASSUME NEW r \in Linha, NEW n \in NNs
         PROVE  [r EXCEPT !.nn = n] \in Linha
  BY DEF Linha
LEMMA Pay == ASSUME NEW r \in Linha, NEW p \in {"pending", "paid", "cancelled"}
          PROVE  [r EXCEPT !.pay = p] \in Linha
  BY DEF Linha
LEMMA Disparo == ASSUME NEW r \in Exec, NEW b \in BOOLEAN, NEW m \in BOOLEAN
                 PROVE  [r EXCEPT !.forcar = b, !.manual = m] \in Exec
  BY DEF Exec

LEMMA Baixou == ASSUME NEW r \in Exec PROVE [r EXCEPT !.baixou = TRUE] \in Exec
  BY DEF Exec

-----------------------------------------------------------------------------
(* Steps of the emission. *)

LEMMA AgendarTipo ==
  ASSUME DadosTypeOK, EmissaoTypeOK, NEW l \in Linhas, Agendar(l)
  PROVE  DadosTypeOK' /\ EmissaoTypeOK'
<1>1. h[l] \in Linha
  BY DEF DadosTypeOK
<1>2. [h[l] EXCEPT !.status = "queued", !.processada = FALSE, !.pessoa = TRUE] \in Linha
  BY <1>1, StPrPe DEF Status
<1>3. h' \in [Linhas -> Linha]
  BY <1>2, UpdateTipo DEF Agendar, DadosTypeOK
<1> QED
  BY <1>3, PararTipo, SoLinhaTipo DEF Agendar

LEMMA RecusarPrazoTipo ==
  ASSUME DadosTypeOK, EmissaoTypeOK, NEW l \in Linhas, RecusarPrazo(l)
  PROVE  DadosTypeOK' /\ EmissaoTypeOK'
<1>1. h[l] \in Linha
  BY DEF DadosTypeOK
<1>2. [h[l] EXCEPT !.status = "error", !.pessoa = TRUE, !.situacao = "erro"] \in Linha
  BY <1>1, StPeSi DEF Status
<1>3. h' \in [Linhas -> Linha]
  BY <1>2, UpdateTipo DEF RecusarPrazo, DadosTypeOK
<1> QED
  BY <1>3, PararTipo, SoLinhaTipo DEF RecusarPrazo

LEMMA ConcluirTipo ==
  ASSUME DadosTypeOK, EmissaoTypeOK, NEW l \in Linhas, Concluir(l)
  PROVE  DadosTypeOK' /\ EmissaoTypeOK'
<1>1. h[l] \in Linha
  BY DEF DadosTypeOK
<1>2. [h[l] EXCEPT !.status = "success"] \in Linha
  BY <1>1, St DEF Status
<1>3. h' \in [Linhas -> Linha]
  BY <1>2, UpdateTipo DEF Concluir, DadosTypeOK
<1> QED
  BY <1>3, PararTipo, SoLinhaTipo DEF Concluir

LEMMA ReprovarTipo ==
  ASSUME DadosTypeOK, EmissaoTypeOK, NEW l \in Linhas, Reprovar(l)
  PROVE  DadosTypeOK' /\ EmissaoTypeOK'
<1>1. h[l] \in Linha
  BY DEF DadosTypeOK
<1>2. [h[l] EXCEPT !.status = "error", !.situacao = "erro"] \in Linha
  BY <1>1, StSi DEF Status
<1>3. h' \in [Linhas -> Linha]
  BY <1>2, UpdateTipo DEF Reprovar, DadosTypeOK
<1> QED
  BY <1>3, PararTipo, SoLinhaTipo DEF Reprovar

LEMMA ReagendarTipo ==
  ASSUME DadosTypeOK, EmissaoTypeOK, NEW l \in Linhas, Reagendar(l)
  PROVE  DadosTypeOK' /\ EmissaoTypeOK'
<1>1. h[l] \in Linha
  BY DEF DadosTypeOK
<1>2. h[l].tentativas + 1 \in 0 .. MaxReag
  BY <1>1, DadosAssumption DEF Reagendar, Linha
<1>3. [h[l] EXCEPT !.status = "queued", !.processada = FALSE,
                   !.tentativas = h[l].tentativas + 1] \in Linha
  BY <1>1, <1>2, StPrTe DEF Status
<1>4. h' \in [Linhas -> Linha]
  BY <1>3, UpdateTipo DEF Reagendar, DadosTypeOK
<1> QED
  BY <1>4, PararTipo, SoLinhaTipo DEF Reagendar

LEMMA IniciarTipo ==
  ASSUME DadosTypeOK, EmissaoTypeOK, NEW l \in Linhas, Iniciar(l)
  PROVE  DadosTypeOK' /\ EmissaoTypeOK'
<1>1. h[l] \in Linha
  BY DEF DadosTypeOK
<1>2. CASE ativo
  <2>1. [h[l] EXCEPT !.status = "processing"] \in Linha
    BY <1>1, St DEF Status
  <2>2. h' \in [Linhas -> Linha]
    BY <1>2, <2>1, UpdateTipo DEF Iniciar, DadosTypeOK
  <2> QED
    BY <1>2, <2>2, IrTipo, SoLinhaTipo DEF Iniciar, Passos, EmissaoTypeOK
<1>3. CASE ~(ativo)
  BY <1>3, PararTipo, SoLinhaTipo DEF Iniciar, DadosTypeOK
<1> QED
  BY <1>2, <1>3

LEMMA VerPagoTipo ==
  ASSUME DadosTypeOK, EmissaoTypeOK, NEW l \in Linhas, VerPago(l)
  PROVE  DadosTypeOK' /\ EmissaoTypeOK'
<1>1. h[l] \in Linha
  BY DEF DadosTypeOK
<1>2. CASE Pagas \ {l} # {}
  <2>1. [h[l] EXCEPT !.status = "skipped", !.pessoa = TRUE] \in Linha
    BY <1>1, StPe DEF Status
  <2>2. h' \in [Linhas -> Linha]
    BY <1>2, <2>1, UpdateTipo DEF VerPago, DadosTypeOK
  <2> QED
    BY <1>2, <2>2, PararTipo, SoLinhaTipo DEF VerPago
<1>3. CASE ~(Pagas \ {l} # {})
  BY <1>3, IrTipo, SoLinhaTipo DEF VerPago, Passos, EmissaoTypeOK, DadosTypeOK
<1> QED
  BY <1>2, <1>3

LEMMA LerReservaTipo ==
  ASSUME DadosTypeOK, EmissaoTypeOK, NEW l \in Linhas, LerReserva(l)
  PROVE  DadosTypeOK' /\ EmissaoTypeOK'
<1>1. h[l] \in Linha
  BY DEF DadosTypeOK
<1>2. CASE cv.viva
  <2>1. cv.cond \in Conds \cup {SemSerie, Invalida}
    BY DEF DadosTypeOK
  <2>2. ex' \in [Linhas -> Exec]
    BY <1>2, <2>1 DEF LerReserva, EmissaoTypeOK, Exec
  <2> QED
    BY <1>2, <2>2, IrTipo, SoLinhaTipo DEF LerReserva, Passos, DadosTypeOK
<1>3. CASE ~cv.viva
  <2>1. [h[l] EXCEPT !.status = "skipped", !.pessoa = TRUE] \in Linha
    BY <1>1, StPe DEF Status
  <2>2. h' \in [Linhas -> Linha]
    BY <1>3, <2>1, UpdateTipo DEF LerReserva, DadosTypeOK
  <2> QED
    BY <1>3, <2>2, PararTipo, SoLinhaTipo DEF LerReserva
<1> QED
  BY <1>2, <1>3

LEMMA VerJanelaTipo ==
  ASSUME DadosTypeOK, EmissaoTypeOK, NEW l \in Linhas, VerJanela(l)
  PROVE  DadosTypeOK' /\ EmissaoTypeOK'
<1>1. h[l] \in Linha
  BY DEF DadosTypeOK
<1>2. CASE ex[l].forcar \/ janela
  BY <1>2, IrTipo, SoLinhaTipo DEF VerJanela, Passos, EmissaoTypeOK, DadosTypeOK
<1>3. CASE ~(ex[l].forcar \/ janela) /\ NaFila \ {l} # {}
  <2>1. [h[l] EXCEPT !.status = "skipped", !.ignorado = TRUE, !.pessoa = TRUE] \in Linha
    BY <1>1, StIgPe DEF Status
  <2>2. h' \in [Linhas -> Linha]
    BY <1>3, <2>1, UpdateTipo DEF VerJanela, DadosTypeOK
  <2> QED
    BY <1>3, <2>2, PararTipo, SoLinhaTipo DEF VerJanela
<1>4. CASE ~(ex[l].forcar \/ janela) /\ NaFila \ {l} = {}
  BY <1>4, IrTipo, SoLinhaTipo DEF VerJanela, Passos, EmissaoTypeOK, DadosTypeOK
<1> QED
  BY <1>2, <1>3, <1>4

LEMMA RecusarTipo ==
  ASSUME DadosTypeOK, EmissaoTypeOK, NEW l \in Linhas, Recusar(l)
  PROVE  DadosTypeOK' /\ EmissaoTypeOK'
<1>1. h[l] \in Linha
  BY DEF DadosTypeOK
<1>2. /\ [h[l] EXCEPT !.status = "skipped", !.pessoa = TRUE] \in Linha
      /\ [h[l] EXCEPT !.status = "error", !.pessoa = TRUE, !.situacao = "erro"] \in Linha
  BY <1>1, StPe, StPeSi DEF Status
<1>3. h' \in [Linhas -> Linha]
  BY <1>2, UpdateTipo DEF Recusar, DadosTypeOK
<1> QED
  BY <1>3, PararTipo, SoLinhaTipo DEF Recusar

LEMMA DecidirRetriggerTipo ==
  ASSUME DadosTypeOK, EmissaoTypeOK, NEW l \in Linhas, DecidirRetrigger(l)
  PROVE  DadosTypeOK' /\ EmissaoTypeOK'
<1>1. h[l] \in Linha
  BY DEF DadosTypeOK
<1>2. CASE Pendentes \ {l} = {} /\ Ir(l, "prazo") /\ UNCHANGED <<h, ex>>
  BY <1>2, IrTipo, SoLinhaTipo DEF DecidirRetrigger, Passos, EmissaoTypeOK, DadosTypeOK
<1>3. CASE Ignorar(l)
  <2>1. [h[l] EXCEPT !.status = "success", !.ignorado = TRUE,
                     !.cond = ex[l].foto, !.pessoa = TRUE] \in Linha
    BY <1>1, StIgCoPe DEF Status, DecidirRetrigger
  <2>2. h' \in [Linhas -> Linha]
    BY <1>3, <2>1, UpdateTipo DEF Ignorar, DadosTypeOK
  <2> QED
    BY <1>3, <2>2, PararTipo, SoLinhaTipo DEF DecidirRetrigger, Ignorar
<1>4. ASSUME NEW k \in Ultima(Pendentes \ {l}), UNCHANGED h,
             IF h[k].nn = Nulo
               THEN Ir(l, "falha") /\ UNCHANGED ex
               ELSE Ir(l, "prazo") /\ ex' = [ex EXCEPT ![l].prev = k]
      PROVE  DadosTypeOK' /\ EmissaoTypeOK'
  <2>1. k \in Linhas
    BY DEF Ultima, Pendentes, Emitidas
  <2>2. ex' \in [Linhas -> Exec]
    BY <1>4, <2>1 DEF EmissaoTypeOK, Exec
  <2>3. pc' \in [Linhas -> Passos]
    BY <1>4, IrTipo DEF Passos
  <2> QED
    BY <1>4, <2>2, <2>3, SoLinhaTipo DEF DecidirRetrigger, DadosTypeOK
<1> QED
  BY <1>2, <1>3, <1>4 DEF DecidirRetrigger

LEMMA NumerarTipo ==
  ASSUME DadosTypeOK, EmissaoTypeOK, FotoLida, NEW l \in Linhas, Numerar(l)
  PROVE  DadosTypeOK' /\ EmissaoTypeOK'
<1>1. h[l] \in Linha
  BY DEF DadosTypeOK
<1>2. ex[l].foto \in Conds
  BY DEF Numerar, FotoLida
<1>3. [h[l] EXCEPT !.pessoa = TRUE, !.cond = ex[l].foto] \in Linha
  BY <1>1, <1>2, PeCo
<1>4. h' \in [Linhas -> Linha]
  BY <1>3, UpdateTipo DEF Numerar, DadosTypeOK
<1>5. ex' \in [Linhas -> Exec]
  BY ContagemCabe DEF Numerar, EmissaoTypeOK, Exec
<1> QED
  BY <1>4, <1>5, IrTipo, SoLinhaTipo DEF Numerar, Passos

LEMMA FalharCVTipo ==
  ASSUME DadosTypeOK, EmissaoTypeOK, NEW l \in Linhas, FalharCV(l)
  PROVE  DadosTypeOK' /\ EmissaoTypeOK'
<1> QED
  BY IrTipo, SoLinhaTipo DEF FalharCV, soPasso, Passos, EmissaoTypeOK, DadosTypeOK

LEMMA DesistirLockTipo ==
  ASSUME DadosTypeOK, EmissaoTypeOK, NEW l \in Linhas, DesistirLock(l)
  PROVE  DadosTypeOK' /\ EmissaoTypeOK'
<1> QED
  BY IrTipo, SoLinhaTipo DEF DesistirLock, soPasso, Passos, EmissaoTypeOK, DadosTypeOK

LEMMA AbrirSessaoTipo ==
  ASSUME DadosTypeOK, EmissaoTypeOK, NEW l \in Linhas, AbrirSessao(l)
  PROVE  DadosTypeOK' /\ EmissaoTypeOK'
<1> QED
  BY IrTipo, SoLinhaTipo DEF AbrirSessao, soPasso, Passos, EmissaoTypeOK, DadosTypeOK

LEMMA FalharUploadTipo ==
  ASSUME DadosTypeOK, EmissaoTypeOK, NEW l \in Linhas, FalharUpload(l)
  PROVE  DadosTypeOK' /\ EmissaoTypeOK'
<1> QED
  BY IrTipo, SoLinhaTipo DEF FalharUpload, soPasso, Passos, EmissaoTypeOK, DadosTypeOK

LEMMA AgendarEtapaTipo ==
  ASSUME DadosTypeOK, EmissaoTypeOK, NEW l \in Linhas, AgendarEtapa(l)
  PROVE  DadosTypeOK' /\ EmissaoTypeOK'
<1>1. h[l] \in Linha
  BY DEF DadosTypeOK
<1>2. (IF ex[l].manual THEN h[l].situacao ELSE "sucesso") \in {"nenhuma", "erro", "sucesso"}
  BY <1>1 DEF Linha
<1>3. [h[l] EXCEPT !.situacao = IF ex[l].manual THEN h[l].situacao ELSE "sucesso"] \in Linha
  BY <1>1, <1>2, Si
<1>4. h' \in [Linhas -> Linha]
  BY <1>3, UpdateTipo DEF AgendarEtapa, DadosTypeOK
<1> QED
  BY <1>4, IrTipo, SoLinhaTipo DEF AgendarEtapa, Passos, EmissaoTypeOK

LEMMA UploadTipo ==
  ASSUME DadosTypeOK, EmissaoTypeOK, NEW l \in Linhas, Upload(l)
  PROVE  DadosTypeOK' /\ EmissaoTypeOK'
<1>1. h[l] \in Linha /\ ex[l].seq \in NNs
  BY DEF DadosTypeOK, EmissaoTypeOK, Exec
<1>2. [h[l] EXCEPT !.nn = ex[l].seq] \in Linha
  BY <1>1, Nn
<1>3. h' \in [Linhas -> Linha]
  BY <1>2, UpdateTipo DEF Upload, DadosTypeOK
<1> QED
  BY <1>3, IrTipo, SoLinhaTipo DEF Upload, Passos, EmissaoTypeOK

LEMMA PegarLockTipo ==
  ASSUME DadosTypeOK, EmissaoTypeOK, NEW l \in Linhas, PegarLock(l)
  PROVE  DadosTypeOK' /\ EmissaoTypeOK'
<1>1. LeaseTypeOK'
  BY Donos, PegarTipo DEF PegarLock, DadosTypeOK
<1> QED
  BY <1>1, IrTipo DEF PegarLock, Passos, DadosTypeOK, EmissaoTypeOK

LEMMA FalharSessaoTipo ==
  ASSUME DadosTypeOK, EmissaoTypeOK, NEW l \in Linhas, FalharSessao(l)
  PROVE  DadosTypeOK' /\ EmissaoTypeOK'
<1>1. LeaseTypeOK'
  BY Donos, SoltarTipo DEF FalharSessao, Sair, DadosTypeOK
<1>2. pc' \in [Linhas -> Passos]
  BY IrTipo DEF FalharSessao, Sair, Passos
<1>3. titulo' \in [NNs -> {"nao", "aberto", "pago", "baixado"}]
  BY DEF FalharSessao, DadosTypeOK
<1>4. dono' \in [NNs -> Linhas \cup {0}]
  BY DEF FalharSessao, DadosTypeOK
<1> QED
  BY <1>1, <1>2, <1>3, <1>4 DEF FalharSessao, Sair, DadosTypeOK, EmissaoTypeOK

LEMMA FalharBaixaTipo ==
  ASSUME DadosTypeOK, EmissaoTypeOK, NEW l \in Linhas, FalharBaixa(l)
  PROVE  DadosTypeOK' /\ EmissaoTypeOK'
<1>1. LeaseTypeOK'
  BY Donos, SoltarTipo DEF FalharBaixa, Sair, DadosTypeOK
<1>2. pc' \in [Linhas -> Passos]
  BY IrTipo DEF FalharBaixa, Sair, Passos
<1>3. titulo' \in [NNs -> {"nao", "aberto", "pago", "baixado"}]
  BY DEF FalharBaixa, DadosTypeOK
<1>4. dono' \in [NNs -> Linhas \cup {0}]
  BY DEF FalharBaixa, DadosTypeOK
<1> QED
  BY <1>1, <1>2, <1>3, <1>4 DEF FalharBaixa, Sair, DadosTypeOK, EmissaoTypeOK

LEMMA EmitirTipo ==
  ASSUME DadosTypeOK, EmissaoTypeOK, NEW l \in Linhas, Emitir(l)
  PROVE  DadosTypeOK' /\ EmissaoTypeOK'
<1>1. LeaseTypeOK'
  BY Donos, SoltarTipo DEF Emitir, Sair, DadosTypeOK
<1>2. pc' \in [Linhas -> Passos]
  BY IrTipo DEF Emitir, Sair, Passos
<1>3. titulo' \in [NNs -> {"nao", "aberto", "pago", "baixado"}]
  BY DEF Emitir, DadosTypeOK
<1>4. dono' \in [NNs -> Linhas \cup {0}]
  BY DEF Emitir, DadosTypeOK
<1> QED
  BY <1>1, <1>2, <1>3, <1>4 DEF Emitir, Sair, DadosTypeOK, EmissaoTypeOK

LEMMA FalharEmissaoTipo ==
  ASSUME DadosTypeOK, EmissaoTypeOK, NEW l \in Linhas, FalharEmissao(l)
  PROVE  DadosTypeOK' /\ EmissaoTypeOK'
<1>1. LeaseTypeOK'
  BY Donos, SoltarTipo DEF FalharEmissao, Sair, DadosTypeOK
<1>2. pc' \in [Linhas -> Passos]
  BY IrTipo DEF FalharEmissao, Sair, Passos
<1>3. titulo' \in [NNs -> {"nao", "aberto", "pago", "baixado"}]
  BY DEF FalharEmissao, DadosTypeOK
<1>4. dono' \in [NNs -> Linhas \cup {0}]
  BY DEF FalharEmissao, DadosTypeOK
<1> QED
  BY <1>1, <1>2, <1>3, <1>4 DEF FalharEmissao, Sair, DadosTypeOK, EmissaoTypeOK

LEMMA BaixaPreviaTipo ==
  ASSUME DadosTypeOK, EmissaoTypeOK, NEW l \in Linhas, BaixaPrevia(l)
  PROVE  DadosTypeOK' /\ EmissaoTypeOK'
<1>1. titulo' \in [NNs -> {"nao", "aberto", "pago", "baixado"}]
  BY DEF BaixaPrevia, DadosTypeOK
<1>2. ex' \in [Linhas -> Exec]
  <2>1. [ex[l] EXCEPT !.baixou = TRUE] \in Exec
    BY Baixou DEF EmissaoTypeOK
  <2> QED
    BY <2>1 DEF BaixaPrevia, EmissaoTypeOK
<1>3. pc' \in [Linhas -> Passos]
  BY IrTipo DEF BaixaPrevia, Passos
<1> QED
  BY <1>1, <1>2, <1>3 DEF BaixaPrevia, DadosTypeOK, EmissaoTypeOK, leaseVars, LeaseTypeOK

LEMMA GravarBaixaTipo ==
  ASSUME DadosTypeOK, EmissaoTypeOK, NEW l \in Linhas, GravarBaixa(l)
  PROVE  DadosTypeOK' /\ EmissaoTypeOK'
<1>1. CASE ex[l].prev \in Linhas
  <2>1. h[ex[l].prev] \in Linha
    BY <1>1 DEF DadosTypeOK
  <2>2. [h[ex[l].prev] EXCEPT !.pay = "cancelled"] \in Linha
    BY <2>1, Pay
  <2> QED
    BY <1>1, <2>2, UpdateTipo, IrTipo, SoLinhaTipo
       DEF GravarBaixa, Passos, EmissaoTypeOK, DadosTypeOK
<1>2. CASE ex[l].prev \notin Linhas
  <2>1. h' = h
    BY <1>2 DEF GravarBaixa, Update, DadosTypeOK
  <2> QED
    BY <2>1, IrTipo, SoLinhaTipo DEF GravarBaixa, Passos, EmissaoTypeOK, DadosTypeOK
<1> QED
  BY <1>1, <1>2

LEMMA PassoTipo ==
  ASSUME DadosTypeOK, EmissaoTypeOK, FotoLida, NEW l \in Linhas, Passo(l)
  PROVE  DadosTypeOK' /\ EmissaoTypeOK'
  BY IniciarTipo, LerReservaTipo, FalharCVTipo, VerPagoTipo, VerJanelaTipo, AgendarTipo,
     RecusarTipo, DecidirRetriggerTipo, RecusarPrazoTipo, NumerarTipo, PegarLockTipo,
     DesistirLockTipo, AbrirSessaoTipo, FalharSessaoTipo, BaixaPreviaTipo,
     FalharBaixaTipo, EmitirTipo, FalharEmissaoTipo, GravarBaixaTipo, UploadTipo,
     FalharUploadTipo, AgendarEtapaTipo, ConcluirTipo, ReagendarTipo, ReprovarTipo DEF
     Passo

LEMMA AcionarTipo ==
  ASSUME DadosTypeOK, EmissaoTypeOK, NEW l \in Linhas,
         NEW forcar \in BOOLEAN, NEW manual \in BOOLEAN, Acionar(l, forcar, manual)
  PROVE  DadosTypeOK' /\ EmissaoTypeOK'
<1>1. h[l] \in Linha
  BY DEF DadosTypeOK
<1>2. [h[l] EXCEPT !.status = "processing"] \in Linha
  BY <1>1, St DEF Status
<1>3. h' \in [Linhas -> Linha]
  BY <1>2, UpdateTipo DEF Acionar, DadosTypeOK
<1>4. ex' \in [Linhas -> Exec]
  <2>1. [ex[l] EXCEPT !.forcar = forcar, !.manual = manual] \in Exec
    BY Disparo DEF EmissaoTypeOK
  <2>2. ex' = [ex EXCEPT ![l] = [ex[l] EXCEPT !.forcar = forcar, !.manual = manual]]
    BY DEF Acionar, EmissaoTypeOK
  <2> QED
    BY <2>1, <2>2 DEF EmissaoTypeOK
<1>5. pc' \in [Linhas -> Passos]
  BY IrTipo DEF Acionar, Passos
<1> QED
  BY <1>3, <1>4, <1>5 DEF Acionar, DadosTypeOK, EmissaoTypeOK, leaseVars, LeaseTypeOK

LEMMA RetomarTipo ==
  ASSUME DadosTypeOK, EmissaoTypeOK, NEW l \in Linhas, Retomar(l)
  PROVE  DadosTypeOK' /\ EmissaoTypeOK'
<1>1. h[l] \in Linha
  BY DEF DadosTypeOK
<1>2. [h[l] EXCEPT !.processada = TRUE] \in Linha
  BY <1>1, Pr
<1>3. h' \in [Linhas -> Linha]
  BY <1>2, UpdateTipo DEF Retomar, DadosTypeOK
<1>4. ex' \in [Linhas -> Exec]
  BY DEF Retomar, EmissaoTypeOK, Exec
<1>5. pc' \in [Linhas -> Passos]
  BY IrTipo DEF Retomar, Passos
<1> QED
  BY <1>3, <1>4, <1>5 DEF Retomar, DadosTypeOK, EmissaoTypeOK, leaseVars, LeaseTypeOK

LEMMA EmissaoTipo ==
  ASSUME DadosTypeOK, EmissaoTypeOK, FotoLida, EmissaoNext
  PROVE  DadosTypeOK' /\ EmissaoTypeOK'
<1>1. CASE FimRetomada
  BY <1>1 DEF FimRetomada, DadosTypeOK, EmissaoTypeOK, leaseVars, LeaseTypeOK
<1> QED
  BY <1>1, AcionarTipo, RetomarTipo, PassoTipo DEF EmissaoNext

-----------------------------------------------------------------------------
(* Steps of the verification. *)

\* What the bank shows for a numbered row fits in what a round remembers.
LEMMA LeituraTipo ==
  ASSUME DadosTypeOK, NumeroRegistrado, NEW k \in Linhas, h[k].nn # Nulo
  PROVE  h[k].nn \in NNs /\ Leituras(h[k].nn) \subseteq {"aberto", "pago", "baixado"}
<1>1. h[k].nn \in NNs
  BY DEF DadosTypeOK, Linha
<1>2. titulo[h[k].nn] \in {"aberto", "pago", "baixado"}
  BY <1>1 DEF DadosTypeOK, NumeroRegistrado
<1> QED
  BY <1>1, <1>2 DEF Leituras

LEMMA TerminarTipo ==
  ASSUME VerificacaoTypeOK, NEW v \in Verificadores, NEW i, Terminar(v, i)
  PROVE  vf' \in [Verificadores -> Rodada]
<1> DEFINE r == [vf[v] EXCEPT !.pc = "lote", !.itens = @ \ {i}, !.l = 0, !.lida = "-",
                              !.baixou = FALSE, !.visto = "-"]
<1>1. vf[v] \in Rodada
  BY DEF VerificacaoTypeOK
<1>2. r \in Rodada
  BY <1>1 DEF Rodada
<1>3. vf' = [vf EXCEPT ![v] = r]
  BY DEF Terminar, VerificacaoTypeOK
<1> QED
  BY <1>2, <1>3 DEF VerificacaoTypeOK

\* What a round keeps between its awaits, shape by shape.
LEMMA Lida == ASSUME NEW r \in Rodada, NEW k \in Linhas,
                     NEW s \in {"aberto", "pago", "baixado"}
              PROVE  [r EXCEPT !.pc = "ler", !.l = k, !.lida = s] \in Rodada
  BY DEF Rodada
LEMMA LidaBaixou == ASSUME NEW r \in Rodada, NEW k \in Linhas
                    PROVE  [r EXCEPT !.pc = "ler", !.l = k, !.lida = "aberto", !.baixou = TRUE]
                             \in Rodada
  BY DEF Rodada
LEMMA Vista == ASSUME NEW r \in Rodada, NEW p \in {"pending", "paid", "cancelled"}
               PROVE  [r EXCEPT !.pc = "gravar", !.visto = p] \in Rodada
  BY DEF Rodada
LEMMA Lote == ASSUME NEW r \in Rodada, NEW I \in SUBSET (Linhas \X BOOLEAN)
              PROVE  [r EXCEPT !.pc = "lote", !.itens = I] \in Rodada
  BY DEF Rodada

LEMMA IniciarRodadaTipo ==
  ASSUME DadosTypeOK, VerificacaoTypeOK, NEW v \in Verificadores, IniciarRodada(v)
  PROVE  DadosTypeOK' /\ VerificacaoTypeOK'
<1>1. Elegiveis \in SUBSET (Linhas \X BOOLEAN)
  <2>1. \A k \in ComNumero : /\ <<k, TRUE>> \in Linhas \X BOOLEAN
                             /\ <<k, FALSE>> \in Linhas \X BOOLEAN
    BY DEF ComNumero
  <2> QED
    BY <2>1 DEF Elegiveis
<1>2. [vf[v] EXCEPT !.pc = "lote", !.itens = Elegiveis] \in Rodada
  BY <1>1, Lote DEF VerificacaoTypeOK
<1>3. vf' = [vf EXCEPT ![v] = [vf[v] EXCEPT !.pc = "lote", !.itens = Elegiveis]]
  BY DEF IniciarRodada, VerificacaoTypeOK
<1>4. LeaseTypeOK'
  BY Donos, PegarTipo DEF IniciarRodada, DadosTypeOK
<1> QED
  BY <1>2, <1>3, <1>4 DEF IniciarRodada, DadosTypeOK, VerificacaoTypeOK

LEMMA ConsultarTipo ==
  ASSUME DadosTypeOK, VerificacaoTypeOK, NumeroRegistrado, RodadaComNumero,
         NEW v \in Verificadores, NEW i \in vf[v].itens, Consultar(v, i)
  PROVE  DadosTypeOK' /\ VerificacaoTypeOK'
<1>1. vf[v] \in Rodada /\ i \in Linhas \X BOOLEAN /\ h[i[1]].nn # Nulo
  BY DEF VerificacaoTypeOK, Rodada, RodadaComNumero
<1>2. i[1] \in Linhas
  BY <1>1
<1>3. PICK s \in Leituras(h[i[1]].nn) :
        IF s = "aberto" THEN Terminar(v, i)
        ELSE vf' = [vf EXCEPT ![v].pc = "ler", ![v].l = i[1], ![v].lida = s]
  BY DEF Consultar
<1>4. s \in {"aberto", "pago", "baixado"}
  BY <1>1, <1>2, LeituraTipo
<1>5. CASE s = "aberto"
  BY <1>3, <1>5, TerminarTipo DEF Consultar, soVf, VerificacaoTypeOK, DadosTypeOK, leaseVars,
     LeaseTypeOK
<1>6. CASE s # "aberto"
  <2>1. [vf[v] EXCEPT !.pc = "ler", !.l = i[1], !.lida = s] \in Rodada
    BY <1>1, <1>2, <1>4, Lida
  <2>2. vf' = [vf EXCEPT ![v] = [vf[v] EXCEPT !.pc = "ler", !.l = i[1], !.lida = s]]
    BY <1>3, <1>6 DEF VerificacaoTypeOK
  <2> QED
    BY <2>1, <2>2 DEF Consultar, soVf, VerificacaoTypeOK, DadosTypeOK, leaseVars, LeaseTypeOK
<1> QED
  BY <1>5, <1>6

LEMMA ConsultarEBaixarTipo ==
  ASSUME DadosTypeOK, VerificacaoTypeOK,
         NEW v \in Verificadores, NEW i \in vf[v].itens, ConsultarEBaixar(v, i)
  PROVE  DadosTypeOK' /\ VerificacaoTypeOK'
<1>1. vf[v] \in Rodada /\ i[1] \in Linhas
  BY DEF VerificacaoTypeOK, Rodada
<1> DEFINE r == [vf[v] EXCEPT !.pc = "ler", !.l = i[1], !.lida = "aberto", !.baixou = TRUE]
<1>2. r \in Rodada
  BY <1>1, LidaBaixou
<1>3. vf' = [vf EXCEPT ![v] = r] \/ Terminar(v, i)
  BY DEF ConsultarEBaixar, VerificacaoTypeOK
<1>4. vf' \in [Verificadores -> Rodada]
  BY <1>2, <1>3, TerminarTipo DEF VerificacaoTypeOK
<1>5. titulo' \in [NNs -> {"nao", "aberto", "pago", "baixado"}]
  BY DEF ConsultarEBaixar, DadosTypeOK
<1> QED
  BY <1>4, <1>5 DEF ConsultarEBaixar, VerificacaoTypeOK, DadosTypeOK, leaseVars, LeaseTypeOK

LEMMA LerLinhaTipo ==
  ASSUME DadosTypeOK, VerificacaoTypeOK, RodadaComNumero,
         NEW v \in Verificadores, LerLinha(v)
  PROVE  DadosTypeOK' /\ VerificacaoTypeOK'
<1>1. vf[v] \in Rodada /\ vf[v].l \in Linhas
  BY DEF VerificacaoTypeOK, RodadaComNumero, LerLinha
<1>2. h[vf[v].l].pay \in {"pending", "paid", "cancelled"}
  BY <1>1 DEF DadosTypeOK, Linha
<1>3. [vf[v] EXCEPT !.pc = "gravar", !.visto = h[vf[v].l].pay] \in Rodada
  BY <1>1, <1>2, Vista
<1>4. vf' = [vf EXCEPT ![v] = [vf[v] EXCEPT !.pc = "gravar", !.visto = h[vf[v].l].pay]]
  BY DEF LerLinha, VerificacaoTypeOK
<1> QED
  BY <1>3, <1>4 DEF LerLinha, soVf, VerificacaoTypeOK, DadosTypeOK, leaseVars, LeaseTypeOK

LEMMA GravarTipo ==
  ASSUME DadosTypeOK, VerificacaoTypeOK, RodadaComNumero,
         NEW v \in Verificadores, Gravar(v)
  PROVE  DadosTypeOK' /\ VerificacaoTypeOK'
<1>1. vf[v].l \in Linhas
  BY DEF RodadaComNumero, Gravar
<1>2. h[vf[v].l] \in Linha
  BY <1>1 DEF DadosTypeOK
<1>3. NovoPay(vf[v], h[vf[v].l].pay) \in {"pending", "paid", "cancelled"}
  BY <1>2 DEF NovoPay, Linha
<1>4. [h[vf[v].l] EXCEPT !.pay = NovoPay(vf[v], h[vf[v].l].pay)] \in Linha
  BY <1>2, <1>3, Pay
<1>5. h' \in [Linhas -> Linha]
  BY <1>1, <1>4, UpdateTipo DEF Gravar, DadosTypeOK
<1> QED
  BY <1>5, TerminarTipo DEF Gravar, VerificacaoTypeOK, DadosTypeOK, leaseVars, LeaseTypeOK

LEMMA VerificacaoTipo ==
  ASSUME DadosTypeOK, VerificacaoTypeOK, NumeroRegistrado, RodadaComNumero, VerificacaoNext
  PROVE  DadosTypeOK' /\ VerificacaoTypeOK'
<1> USE DEF soVf
<1>1. ASSUME NEW v \in Verificadores, NEW i \in vf[v].itens, Pular(v, i)
      PROVE  DadosTypeOK' /\ VerificacaoTypeOK'
  BY <1>1, TerminarTipo DEF Pular, VerificacaoTypeOK, DadosTypeOK, leaseVars, LeaseTypeOK
<1>2. ASSUME NEW v \in Verificadores, EncerrarRodada(v)
      PROVE  DadosTypeOK' /\ VerificacaoTypeOK'
  <2>1. LeaseTypeOK'
    BY <1>2, Donos, SoltarTipo DEF EncerrarRodada, DadosTypeOK
  <2>2. RodadaNova \in Rodada
    BY DEF RodadaNova, Rodada
  <2> QED
    BY <1>2, <2>1, <2>2 DEF EncerrarRodada, DadosTypeOK, VerificacaoTypeOK
<1>3. ASSUME NEW l \in Linhas, LerParaMarcar(l)
      PROVE  DadosTypeOK' /\ VerificacaoTypeOK'
  BY <1>3 DEF LerParaMarcar, VerificacaoTypeOK, DadosTypeOK, leaseVars, LeaseTypeOK
<1>4. CASE MarcarBaixado
  <2>1. marcar \in Linhas /\ h[marcar] \in Linha
    BY <1>4 DEF MarcarBaixado, VerificacaoTypeOK, DadosTypeOK
  <2>2. [h[marcar] EXCEPT !.pay = "cancelled"] \in Linha
    BY <2>1, Pay
  <2>3. h' \in [Linhas -> Linha]
    BY <1>4, <2>1, <2>2, UpdateTipo DEF MarcarBaixado, DadosTypeOK
  <2> QED
    BY <1>4, <2>3 DEF MarcarBaixado, VerificacaoTypeOK, DadosTypeOK, leaseVars, LeaseTypeOK
<1> QED
  BY <1>1, <1>2, <1>3, <1>4, IniciarRodadaTipo, ConsultarTipo, ConsultarEBaixarTipo,
     LerLinhaTipo, GravarTipo DEF VerificacaoNext, PassoVf

-----------------------------------------------------------------------------
(* Steps of the cancellation and of the environment. *)

LEMMA ResponderTipo ==
  ASSUME NEW res \in {"-", "segue", "barra"}, Responder(res) PROVE CancTypeOK'
  BY DEF Responder, CancNovo, CancTypeOK, Cancelamento

LEMMA ResultadoTipo ==
  ASSUME NEW r \in Cancelamento, NEW s \in {"aberto", "pago", "baixado"}
  PROVE  /\ [r EXCEPT !.pc = "gravar", !.lida = s, !.baixou = TRUE] \in Cancelamento
         /\ [r EXCEPT !.pc = "gravar", !.lida = s] \in Cancelamento
  BY DEF Cancelamento

LEMMA CancTipo ==
  ASSUME DadosTypeOK, CancTypeOK, NumeroRegistrado, CancComNumero, CancNext
  PROVE  DadosTypeOK' /\ CancTypeOK'
<1> USE DEF soCanc
<1>1. CASE ValidarAto
  <2>1. Gate \subseteq {"segue", "barra", "baixar"}
    BY DEF Gate, Decisao
  <2>2. [CancNovo EXCEPT !.pc = "buscar"] \in Cancelamento
    BY DEF CancNovo, Cancelamento
  <2>3. CancTypeOK'
    BY <1>1, <2>1, <2>2, ResponderTipo DEF ValidarAto, CancTypeOK
  <2> QED
    BY <1>1, <2>3 DEF ValidarAto, DadosTypeOK, leaseVars, LeaseTypeOK
<1>2. CASE BuscarBoleto
  <2>1. ASSUME NEW k \in Ultima({l \in Pendentes : h[l].nn # Nulo})
        PROVE  [canc EXCEPT !.pc = "lock", !.l = k] \in Cancelamento
    BY DEF Ultima, Pendentes, Emitidas, CancTypeOK, Cancelamento
  <2>2. CancTypeOK'
    BY <1>2, <2>1, ResponderTipo DEF BuscarBoleto, CancTypeOK
  <2> QED
    BY <1>2, <2>2 DEF BuscarBoleto, DadosTypeOK, leaseVars, LeaseTypeOK
<1>3. CASE PegarLockCanc
  <2>1. LeaseTypeOK'
    BY <1>3, Donos, PegarTipo DEF PegarLockCanc, DadosTypeOK
  <2> QED
    BY <1>3, <2>1 DEF PegarLockCanc, DadosTypeOK, CancTypeOK, Cancelamento
<1>4. CASE DesistirLockCanc
  BY <1>4, ResponderTipo DEF DesistirLockCanc, DadosTypeOK, leaseVars, LeaseTypeOK
<1>5. CASE LerTituloCanc
  <2>1. canc.l \in Linhas /\ h[canc.l].nn # Nulo
    BY <1>5 DEF LerTituloCanc, CancComNumero
  <2>2. Leituras(h[canc.l].nn) \subseteq {"aberto", "pago", "baixado"}
    BY <2>1, LeituraTipo
  <2>3. CancTypeOK'
    BY <1>5, <2>2, ResultadoTipo DEF LerTituloCanc, CancTypeOK
  <2>4. titulo' \in [NNs -> {"nao", "aberto", "pago", "baixado"}]
    BY <1>5 DEF LerTituloCanc, DadosTypeOK
  <2>5. LeaseTypeOK'
    BY <1>5, Donos, SoltarTipo DEF LerTituloCanc, DadosTypeOK
  <2> QED
    BY <1>5, <2>3, <2>4, <2>5 DEF LerTituloCanc, DadosTypeOK
<1>6. CASE FalharPortalCanc
  <2>1. titulo' \in [NNs -> {"nao", "aberto", "pago", "baixado"}]
    BY <1>6 DEF FalharPortalCanc, DadosTypeOK
  <2>2. LeaseTypeOK'
    BY <1>6, Donos, SoltarTipo DEF FalharPortalCanc, DadosTypeOK
  <2> QED
    BY <1>6, <2>1, <2>2, ResponderTipo DEF FalharPortalCanc, DadosTypeOK
<1>7. CASE GravarCanc
  <2>1. CancTypeOK'
    BY <1>7, ResponderTipo DEF GravarCanc
  <2>2. canc.l \in Linhas
    BY <1>7 DEF GravarCanc, CancComNumero
  <2>3. \A k \in Linhas : /\ h[k] \in Linha
                          /\ [h[k] EXCEPT !.pay = "paid"] \in Linha
                          /\ [h[k] EXCEPT !.pay = "cancelled"] \in Linha
    BY Pay DEF DadosTypeOK
  <2>4. h' \in [Linhas -> Linha]
    BY <1>7, <2>2, <2>3, UpdateTipo DEF GravarCanc, DadosTypeOK
  <2> QED
    BY <1>7, <2>1, <2>4 DEF GravarCanc, DadosTypeOK, leaseVars, LeaseTypeOK
<1> QED
  BY <1>1, <1>2, <1>3, <1>4, <1>5, <1>6, <1>7 DEF CancNext, PassoCanc

LEMMA AmbienteTipo == ASSUME DadosTypeOK, Ambiente PROVE DadosTypeOK'
<1> USE DEF DadosTypeOK, leaseVars
<1>1. CASE \E n \in NNs : Pagar(n) \/ BaixaExterna(n)
  BY <1>1 DEF Pagar, BaixaExterna, LeaseTypeOK
<1>2. CASE TrocarCondicao
  BY <1>2 DEF TrocarCondicao, LeaseTypeOK
<1>3. CASE CancelarReserva
  <2>1. [cv EXCEPT !.viva = FALSE] \in [cond: Conds \cup {SemSerie, Invalida}, viva: BOOLEAN]
    OBVIOUS
  <2> QED
    BY <1>3, <2>1 DEF CancelarReserva, LeaseTypeOK
<1>4. CASE AbrirFecharJanela
  BY <1>4 DEF AbrirFecharJanela, LeaseTypeOK
<1>5. CASE LigarDesligar
  BY <1>5 DEF LigarDesligar, LeaseTypeOK
<1>6. CASE VencerLease
  BY <1>6, VencerTipo DEF VencerLease
<1> QED
  BY <1>1, <1>2, <1>3, <1>4, <1>5, <1>6 DEF Ambiente

-----------------------------------------------------------------------------
(* What the steps keep of the strengthening. *)

\* The steps of a run that only move it, that stop it, and the others.
Move(l) == \/ FalharCV(l) \/ PegarLock(l) \/ DesistirLock(l) \/ AbrirSessao(l)
           \/ FalharSessao(l) \/ FalharBaixa(l) \/ Emitir(l) \/ FalharEmissao(l)
           \/ GravarBaixa(l) \/ Upload(l) \/ FalharUpload(l) \/ AgendarEtapa(l)
Para(l) == \/ Agendar(l) \/ Recusar(l) \/ RecusarPrazo(l) \/ Concluir(l)
           \/ Reagendar(l) \/ Reprovar(l)
Decide(l) == Iniciar(l) \/ LerReserva(l) \/ VerPago(l) \/ VerJanela(l) \/ DecidirRetrigger(l)

LEMMA Grupos == ASSUME NEW l, Passo(l)
                PROVE  Move(l) \/ Para(l) \/ Decide(l) \/ Numerar(l) \/ BaixaPrevia(l)
  BY DEF Passo, Move, Para, Decide

LEMMA FotoPasso ==
  ASSUME EmissaoTypeOK, FotoLida, NEW l \in Linhas, Passo(l)
  PROVE  FotoLida'
<1> USE DEF FotoLida, EmissaoTypeOK, soPasso, soLinha, Ir, Parar
<1>1. CASE Move(l)
  <2>1. ex' = ex /\ \E p \in Passos \ {"prazo"} : pc' = [pc EXCEPT ![l] = p]
    BY <1>1 DEF Move, FalharCV, PegarLock, DesistirLock, AbrirSessao, FalharSessao,
       FalharBaixa, Emitir, FalharEmissao, GravarBaixa, Upload, FalharUpload, AgendarEtapa,
       Sair, Passos
  <2> QED
    BY <2>1
<1>2. CASE Para(l)
  BY <1>2 DEF Para, Agendar, Recusar, RecusarPrazo, Concluir, Reagendar, Reprovar
<1>3. CASE Iniciar(l) \/ VerPago(l)
  BY <1>3 DEF Iniciar, VerPago
<1>4. CASE LerReserva(l)
  BY <1>4 DEF LerReserva
<1>5. CASE VerJanela(l)
  BY <1>5 DEF VerJanela
<1>6. CASE DecidirRetrigger(l)
  <2>1. ex[l].foto \in Conds /\ ex[l] \in Exec
    BY <1>6 DEF DecidirRetrigger
  <2>2. \A k \in Linhas : ex'[k].foto = ex[k].foto \/ pc'[k] = "parado"
    BY <1>6, <2>1 DEF DecidirRetrigger, Ignorar, Exec
  <2>3. \A k \in Linhas \ {l} : pc'[k] = pc[k] /\ ex'[k] = ex[k]
    BY <1>6 DEF DecidirRetrigger, Ignorar
  <2> QED
    BY <2>1, <2>2, <2>3
<1>7. CASE Numerar(l) \/ BaixaPrevia(l)
  BY <1>7 DEF Numerar, BaixaPrevia
<1> QED
  BY <1>1, <1>2, <1>3, <1>4, <1>5, <1>6, <1>7, Grupos DEF Decide

\* The marks of an early return leave the number of the row alone.
LEMMA NumeroFica ==
  ASSUME NEW r \in Linha, NEW c
  PROVE  /\ [r EXCEPT !.status = "skipped", !.pessoa = TRUE].nn = r.nn
         /\ [r EXCEPT !.status = "skipped", !.ignorado = TRUE, !.pessoa = TRUE].nn = r.nn
         /\ [r EXCEPT !.status = "success", !.ignorado = TRUE, !.cond = c,
                      !.pessoa = TRUE].nn = r.nn
  BY DEF Linha

\* The only step that gives a row a number is the upload, and it gives the
\* number the run emitted.
LEMMA NumeroPasso ==
  ASSUME DadosTypeOK, EmissaoTypeOK, NEW l \in Linhas, Passo(l), NEW k \in Linhas
  PROVE  h'[k].nn = h[k].nn \/ (k = l /\ pc[l] = "upload" /\ h'[k].nn = ex[l].seq)
<1> USE DEF DadosTypeOK, Update, soPasso, soLinha
<1>1. CASE Move(l)
  BY <1>1 DEF Linha, Move, FalharCV, PegarLock, DesistirLock, AbrirSessao, FalharSessao,
     FalharBaixa, Emitir, FalharEmissao, GravarBaixa, Upload, FalharUpload, AgendarEtapa,
     Sair
<1>2. CASE Agendar(l)
  BY <1>2 DEF Linha, Agendar
<1>3. CASE Recusar(l)
  BY <1>3 DEF Linha, Recusar
<1>4. CASE RecusarPrazo(l)
  BY <1>4 DEF Linha, RecusarPrazo
<1>5. CASE Concluir(l)
  BY <1>5 DEF Linha, Concluir
<1>6. CASE Reagendar(l)
  BY <1>6 DEF Linha, Reagendar
<1>7. CASE Reprovar(l)
  BY <1>7 DEF Linha, Reprovar
<1>8. CASE Iniciar(l)
  BY <1>8 DEF Linha, Iniciar
<1>9. CASE VerPago(l)
  <2> DEFINE r == [h[l] EXCEPT !.status = "skipped", !.pessoa = TRUE]
  <2>1. h[l] \in Linha
    OBVIOUS
  <2>2. r.nn = h[l].nn
    BY <2>1, NumeroFica
  <2>3. h' = h \/ h' = [h EXCEPT ![l] = r]
    BY <1>9 DEF VerPago
  <2> HIDE DEF r
  <2> QED
    BY <2>2, <2>3
<1>10. CASE LerReserva(l)
  <2> DEFINE r == [h[l] EXCEPT !.status = "skipped", !.pessoa = TRUE]
  <2>1. h[l] \in Linha
    OBVIOUS
  <2>2. r.nn = h[l].nn
    BY <2>1, NumeroFica
  <2>3. h' = h \/ h' = [h EXCEPT ![l] = r]
    BY <1>10 DEF LerReserva
  <2> HIDE DEF r
  <2> QED
    BY <2>2, <2>3
<1>11. CASE VerJanela(l)
  <2> DEFINE r == [h[l] EXCEPT !.status = "skipped", !.ignorado = TRUE, !.pessoa = TRUE]
  <2>1. h[l] \in Linha
    OBVIOUS
  <2>2. r.nn = h[l].nn
    BY <2>1, NumeroFica
  <2>3. h' = h \/ h' = [h EXCEPT ![l] = r]
    BY <1>11 DEF VerJanela
  <2> HIDE DEF r
  <2> QED
    BY <2>2, <2>3
<1>12. CASE DecidirRetrigger(l)
  <2> DEFINE r == [h[l] EXCEPT !.status = "success", !.ignorado = TRUE, !.cond = ex[l].foto,
                         !.pessoa = TRUE]
  <2>1. h[l] \in Linha
    OBVIOUS
  <2>2. r.nn = h[l].nn
    BY <2>1, NumeroFica
  <2>3. h' = h \/ h' = [h EXCEPT ![l] = r]
    BY <1>12 DEF DecidirRetrigger, Ignorar
  <2> HIDE DEF r
  <2> QED
    BY <2>2, <2>3
<1>13. CASE Numerar(l)
  BY <1>13 DEF Linha, Numerar
<1>14. CASE BaixaPrevia(l)
  BY <1>14 DEF Linha, BaixaPrevia
<1> QED
  BY <1>1, <1>2, <1>3, <1>4, <1>5, <1>6, <1>7, <1>8, <1>9, <1>10, <1>11, <1>12, <1>13,
     <1>14, Grupos DEF Para, Decide

\* The bank forgets no title.
LEMMA TituloPasso ==
  ASSUME DadosTypeOK, NEW l \in Linhas, Passo(l), NEW n \in NNs, titulo[n] # "nao"
  PROVE  titulo'[n] # "nao"
<1> USE DEF DadosTypeOK, soPasso, soLinha
<1>1. CASE Move(l)
  BY <1>1 DEF Move, FalharCV, PegarLock, DesistirLock, AbrirSessao, FalharSessao,
     FalharBaixa, Emitir, FalharEmissao, GravarBaixa, Upload, FalharUpload, AgendarEtapa
<1>2. CASE Para(l)
  BY <1>2 DEF Para, Agendar, Recusar, RecusarPrazo, Concluir, Reagendar, Reprovar
<1>3. CASE Decide(l)
  BY <1>3 DEF Decide, Iniciar, VerPago, LerReserva, VerJanela, DecidirRetrigger
<1>4. CASE Numerar(l) \/ BaixaPrevia(l)
  BY <1>4 DEF Numerar, BaixaPrevia
<1> QED
  BY <1>1, <1>2, <1>3, <1>4, Grupos

\* A run is past the emission with a registered title.
LEMMA DepoisPasso ==
  ASSUME DadosTypeOK, EmissaoTypeOK, NumeroRegistrado, NEW l \in Linhas, Passo(l),
         NEW k \in Linhas, pc'[k] \in {"posBaixa", "upload"}
  PROVE  titulo'[ex'[k].seq] # "nao"
<1> USE DEF EmissaoTypeOK, Ir, Parar, soPasso, soLinha
<1>1. CASE k # l
  <2>1. pc'[k] = pc[k] /\ ex'[k] = ex[k]
    <3>1. CASE Move(l)
      BY <1>1, <3>1 DEF Move, FalharCV, PegarLock, DesistirLock, AbrirSessao, FalharSessao,
         FalharBaixa, Emitir, FalharEmissao, GravarBaixa, Upload, FalharUpload, AgendarEtapa,
         Sair
    <3>2. CASE Para(l)
      BY <1>1, <3>2 DEF Para, Agendar, Recusar, RecusarPrazo, Concluir, Reagendar, Reprovar
    <3>3. CASE Decide(l)
      BY <1>1, <3>3 DEF Decide, Iniciar, VerPago, LerReserva, VerJanela, DecidirRetrigger,
         Ignorar
    <3>4. CASE Numerar(l) \/ BaixaPrevia(l)
      BY <1>1, <3>4 DEF Numerar, BaixaPrevia
    <3> QED
      BY <3>1, <3>2, <3>3, <3>4, Grupos
  <2>2. ex[k].seq \in NNs /\ titulo[ex[k].seq] # "nao"
    BY <2>1 DEF NumeroRegistrado, Exec
  <2> QED
    BY <2>1, <2>2, TituloPasso
<1>2. CASE k = l
  <2>1. GravarBaixa(l) \/ Emitir(l)
    <3>1. CASE Move(l)
      BY <1>2, <3>1 DEF Move, FalharCV, PegarLock, DesistirLock, AbrirSessao, FalharSessao,
         FalharBaixa, FalharEmissao, Upload, FalharUpload, AgendarEtapa, Sair
    <3>2. CASE Para(l)
      BY <1>2, <3>2 DEF Para, Agendar, Recusar, RecusarPrazo, Concluir, Reagendar, Reprovar
    <3>3. CASE Decide(l)
      BY <1>2, <3>3 DEF Decide, Iniciar, VerPago, LerReserva, VerJanela, DecidirRetrigger,
         Ignorar
    <3>4. CASE Numerar(l) \/ BaixaPrevia(l)
      BY <1>2, <3>4 DEF Numerar, BaixaPrevia
    <3> QED
      BY <3>1, <3>2, <3>3, <3>4, Grupos
  <2>2. ex[l].seq \in NNs
    BY DEF Exec
  <2>3. CASE GravarBaixa(l)
    BY <1>2, <2>3 DEF GravarBaixa, NumeroRegistrado
  <2>4. CASE Emitir(l)
    BY <1>2, <2>2, <2>4 DEF Emitir, Sair, DadosTypeOK
  <2> QED
    BY <2>1, <2>3, <2>4
<1> QED
  BY <1>1, <1>2

LEMMA EmissaoForte ==
  ASSUME IInvTipo, EmissaoNext, UNCHANGED <<verificacaoVars, canc>>
  PROVE  FotoLida' /\ NumeroRegistrado' /\ RodadaComNumero' /\ CancComNumero'
<1> USE DEF IInvTipo, TypeOK
<1>1. ASSUME NEW l \in Linhas, Passo(l)
      PROVE  /\ FotoLida' /\ NumeroRegistrado'
             /\ \A k \in Linhas : h[k].nn # Nulo => h'[k].nn # Nulo
  <2>1. \A k \in Linhas : h[k].nn \in NNs \cup {Nulo} /\ ex[k].seq \in NNs
    BY DEF DadosTypeOK, Linha, EmissaoTypeOK, Exec
  <2>2. \A n \in NNs : titulo[n] # "nao" => titulo'[n] # "nao"
    BY <1>1, TituloPasso
  <2>3. ASSUME NEW k \in Linhas, h'[k].nn # Nulo PROVE titulo'[h'[k].nn] # "nao"
    <3>1. h'[k].nn = h[k].nn \/ (pc[k] = "upload" /\ h'[k].nn = ex[k].seq)
      BY <1>1, NumeroPasso
    <3> QED
      BY <2>1, <2>2, <2>3, <3>1 DEF NumeroRegistrado
  <2>4. NumeroRegistrado'
    BY <1>1, <2>3, DepoisPasso DEF NumeroRegistrado
  <2>5. \A k \in Linhas : h[k].nn # Nulo => h'[k].nn # Nulo
    <3>1. \A k \in Linhas : ex[k].seq # Nulo
      BY <2>1, DadosAssumption
    <3> QED
      BY <1>1, <3>1, NumeroPasso
  <2> QED
    BY <1>1, <2>4, <2>5, FotoPasso
<1>2. ASSUME NEW l \in Linhas,
             (\E f, m \in BOOLEAN : Acionar(l, f, m)) \/ Retomar(l) \/ FimRetomada
      PROVE  /\ FotoLida' /\ NumeroRegistrado'
             /\ \A k \in Linhas : h[k].nn # Nulo => h'[k].nn # Nulo
  <2>1. titulo' = titulo
    BY <1>2 DEF Acionar, Retomar, FimRetomada
  <2>2. \A k \in Linhas : h'[k].nn = h[k].nn
    <3>1. CASE \E f, m \in BOOLEAN : Acionar(l, f, m)
      BY <3>1 DEF Acionar, DadosTypeOK, Linha, Update
    <3>2. CASE Retomar(l)
      BY <3>2 DEF Retomar, DadosTypeOK, Linha, Update
    <3> QED
      BY <1>2, <3>1, <3>2 DEF FimRetomada
  <2>3. \A k \in Linhas : \/ pc'[k] \in {"reserva", "inicio"}
                          \/ pc'[k] = pc[k] /\ ex'[k] = ex[k]
    <3>1. CASE \E f, m \in BOOLEAN : Acionar(l, f, m)
      <4>1. pc'[l] \in {"reserva", "inicio"}
        BY <3>1 DEF Acionar, Ir, EmissaoTypeOK
      <4>2. \A k \in Linhas \ {l} : pc'[k] = pc[k] /\ ex'[k] = ex[k]
        BY <3>1 DEF Acionar, Ir, EmissaoTypeOK
      <4> QED
        BY <4>1, <4>2
    <3>2. CASE Retomar(l)
      <4>1. pc'[l] \in {"reserva", "inicio"}
        BY <3>2 DEF Retomar, Ir, EmissaoTypeOK
      <4>2. \A k \in Linhas \ {l} : pc'[k] = pc[k] /\ ex'[k] = ex[k]
        BY <3>2 DEF Retomar, Ir, EmissaoTypeOK
      <4> QED
        BY <4>1, <4>2
    <3> QED
      BY <1>2, <3>1, <3>2 DEF FimRetomada
  <2> QED
    BY <2>1, <2>2, <2>3 DEF FotoLida, NumeroRegistrado
<1>3. 1 \in Linhas
  BY DadosAssumption DEF Linhas
<1>4. FotoLida' /\ NumeroRegistrado' /\ \A k \in Linhas : h[k].nn # Nulo => h'[k].nn # Nulo
  BY <1>1, <1>2, <1>3 DEF EmissaoNext
<1>5. \A v \in Verificadores : \A i \in vf[v].itens : i[1] \in Linhas
  BY DEF VerificacaoTypeOK, Rodada
<1> QED
  BY <1>4, <1>5 DEF verificacaoVars, RodadaComNumero, CancComNumero

\* The verification and the cancellation give no number and forget no title,
\* and look only at numbered rows.
LEMMA VerificacaoForte ==
  ASSUME IInvTipo, VerificacaoNext, UNCHANGED <<emissaoVars, canc>>
  PROVE  FotoLida' /\ NumeroRegistrado' /\ RodadaComNumero' /\ CancComNumero'
<1> USE DEF IInvTipo, TypeOK
<1>1. /\ \A k \in Linhas : h'[k].nn = h[k].nn
      /\ \A n \in NNs : titulo[n] # "nao" => titulo'[n] # "nao"
  <2>1. CASE \E v \in Verificadores : Gravar(v)
    BY <2>1 DEF Gravar, Update, DadosTypeOK, Linha
  <2>2. CASE MarcarBaixado
    BY <2>2 DEF MarcarBaixado, Update, DadosTypeOK, Linha
  <2>3. CASE \E v \in Verificadores : \E i \in vf[v].itens : ConsultarEBaixar(v, i)
    BY <2>3 DEF ConsultarEBaixar, DadosTypeOK
  <2> QED
    BY <2>1, <2>2, <2>3 DEF VerificacaoNext, PassoVf, IniciarRodada, Pular, Consultar,
       LerLinha, EncerrarRodada, LerParaMarcar, soVf
<1>2. \A k \in Linhas : h[k].nn \in NNs \cup {Nulo} /\ ex[k].seq \in NNs
  BY DEF DadosTypeOK, Linha, EmissaoTypeOK, Exec
<1>3. FotoLida' /\ NumeroRegistrado' /\ CancComNumero'
  BY <1>1, <1>2 DEF emissaoVars, FotoLida, NumeroRegistrado, CancComNumero
<1>4. ASSUME NEW v \in Verificadores
      PROVE  /\ \A i \in vf'[v].itens : i[1] \in Linhas /\ h[i[1]].nn # Nulo
             /\ vf'[v].pc \in {"ler", "gravar"} => vf'[v].l \in Linhas
  <2>1. vf \in [Verificadores -> Rodada] /\ \A i \in vf[v].itens : i[1] \in Linhas
    BY DEF VerificacaoTypeOK, Rodada
  <2>2. \A i \in Elegiveis : i[1] \in Linhas /\ h[i[1]].nn # Nulo
    <3> SUFFICES ASSUME NEW i \in Elegiveis PROVE i[1] \in Linhas /\ h[i[1]].nn # Nulo
      OBVIOUS
    <3>1. PICK k \in ComNumero : i = <<k, TRUE>> \/ i = <<k, FALSE>>
      BY DEF Elegiveis
    <3>2. <<k, TRUE>>[1] = k /\ <<k, FALSE>>[1] = k
      OBVIOUS
    <3>3. i[1] = k
      BY <3>1, <3>2, Zenon
    <3> QED
      BY <3>3 DEF ComNumero
  <2>3. \A w \in Verificadores : vf[w] \in Rodada
    BY <2>1
  <2> USE <2>1, <2>3 DEF RodadaComNumero, Rodada
  <2>4. ASSUME NEW w \in Verificadores, IniciarRodada(w)
        PROVE  /\ \A i \in vf'[v].itens : i[1] \in Linhas /\ h[i[1]].nn # Nulo
               /\ vf'[v].pc \in {"ler", "gravar"} => vf'[v].l \in Linhas
    BY <2>2, <2>4 DEF IniciarRodada
  <2>5. ASSUME NEW w \in Verificadores, NEW i \in vf[w].itens,
               Pular(w, i) \/ Consultar(w, i) \/ ConsultarEBaixar(w, i)
        PROVE  /\ \A j \in vf'[v].itens : j[1] \in Linhas /\ h[j[1]].nn # Nulo
               /\ vf'[v].pc \in {"ler", "gravar"} => vf'[v].l \in Linhas
    BY <2>5 DEF Pular, Consultar, ConsultarEBaixar, Terminar
  <2>6. ASSUME NEW w \in Verificadores, LerLinha(w) \/ Gravar(w) \/ EncerrarRodada(w)
        PROVE  /\ \A j \in vf'[v].itens : j[1] \in Linhas /\ h[j[1]].nn # Nulo
               /\ vf'[v].pc \in {"ler", "gravar"} => vf'[v].l \in Linhas
    BY <2>6 DEF LerLinha, Gravar, EncerrarRodada, Terminar, RodadaNova
  <2>7. CASE vf' = vf
    BY <2>7
  <2> QED
    BY <2>4, <2>5, <2>6, <2>7 DEF VerificacaoNext, PassoVf, LerParaMarcar, MarcarBaixado
<1> QED
  BY <1>1, <1>3, <1>4 DEF RodadaComNumero

LEMMA CancForte ==
  ASSUME IInvTipo, CancNext, UNCHANGED <<emissaoVars, verificacaoVars>>
  PROVE  FotoLida' /\ NumeroRegistrado' /\ RodadaComNumero' /\ CancComNumero'
<1> USE DEF IInvTipo, TypeOK
<1>1. \A k \in Linhas : h'[k].nn = h[k].nn
  <2>1. CASE GravarCanc
    BY <2>1 DEF GravarCanc, Update, DadosTypeOK, Linha
  <2> QED
    BY <2>1 DEF CancNext, PassoCanc, ValidarAto, BuscarBoleto, PegarLockCanc,
       DesistirLockCanc, LerTituloCanc, FalharPortalCanc
<1>2. \A n \in NNs : titulo[n] # "nao" => titulo'[n] # "nao"
  BY DEF CancNext, PassoCanc, ValidarAto, BuscarBoleto, PegarLockCanc, DesistirLockCanc,
     LerTituloCanc, FalharPortalCanc, GravarCanc, soCanc, DadosTypeOK
<1>3. \A k \in Linhas : h[k].nn \in NNs \cup {Nulo} /\ ex[k].seq \in NNs
  BY DEF DadosTypeOK, Linha, EmissaoTypeOK, Exec
<1>4. \A v \in Verificadores : \A i \in vf[v].itens : i[1] \in Linhas
  BY DEF VerificacaoTypeOK, Rodada
<1>5. FotoLida' /\ NumeroRegistrado' /\ RodadaComNumero'
  BY <1>1, <1>2, <1>3, <1>4 DEF emissaoVars, verificacaoVars, FotoLida, NumeroRegistrado,
     RodadaComNumero
<1>6. canc'.pc \in {"lock", "portal", "gravar"} => canc'.l \in Linhas /\ h[canc'.l].nn # Nulo
  <2> USE DEF CancTypeOK, Cancelamento, CancComNumero, CancNovo
  <2>1. CASE BuscarBoleto
    <3>1. \A k \in Ultima({l \in Pendentes : h[l].nn # Nulo}) : k \in Linhas /\ h[k].nn # Nulo
      BY DEF Ultima, Pendentes, Emitidas
    <3> QED
      BY <2>1, <3>1 DEF BuscarBoleto, Responder
  <2>2. CASE ValidarAto
    BY <2>2 DEF ValidarAto, Responder
  <2>3. CASE PegarLockCanc \/ DesistirLockCanc
    BY <2>3 DEF PegarLockCanc, DesistirLockCanc, Responder
  <2>4. CASE LerTituloCanc
    BY <2>4 DEF LerTituloCanc
  <2>5. CASE FalharPortalCanc \/ GravarCanc
    BY <2>5 DEF FalharPortalCanc, GravarCanc, Responder
  <2> QED
    BY <2>1, <2>2, <2>3, <2>4, <2>5 DEF CancNext, PassoCanc
<1> QED
  BY <1>1, <1>5, <1>6 DEF CancComNumero

LEMMA AmbienteForte ==
  ASSUME IInvTipo, Ambiente, UNCHANGED <<emissaoVars, verificacaoVars, canc>>
  PROVE  FotoLida' /\ NumeroRegistrado' /\ RodadaComNumero' /\ CancComNumero'
<1> USE DEF IInvTipo, TypeOK
<1>1. h' = h /\ \A n \in NNs : titulo[n] # "nao" => titulo'[n] # "nao"
  BY DEF Ambiente, Pagar, BaixaExterna, TrocarCondicao, CancelarReserva, AbrirFecharJanela,
     LigarDesligar, VencerLease, DadosTypeOK
<1>2. \A k \in Linhas : h[k].nn \in NNs \cup {Nulo} /\ ex[k].seq \in NNs
  BY DEF DadosTypeOK, Linha, EmissaoTypeOK, Exec
<1> QED
  BY <1>1, <1>2 DEF emissaoVars, verificacaoVars, FotoLida, NumeroRegistrado, RodadaComNumero,
     CancComNumero

LEMMA QuedaTipo == ASSUME IInvTipo, Queda PROVE IInvTipo'
<1> USE DEF IInvTipo, TypeOK
<1>1. DadosTypeOK'
  BY DEF Queda, Reiniciar, dadosVars, DadosTypeOK, LeaseTypeOK
<1>2. EmissaoTypeOK' /\ FotoLida'
  <2>1. ExecNova \in Exec
    BY DadosAssumption DEF ExecNova, Exec, NNs
  <2> QED
    BY <2>1 DEF Queda, Reiniciar, EmissaoTypeOK, TodasParadas, TodasNovas, Passos, FotoLida
<1>3. VerificacaoTypeOK' /\ RodadaComNumero'
  BY DEF Queda, VerificacaoTypeOK, SemRodada, RodadaNova, Rodada, RodadaComNumero
<1>4. CancTypeOK' /\ CancComNumero'
  BY DEF Queda, CancTypeOK, CancNovo, Cancelamento, CancComNumero
<1>5. NumeroRegistrado'
  BY DEF Queda, Reiniciar, dadosVars, TodasParadas, NumeroRegistrado
<1> QED
  BY <1>1, <1>2, <1>3, <1>4, <1>5

-----------------------------------------------------------------------------
LEMMA InitIInvTipo == ASSUME Init PROVE IInvTipo
<1>1. TypeOK
  BY InitTipo
<1>2. FotoLida /\ NumeroRegistrado
  BY DEF Init, EmissaoInit, TodasParadas, FotoLida, DadosInit, LinhaNova, NumeroRegistrado
<1>3. RodadaComNumero /\ CancComNumero
  BY DEF Init, VerificacaoInit, SemRodada, RodadaNova, RodadaComNumero, CancInit, CancNovo,
     CancComNumero
<1> QED
  BY <1>1, <1>2, <1>3 DEF IInvTipo

LEMMA NextIInvTipo == ASSUME IInvTipo, [Next]_vars PROVE IInvTipo'
<1> USE DEF IInvTipo, TypeOK
<1>1. CASE EmissaoNext /\ UNCHANGED <<verificacaoVars, canc>>
  BY <1>1, EmissaoTipo, EmissaoForte DEF verificacaoVars, VerificacaoTypeOK, CancTypeOK
<1>2. CASE VerificacaoNext /\ UNCHANGED <<emissaoVars, canc>>
  BY <1>2, VerificacaoTipo, VerificacaoForte DEF emissaoVars, EmissaoTypeOK, CancTypeOK
<1>3. CASE CancNext /\ UNCHANGED <<emissaoVars, verificacaoVars>>
  BY <1>3, CancTipo, CancForte DEF emissaoVars, EmissaoTypeOK, verificacaoVars,
     VerificacaoTypeOK
<1>4. CASE Ambiente /\ UNCHANGED <<emissaoVars, verificacaoVars, canc>>
  BY <1>4, AmbienteTipo, AmbienteForte DEF emissaoVars, EmissaoTypeOK, verificacaoVars,
     VerificacaoTypeOK, CancTypeOK
<1>5. CASE Queda
  BY <1>5, QuedaTipo
<1>6. CASE UNCHANGED vars
  BY <1>6 DEF vars, dadosVars, emissaoVars, verificacaoVars, DadosTypeOK, LeaseTypeOK,
     EmissaoTypeOK, VerificacaoTypeOK, CancTypeOK, FotoLida, NumeroRegistrado,
     RodadaComNumero, CancComNumero
<1> QED
  BY <1>1, <1>2, <1>3, <1>4, <1>5, <1>6 DEF Next

\* Every column, every step and every remembered reading stays in its type,
\* with any number of rows, verifiers and conditions and any events.
THEOREM TiposBoleto == Spec => []TypeOK
<1>1. IInvTipo => TypeOK
  BY DEF IInvTipo
<1> QED
  BY <1>1, InitIInvTipo, NextIInvTipo, PTL DEF Spec
=============================================================================
