-------------------------- MODULE BoletoAto_proofs --------------------------
(***************************************************************************)
(* The safety of the Boleto de Ato for every choice of the constants.      *)
(* What is queued again registered nothing, no activation registers two    *)
(* titles, an emitted row carries a title of its own, and the CV stage     *)
(* stays where it is for the rows that promise so.  What rows say of the   *)
(* bank is true.  After the gate let a cancellation go only a run of an    *)
(* older row may still emit.  Two titles are open only after the runs lost *)
(* their order (BoletoHistoria).  One theorem has a condition on what may  *)
(* happen: that a payment recorded is never undone.                        *)
(***************************************************************************)
EXTENDS BoletoAto_tipos, BoletoHistoria

\* The stage: a run moves it only when it has nothing left to do but to
\* record its outcome.
Quieta(r) == r.situacao = "nenhuma" /\ ~r.ignorado
EtapaLinha(r, p) ==
  /\ r.status \in {"livre", "queued"} \/ p \notin {"parado", "concluir"} => Quieta(r)
  /\ p = "concluir" => ~r.ignorado
  /\ r.status = "livre" => p = "parado"
  /\ p \notin {"parado", "inicio"} => r.status = "processing"
  /\ r.status \in {"queued", "skipped"} \/ r.ignorado => r.situacao = "nenhuma"
SemEtapa == \A l \in Linhas : EtapaLinha(h[l], pc[l])

\* The titles: each has the row that registered it, a row registers one, and
\* has not gone back to the queue.
TituloComDono == \A n \in NNs : titulo[n] = "nao" <=> dono[n] = 0
QuemEmitiu ==
  \A n \in NNs : dono[n] # 0 =>
    /\ h[dono[n]].status \in {"processing", "success", "error"}
    /\ pc[dono[n]] \in {"posBaixa", "upload", "etapa", "concluir", "falha", "parado"}

\* The number a run goes on with, and the one in the row, is that of its title.
NumeroDaPropria ==
  \A l \in Linhas :
    /\ pc[l] \in {"posBaixa", "upload"} => dono[ex[l].seq] = l
    /\ pc[l] \in {"etapa", "concluir"} \/ l \in Emitidas
         => h[l].nn # Nulo /\ dono[h[l].nn] = l

IInv == /\ IInvTipo /\ SemEtapa /\ TituloComDono /\ QuemEmitiu /\ UmTituloPorLinha
        /\ NumeroDaPropria

-----------------------------------------------------------------------------
\* What a step of the run of row l does to the other rows: at most their
\* payment column.
LEMMA OutrasLinhas ==
  ASSUME DadosTypeOK, EmissaoTypeOK, NEW l \in Linhas, Passo(l), NEW k \in Linhas, k # l
  PROVE  /\ pc'[k] = pc[k] /\ ex'[k] = ex[k]
         /\ h'[k] = h[k] \/ h'[k] = [h[k] EXCEPT !.pay = "cancelled"]
<1> USE DEF DadosTypeOK, EmissaoTypeOK, Update, Ir, Parar, soPasso, soLinha
<1>1. CASE Move(l)
  BY <1>1 DEF Move, FalharCV, PegarLock, DesistirLock, AbrirSessao, FalharSessao,
     FalharBaixa, Emitir, FalharEmissao, GravarBaixa, Upload, FalharUpload, AgendarEtapa,
     Sair
<1>2. CASE Para(l)
  BY <1>2 DEF Para, Agendar, Recusar, RecusarPrazo, Concluir, Reagendar, Reprovar
<1>3. CASE Decide(l)
  BY <1>3 DEF Decide, Iniciar, VerPago, LerReserva, VerJanela, DecidirRetrigger, Ignorar
<1>4. CASE Numerar(l) \/ BaixaPrevia(l)
  BY <1>4 DEF Numerar, BaixaPrevia
<1> QED
  BY <1>1, <1>2, <1>3, <1>4, Grupos

LEMMA PayNaoMexe ==
  ASSUME NEW r \in Linha, NEW p
  PROVE  /\ [r EXCEPT !.pay = p].status = r.status
         /\ [r EXCEPT !.pay = p].situacao = r.situacao
         /\ [r EXCEPT !.pay = p].ignorado = r.ignorado
         /\ [r EXCEPT !.pay = p].nn = r.nn
  BY DEF Linha

LEMMA PayEtapa ==
  ASSUME NEW r \in Linha, NEW p, NEW q, EtapaLinha(r, q)
  PROVE  EtapaLinha([r EXCEPT !.pay = p], q)
  BY PayNaoMexe DEF EtapaLinha, Quieta

\* What an early return leaves in the row.
LEMMA MarcaSaida ==
  ASSUME NEW r \in Linha, NEW c,
         NEW m \in {[r EXCEPT !.status = "skipped", !.pessoa = TRUE],
                    [r EXCEPT !.status = "skipped", !.ignorado = TRUE, !.pessoa = TRUE],
                    [r EXCEPT !.status = "success", !.ignorado = TRUE, !.cond = c,
                              !.pessoa = TRUE]}
  PROVE  /\ m.status = "skipped" \/ (m.status = "success" /\ m.ignorado)
         /\ m.situacao = r.situacao
         /\ m.nn = r.nn
<1>1. CASE m = [r EXCEPT !.status = "skipped", !.pessoa = TRUE]
  BY <1>1 DEF Linha
<1>2. CASE m = [r EXCEPT !.status = "skipped", !.ignorado = TRUE, !.pessoa = TRUE]
  BY <1>2 DEF Linha
<1>3. CASE m = [r EXCEPT !.status = "success", !.ignorado = TRUE, !.cond = c,
                         !.pessoa = TRUE]
  BY <1>3 DEF Linha
<1> QED
  BY <1>1, <1>2, <1>3

\* A row of which at most the payment was written.
LEMMA MesmaLinha ==
  ASSUME NEW r \in Linha, NEW q, q = r \/ \E p : q = [r EXCEPT !.pay = p]
  PROVE  /\ q.status = r.status /\ q.situacao = r.situacao /\ q.nn = r.nn
         /\ q.ignorado = r.ignorado
<1>1. CASE q = r
  BY <1>1
<1>2. ASSUME NEW p, q = [r EXCEPT !.pay = p]
      PROVE  /\ q.status = r.status /\ q.situacao = r.situacao /\ q.nn = r.nn
             /\ q.ignorado = r.ignorado
  <2>1. q.status = r.status /\ q.situacao = r.situacao /\ q.nn = r.nn
    BY <1>2, PayNaoMexe
  <2>2. q.ignorado = r.ignorado
    BY <1>2, PayNaoMexe, Zenon
  <2> QED
    BY <2>1, <2>2
<1> QED
  BY <1>1, <1>2

\* The step of a run keeps the stage of its row.
LEMMA EtapaPasso ==
  ASSUME DadosTypeOK, EmissaoTypeOK, NEW l \in Linhas, Passo(l), EtapaLinha(h[l], pc[l])
  PROVE  EtapaLinha(h'[l], pc'[l])
<1> USE DEF DadosTypeOK, EmissaoTypeOK, EtapaLinha, Quieta, Linha, Update, Ir, Parar, soPasso,
            soLinha
<1>1. CASE Iniciar(l)
  BY <1>1 DEF Iniciar
<1>2. CASE LerReserva(l)
  <2> DEFINE m == [h[l] EXCEPT !.status = "skipped", !.pessoa = TRUE]
  <2>1. h[l] \in Linha /\ pc[l] \notin {"parado", "inicio", "concluir"}
    BY <1>2 DEF LerReserva
  <2>2. /\ m.status = "skipped" \/ (m.status = "success" /\ m.ignorado)
        /\ m.situacao = h[l].situacao
    BY <2>1, MarcaSaida
  <2>3. \/ h' = h /\ pc'[l] \notin {"parado", "inicio", "concluir"}
        \/ h'[l] = m /\ pc'[l] = "parado"
    BY <1>2 DEF LerReserva
  <2> HIDE DEF m
  <2> QED
    BY <2>1, <2>2, <2>3
<1>3. CASE FalharCV(l)
  BY <1>3 DEF FalharCV
<1>4. CASE VerPago(l)
  <2> DEFINE m == [h[l] EXCEPT !.status = "skipped", !.pessoa = TRUE]
  <2>1. h[l] \in Linha /\ pc[l] \notin {"parado", "inicio", "concluir"}
    BY <1>4 DEF VerPago
  <2>2. /\ m.status = "skipped" \/ (m.status = "success" /\ m.ignorado)
        /\ m.situacao = h[l].situacao
    BY <2>1, MarcaSaida
  <2>3. \/ h' = h /\ pc'[l] \notin {"parado", "inicio", "concluir"}
        \/ h'[l] = m /\ pc'[l] = "parado"
    BY <1>4 DEF VerPago
  <2> HIDE DEF m
  <2> QED
    BY <2>1, <2>2, <2>3
<1>5. CASE VerJanela(l)
  <2> DEFINE m == [h[l] EXCEPT !.status = "skipped", !.ignorado = TRUE, !.pessoa = TRUE]
  <2>1. h[l] \in Linha /\ pc[l] \notin {"parado", "inicio", "concluir"}
    BY <1>5 DEF VerJanela
  <2>2. /\ m.status = "skipped" \/ (m.status = "success" /\ m.ignorado)
        /\ m.situacao = h[l].situacao
    BY <2>1, MarcaSaida
  <2>3. \/ h' = h /\ pc'[l] \notin {"parado", "inicio", "concluir"}
        \/ h'[l] = m /\ pc'[l] = "parado"
    BY <1>5 DEF VerJanela
  <2> HIDE DEF m
  <2> QED
    BY <2>1, <2>2, <2>3
<1>6. CASE Agendar(l)
  BY <1>6 DEF Agendar
<1>7. CASE Recusar(l)
  BY <1>7 DEF Recusar
<1>8. CASE DecidirRetrigger(l)
  <2> DEFINE m == [h[l] EXCEPT !.status = "success", !.ignorado = TRUE, !.cond = ex[l].foto,
                         !.pessoa = TRUE]
  <2>1. h[l] \in Linha /\ pc[l] \notin {"parado", "inicio", "concluir"}
    BY <1>8 DEF DecidirRetrigger
  <2>2. /\ m.status = "skipped" \/ (m.status = "success" /\ m.ignorado)
        /\ m.situacao = h[l].situacao
    BY <2>1, MarcaSaida
  <2>3. \/ h' = h /\ pc'[l] \notin {"parado", "inicio", "concluir"}
        \/ h'[l] = m /\ pc'[l] = "parado"
    BY <1>8 DEF DecidirRetrigger, Ignorar
  <2> HIDE DEF m
  <2> QED
    BY <2>1, <2>2, <2>3
<1>9. CASE RecusarPrazo(l)
  BY <1>9 DEF RecusarPrazo
<1>10. CASE Numerar(l)
  BY <1>10 DEF Numerar
<1>11. CASE PegarLock(l)
  BY <1>11 DEF PegarLock
<1>12. CASE DesistirLock(l)
  BY <1>12 DEF DesistirLock
<1>13. CASE AbrirSessao(l)
  BY <1>13 DEF AbrirSessao
<1>14. CASE FalharSessao(l)
  BY <1>14 DEF FalharSessao, Sair
<1>15. CASE BaixaPrevia(l)
  BY <1>15 DEF BaixaPrevia
<1>16. CASE FalharBaixa(l)
  BY <1>16 DEF FalharBaixa, Sair
<1>17. CASE Emitir(l)
  BY <1>17 DEF Emitir, Sair
<1>18. CASE FalharEmissao(l)
  BY <1>18 DEF FalharEmissao, Sair
<1>19. CASE GravarBaixa(l)
  BY <1>19 DEF GravarBaixa
<1>20. CASE Upload(l)
  BY <1>20 DEF Upload
<1>21. CASE FalharUpload(l)
  BY <1>21 DEF FalharUpload
<1>22. CASE AgendarEtapa(l)
  BY <1>22 DEF AgendarEtapa
<1>23. CASE Concluir(l)
  BY <1>23 DEF Concluir
<1>24. CASE Reagendar(l)
  BY <1>24 DEF Reagendar
<1>25. CASE Reprovar(l)
  BY <1>25 DEF Reprovar
<1> QED
  BY <1>1, <1>2, <1>3, <1>4, <1>5, <1>6, <1>7, <1>8, <1>9, <1>10, <1>11, <1>12, <1>13,
     <1>14, <1>15, <1>16, <1>17, <1>18, <1>19, <1>20, <1>21, <1>22, <1>23, <1>24, <1>25
     DEF Passo

LEMMA EtapaEmissao ==
  ASSUME DadosTypeOK, EmissaoTypeOK, SemEtapa, EmissaoNext
  PROVE  SemEtapa'
<1>1. ASSUME NEW l \in Linhas, Passo(l) PROVE SemEtapa'
  <2>1. EtapaLinha(h'[l], pc'[l])
    BY <1>1, EtapaPasso DEF SemEtapa
  <2>2. ASSUME NEW k \in Linhas, k # l PROVE EtapaLinha(h'[k], pc'[k])
    <3>1. h[k] \in Linha /\ EtapaLinha(h[k], pc[k])
      BY DEF DadosTypeOK, SemEtapa
    <3>2. pc'[k] = pc[k] /\ (h'[k] = h[k] \/ h'[k] = [h[k] EXCEPT !.pay = "cancelled"])
      BY <1>1, <2>2, OutrasLinhas
    <3>3. EtapaLinha([h[k] EXCEPT !.pay = "cancelled"], pc[k])
      BY <3>1, PayEtapa
    <3> QED
      BY <3>1, <3>2, <3>3
  <2> QED
    BY <2>1, <2>2 DEF SemEtapa
<1>2. ASSUME NEW l \in Linhas, NEW f \in BOOLEAN, NEW m \in BOOLEAN, Acionar(l, f, m)
      PROVE  SemEtapa'
  BY <1>2 DEF Acionar, Usadas, Update, Ir, SemEtapa, EtapaLinha, Quieta, DadosTypeOK,
     EmissaoTypeOK, Linha
<1>3. ASSUME NEW l \in Linhas, Retomar(l) PROVE SemEtapa'
  BY <1>3 DEF Retomar, NaFila, Update, Ir, SemEtapa, EtapaLinha, Quieta, DadosTypeOK,
     EmissaoTypeOK, Linha
<1>4. CASE FimRetomada
  BY <1>4 DEF FimRetomada, SemEtapa
<1> QED
  BY <1>1, <1>2, <1>3, <1>4 DEF EmissaoNext

\* Verification, cancellation and environment write nothing but payments.
LEMMA SoPay ==
  ASSUME TypeOK,
         \/ VerificacaoNext /\ UNCHANGED <<emissaoVars, canc>>
         \/ CancNext /\ UNCHANGED <<emissaoVars, verificacaoVars>>
         \/ Ambiente /\ UNCHANGED <<emissaoVars, verificacaoVars, canc>>,
         NEW k \in Linhas
  PROVE  /\ h'[k] = h[k] \/ \E p : h'[k] = [h[k] EXCEPT !.pay = p]
         /\ pc' = pc /\ ex' = ex /\ dono' = dono
         /\ \A n \in NNs : titulo'[n] = "nao" <=> titulo[n] = "nao"
<1> USE DEF TypeOK, DadosTypeOK, emissaoVars
<1>1. CASE VerificacaoNext /\ UNCHANGED <<emissaoVars, canc>>
  <2>1. pc' = pc /\ ex' = ex /\ dono' = dono
    BY <1>1 DEF VerificacaoNext, PassoVf, IniciarRodada, Pular, Consultar, ConsultarEBaixar,
       LerLinha, Gravar, EncerrarRodada, LerParaMarcar, MarcarBaixado, soVf
  <2>2. h'[k] = h[k] \/ \E p : h'[k] = [h[k] EXCEPT !.pay = p]
    <3>1. ASSUME NEW v \in Verificadores, Gravar(v)
          PROVE  h'[k] = h[k] \/ \E p : h'[k] = [h[k] EXCEPT !.pay = p]
      <4> DEFINE p == NovoPay(vf[v], h[vf[v].l].pay)
      <4>1. h' = [h EXCEPT ![vf[v].l] = [h[vf[v].l] EXCEPT !.pay = p]]
        BY <3>1 DEF Gravar, Update
      <4> HIDE DEF p
      <4>2. h'[k] = h[k] \/ h'[k] = [h[k] EXCEPT !.pay = p]
        BY <4>1
      <4> QED
        BY <4>2
    <3>2. CASE MarcarBaixado
      BY <3>2 DEF MarcarBaixado, Update
    <3> QED
      BY <1>1, <3>1, <3>2 DEF VerificacaoNext, PassoVf, IniciarRodada, Pular, Consultar,
         ConsultarEBaixar, LerLinha, EncerrarRodada, LerParaMarcar, soVf
  <2>3. \A n \in NNs : titulo'[n] = "nao" <=> titulo[n] = "nao"
    <3>1. CASE \E v \in Verificadores : \E i \in vf[v].itens : ConsultarEBaixar(v, i)
      BY <3>1 DEF ConsultarEBaixar
    <3> QED
      BY <1>1, <3>1 DEF VerificacaoNext, PassoVf, IniciarRodada, Pular, Consultar,
         LerLinha, Gravar, EncerrarRodada, LerParaMarcar, MarcarBaixado, soVf
  <2> QED
    BY <2>1, <2>2, <2>3
<1>2. CASE CancNext /\ UNCHANGED <<emissaoVars, verificacaoVars>>
  <2>1. pc' = pc /\ ex' = ex /\ dono' = dono
    BY <1>2 DEF CancNext, PassoCanc, ValidarAto, BuscarBoleto, PegarLockCanc,
       DesistirLockCanc, LerTituloCanc, FalharPortalCanc, GravarCanc, soCanc
  <2>2. h'[k] = h[k] \/ \E p : h'[k] = [h[k] EXCEPT !.pay = p]
    <3>1. CASE GravarCanc
      <4>1. \/ h' = [h EXCEPT ![canc.l] = [h[canc.l] EXCEPT !.pay = "paid"]]
            \/ h'[k] = h[k]
            \/ h'[k] = [h[k] EXCEPT !.pay = "cancelled"]
        BY <3>1 DEF GravarCanc, Update
      <4>2. \/ h'[k] = h[k] \/ h'[k] = [h[k] EXCEPT !.pay = "paid"]
            \/ h'[k] = [h[k] EXCEPT !.pay = "cancelled"]
        BY <4>1
      <4> QED
        BY <4>2
    <3> QED
      BY <1>2, <3>1 DEF CancNext, PassoCanc, ValidarAto, BuscarBoleto, PegarLockCanc,
         DesistirLockCanc, LerTituloCanc, FalharPortalCanc
  <2>3. \A n \in NNs : titulo'[n] = "nao" <=> titulo[n] = "nao"
    <3>1. CASE LerTituloCanc \/ FalharPortalCanc
      <4>1. \/ titulo' = titulo
            \/ titulo[h[canc.l].nn] = "aberto"
               /\ titulo' = [titulo EXCEPT ![h[canc.l].nn] = "baixado"]
        BY <3>1 DEF LerTituloCanc, FalharPortalCanc, Leituras
      <4> QED
        BY <4>1
    <3> QED
      BY <1>2, <3>1 DEF CancNext, PassoCanc, ValidarAto, BuscarBoleto, PegarLockCanc,
         DesistirLockCanc, GravarCanc, soCanc
  <2> QED
    BY <2>1, <2>2, <2>3
<1>3. CASE Ambiente /\ UNCHANGED <<emissaoVars, verificacaoVars, canc>>
  BY <1>3 DEF Ambiente, Pagar, BaixaExterna, TrocarCondicao, CancelarReserva,
     AbrirFecharJanela, LigarDesligar, VencerLease
<1> QED
  BY <1>1, <1>2, <1>3

-----------------------------------------------------------------------------
(* The titles. *)

Depois == {"posBaixa", "upload", "etapa", "concluir", "falha", "parado"}

\* What a step of a run does to its own row and to its place in the run: what
\* follows the emission ends in an outcome, and only the last step of it makes
\* the row one that says "emitted".
Controle(l) ==
  /\ pc[l] \in Depois => /\ pc'[l] \in Depois
                         /\ h'[l].status \in {"processing", "success", "error"}
  /\ pc'[l] \in {"posBaixa", "upload"}
       => pc[l] = "emissao" \/ (pc[l] = "posBaixa" /\ ex' = ex)
  /\ pc'[l] \in {"etapa", "concluir"} => \/ pc[l] = "upload" /\ h'[l].nn = ex[l].seq
                                         \/ pc[l] = "etapa" /\ h'[l].nn = h[l].nn
  /\ h'[l].status = "success" /\ ~h'[l].ignorado =>
       /\ h'[l].nn = h[l].nn
       /\ pc[l] = "concluir" \/ (h[l].status = "success" /\ ~h[l].ignorado)

LEMMA ControlePasso ==
  ASSUME DadosTypeOK, EmissaoTypeOK, NEW l \in Linhas, Passo(l), EtapaLinha(h[l], pc[l])
  PROVE  Controle(l)
<1> USE DEF DadosTypeOK, EmissaoTypeOK, EtapaLinha, Linha, Update, Ir, Parar, soPasso,
            soLinha, Controle, Depois
<1>1. CASE Iniciar(l)
  BY <1>1 DEF Iniciar
<1>2. CASE LerReserva(l)
  <2> DEFINE m == [h[l] EXCEPT !.status = "skipped", !.pessoa = TRUE]
  <2>1. h[l] \in Linha /\ pc[l] \notin Depois
    BY <1>2 DEF LerReserva
  <2>2. m.status = "skipped" \/ (m.status = "success" /\ m.ignorado)
    BY <2>1, MarcaSaida
  <2>3. \/ h' = h /\ pc'[l] \notin Depois
        \/ h'[l] = m /\ pc'[l] = "parado"
        \/ h' = h /\ pc'[l] = "falha"
    BY <1>2 DEF LerReserva
  <2> HIDE DEF m
  <2> QED
    BY <2>1, <2>2, <2>3
<1>3. CASE FalharCV(l)
  BY <1>3 DEF FalharCV
<1>4. CASE VerPago(l)
  <2> DEFINE m == [h[l] EXCEPT !.status = "skipped", !.pessoa = TRUE]
  <2>1. h[l] \in Linha /\ pc[l] \notin Depois
    BY <1>4 DEF VerPago
  <2>2. m.status = "skipped" \/ (m.status = "success" /\ m.ignorado)
    BY <2>1, MarcaSaida
  <2>3. \/ h' = h /\ pc'[l] \notin Depois
        \/ h'[l] = m /\ pc'[l] = "parado"
        \/ h' = h /\ pc'[l] = "falha"
    BY <1>4 DEF VerPago
  <2> HIDE DEF m
  <2> QED
    BY <2>1, <2>2, <2>3
<1>5. CASE VerJanela(l)
  <2> DEFINE m == [h[l] EXCEPT !.status = "skipped", !.ignorado = TRUE, !.pessoa = TRUE]
  <2>1. h[l] \in Linha /\ pc[l] \notin Depois
    BY <1>5 DEF VerJanela
  <2>2. m.status = "skipped" \/ (m.status = "success" /\ m.ignorado)
    BY <2>1, MarcaSaida
  <2>3. \/ h' = h /\ pc'[l] \notin Depois
        \/ h'[l] = m /\ pc'[l] = "parado"
        \/ h' = h /\ pc'[l] = "falha"
    BY <1>5 DEF VerJanela
  <2> HIDE DEF m
  <2> QED
    BY <2>1, <2>2, <2>3
<1>6. CASE Agendar(l)
  BY <1>6 DEF Agendar
<1>7. CASE Recusar(l)
  BY <1>7 DEF Recusar
<1>8. CASE DecidirRetrigger(l)
  <2> DEFINE m == [h[l] EXCEPT !.status = "success", !.ignorado = TRUE, !.cond = ex[l].foto,
                         !.pessoa = TRUE]
  <2>1. h[l] \in Linha /\ pc[l] \notin Depois
    BY <1>8 DEF DecidirRetrigger
  <2>2. m.status = "skipped" \/ (m.status = "success" /\ m.ignorado)
    BY <2>1, MarcaSaida
  <2>3. \/ h' = h /\ pc'[l] \notin Depois
        \/ h'[l] = m /\ pc'[l] = "parado"
        \/ h' = h /\ pc'[l] = "falha"
    BY <1>8 DEF DecidirRetrigger, Ignorar
  <2> HIDE DEF m
  <2> QED
    BY <2>1, <2>2, <2>3
<1>9. CASE RecusarPrazo(l)
  BY <1>9 DEF RecusarPrazo
<1>10. CASE Numerar(l)
  BY <1>10 DEF Numerar
<1>11. CASE PegarLock(l)
  BY <1>11 DEF PegarLock
<1>12. CASE DesistirLock(l)
  BY <1>12 DEF DesistirLock
<1>13. CASE AbrirSessao(l)
  BY <1>13 DEF AbrirSessao
<1>14. CASE FalharSessao(l)
  BY <1>14 DEF FalharSessao, Sair
<1>15. CASE BaixaPrevia(l)
  BY <1>15 DEF BaixaPrevia
<1>16. CASE FalharBaixa(l)
  BY <1>16 DEF FalharBaixa, Sair
<1>17. CASE Emitir(l)
  BY <1>17 DEF Emitir, Sair
<1>18. CASE FalharEmissao(l)
  BY <1>18 DEF FalharEmissao, Sair
<1>19. CASE GravarBaixa(l)
  BY <1>19 DEF GravarBaixa
<1>20. CASE Upload(l)
  BY <1>20 DEF Upload
<1>21. CASE FalharUpload(l)
  BY <1>21 DEF FalharUpload
<1>22. CASE AgendarEtapa(l)
  BY <1>22 DEF AgendarEtapa
<1>23. CASE Concluir(l)
  BY <1>23 DEF Concluir
<1>24. CASE Reagendar(l)
  BY <1>24 DEF Reagendar
<1>25. CASE Reprovar(l)
  BY <1>25 DEF Reprovar
<1> QED
  BY <1>1, <1>2, <1>3, <1>4, <1>5, <1>6, <1>7, <1>8, <1>9, <1>10, <1>11, <1>12, <1>13,
     <1>14, <1>15, <1>16, <1>17, <1>18, <1>19, <1>20, <1>21, <1>22, <1>23, <1>24, <1>25
     DEF Passo

\* Only the emission registers a title, under a number that had none.
LEMMA DonoPasso ==
  ASSUME DadosTypeOK, EmissaoTypeOK, NEW l \in Linhas, Passo(l)
  PROVE  \/ /\ dono' = dono /\ \A n \in NNs : titulo'[n] = "nao" <=> titulo[n] = "nao"
            /\ pc[l] = "emissao" => pc'[l] = "falha"
         \/ /\ pc[l] = "emissao" /\ titulo[ex[l].seq] = "nao"
            /\ titulo' = [titulo EXCEPT ![ex[l].seq] = "aberto"]
            /\ dono' = [dono EXCEPT ![ex[l].seq] = l]
            /\ h' = h /\ ex' = ex /\ pc'[l] \in {"posBaixa", "upload", "falha"}
<1> USE DEF DadosTypeOK, EmissaoTypeOK, soPasso, soLinha
<1>1. CASE Emitir(l) \/ FalharEmissao(l)
  BY <1>1 DEF Emitir, FalharEmissao, Sair, Ir
<1>2. CASE BaixaPrevia(l) \/ FalharBaixa(l)
  BY <1>2 DEF BaixaPrevia, FalharBaixa
<1>3. CASE Move(l) /\ ~(Emitir(l) \/ FalharEmissao(l) \/ FalharBaixa(l))
  BY <1>3 DEF Move, FalharCV, PegarLock, DesistirLock, AbrirSessao, FalharSessao,
     GravarBaixa, Upload, FalharUpload, AgendarEtapa
<1>4. CASE Para(l)
  BY <1>4 DEF Para, Agendar, Recusar, RecusarPrazo, Concluir, Reagendar, Reprovar
<1>5. CASE Decide(l) \/ Numerar(l)
  BY <1>5 DEF Decide, Iniciar, VerPago, LerReserva, VerJanela, DecidirRetrigger, Numerar
<1> QED
  BY <1>1, <1>2, <1>3, <1>4, <1>5, Grupos

LEMMA TituloEmissao ==
  ASSUME IInv, NEW l \in Linhas, Passo(l)
  PROVE  TituloComDono' /\ QuemEmitiu' /\ UmTituloPorLinha' /\ NumeroDaPropria'
<1> USE DEF IInv, IInvTipo, TypeOK
<1>1. /\ h \in [Linhas -> Linha] /\ pc \in [Linhas -> Passos]
      /\ dono \in [NNs -> Linhas \cup {0}]
      /\ \A k \in Linhas : ex[k].seq \in NNs /\ h[k].nn \in NNs \cup {Nulo}
      /\ 0 \notin Linhas
  BY DEF DadosTypeOK, Linha, EmissaoTypeOK, Exec, Linhas
<1>2. Controle(l)
  BY ControlePasso DEF SemEtapa
<1>3. \A k \in Linhas \ {l} : /\ pc'[k] = pc[k] /\ ex'[k] = ex[k] /\ h'[k].status = h[k].status
                              /\ h'[k].ignorado = h[k].ignorado /\ h'[k].nn = h[k].nn
  <2> SUFFICES ASSUME NEW k \in Linhas \ {l}
               PROVE  /\ pc'[k] = pc[k] /\ ex'[k] = ex[k] /\ h'[k].status = h[k].status
                      /\ h'[k].ignorado = h[k].ignorado /\ h'[k].nn = h[k].nn
    OBVIOUS
  <2>1. /\ pc'[k] = pc[k] /\ ex'[k] = ex[k]
        /\ h'[k] = h[k] \/ h'[k] = [h[k] EXCEPT !.pay = "cancelled"]
    BY OutrasLinhas
  <2>2. h[k] \in Linha
    BY <1>1
  <2> QED
    BY <2>1, <2>2, MesmaLinha
<1>4. CASE /\ dono' = dono /\ \A n \in NNs : titulo'[n] = "nao" <=> titulo[n] = "nao"
           /\ pc[l] = "emissao" => pc'[l] = "falha"
  <2>1. TituloComDono'
    BY <1>4 DEF TituloComDono
  <2>2. QuemEmitiu'
    BY <1>1, <1>2, <1>3, <1>4 DEF QuemEmitiu, Controle, Depois
  <2>3. UmTituloPorLinha'
    BY <1>4 DEF UmTituloPorLinha
  <2>4. ASSUME NEW k \in Linhas, pc'[k] \in {"posBaixa", "upload"}
        PROVE  dono'[ex'[k].seq] = k
    <3>1. pc[k] # "emissao"
      BY <1>3, <1>4, <2>4, <1>1 DEF SemEtapa
    <3> QED
      BY <1>2, <1>3, <1>4, <2>4, <3>1 DEF Controle, NumeroDaPropria
  <2>5. ASSUME NEW k \in Linhas,
               pc'[k] \in {"etapa", "concluir"} \/ (h'[k].status = "success" /\ ~h'[k].ignorado)
        PROVE  h'[k].nn # Nulo /\ dono'[h'[k].nn] = k
    BY <1>1, <1>2, <1>3, <1>4, <2>5, DadosAssumption DEF Controle, NumeroDaPropria, Emitidas
  <2>6. NumeroDaPropria'
    BY <2>4, <2>5 DEF NumeroDaPropria, Emitidas
  <2> QED
    BY <2>1, <2>2, <2>3, <2>6
<1>5. CASE /\ pc[l] = "emissao" /\ titulo[ex[l].seq] = "nao"
           /\ titulo' = [titulo EXCEPT ![ex[l].seq] = "aberto"]
           /\ dono' = [dono EXCEPT ![ex[l].seq] = l]
           /\ h' = h /\ ex' = ex /\ pc'[l] \in {"posBaixa", "upload", "falha"}
  <2> DEFINE s == ex[l].seq
  <2>1. s \in NNs /\ dono[s] = 0 /\ dono'[s] = l /\ titulo'[s] # "nao"
    BY <1>1, <1>5 DEF TituloComDono, DadosTypeOK
  <2>2. \A n \in NNs : n # s => dono'[n] = dono[n] /\ titulo'[n] = titulo[n] /\ dono[n] # l
    BY <1>1, <1>5 DEF QuemEmitiu, DadosTypeOK
  <2>3. TituloComDono'
    BY <1>1, <2>1, <2>2 DEF TituloComDono
  <2>4. h[l].status = "processing"
    BY <1>5 DEF SemEtapa, EtapaLinha
  <2>5. QuemEmitiu'
    BY <1>1, <1>3, <1>5, <2>1, <2>2, <2>4 DEF QuemEmitiu
  <2>6. UmTituloPorLinha'
    BY <2>1, <2>2 DEF UmTituloPorLinha
  <2>7. NumeroDaPropria'
    <3>1. \A k \in Linhas \ {l} : pc[k] \in {"posBaixa", "upload"} => ex[k].seq # s
      BY <1>1, <2>1 DEF NumeroDaPropria
    <3>2. \A k \in Linhas \ {l} : pc[k] \in {"etapa", "concluir"} \/ k \in Emitidas
                                    => h[k].nn \in NNs /\ h[k].nn # s
      BY <1>1, <2>1 DEF NumeroDaPropria
    <3>3. l \notin Emitidas
      BY <2>4 DEF Emitidas
    <3> QED
      BY <1>1, <1>3, <1>5, <2>1, <2>2, <3>1, <3>2, <3>3 DEF NumeroDaPropria, Emitidas
  <2> QED
    BY <2>3, <2>5, <2>6, <2>7
<1> QED
  BY <1>4, <1>5, DonoPasso

LEMMA TitulosDaEmissao ==
  ASSUME IInv, EmissaoNext
  PROVE  TituloComDono' /\ QuemEmitiu' /\ UmTituloPorLinha' /\ NumeroDaPropria'
<1> USE DEF IInv, IInvTipo, TypeOK
<1>1. ASSUME NEW l \in Linhas, (\E f, m \in BOOLEAN : Acionar(l, f, m)) \/ Retomar(l)
      PROVE  TituloComDono' /\ QuemEmitiu' /\ UmTituloPorLinha' /\ NumeroDaPropria'
  <2>1. /\ h \in [Linhas -> Linha] /\ pc \in [Linhas -> Passos]
        /\ dono \in [NNs -> Linhas \cup {0}]
    BY DEF DadosTypeOK, EmissaoTypeOK
  <2>2. /\ titulo' = titulo /\ dono' = dono
        /\ h[l].status \in {"livre", "queued"} /\ h'[l].status \in {"processing", "queued"}
        /\ pc'[l] \in {"reserva", "inicio"}
    <3>1. CASE \E f, m \in BOOLEAN : Acionar(l, f, m)
      BY <2>1, <3>1 DEF Acionar, Usadas, Update, Ir, Linha
    <3>2. CASE Retomar(l)
      BY <2>1, <3>2 DEF Retomar, NaFila, Update, Ir, Linha
    <3> QED
      BY <1>1, <3>1, <3>2
  <2>3. \A k \in Linhas \ {l} : h'[k] = h[k] /\ pc'[k] = pc[k] /\ ex'[k] = ex[k]
    <3>1. CASE \E f, m \in BOOLEAN : Acionar(l, f, m)
      BY <2>1, <3>1 DEF Acionar, Update, Ir, EmissaoTypeOK
    <3>2. CASE Retomar(l)
      BY <2>1, <3>2 DEF Retomar, Update, Ir, EmissaoTypeOK
    <3> QED
      BY <1>1, <3>1, <3>2
  <2>4. \A n \in NNs : dono[n] # l
    BY <2>2, DadosAssumption DEF QuemEmitiu, Linhas
  <2>5. TituloComDono' /\ UmTituloPorLinha'
    BY <2>2 DEF TituloComDono, UmTituloPorLinha
  <2>6. QuemEmitiu'
    BY <2>1, <2>2, <2>3, <2>4 DEF QuemEmitiu
  <2>7. NumeroDaPropria'
    BY <2>2, <2>3 DEF NumeroDaPropria, Emitidas
  <2> QED
    BY <2>5, <2>6, <2>7
<1>2. CASE FimRetomada
  BY <1>2 DEF FimRetomada, TituloComDono, QuemEmitiu, UmTituloPorLinha, NumeroDaPropria,
     Emitidas
<1> QED
  BY <1>1, <1>2, TituloEmissao DEF EmissaoNext

-----------------------------------------------------------------------------
LEMMA InitIInv == ASSUME Init PROVE IInv
<1>1. IInvTipo
  BY InitIInvTipo
<1>2. \A n \in NNs : titulo[n] = "nao" /\ dono[n] = 0
  BY DEF Init, DadosInit
<1>3. \A l \in Linhas : /\ h[l].status = "livre" /\ h[l].situacao = "nenhuma"
                        /\ ~h[l].ignorado /\ pc[l] = "parado"
  BY DEF Init, DadosInit, LinhaNova, EmissaoInit, TodasParadas
<1>4. SemEtapa
  BY <1>3 DEF SemEtapa, EtapaLinha, Quieta
<1> QED
  BY <1>1, <1>2, <1>3, <1>4 DEF IInv, TituloComDono, QuemEmitiu, UmTituloPorLinha,
     NumeroDaPropria, Emitidas

LEMMA NextIInv == ASSUME IInv, [Next]_vars PROVE IInv'
<1> USE DEF IInv
<1>1. IInvTipo'
  BY NextIInvTipo
<1>2. TypeOK /\ \A k \in Linhas : h[k] \in Linha
  BY DEF IInvTipo, TypeOK, DadosTypeOK
<1>3. CASE EmissaoNext /\ UNCHANGED <<verificacaoVars, canc>>
  BY <1>1, <1>2, <1>3, EtapaEmissao, TitulosDaEmissao DEF TypeOK
<1>4. CASE \/ VerificacaoNext /\ UNCHANGED <<emissaoVars, canc>>
           \/ CancNext /\ UNCHANGED <<emissaoVars, verificacaoVars>>
           \/ Ambiente /\ UNCHANGED <<emissaoVars, verificacaoVars, canc>>
  <2>1. /\ \A k \in Linhas : h'[k] = h[k] \/ \E p : h'[k] = [h[k] EXCEPT !.pay = p]
        /\ pc' = pc /\ ex' = ex /\ dono' = dono
        /\ \A n \in NNs : titulo'[n] = "nao" <=> titulo[n] = "nao"
    <3>1. 1 \in Linhas
      BY DadosAssumption DEF Linhas
    <3> QED
      BY <1>2, <1>4, <3>1, SoPay
  <2>2. \A k \in Linhas : /\ h'[k].status = h[k].status /\ h'[k].nn = h[k].nn
                          /\ h'[k].ignorado = h[k].ignorado
                          /\ h'[k].situacao = h[k].situacao
    BY <1>2, <2>1, MesmaLinha
  <2>3. SemEtapa'
    BY <2>1, <2>2 DEF SemEtapa, EtapaLinha, Quieta
  <2>4. TituloComDono' /\ UmTituloPorLinha'
    BY <2>1 DEF TituloComDono, UmTituloPorLinha
  <2>5. \A n \in NNs : dono[n] \in Linhas \cup {0}
    BY <1>2 DEF TypeOK, DadosTypeOK
  <2>6. QuemEmitiu'
    BY <2>1, <2>2, <2>5 DEF QuemEmitiu
  <2>7. NumeroDaPropria'
    BY <2>1, <2>2 DEF NumeroDaPropria, Emitidas
  <2> QED
    BY <1>1, <2>3, <2>4, <2>6, <2>7
<1>5. CASE Queda
  <2>1. /\ UNCHANGED dadosVars
        /\ \A k \in Linhas : pc'[k] = "parado"
    BY <1>5 DEF Queda, Reiniciar, TodasParadas
  <2>2. SemEtapa'
    BY <2>1 DEF dadosVars, SemEtapa, EtapaLinha, Quieta
  <2>3. \A n \in NNs : dono[n] \in Linhas \cup {0}
    BY <1>2 DEF TypeOK, DadosTypeOK
  <2>4. TituloComDono' /\ QuemEmitiu' /\ UmTituloPorLinha' /\ NumeroDaPropria'
    BY <2>1, <2>3 DEF dadosVars, TituloComDono, QuemEmitiu, UmTituloPorLinha, NumeroDaPropria,
       Emitidas
  <2> QED
    BY <1>1, <2>2, <2>4
<1>6. CASE UNCHANGED vars
  BY <1>1, <1>6 DEF vars, dadosVars, emissaoVars, SemEtapa, TituloComDono, QuemEmitiu,
     UmTituloPorLinha, NumeroDaPropria, Emitidas
<1> QED
  BY <1>3, <1>4, <1>5, <1>6 DEF Next

\* The inductive invariant holds in every reachable state.
THEOREM Indutivo == Spec => []IInv
  BY InitIInv, NextIInv, PTL DEF Spec

\* A row goes back to the queue only if its activation registered no title.
THEOREM FilaNaoEmitiu == Spec => []FilaSemTitulo
<1>1. IInv => FilaSemTitulo
  BY DEF IInv, QuemEmitiu, FilaSemTitulo
<1> QED
  BY <1>1, Indutivo, PTL

\* No activation registers two titles.
THEOREM UmTitulo == Spec => []UmTituloPorLinha
<1>1. IInv => UmTituloPorLinha
  BY DEF IInv
<1> QED
  BY <1>1, Indutivo, PTL

\* An emitted row carries the number of a title of its own.
THEOREM EmitidaCarregaTitulo == Spec => []EmitidaTemTitulo
<1>1. IInv => EmitidaTemTitulo
  BY DEF IInv, NumeroDaPropria, EmitidaTemTitulo, Emitidas
<1> QED
  BY <1>1, Indutivo, PTL

\* The stage of a queued, skipped or ignored row was not touched.
THEOREM EtapaPreservada == Spec => []PermaneceNaSituacao
<1>1. IInv => PermaneceNaSituacao
  BY DEF IInv, SemEtapa, EtapaLinha, Quieta, PermaneceNaSituacao
<1> QED
  BY <1>1, Indutivo, PTL

-----------------------------------------------------------------------------
(* What a row says of its boleto.  Every process writes the payment of a   *)
(* row it read earlier; what makes the write true is that the row is an    *)
(* emitted one, which keeps its number, and that the title it read as paid *)
(* or written off stays so.                                                *)

Numerada(k) == k \in Linhas /\ h[k].status = "success" /\ h[k].nn # Nulo

InicioNaFila == \A l \in Linhas : pc[l] = "inicio" => h[l].status = "queued"

LinhasFieis ==
  \A l \in Linhas :
    /\ h[l].pay = "paid" => Numerada(l) /\ titulo[h[l].nn] = "pago"
    /\ h[l].pay = "cancelled"
         => h[l].ignorado \/ (Numerada(l) /\ "baixado" \in Leituras(h[l].nn))

\* A run that replaces a boleto: the row it replaces was emitted, and a run that
\* takes it for written off has written it off.
ComBaixa == {"emissao", "posBaixa", "upload", "etapa", "concluir", "falha"}
Substitui(l) ==
  /\ ex[l].prev # 0 => Numerada(ex[l].prev)
  /\ ex[l].baixou => /\ ex[l].prev # 0 /\ pc[l] \in ComBaixa
                     /\ titulo[h[ex[l].prev].nn] = "baixado"
  /\ pc[l] = "posBaixa" => ex[l].baixou
  /\ pc[l] = "baixa" => ex[l].prev # 0
Substituida == \A l \in Linhas : Substitui(l)

\* What a round or a cancellation remembers of the title with number n.
Leu(r, n) == /\ r.lida = "pago" => titulo[n] = "pago"
             /\ r.lida = "baixado" => "baixado" \in Leituras(n)
             /\ r.baixou => titulo[n] = "baixado"
RodadaLeu(v) ==
  /\ \A i \in vf[v].itens : Numerada(i[1])
  /\ vf[v].pc \in {"ler", "gravar"} => Numerada(vf[v].l) /\ Leu(vf[v], h[vf[v].l].nn)
  /\ vf[v].baixou => vf[v].pc \in {"ler", "gravar"}
RodadaFiel == \A v \in Verificadores : RodadaLeu(v)
CancFiel ==
  /\ canc.pc \in {"lock", "portal", "gravar"} => Numerada(canc.l)
  /\ canc.pc = "gravar" => /\ Leu(canc, h[canc.l].nn)
                           /\ canc.lida \in {"pago", "baixado"} \/ canc.baixou
  /\ canc.baixou => canc.pc = "gravar"
MarcarFiel ==
  marcar # 0 => /\ marcar \in Linhas /\ h[marcar].status = "success"
                /\ h[marcar].ignorado \/ h[marcar].nn # Nulo
                /\ h[marcar].nn # Nulo => titulo[h[marcar].nn] = "baixado"

Fiel == /\ InicioNaFila /\ LinhasFieis /\ Substituida /\ RodadaFiel /\ CancFiel
        /\ MarcarFiel

\* What no step undoes: an emitted row stays emitted under its number, an
\* ignored one ignored, and a title that was paid or written off is closed.
Estavel ==
  /\ \A k \in Linhas : h[k].status = "success" => /\ h'[k].status = "success"
                                                  /\ h'[k].nn = h[k].nn
  /\ \A k \in Linhas : h[k].ignorado => h'[k].ignorado
  /\ \A n \in NNs : titulo[n] \in {"pago", "baixado"} => titulo'[n] = titulo[n]

\* A payment is written only when the bank bears it out.
PayCerto(k) ==
  \/ h'[k].pay = h[k].pay
  \/ h'[k].pay = "paid" /\ Numerada(k) /\ titulo[h[k].nn] = "pago"
  \/ /\ h'[k].pay = "cancelled"
     /\ \/ Numerada(k) /\ "baixado" \in Leituras(h[k].nn)
        \/ h[k].ignorado /\ h[k].pay # "paid"

-----------------------------------------------------------------------------
LEMMA MarcaFica ==
  ASSUME NEW r \in Linha, NEW c,
         NEW m \in {[r EXCEPT !.status = "skipped", !.pessoa = TRUE],
                    [r EXCEPT !.status = "skipped", !.ignorado = TRUE, !.pessoa = TRUE],
                    [r EXCEPT !.status = "success", !.ignorado = TRUE, !.cond = c,
                              !.pessoa = TRUE]}
  PROVE  m.pay = r.pay /\ (r.ignorado => m.ignorado)
<1>1. CASE m = [r EXCEPT !.status = "skipped", !.pessoa = TRUE]
  BY <1>1 DEF Linha
<1>2. CASE m = [r EXCEPT !.status = "skipped", !.ignorado = TRUE, !.pessoa = TRUE]
  BY <1>2 DEF Linha
<1>3. CASE m = [r EXCEPT !.status = "success", !.ignorado = TRUE, !.cond = c,
                         !.pessoa = TRUE]
  BY <1>3 DEF Linha
<1> QED
  BY <1>1, <1>2, <1>3

\* The step of a run leaves the payment of its own row alone and never takes
\* the row for replaced; another row it only marks as written off.
LEMMA LinhaPropria ==
  ASSUME DadosTypeOK, EmissaoTypeOK, NEW l \in Linhas, Passo(l), ex[l].prev # l
  PROVE  /\ h'[l].pay = h[l].pay /\ (h[l].ignorado => h'[l].ignorado)
         /\ pc[l] # "parado" /\ pc'[l] # "inicio"
<1> USE DEF DadosTypeOK, EmissaoTypeOK, Update, Ir, Parar, soPasso, soLinha
<1>1. CASE Move(l)
  BY <1>1 DEF Linha, Move, FalharCV, PegarLock, DesistirLock, AbrirSessao, FalharSessao,
     FalharBaixa, Emitir, FalharEmissao, GravarBaixa, Upload, FalharUpload, AgendarEtapa,
     Sair
<1>2. CASE Para(l)
  <2> USE DEF Linha
  <2>1. CASE Agendar(l)
    BY <2>1 DEF Agendar
  <2>2. CASE Recusar(l)
    BY <2>2 DEF Recusar
  <2>3. CASE RecusarPrazo(l)
    BY <2>3 DEF RecusarPrazo
  <2>4. CASE Concluir(l)
    BY <2>4 DEF Concluir
  <2>5. CASE Reagendar(l)
    BY <2>5 DEF Reagendar
  <2>6. CASE Reprovar(l)
    BY <2>6 DEF Reprovar
  <2> QED
    BY <1>2, <2>1, <2>2, <2>3, <2>4, <2>5, <2>6 DEF Para
<1>3. CASE Iniciar(l)
  BY <1>3 DEF Linha, Iniciar
<1>4. CASE Decide(l) /\ ~Iniciar(l)
  <2> DEFINE M == {[h[l] EXCEPT !.status = "skipped", !.pessoa = TRUE],
                   [h[l] EXCEPT !.status = "skipped", !.ignorado = TRUE, !.pessoa = TRUE],
                   [h[l] EXCEPT !.status = "success", !.ignorado = TRUE, !.cond = ex[l].foto,
                                !.pessoa = TRUE]}
  <2>1. /\ \A m \in M : m.pay = h[l].pay /\ (h[l].ignorado => m.ignorado)
    BY MarcaFica
  <2>2. /\ h' = h \/ h'[l] \in M
        /\ pc[l] # "parado" /\ pc'[l] # "inicio"
    BY <1>4 DEF Decide, LerReserva, VerPago, VerJanela, DecidirRetrigger, Ignorar
  <2> HIDE DEF M
  <2> QED
    BY <2>1, <2>2
<1>5. CASE Numerar(l)
  BY <1>5 DEF Linha, Numerar
<1>6. CASE BaixaPrevia(l)
  BY <1>6 DEF BaixaPrevia
<1> QED
  BY <1>1, <1>2, <1>3, <1>4, <1>5, <1>6, Grupos

LEMMA LinhaAlheia ==
  ASSUME DadosTypeOK, EmissaoTypeOK, NEW l \in Linhas, Passo(l), NEW k \in Linhas, k # l
  PROVE  \/ h'[k] = h[k]
         \/ /\ pc[l] = "posBaixa" /\ k = ex[l].prev
            /\ h'[k] = [h[k] EXCEPT !.pay = "cancelled"]
<1> USE DEF DadosTypeOK, EmissaoTypeOK, Update, Ir, Parar, soPasso, soLinha
<1>1. CASE Move(l)
  BY <1>1 DEF Move, FalharCV, PegarLock, DesistirLock, AbrirSessao, FalharSessao,
     FalharBaixa, Emitir, FalharEmissao, GravarBaixa, Upload, FalharUpload, AgendarEtapa,
     Sair
<1>2. CASE Para(l)
  BY <1>2 DEF Para, Agendar, Recusar, RecusarPrazo, Concluir, Reagendar, Reprovar
<1>3. CASE Decide(l)
  BY <1>3 DEF Decide, Iniciar, VerPago, LerReserva, VerJanela, DecidirRetrigger, Ignorar
<1>4. CASE Numerar(l) \/ BaixaPrevia(l)
  BY <1>4 DEF Numerar, BaixaPrevia
<1> QED
  BY <1>1, <1>2, <1>3, <1>4, Grupos

\* A title that is paid or written off is closed for every run.
LEMMA TituloFechado ==
  ASSUME DadosTypeOK, NEW l \in Linhas, Passo(l), NEW n \in NNs,
         titulo[n] \in {"pago", "baixado"}
  PROVE  titulo'[n] = titulo[n]
<1> USE DEF DadosTypeOK, soPasso, soLinha
<1>1. CASE Move(l)
  BY <1>1 DEF Move, FalharCV, PegarLock, DesistirLock, AbrirSessao, FalharSessao,
     FalharBaixa, Emitir, FalharEmissao, GravarBaixa, Upload, FalharUpload, AgendarEtapa
<1>2. CASE Para(l)
  BY <1>2 DEF Para, Agendar, Recusar, RecusarPrazo, Concluir, Reagendar, Reprovar
<1>3. CASE Decide(l)
  BY <1>3 DEF Decide, Iniciar, VerPago, LerReserva, VerJanela, DecidirRetrigger
<1>4. CASE Numerar(l) \/ BaixaPrevia(l)
  BY <1>4 DEF Numerar, BaixaPrevia
<1> QED
  BY <1>1, <1>2, <1>3, <1>4, Grupos

\* What a run remembers of the boleto it replaces.
LEMMA MemoriaDaBaixa ==
  ASSUME DadosTypeOK, EmissaoTypeOK, NEW l \in Linhas, Passo(l), Substitui(l)
  PROVE  \/ pc'[l] = "parado" /\ ex'[l] = ExecNova
         \/ /\ ex'[l].prev = ex[l].prev /\ ex'[l].baixou = ex[l].baixou
            /\ ex[l].baixou => pc'[l] \in ComBaixa
            /\ pc'[l] = "posBaixa" => ex[l].baixou
            /\ pc'[l] = "baixa" => ex[l].prev # 0
         \/ /\ pc'[l] = "prazo" /\ pc[l] = "validar" /\ ~ex'[l].baixou
            /\ ex'[l].prev \in Pendentes \ {l} /\ h[ex'[l].prev].nn # Nulo
         \/ /\ pc'[l] = "emissao" /\ pc[l] = "baixa"
            /\ ex'[l].prev = ex[l].prev /\ h' = h
            /\ titulo'[h[ex[l].prev].nn] = "baixado"
<1> USE DEF DadosTypeOK, EmissaoTypeOK, Ir, Parar, soPasso, soLinha, Substitui, ComBaixa
<1>1. CASE Move(l)
  BY <1>1 DEF Move, FalharCV, PegarLock, DesistirLock, AbrirSessao, FalharSessao,
     FalharBaixa, Emitir, FalharEmissao, GravarBaixa, Upload, FalharUpload, AgendarEtapa,
     Sair
<1>2. CASE Para(l)
  BY <1>2 DEF Para, Agendar, Recusar, RecusarPrazo, Concluir, Reagendar, Reprovar
<1>3. CASE Decide(l) /\ ~DecidirRetrigger(l)
  BY <1>3 DEF Decide, Iniciar, VerPago, LerReserva, VerJanela, Exec
<1>4. CASE DecidirRetrigger(l)
  BY <1>4 DEF DecidirRetrigger, Ignorar, Ultima, Exec
<1>5. CASE Numerar(l)
  BY <1>5 DEF Numerar, Exec
<1>6. CASE BaixaPrevia(l)
  <2>1. h[ex[l].prev].nn \in NNs
    BY <1>6 DEF BaixaPrevia, Numerada, Linha
  <2> QED
    BY <1>6, <2>1 DEF BaixaPrevia, Exec
<1> QED
  BY <1>1, <1>2, <1>3, <1>4, <1>5, <1>6, Grupos

-----------------------------------------------------------------------------
(* What follows from a step that is stable. *)

LEMMA LeiturasFicam ==
  ASSUME Estavel, NEW n \in NNs, "baixado" \in Leituras(n)
  PROVE  "baixado" \in Leituras(n)'
<1>1. titulo[n] \in {"pago", "baixado"}
  BY DEF Leituras
<1>2. titulo'[n] = titulo[n]
  BY <1>1 DEF Estavel
<1> QED
  BY <1>2 DEF Leituras, Pode

LEMMA NumeradaFica ==
  ASSUME DadosTypeOK, Estavel, NEW k, Numerada(k)
  PROVE  Numerada(k)' /\ h'[k].nn = h[k].nn /\ h[k].nn \in NNs
  BY DEF Estavel, Numerada, DadosTypeOK, Linha

LEMMA LeuFica ==
  ASSUME Estavel, NEW n \in NNs, NEW r, Leu(r, n)
  PROVE  Leu(r, n)'
<1>1. r.lida = "pago" => titulo'[n] = "pago"
  BY DEF Leu, Estavel
<1>2. r.lida = "baixado" => "baixado" \in Leituras(n)'
  BY LeiturasFicam DEF Leu
<1>3. r.baixou => titulo'[n] = "baixado"
  BY DEF Leu, Estavel
<1> QED
  BY <1>1, <1>2, <1>3 DEF Leu

LEMMA LinhasFicam ==
  ASSUME DadosTypeOK, LinhasFieis, Estavel, \A k \in Linhas : PayCerto(k)
  PROVE  LinhasFieis'
<1> SUFFICES ASSUME NEW l \in Linhas
             PROVE  /\ h'[l].pay = "paid" => Numerada(l)' /\ titulo'[h'[l].nn] = "pago"
                    /\ h'[l].pay = "cancelled"
                         => h'[l].ignorado \/ (Numerada(l)' /\ "baixado" \in Leituras(h[l].nn)'
                                                            /\ h'[l].nn = h[l].nn)
  BY DEF LinhasFieis, Leituras
<1>1. ASSUME h'[l].pay = "paid"
      PROVE  Numerada(l)' /\ titulo'[h'[l].nn] = "pago"
  <2>1. Numerada(l) /\ titulo[h[l].nn] = "pago"
    BY <1>1 DEF PayCerto, LinhasFieis
  <2>2. Numerada(l)' /\ h'[l].nn = h[l].nn /\ h[l].nn \in NNs
    BY <2>1, NumeradaFica
  <2> QED
    BY <2>1, <2>2 DEF Estavel
<1>2. ASSUME h'[l].pay = "cancelled", ~h'[l].ignorado
      PROVE  Numerada(l)' /\ "baixado" \in Leituras(h[l].nn)' /\ h'[l].nn = h[l].nn
  <2>1. Numerada(l) /\ "baixado" \in Leituras(h[l].nn)
    BY <1>2 DEF PayCerto, LinhasFieis, Estavel
  <2>2. PICK n \in NNs : n = h[l].nn
    BY <2>1, NumeradaFica
  <2>3. Numerada(l)' /\ h'[l].nn = n
    BY <2>1, <2>2, NumeradaFica
  <2>4. "baixado" \in Leituras(n)'
    BY <2>1, <2>2, LeiturasFicam
  <2> QED
    BY <2>2, <2>3, <2>4 DEF Leituras
<1> QED
  BY <1>1, <1>2

\* A round, a cancellation, a mark and a replacement that did not move.
LEMMA RodadaFica ==
  ASSUME DadosTypeOK, Estavel, NEW v, RodadaLeu(v), vf'[v] = vf[v],
         \A i \in vf[v].itens : i[1] \in Linhas
  PROVE  RodadaLeu(v)'
<1>1. PICK r : r = vf[v]
  OBVIOUS
<1>2. \A i \in r.itens : Numerada(i[1])'
  <2> SUFFICES ASSUME NEW i \in r.itens PROVE Numerada(i[1])'
    OBVIOUS
  <2>1. Numerada(i[1])
    BY <1>1 DEF RodadaLeu
  <2> QED
    BY <2>1, NumeradaFica
<1>3. ASSUME r.pc \in {"ler", "gravar"}
      PROVE  Numerada(r.l)' /\ Leu(r, h[r.l].nn)'
  <2>1. Numerada(r.l) /\ Leu(r, h[r.l].nn)
    BY <1>1, <1>3 DEF RodadaLeu
  <2>2. PICK n \in NNs : n = h[r.l].nn
    BY <2>1, NumeradaFica
  <2>3. Numerada(r.l)' /\ h'[r.l].nn = n
    BY <2>1, <2>2, NumeradaFica
  <2>4. Leu(r, n)'
    BY <2>1, <2>2, LeuFica
  <2> QED
    BY <2>3, <2>4
<1> QED
  BY <1>1, <1>2, <1>3 DEF RodadaLeu

LEMMA CancFica ==
  ASSUME DadosTypeOK, Estavel, CancFiel, canc' = canc
  PROVE  CancFiel'
<1>1. PICK r : r = canc
  OBVIOUS
<1>2. ASSUME r.pc \in {"lock", "portal", "gravar"} PROVE Numerada(r.l)'
  BY <1>1, <1>2, NumeradaFica DEF CancFiel
<1>3. ASSUME r.pc = "gravar" PROVE Leu(r, h[r.l].nn)'
  <2>1. Numerada(r.l) /\ Leu(r, h[r.l].nn)
    BY <1>1, <1>3 DEF CancFiel
  <2>2. PICK n \in NNs : n = h[r.l].nn
    BY <2>1, NumeradaFica
  <2>3. h'[r.l].nn = n
    BY <2>1, <2>2, NumeradaFica
  <2>4. Leu(r, n)'
    BY <2>1, <2>2, LeuFica
  <2> QED
    BY <2>3, <2>4
<1>4. r.pc = "gravar" => r.lida \in {"pago", "baixado"} \/ r.baixou
  BY <1>1 DEF CancFiel
<1> QED
  BY <1>1, <1>2, <1>3, <1>4 DEF CancFiel

LEMMA MarcarFica ==
  ASSUME DadosTypeOK, Estavel, MarcarFiel, marcar' = marcar
  PROVE  MarcarFiel'
  BY DEF MarcarFiel, Estavel, DadosTypeOK, Linha

LEMMA SubstituiFica ==
  ASSUME DadosTypeOK, Estavel, NEW l, Substitui(l), ex'[l] = ex[l], pc'[l] = pc[l]
  PROVE  Substitui(l)'
<1>1. PICK k : k = ex[l].prev
  OBVIOUS
<1>2. k # 0 => Numerada(k) /\ Numerada(k)' /\ h'[k].nn = h[k].nn /\ h[k].nn \in NNs
  BY <1>1, NumeradaFica DEF Substitui
<1>3. ex[l].baixou => titulo'[h'[k].nn] = "baixado" /\ k # 0
  BY <1>1, <1>2 DEF Substitui, Estavel
<1> QED
  BY <1>1, <1>2, <1>3 DEF Substitui

-----------------------------------------------------------------------------
(* The steps of the emission. *)

LEMMA PassoRodando == ASSUME NEW l \in Linhas, Passo(l) PROVE pc[l] # "parado"
  BY DEF Passo, Iniciar, LerReserva, FalharCV, VerPago, VerJanela, Agendar, Recusar,
     DecidirRetrigger, RecusarPrazo, Numerar, PegarLock, DesistirLock, AbrirSessao,
     FalharSessao, BaixaPrevia, FalharBaixa, Emitir, FalharEmissao, GravarBaixa, Upload,
     FalharUpload, AgendarEtapa, Concluir, Reagendar, Reprovar

\* A run works on a row that is not emitted yet, so never on the one it replaces.
LEMMA NaoESubstituida ==
  ASSUME SemEtapa, InicioNaFila, Substituida, NEW l \in Linhas, Passo(l)
  PROVE  h[l].status # "success" /\ ex[l].prev # l
<1>1. h[l].status # "success"
  BY PassoRodando DEF SemEtapa, EtapaLinha, InicioNaFila
<1>2. l # 0
  BY DEF Linhas
<1> QED
  BY <1>1, <1>2 DEF Substituida, Substitui, Numerada

LEMMA PassoEstavel ==
  ASSUME IInv, Fiel, NEW l \in Linhas, Passo(l)
  PROVE  Estavel /\ (\A k \in Linhas : PayCerto(k)) /\ InicioNaFila'
<1> USE DEF IInv, IInvTipo, TypeOK, Fiel
<1>1. /\ h[l].status # "success" /\ ex[l].prev # l
      /\ \A k \in Linhas : h[k] \in Linha
  BY NaoESubstituida DEF DadosTypeOK
<1>2. /\ h'[l].pay = h[l].pay /\ (h[l].ignorado => h'[l].ignorado)
      /\ pc'[l] # "inicio"
  BY <1>1, LinhaPropria
<1>3. \A k \in Linhas \ {l} :
        /\ pc'[k] = pc[k]
        /\ h'[k].status = h[k].status /\ h'[k].nn = h[k].nn /\ h'[k].ignorado = h[k].ignorado
  <2> SUFFICES ASSUME NEW k \in Linhas \ {l}
               PROVE  /\ pc'[k] = pc[k] /\ h'[k].status = h[k].status
                      /\ h'[k].nn = h[k].nn /\ h'[k].ignorado = h[k].ignorado
    OBVIOUS
  <2>1. /\ pc'[k] = pc[k]
        /\ h'[k] = h[k] \/ h'[k] = [h[k] EXCEPT !.pay = "cancelled"]
    BY OutrasLinhas
  <2> QED
    BY <1>1, <2>1, MesmaLinha
<1>4. Estavel
  BY <1>1, <1>2, <1>3, TituloFechado DEF Estavel
<1>5. ASSUME NEW k \in Linhas PROVE PayCerto(k)
  <2>1. CASE k = l
    BY <1>2, <2>1 DEF PayCerto
  <2>2. CASE h'[k] = h[k]
    BY <2>2 DEF PayCerto
  <2>3. CASE /\ pc[l] = "posBaixa" /\ k = ex[l].prev
             /\ h'[k] = [h[k] EXCEPT !.pay = "cancelled"]
    <3>1. h'[k].pay = "cancelled"
      BY <1>1, <2>3 DEF Linha
    <3>2. Numerada(k) /\ titulo[h[k].nn] = "baixado"
      BY <2>3 DEF Substituida, Substitui
    <3> QED
      BY <3>1, <3>2 DEF PayCerto, Leituras
  <2> QED
    BY <2>1, <2>2, <2>3, LinhaAlheia
<1>6. InicioNaFila'
  BY <1>2, <1>3 DEF InicioNaFila
<1> QED
  BY <1>4, <1>5, <1>6

LEMMA PassoSubstitui ==
  ASSUME IInv, Fiel, Estavel, NEW l \in Linhas, Passo(l)
  PROVE  Substituida'
<1> USE DEF IInv, IInvTipo, TypeOK, Fiel
<1>1. ASSUME NEW k \in Linhas, k # l PROVE Substitui(k)'
  BY <1>1, OutrasLinhas, SubstituiFica DEF Substituida
<1>2. Substitui(l)'
  <2>1. PICK p : p = ex'[l].prev
    OBVIOUS
  <2>2. Substitui(l)
    BY DEF Substituida
  <2>3. CASE pc'[l] = "parado" /\ ex'[l] = ExecNova
    BY <2>3 DEF Substitui, ExecNova
  <2>4. CASE /\ ex'[l].prev = ex[l].prev /\ ex'[l].baixou = ex[l].baixou
             /\ ex[l].baixou => pc'[l] \in ComBaixa
             /\ pc'[l] = "posBaixa" => ex[l].baixou
             /\ pc'[l] = "baixa" => ex[l].prev # 0
    <3>1. p # 0 => Numerada(p) /\ Numerada(p)' /\ h'[p].nn = h[p].nn /\ h[p].nn \in NNs
      BY <2>1, <2>2, <2>4, NumeradaFica DEF Substitui
    <3>2. ex[l].baixou => titulo'[h'[p].nn] = "baixado" /\ p # 0
      BY <2>1, <2>2, <2>4, <3>1 DEF Substitui, Estavel
    <3> QED
      BY <2>1, <2>4, <3>1, <3>2 DEF Substitui
  <2>5. CASE /\ pc'[l] = "prazo" /\ pc[l] = "validar" /\ ~ex'[l].baixou
             /\ ex'[l].prev \in Pendentes \ {l} /\ h[ex'[l].prev].nn # Nulo
    <3>1. Numerada(p)
      BY <2>1, <2>5 DEF Numerada, Pendentes, Emitidas
    <3>2. Numerada(p)'
      BY <3>1, NumeradaFica
    <3> QED
      BY <2>1, <2>5, <3>2 DEF Substitui
  <2>6. CASE /\ pc'[l] = "emissao" /\ pc[l] = "baixa"
             /\ ex'[l].prev = ex[l].prev /\ h' = h
             /\ titulo'[h[ex[l].prev].nn] = "baixado"
    <3>1. p # 0 /\ Numerada(p)
      BY <2>1, <2>2, <2>6 DEF Substitui
    <3>2. Numerada(p)'
      BY <3>1, NumeradaFica
    <3> QED
      BY <2>1, <2>6, <3>1, <3>2 DEF Substitui, ComBaixa
  <2> QED
    BY <2>2, <2>3, <2>4, <2>5, <2>6, MemoriaDaBaixa
<1> QED
  BY <1>1, <1>2 DEF Substituida

\* An activation and a resumption start on a row nobody refers to.
LEMMA InicioFiel ==
  ASSUME IInv, Fiel, NEW l \in Linhas,
         (\E f, m \in BOOLEAN : Acionar(l, f, m)) \/ Retomar(l)
  PROVE  /\ Estavel /\ (\A k \in Linhas : PayCerto(k)) /\ InicioNaFila' /\ Substituida'
<1> USE DEF IInv, IInvTipo, TypeOK, Fiel
<1>1. /\ h[l].status \in {"livre", "queued"} /\ h'[l].pay = h[l].pay
      /\ h'[l].ignorado = h[l].ignorado /\ pc[l] \in {"parado", "inicio"}
      /\ pc'[l] = "reserva" \/ (pc'[l] = "inicio" /\ h'[l].status = "queued")
      /\ ex'[l].prev = ex[l].prev /\ ex'[l].baixou = ex[l].baixou
  <2> USE DEF DadosTypeOK, EmissaoTypeOK, SemEtapa, EtapaLinha, Update, Ir
  <2>1. CASE \E f, m \in BOOLEAN : Acionar(l, f, m)
    <3>1. PICK f \in BOOLEAN, m \in BOOLEAN : Acionar(l, f, m)
      BY <2>1
    <3>2. /\ h'[l] = [h[l] EXCEPT !.status = "processing"]
          /\ h[l].status = "livre" /\ pc[l] = "parado" /\ pc'[l] = "reserva"
      BY <3>1 DEF Acionar, Usadas
    <3>3. ex'[l] = [ex[l] EXCEPT !.forcar = f, !.manual = m]
      BY <3>1 DEF Acionar
    <3>4. ex'[l].prev = ex[l].prev /\ ex'[l].baixou = ex[l].baixou
      BY <3>3 DEF Exec
    <3> QED
      BY <3>2, <3>4 DEF Linha
  <2>2. CASE Retomar(l)
    BY <2>2 DEF Retomar, NaFila, Linha, Exec
  <2> QED
    BY <2>1, <2>2
<1>2. /\ \A k \in Linhas \ {l} : h'[k] = h[k] /\ pc'[k] = pc[k] /\ ex'[k] = ex[k]
      /\ titulo' = titulo
  <2> USE DEF DadosTypeOK, EmissaoTypeOK, Update, Ir
  <2>1. CASE \E f, m \in BOOLEAN : Acionar(l, f, m)
    BY <2>1 DEF Acionar
  <2>2. CASE Retomar(l)
    BY <2>2 DEF Retomar
  <2> QED
    BY <2>1, <2>2
<1>3. Estavel /\ (\A k \in Linhas : PayCerto(k)) /\ InicioNaFila'
  BY <1>1, <1>2 DEF Estavel, PayCerto, InicioNaFila
<1>4. ASSUME NEW k \in Linhas, k # l PROVE Substitui(k)'
  BY <1>2, <1>3, <1>4, SubstituiFica DEF Substituida
<1>5. Substitui(l)'
  <2>1. PICK p : p = ex[l].prev
    OBVIOUS
  <2>2. ~ex[l].baixou
    BY <1>1 DEF Substituida, Substitui, ComBaixa
  <2>3. p # 0 => Numerada(p)'
    BY <1>3, <2>1, NumeradaFica DEF Substituida, Substitui
  <2> QED
    BY <1>1, <2>1, <2>2, <2>3 DEF Substitui
<1> QED
  BY <1>3, <1>4, <1>5 DEF Substituida

LEMMA FielEmissao ==
  ASSUME IInv, Fiel, EmissaoNext, UNCHANGED <<verificacaoVars, canc>>
  PROVE  Fiel' /\ \A k \in Linhas : PayCerto(k)
<1> USE DEF IInv, IInvTipo, TypeOK, Fiel
<1>1. /\ Estavel /\ (\A k \in Linhas : PayCerto(k)) /\ InicioNaFila' /\ Substituida'
  <2>1. ASSUME NEW l \in Linhas, Passo(l)
        PROVE  /\ Estavel /\ (\A k \in Linhas : PayCerto(k)) /\ InicioNaFila' /\ Substituida'
    BY <2>1, PassoEstavel, PassoSubstitui
  <2>2. CASE FimRetomada
    <3>1. h' = h /\ titulo' = titulo /\ pc' = pc /\ ex' = ex
      BY <2>2 DEF FimRetomada
    <3>2. Estavel /\ (\A k \in Linhas : PayCerto(k)) /\ InicioNaFila'
      BY <3>1 DEF Estavel, PayCerto, InicioNaFila
    <3> QED
      BY <3>1, <3>2, SubstituiFica DEF Substituida
  <2> QED
    BY <2>1, <2>2, InicioFiel DEF EmissaoNext
<1>2. LinhasFieis'
  BY <1>1, LinhasFicam
<1>3. RodadaFiel'
  <2>1. \A v \in Verificadores : \A i \in vf[v].itens : i[1] \in Linhas
    BY DEF RodadaFiel, RodadaLeu, Numerada
  <2> QED
    BY <1>1, <2>1, RodadaFica DEF RodadaFiel, verificacaoVars
<1>4. CancFiel' /\ MarcarFiel'
  BY <1>1, CancFica, MarcarFica DEF verificacaoVars
<1> QED
  BY <1>1, <1>2, <1>3, <1>4

-----------------------------------------------------------------------------
(* The steps of the verification. *)

LEMMA ElegivelNumerada == ASSUME NEW i \in Elegiveis PROVE Numerada(i[1])
<1>1. PICK k \in ComNumero : i = <<k, TRUE>> \/ i = <<k, FALSE>>
  BY DEF Elegiveis
<1>2. <<k, TRUE>>[1] = k /\ <<k, FALSE>>[1] = k
  OBVIOUS
<1>3. i[1] = k
  BY <1>1, <1>2, Zenon
<1> QED
  BY <1>3 DEF ComNumero, Numerada

LEMMA EscritaDaRodada ==
  ASSUME IInv, Fiel, VerificacaoNext, NEW k \in Linhas
  PROVE  /\ PayCerto(k)
         /\ h'[k].status = h[k].status /\ h'[k].nn = h[k].nn
         /\ h'[k].ignorado = h[k].ignorado
<1> USE DEF IInv, IInvTipo, TypeOK, Fiel, DadosTypeOK
<1>1. h[k] \in Linha
  OBVIOUS
<1>2. ASSUME NEW v \in Verificadores, Gravar(v)
      PROVE  /\ PayCerto(k)
             /\ h'[k].status = h[k].status /\ h'[k].nn = h[k].nn
             /\ h'[k].ignorado = h[k].ignorado
  <2>1. PICK p : p = NovoPay(vf[v], h[vf[v].l].pay)
    OBVIOUS
  <2>2. h' = [h EXCEPT ![vf[v].l] = [h[vf[v].l] EXCEPT !.pay = p]]
    BY <1>2, <2>1 DEF Gravar, Update
  <2>3. /\ Numerada(vf[v].l) /\ Leu(vf[v], h[vf[v].l].nn)
    BY <1>2 DEF Gravar, RodadaFiel, RodadaLeu
  <2>4. CASE k # vf[v].l
    BY <2>2, <2>4 DEF PayCerto
  <2>5. CASE k = vf[v].l
    <3>1. h'[k] = [h[k] EXCEPT !.pay = p]
      BY <2>2, <2>5
    <3>2. h'[k].pay = p
      BY <1>1, <3>1 DEF Linha
    <3>3. \/ p = h[k].pay
          \/ p = "paid" /\ titulo[h[k].nn] = "pago"
          \/ p = "cancelled" /\ "baixado" \in Leituras(h[k].nn)
      BY <2>1, <2>3, <2>5 DEF NovoPay, Leu, Leituras
    <3> QED
      BY <1>1, <2>3, <2>5, <3>1, <3>2, <3>3, MesmaLinha DEF PayCerto
  <2> QED
    BY <2>4, <2>5
<1>3. CASE MarcarBaixado
  <2>1. h' = [h EXCEPT ![marcar] = [h[marcar] EXCEPT !.pay = "cancelled"]] /\ marcar # 0
    BY <1>3 DEF MarcarBaixado, Update
  <2>2. CASE k # marcar
    BY <2>1, <2>2 DEF PayCerto
  <2>3. CASE k = marcar
    <3>1. h'[k] = [h[k] EXCEPT !.pay = "cancelled"]
      BY <2>1, <2>3
    <3>2. h'[k].pay = "cancelled"
      BY <1>1, <3>1 DEF Linha
    <3>3. \/ Numerada(k) /\ "baixado" \in Leituras(h[k].nn)
          \/ h[k].ignorado /\ h[k].nn = Nulo
      BY <2>1, <2>3 DEF MarcarFiel, Numerada, Leituras
    <3>4. h[k].nn = Nulo => h[k].pay # "paid"
      BY DEF LinhasFieis, Numerada
    <3> QED
      BY <1>1, <3>1, <3>2, <3>3, <3>4, MesmaLinha DEF PayCerto
  <2> QED
    BY <2>2, <2>3
<1>4. CASE h' = h
  BY <1>4 DEF PayCerto
<1> QED
  BY <1>2, <1>3, <1>4 DEF VerificacaoNext, PassoVf, IniciarRodada, Pular, Consultar,
     ConsultarEBaixar, LerLinha, EncerrarRodada, LerParaMarcar, soVf

LEMMA VerificacaoEstavel ==
  ASSUME IInv, Fiel, VerificacaoNext
  PROVE  Estavel /\ \A k \in Linhas : PayCerto(k)
<1> USE DEF IInv, IInvTipo, TypeOK, Fiel, DadosTypeOK
<1>1. ASSUME NEW n \in NNs, titulo[n] \in {"pago", "baixado"}
      PROVE  titulo'[n] = titulo[n]
  <2>1. CASE \E v \in Verificadores : \E i \in vf[v].itens : ConsultarEBaixar(v, i)
    BY <1>1, <2>1 DEF ConsultarEBaixar
  <2> QED
    BY <2>1 DEF VerificacaoNext, PassoVf, IniciarRodada, Pular, Consultar, LerLinha, Gravar,
       EncerrarRodada, LerParaMarcar, MarcarBaixado, soVf
<1> QED
  BY <1>1, EscritaDaRodada DEF Estavel

\* What the step of a round leaves the round with.
LEMMA RodadaPasso ==
  ASSUME IInv, Fiel, Estavel, NEW v \in Verificadores, IniciarRodada(v) \/ PassoVf(v)
  PROVE  RodadaLeu(v)'
<1> USE DEF IInv, IInvTipo, TypeOK, Fiel, VerificacaoTypeOK
<1>1. /\ vf[v] \in Rodada /\ RodadaLeu(v) /\ vf \in [Verificadores -> Rodada]
      /\ \A i \in vf[v].itens : Numerada(i[1]) /\ Numerada(i[1])'
      /\ \A i \in Elegiveis : Numerada(i[1]) /\ Numerada(i[1])'
  <2>1. \A i \in vf[v].itens : Numerada(i[1])
    BY DEF RodadaFiel, RodadaLeu
  <2> QED
    BY <2>1, ElegivelNumerada, NumeradaFica DEF RodadaFiel
<1>2. ASSUME vf'[v].pc \in {"parado", "lote"}, ~vf'[v].baixou,
             vf'[v].itens \subseteq vf[v].itens \cup Elegiveis
      PROVE  RodadaLeu(v)'
  BY <1>1, <1>2 DEF RodadaLeu
<1>3. CASE IniciarRodada(v)
  BY <1>1, <1>2, <1>3 DEF IniciarRodada, RodadaLeu, Rodada
<1>4. ASSUME NEW i \in vf[v].itens, Terminar(v, i)
      PROVE  RodadaLeu(v)'
  BY <1>1, <1>2, <1>4 DEF Terminar, Rodada
<1>5. CASE EncerrarRodada(v)
  BY <1>1, <1>2, <1>5 DEF EncerrarRodada, RodadaNova
<1>6. ASSUME NEW i \in vf[v].itens, Consultar(v, i), ~Terminar(v, i)
      PROVE  RodadaLeu(v)'
  <2>1. PICK s \in Leituras(h[i[1]].nn) :
          s # "aberto" /\ vf' = [vf EXCEPT ![v].pc = "ler", ![v].l = i[1], ![v].lida = s]
    BY <1>6 DEF Consultar
  <2>2. /\ vf'[v].pc = "ler" /\ vf'[v].l = i[1] /\ vf'[v].lida = s
        /\ vf'[v].baixou = vf[v].baixou /\ vf'[v].itens = vf[v].itens
        /\ h' = h /\ titulo' = titulo /\ vf[v].pc = "lote"
    BY <1>1, <1>6, <2>1 DEF Consultar, soVf, Rodada
  <2>3. ~vf[v].baixou
    BY <1>1, <2>2 DEF RodadaLeu
  <2>4. Leu(vf[v], h[vf[v].l].nn)'
    BY <2>1, <2>2, <2>3 DEF Leu, Leituras, Pode
  <2> QED
    BY <1>1, <2>2, <2>4 DEF RodadaLeu
<1>7. ASSUME NEW i \in vf[v].itens, ConsultarEBaixar(v, i), ~Terminar(v, i)
      PROVE  RodadaLeu(v)'
  <2>1. /\ vf'[v].pc = "ler" /\ vf'[v].l = i[1] /\ vf'[v].lida = "aberto"
        /\ vf'[v].baixou /\ vf'[v].itens = vf[v].itens /\ h' = h
    BY <1>1, <1>7 DEF ConsultarEBaixar, Rodada
  <2>2. titulo'[h[i[1]].nn] = "baixado"
    <3>1. h[i[1]].nn \in NNs
      BY <1>1, NumeradaFica
    <3> QED
      BY <1>7, <3>1 DEF ConsultarEBaixar, DadosTypeOK
  <2>3. Leu(vf[v], h[vf[v].l].nn)'
    BY <2>1, <2>2 DEF Leu
  <2> QED
    BY <1>1, <2>1, <2>3 DEF RodadaLeu
<1>8. CASE LerLinha(v)
  <2>1. /\ vf'[v].pc = "gravar" /\ vf'[v].l = vf[v].l /\ vf'[v].lida = vf[v].lida
        /\ vf'[v].baixou = vf[v].baixou /\ vf'[v].itens = vf[v].itens
        /\ h' = h /\ titulo' = titulo /\ vf[v].pc = "ler"
    BY <1>1, <1>8 DEF LerLinha, soVf, Rodada
  <2>2. Numerada(vf[v].l) /\ Leu(vf[v], h[vf[v].l].nn)
    BY <1>1, <2>1 DEF RodadaLeu
  <2>3. Leu(vf[v], h[vf[v].l].nn)'
    BY <2>1, <2>2 DEF Leu, Leituras, Pode
  <2>4. Numerada(vf[v].l)'
    BY <2>1, <2>2 DEF Numerada
  <2> QED
    BY <1>1, <2>1, <2>3, <2>4 DEF RodadaLeu
<1>9. CASE Gravar(v)
  BY <1>1, <1>2, <1>9 DEF Gravar, Terminar, Rodada
<1> QED
  BY <1>3, <1>4, <1>5, <1>6, <1>7, <1>8, <1>9 DEF PassoVf, Pular

LEMMA FielVerificacao ==
  ASSUME IInv, Fiel, VerificacaoNext, UNCHANGED <<emissaoVars, canc>>
  PROVE  Fiel' /\ \A k \in Linhas : PayCerto(k)
<1> USE DEF IInv, IInvTipo, TypeOK, Fiel
<1>1. /\ Estavel /\ (\A k \in Linhas : PayCerto(k))
      /\ \A k \in Linhas : h'[k].status = h[k].status
      /\ pc' = pc /\ ex' = ex /\ canc' = canc
  BY VerificacaoEstavel, EscritaDaRodada DEF emissaoVars
<1>2. LinhasFieis' /\ CancFiel'
  BY <1>1, LinhasFicam, CancFica
<1>3. InicioNaFila' /\ Substituida'
  BY <1>1, SubstituiFica DEF InicioNaFila, Substituida
<1>4. ASSUME NEW w \in Verificadores, vf'[w] = vf[w] PROVE RodadaLeu(w)'
  <2>1. RodadaLeu(w) /\ \A i \in vf[w].itens : i[1] \in Linhas
    BY DEF RodadaFiel, RodadaLeu, Numerada
  <2> QED
    BY <1>1, <1>4, <2>1, RodadaFica
<1>5. ASSUME NEW v \in Verificadores, IniciarRodada(v) \/ PassoVf(v)
      PROVE  RodadaFiel' /\ MarcarFiel'
  <2>1. RodadaLeu(v)'
    BY <1>1, <1>5, RodadaPasso
  <2>2. \A w \in Verificadores \ {v} : vf'[w] = vf[w]
    BY <1>5 DEF VerificacaoTypeOK, PassoVf, IniciarRodada, Pular, Consultar, ConsultarEBaixar,
       LerLinha, Gravar, EncerrarRodada, Terminar
  <2>3. marcar' = marcar
    BY <1>5 DEF PassoVf, IniciarRodada, Pular, Consultar, ConsultarEBaixar,
       LerLinha, Gravar, EncerrarRodada, soVf
  <2> QED
    BY <1>1, <1>4, <2>1, <2>2, <2>3, MarcarFica DEF RodadaFiel
<1>6. ASSUME NEW l \in Linhas, LerParaMarcar(l) PROVE RodadaFiel' /\ MarcarFiel'
  <2>1. h' = h /\ titulo' = titulo /\ vf' = vf /\ marcar' = l
    BY <1>6 DEF LerParaMarcar
  <2>2. h[l].ignorado \/ h[l].nn # Nulo
    BY <1>6 DEF LerParaMarcar, NumeroDaPropria, Emitidas
  <2> QED
    BY <1>4, <1>6, <2>1, <2>2 DEF LerParaMarcar, RodadaFiel, MarcarFiel
<1>7. ASSUME MarcarBaixado PROVE RodadaFiel' /\ MarcarFiel'
  <2>1. vf' = vf /\ marcar' = 0
    BY <1>7 DEF MarcarBaixado
  <2>2. RodadaFiel'
    BY <1>4, <2>1 DEF RodadaFiel
  <2> QED
    BY <2>1, <2>2 DEF MarcarFiel
<1> QED
  BY <1>1, <1>2, <1>3, <1>5, <1>6, <1>7 DEF VerificacaoNext

-----------------------------------------------------------------------------
(* The steps of the cancellation, of the environment and of a restart. *)

LEMMA EscritaDoCancelamento ==
  ASSUME IInv, Fiel, CancNext, NEW k \in Linhas
  PROVE  /\ PayCerto(k)
         /\ h'[k].status = h[k].status /\ h'[k].nn = h[k].nn
         /\ h'[k].ignorado = h[k].ignorado
<1> USE DEF IInv, IInvTipo, TypeOK, Fiel, DadosTypeOK
<1>1. h[k] \in Linha
  OBVIOUS
<1>2. CASE GravarCanc
  <2>1. Numerada(canc.l) /\ Leu(canc, h[canc.l].nn)
        /\ (canc.lida \in {"pago", "baixado"} \/ canc.baixou)
    BY <1>2 DEF GravarCanc, CancFiel
  <2>2. CASE h'[k] = h[k]
    BY <2>2 DEF PayCerto
  <2>3. CASE canc.lida = "pago" /\ k = canc.l /\ h'[k] = [h[k] EXCEPT !.pay = "paid"]
    <3>1. h'[k].pay = "paid"
      BY <1>1, <2>3 DEF Linha
    <3> QED
      BY <1>1, <2>1, <2>3, <3>1, MesmaLinha DEF PayCerto, Leu
  <2>4. CASE /\ canc.lida # "pago"
             /\ k = canc.l \/ k \in Espelhos
             /\ h'[k] = [h[k] EXCEPT !.pay = "cancelled"]
    <3>1. h'[k].pay = "cancelled"
      BY <1>1, <2>4 DEF Linha
    <3>2. k = canc.l => Numerada(k) /\ "baixado" \in Leituras(h[k].nn)
      BY <2>1, <2>4 DEF Leu, Leituras
    <3>3. k \in Espelhos => h[k].ignorado /\ h[k].pay # "paid"
      BY DEF Espelhos
    <3> QED
      BY <1>1, <2>4, <3>1, <3>2, <3>3, MesmaLinha DEF PayCerto
  <2> QED
    BY <1>2, <2>2, <2>3, <2>4 DEF GravarCanc, Update
<1>3. CASE h' = h
  BY <1>3 DEF PayCerto
<1> QED
  BY <1>2, <1>3 DEF CancNext, PassoCanc, ValidarAto, BuscarBoleto, PegarLockCanc,
     DesistirLockCanc, LerTituloCanc, FalharPortalCanc

LEMMA CancEstavel ==
  ASSUME IInv, Fiel, CancNext
  PROVE  Estavel /\ \A k \in Linhas : PayCerto(k)
<1> USE DEF IInv, IInvTipo, TypeOK, Fiel, DadosTypeOK
<1>1. ASSUME NEW n \in NNs, titulo[n] \in {"pago", "baixado"}
      PROVE  titulo'[n] = titulo[n]
  <2>1. CASE LerTituloCanc \/ FalharPortalCanc
    <3>1. \/ titulo' = titulo
          \/ titulo[h[canc.l].nn] = "aberto"
             /\ titulo' = [titulo EXCEPT ![h[canc.l].nn] = "baixado"]
      BY <2>1 DEF LerTituloCanc, FalharPortalCanc, Leituras
    <3> QED
      BY <1>1, <3>1
  <2> QED
    BY <2>1 DEF CancNext, PassoCanc, ValidarAto, BuscarBoleto, PegarLockCanc,
       DesistirLockCanc, GravarCanc, soCanc
<1> QED
  BY <1>1, EscritaDoCancelamento DEF Estavel

LEMMA CancPasso ==
  ASSUME IInv, Fiel, Estavel, CancNext
  PROVE  CancFiel'
<1> USE DEF IInv, IInvTipo, TypeOK, Fiel, CancTypeOK, Cancelamento
<1>1. ASSUME canc'.pc \in {"parado", "buscar"}, ~canc'.baixou PROVE CancFiel'
  BY <1>1 DEF CancFiel
<1>2. CASE ValidarAto
  BY <1>1, <1>2 DEF ValidarAto, Responder, CancNovo
<1>3. ASSUME NEW r, Responder(r) PROVE CancFiel'
  BY <1>1, <1>3 DEF Responder, CancNovo
<1>4. ASSUME BuscarBoleto, canc'.pc = "lock" PROVE CancFiel'
  <2>1. PICK k \in Ultima({l \in Pendentes : h[l].nn # Nulo}) :
               canc' = [canc EXCEPT !.pc = "lock", !.l = k]
    BY <1>4 DEF BuscarBoleto, Responder, CancNovo
  <2>2. Numerada(k)
    BY DEF Ultima, Pendentes, Emitidas, Numerada
  <2>3. Numerada(k)'
    BY <2>2, NumeradaFica
  <2>4. ~canc.baixou
    BY <1>4 DEF BuscarBoleto, CancFiel
  <2> QED
    BY <2>1, <2>3, <2>4 DEF CancFiel
<1>5. CASE PegarLockCanc
  <2>1. /\ Numerada(canc.l) /\ ~canc.baixou /\ h' = h
        /\ canc'.pc = "portal" /\ canc'.l = canc.l /\ canc'.baixou = canc.baixou
    BY <1>5 DEF PegarLockCanc, CancFiel
  <2> QED
    BY <2>1 DEF CancFiel, Numerada
<1>6. CASE LerTituloCanc
  <2>1. PICK n \in NNs : n = h[canc.l].nn /\ Numerada(canc.l)
    BY <1>6, NumeradaFica DEF LerTituloCanc, CancFiel
  <2>2. PICK s \in Leituras(n) :
          IF s = "aberto"
            THEN /\ titulo' = [titulo EXCEPT ![n] = "baixado"]
                 /\ canc' = [canc EXCEPT !.pc = "gravar", !.lida = s, !.baixou = TRUE]
            ELSE /\ canc' = [canc EXCEPT !.pc = "gravar", !.lida = s]
                 /\ UNCHANGED titulo
    BY <1>6, <2>1 DEF LerTituloCanc
  <2>3. /\ h' = h /\ ~canc.baixou /\ canc'.pc = "gravar" /\ canc'.l = canc.l
        /\ canc'.lida = s
    BY <1>6, <2>2 DEF LerTituloCanc, CancFiel
  <2>4. s \in {"aberto", "pago", "baixado"}
    BY <2>1, <2>2, LeituraTipo DEF Numerada
  <2>5. CASE s = "aberto"
    <3>1. titulo'[n] = "baixado" /\ canc'.baixou
      BY <2>2, <2>5 DEF DadosTypeOK
    <3>2. Leu(canc, h[canc.l].nn)'
      BY <2>1, <2>3, <2>5, <3>1 DEF Leu
    <3> QED
      BY <2>1, <2>3, <3>1, <3>2 DEF CancFiel, Numerada
  <2>6. CASE s # "aberto"
    <3>1. titulo' = titulo /\ ~canc'.baixou
      BY <2>2, <2>3, <2>6
    <3>2. Leu(canc, h[canc.l].nn)'
      BY <2>1, <2>2, <2>3, <3>1 DEF Leu, Leituras, Pode
    <3> QED
      BY <2>1, <2>3, <2>4, <2>6, <3>1, <3>2 DEF CancFiel, Numerada
  <2> QED
    BY <2>5, <2>6
<1> QED
  BY <1>2, <1>3, <1>4, <1>5, <1>6 DEF CancNext, PassoCanc, BuscarBoleto, DesistirLockCanc,
     FalharPortalCanc, GravarCanc

LEMMA FielCanc ==
  ASSUME IInv, Fiel, CancNext, UNCHANGED <<emissaoVars, verificacaoVars>>
  PROVE  Fiel' /\ \A k \in Linhas : PayCerto(k)
<1> USE DEF IInv, IInvTipo, TypeOK, Fiel
<1>1. /\ Estavel /\ (\A k \in Linhas : PayCerto(k))
      /\ \A k \in Linhas : h'[k].status = h[k].status
      /\ pc' = pc /\ ex' = ex /\ vf' = vf /\ marcar' = marcar
  BY CancEstavel, EscritaDoCancelamento DEF emissaoVars, verificacaoVars
<1>2. LinhasFieis' /\ CancFiel' /\ MarcarFiel'
  BY <1>1, LinhasFicam, CancPasso, MarcarFica
<1>3. InicioNaFila' /\ Substituida'
  BY <1>1, SubstituiFica DEF InicioNaFila, Substituida
<1>4. RodadaFiel'
  <2>1. \A v \in Verificadores : \A i \in vf[v].itens : i[1] \in Linhas
    BY DEF RodadaFiel, RodadaLeu, Numerada
  <2> QED
    BY <1>1, <2>1, RodadaFica DEF RodadaFiel
<1> QED
  BY <1>1, <1>2, <1>3, <1>4

LEMMA FielAmbiente ==
  ASSUME IInv, Fiel, Ambiente, UNCHANGED <<emissaoVars, verificacaoVars, canc>>
  PROVE  Fiel' /\ \A k \in Linhas : PayCerto(k)
<1> USE DEF IInv, IInvTipo, TypeOK, Fiel
<1>1. h' = h /\ \A n \in NNs : titulo[n] \in {"pago", "baixado"} => titulo'[n] = titulo[n]
  BY DEF Ambiente, Pagar, BaixaExterna, TrocarCondicao, CancelarReserva, AbrirFecharJanela,
     LigarDesligar, VencerLease, DadosTypeOK
<1>2. Estavel /\ (\A k \in Linhas : PayCerto(k))
  BY <1>1 DEF Estavel, PayCerto
<1>3. pc' = pc /\ ex' = ex /\ vf' = vf /\ marcar' = marcar /\ canc' = canc
  BY DEF emissaoVars, verificacaoVars
<1>4. LinhasFieis' /\ CancFiel' /\ MarcarFiel'
  BY <1>2, <1>3, LinhasFicam, CancFica, MarcarFica
<1>5. InicioNaFila' /\ Substituida'
  BY <1>1, <1>2, <1>3, SubstituiFica DEF InicioNaFila, Substituida
<1>6. RodadaFiel'
  <2>1. \A v \in Verificadores : \A i \in vf[v].itens : i[1] \in Linhas
    BY DEF RodadaFiel, RodadaLeu, Numerada
  <2> QED
    BY <1>2, <1>3, <2>1, RodadaFica DEF RodadaFiel
<1> QED
  BY <1>2, <1>4, <1>5, <1>6

LEMMA FielQueda ==
  ASSUME IInv, Fiel, Queda
  PROVE  Fiel' /\ \A k \in Linhas : PayCerto(k)
<1> USE DEF IInv, IInvTipo, TypeOK, Fiel
<1>1. h' = h /\ titulo' = titulo
  BY DEF Queda, Reiniciar, dadosVars
<1>2. Estavel /\ \A k \in Linhas : PayCerto(k)
  BY <1>1 DEF Estavel, PayCerto
<1>3. LinhasFieis'
  BY <1>2, LinhasFicam
<1>4. InicioNaFila' /\ Substituida'
  BY DEF Queda, Reiniciar, TodasParadas, TodasNovas, ExecNova, InicioNaFila, Substituida,
     Substitui
<1>5. RodadaFiel' /\ MarcarFiel'
  BY DEF Queda, SemRodada, RodadaNova, RodadaFiel, RodadaLeu, MarcarFiel
<1>6. CancFiel'
  BY DEF Queda, CancNovo, CancFiel
<1> QED
  BY <1>2, <1>3, <1>4, <1>5, <1>6

-----------------------------------------------------------------------------
LEMMA InitFiel == ASSUME Init PROVE Fiel
<1>1. \A l \in Linhas : h[l].pay = "pending" /\ pc[l] = "parado" /\ ex[l] = ExecNova
  BY DEF Init, DadosInit, LinhaNova, EmissaoInit, TodasParadas, TodasNovas
<1>2. InicioNaFila /\ LinhasFieis /\ Substituida
  BY <1>1 DEF InicioNaFila, LinhasFieis, Substituida, Substitui, ExecNova
<1>3. RodadaFiel /\ MarcarFiel
  BY DEF Init, VerificacaoInit, SemRodada, RodadaNova, RodadaFiel, RodadaLeu, MarcarFiel
<1>4. CancFiel
  BY DEF Init, CancInit, CancNovo, CancFiel
<1> QED
  BY <1>2, <1>3, <1>4 DEF Fiel

LEMMA NextFiel ==
  ASSUME IInv, Fiel, [Next]_vars
  PROVE  Fiel' /\ \A k \in Linhas : PayCerto(k)
<1>1. CASE UNCHANGED vars
  BY <1>1 DEF vars, dadosVars, emissaoVars, verificacaoVars, Fiel, InicioNaFila, LinhasFieis,
     Substituida, Substitui, RodadaFiel, RodadaLeu, CancFiel, MarcarFiel, Leu, Leituras,
     Numerada, PayCerto, Pode
<1> QED
  BY <1>1, FielEmissao, FielVerificacao, FielCanc, FielAmbiente, FielQueda DEF Next

\* What every process remembers of a title is still true when it is written.
THEOREM Fidelidade == Spec => [](IInv /\ Fiel)
<1>1. Init => IInv /\ Fiel
  BY InitIInv, InitFiel
<1>2. IInv /\ Fiel /\ [Next]_vars => (IInv /\ Fiel)'
  BY NextIInv, NextFiel
<1> QED
  BY <1>1, <1>2, PTL DEF Spec

\* What a row says of its boleto is what the bank shows, for any number of rows,
\* concurrent runs and verifiers, and whatever fails.
THEOREM RegistroDoBanco == Spec => []RegistroFiel
<1>1. Fiel => RegistroFiel
  BY DEF Fiel, LinhasFieis, Emitidas, RegistroFiel
<1> QED
  BY <1>1, Fidelidade, PTL

-----------------------------------------------------------------------------
(* A payment recorded is not undone.  When the portal shows a title as it  *)
(* is, the bank forbids it; when a paid title may be read as written off,  *)
(* the guard of aplicarResultado does, which one verifier at a time and no *)
(* cancellation keep fresh.                                                *)

LEMMA EscritaDaEmissao ==
  ASSUME IInv, Fiel, EmissaoNext, NEW k \in Linhas
  PROVE  \/ h'[k].pay = h[k].pay
         \/ h'[k].pay = "cancelled" /\ Numerada(k) /\ titulo[h[k].nn] = "baixado"
<1> USE DEF IInv, IInvTipo, TypeOK, Fiel
<1>1. ASSUME NEW l \in Linhas, Passo(l)
      PROVE  \/ h'[k].pay = h[k].pay
             \/ h'[k].pay = "cancelled" /\ Numerada(k) /\ titulo[h[k].nn] = "baixado"
  <2>1. CASE k = l
    BY <1>1, <2>1, NaoESubstituida, LinhaPropria
  <2>2. CASE h'[k] = h[k]
    BY <2>2
  <2>3. CASE /\ pc[l] = "posBaixa" /\ k = ex[l].prev
             /\ h'[k] = [h[k] EXCEPT !.pay = "cancelled"]
    <3>1. h'[k].pay = "cancelled"
      BY <2>3 DEF DadosTypeOK, Linha
    <3>2. 0 \notin Linhas
      BY DEF Linhas
    <3> QED
      BY <2>3, <3>1, <3>2 DEF Substituida, Substitui
  <2> QED
    BY <1>1, <2>1, <2>2, <2>3, LinhaAlheia
<1>2. ASSUME NEW l \in Linhas,
             (\E f, m \in BOOLEAN : Acionar(l, f, m)) \/ Retomar(l)
      PROVE  h'[k].pay = h[k].pay
  <2> USE DEF DadosTypeOK, Linha, Update
  <2>1. CASE \E f, m \in BOOLEAN : Acionar(l, f, m)
    <3>1. h' = [h EXCEPT ![l] = [h[l] EXCEPT !.status = "processing"]]
      BY <2>1 DEF Acionar
    <3> QED
      BY <3>1
  <2>2. CASE Retomar(l)
    BY <2>2 DEF Retomar
  <2> QED
    BY <1>2, <2>1, <2>2
<1>3. CASE FimRetomada
  BY <1>3 DEF FimRetomada
<1> QED
  BY <1>1, <1>2, <1>3 DEF EmissaoNext

VistoFresco(v) == vf[v].pc = "gravar" /\ h[vf[v].l].pay = "paid" => vf[v].visto = "paid"
Sozinho == cv.viva /\ canc.pc = "parado" /\ \A v \in Verificadores : VistoFresco(v)

PagoFica == \A l \in Linhas : h[l].pay = "paid" => h'[l].pay = "paid"

\* The only writer of payments is the one verifier.
LEMMA GravarSozinho ==
  ASSUME NEW v, Verificadores \subseteq {v}, IInv, Fiel, Sozinho, VerificacaoNext
  PROVE  PagoFica /\ \A w \in Verificadores : VistoFresco(w)'
<1> USE DEF IInv, IInvTipo, TypeOK, Fiel, DadosTypeOK, VerificacaoTypeOK
<1>1. ASSUME v \in Verificadores, Gravar(v)
      PROVE  PagoFica /\ VistoFresco(v)'
  <2>1. PICK p : p = NovoPay(vf[v], h[vf[v].l].pay)
    OBVIOUS
  <2>2. h' = [h EXCEPT ![vf[v].l] = [h[vf[v].l] EXCEPT !.pay = p]]
    BY <1>1, <2>1 DEF Gravar, Update
  <2>3. /\ Numerada(vf[v].l) /\ Leu(vf[v], h[vf[v].l].nn) /\ VistoFresco(v)
        /\ vf[v].pc = "gravar" /\ h[vf[v].l] \in Linha
    BY <1>1 DEF Gravar, RodadaFiel, RodadaLeu, Sozinho, Numerada
  <2>4. h[vf[v].l].pay = "paid" => p = "paid"
    <3>1. h[vf[v].l].pay = "paid" => titulo[h[vf[v].l].nn] = "pago" /\ vf[v].visto = "paid"
      BY <2>3 DEF LinhasFieis, Numerada, VistoFresco
    <3> QED
      BY <2>1, <2>3, <3>1 DEF NovoPay, Leu
  <2>5. PagoFica
    <3> SUFFICES ASSUME NEW l \in Linhas, h[l].pay = "paid" PROVE h'[l].pay = "paid"
      BY DEF PagoFica
    <3>1. CASE l # vf[v].l
      BY <2>2, <3>1
    <3>2. CASE l = vf[v].l
      <4>1. h'[l] = [h[l] EXCEPT !.pay = p] /\ h[l] \in Linha
        BY <2>2, <3>2
      <4> QED
        BY <2>4, <3>2, <4>1 DEF Linha
    <3> QED
      BY <3>1, <3>2
  <2>6. vf'[v].pc = "lote"
    BY <1>1 DEF Gravar, Terminar, Rodada
  <2> QED
    BY <2>5, <2>6 DEF VistoFresco
<1>2. ASSUME v \in Verificadores,
             \/ IniciarRodada(v) \/ LerLinha(v) \/ EncerrarRodada(v)
             \/ \E i \in vf[v].itens : Pular(v, i) \/ Consultar(v, i) \/ ConsultarEBaixar(v, i)
      PROVE  PagoFica /\ VistoFresco(v)'
  <2>1. h' = h
    BY <1>2 DEF IniciarRodada, LerLinha, EncerrarRodada, Pular, Consultar, ConsultarEBaixar,
       soVf
  <2>2. vf'[v].pc # "gravar" \/ LerLinha(v)
    <3>1. CASE IniciarRodada(v) \/ EncerrarRodada(v)
      BY <1>2, <3>1 DEF IniciarRodada, EncerrarRodada, RodadaNova, Rodada
    <3>2. ASSUME NEW i \in vf[v].itens, Pular(v, i) \/ Consultar(v, i) \/ ConsultarEBaixar(v, i)
          PROVE  vf'[v].pc # "gravar"
      <4>1. vf[v] \in Rodada
        BY <1>2
      <4>2. Terminar(v, i) => vf'[v].pc = "lote"
        BY <1>2, <4>1 DEF Terminar, Rodada
      <4>3. Terminar(v, i) \/ vf'[v].pc = "ler"
        <5>1. Pular(v, i) => Terminar(v, i)
          BY DEF Pular
        <5>2. ASSUME NEW s, vf' = [vf EXCEPT ![v].pc = "ler", ![v].l = i[1], ![v].lida = s]
              PROVE  vf'[v].pc = "ler"
          BY <1>2, <4>1, <5>2 DEF Rodada
        <5>3. Consultar(v, i) => Terminar(v, i) \/ vf'[v].pc = "ler"
          BY <5>2 DEF Consultar
        <5>4. ASSUME vf' = [vf EXCEPT ![v].pc = "ler", ![v].l = i[1], ![v].lida = "aberto",
                                      ![v].baixou = TRUE]
              PROVE  vf'[v].pc = "ler"
          BY <1>2, <4>1, <5>4 DEF Rodada
        <5>5. ConsultarEBaixar(v, i) => Terminar(v, i) \/ vf'[v].pc = "ler"
          BY <5>4 DEF ConsultarEBaixar
        <5> QED
          BY <3>2, <5>1, <5>3, <5>5
      <4> QED
        BY <4>2, <4>3
    <3> QED
      BY <1>2, <3>1, <3>2
  <2>3. ASSUME LerLinha(v) PROVE VistoFresco(v)'
    BY <1>2, <2>1, <2>3 DEF LerLinha, VistoFresco, Rodada
  <2> QED
    BY <2>1, <2>2, <2>3 DEF PagoFica, VistoFresco
<1>3. ASSUME NEW l \in Linhas, LerParaMarcar(l)
      PROVE  PagoFica /\ \A w \in Verificadores : VistoFresco(w)'
  BY <1>3 DEF LerParaMarcar, PagoFica, VistoFresco, Sozinho
<1>4. ASSUME MarcarBaixado
      PROVE  PagoFica /\ \A w \in Verificadores : VistoFresco(w)'
  <2>1. h' = [h EXCEPT ![marcar] = [h[marcar] EXCEPT !.pay = "cancelled"]] /\ vf' = vf
    BY <1>4 DEF MarcarBaixado, Update
  <2>2. marcar \in Linhas /\ h[marcar].pay # "paid"
    BY <1>4 DEF MarcarBaixado, MarcarFiel, LinhasFieis, Numerada
  <2>3. \A l \in Linhas : h'[l].pay = "paid" <=> h[l].pay = "paid"
    BY <2>1, <2>2 DEF Linha
  <2>4. \A w \in Verificadores : vf[w].pc = "gravar" => vf[w].l \in Linhas
    BY DEF RodadaFiel, RodadaLeu, Numerada
  <2> QED
    BY <2>1, <2>3, <2>4 DEF PagoFica, VistoFresco, Sozinho
<1>5. Verificadores = {} \/ (v \in Verificadores /\ \A w \in Verificadores : w = v)
  OBVIOUS
<1> QED
  BY <1>1, <1>2, <1>3, <1>4, <1>5 DEF VerificacaoNext, PassoVf

LEMMA PassoSozinho ==
  ASSUME ~Pode("cancela"), NEW v, Verificadores \subseteq {v}, IInv, Fiel, Sozinho,
         [Next]_vars
  PROVE  Sozinho' /\ PagoFica
<1> USE DEF IInv, IInvTipo, TypeOK, Fiel
<1>1. cv \in [cond: Conds \cup {SemSerie, Invalida}, viva: BOOLEAN]
  BY DEF DadosTypeOK
<1>2. \A w \in Verificadores : vf[w].pc = "gravar" => vf[w].l \in Linhas
  BY DEF RodadaFiel, RodadaLeu, Numerada
<1>3. ASSUME EmissaoNext, UNCHANGED <<verificacaoVars, canc>>
      PROVE  Sozinho' /\ PagoFica
  <2>1. \A k \in Linhas : h'[k].pay = "paid" <=> h[k].pay = "paid"
    BY <1>3, EscritaDaEmissao DEF LinhasFieis
  <2>2. cv' = cv
    <3>1. ASSUME NEW l \in Linhas, Passo(l) PROVE cv' = cv
      <4> USE DEF soLinha, soPasso
      <4>1. Move(l) => cv' = cv
        BY DEF Move, FalharCV, PegarLock, DesistirLock, AbrirSessao, FalharSessao,
           FalharBaixa, Emitir, FalharEmissao, GravarBaixa, Upload, FalharUpload,
           AgendarEtapa, Sair
      <4>2. Para(l) \/ Numerar(l) \/ BaixaPrevia(l) => cv' = cv
        BY DEF Para, Agendar, Recusar, RecusarPrazo, Concluir, Reagendar, Reprovar, Numerar,
           BaixaPrevia
      <4>3. Decide(l) => cv' = cv
        BY DEF Decide, Iniciar, LerReserva, VerPago, VerJanela, DecidirRetrigger
      <4> QED
        BY <3>1, <4>1, <4>2, <4>3, Grupos
    <3> QED
      BY <1>3, <3>1 DEF EmissaoNext, Acionar, Retomar, FimRetomada
  <2>3. \A w \in Verificadores : VistoFresco(w)'
    BY <1>2, <1>3, <2>1 DEF Sozinho, VistoFresco, verificacaoVars
  <2> QED
    BY <1>3, <2>1, <2>2, <2>3 DEF Sozinho, PagoFica
<1>4. ASSUME VerificacaoNext, UNCHANGED <<emissaoVars, canc>>
      PROVE  Sozinho' /\ PagoFica
  <2>1. cv' = cv
    BY <1>4 DEF VerificacaoNext, PassoVf, IniciarRodada, Pular, Consultar, ConsultarEBaixar,
       LerLinha, Gravar, EncerrarRodada, LerParaMarcar, MarcarBaixado, soVf
  <2> QED
    BY <1>4, <2>1, GravarSozinho DEF Sozinho
<1>5. ~CancNext
  BY DEF Sozinho, CancNext, PassoCanc, ValidarAto, BuscarBoleto, PegarLockCanc,
     DesistirLockCanc, LerTituloCanc, FalharPortalCanc, GravarCanc
<1>6. ASSUME Ambiente, UNCHANGED <<emissaoVars, verificacaoVars, canc>>
      PROVE  Sozinho' /\ PagoFica
  <2>1. h' = h /\ cv'.viva
    BY <1>1, <1>6 DEF Sozinho, Ambiente, Pagar, BaixaExterna, TrocarCondicao, CancelarReserva,
       AbrirFecharJanela, LigarDesligar, VencerLease
  <2> QED
    BY <1>6, <2>1 DEF Sozinho, PagoFica, VistoFresco, verificacaoVars
<1>7. ASSUME Queda PROVE Sozinho' /\ PagoFica
  BY <1>7 DEF Queda, Reiniciar, dadosVars, SemRodada, RodadaNova, CancNovo, Sozinho, PagoFica,
     VistoFresco
<1>8. ASSUME UNCHANGED vars PROVE Sozinho' /\ PagoFica
  BY <1>8 DEF vars, dadosVars, verificacaoVars, Sozinho, PagoFica, VistoFresco
<1> QED
  BY <1>3, <1>4, <1>5, <1>6, <1>7, <1>8 DEF Next

\* A payment recorded is never undone, by whatever run, check or restart, as long
\* as paid titles are not shown as written off, or else one verifier runs and no
\* reserva is cancelled.
THEOREM PagamentoFica ==
  ASSUME ~Pode("leituraBaixado") \/ (~Pode("cancela") /\ \E v : Verificadores \subseteq {v})
  PROVE  Spec => PagoNaoRegride
<1>1. CASE ~Pode("leituraBaixado")
  <2>1. IInv /\ Fiel /\ [Next]_vars => [PagoFica]_vars
    <3> SUFFICES ASSUME IInv, Fiel, [Next]_vars, NEW l \in Linhas, h[l].pay = "paid"
                 PROVE  h'[l].pay = "paid"
      BY DEF PagoFica
    <3>1. PayCerto(l) /\ Numerada(l) /\ titulo[h[l].nn] = "pago"
      BY NextFiel DEF Fiel, LinhasFieis
    <3> QED
      BY <1>1, <3>1 DEF PayCerto, Leituras
  <2> QED
    BY <2>1, Fidelidade, PTL DEF Spec, PagoNaoRegride, PagoFica
<1>2. CASE ~Pode("cancela") /\ \E v : Verificadores \subseteq {v}
  <2>1. Init => Sozinho
    <3> SUFFICES ASSUME Init PROVE Sozinho
      OBVIOUS
    <3>1. cv.viva /\ canc.pc = "parado"
      BY DEF Init, DadosInit, CancInit, CancNovo
    <3>2. \A v \in Verificadores : vf[v].pc = "parado"
      BY DEF Init, VerificacaoInit, SemRodada, RodadaNova
    <3> QED
      BY <3>1, <3>2 DEF Sozinho, VistoFresco
  <2>2. IInv /\ Fiel /\ Sozinho /\ [Next]_vars => Sozinho' /\ [PagoFica]_vars
    BY <1>2, PassoSozinho
  <2> QED
    BY <2>1, <2>2, Fidelidade, PTL DEF Spec, PagoNaoRegride, PagoFica
<1> QED
  BY <1>1, <1>2

-----------------------------------------------------------------------------
(* After the gate of the cancellation.  The gate looks at the latest row,  *)
(* and lets the cancellation go only if no run works on that row: the runs *)
(* it does not see are those of older rows, and the reserva, cancelled by  *)
(* then, turns away every run that reads it afterwards.                    *)

\* A run that has read a live reserva and has not emitted yet.
Antes == {"pago", "janela", "validar", "prazo", "lock", "sessao", "baixa", "emissao"}

PortaoAberto == canc.pc # "parado" \/ canc.res = "segue"

\* A later row, with no such run, hides the row of l from the gate.
Encoberta(l) == \E k \in Linhas : l < k /\ k \in Consideradas /\ pc[k] \notin Antes
Portao == PortaoAberto => /\ ~cv.viva
                          /\ \A l \in Linhas : pc[l] \in Antes => Encoberta(l)

\* A run gets that far only by reading a live reserva, and leaves its row among
\* those the gate looks at unless it decides that the row is to be ignored.
LEMMA RumoPasso ==
  ASSUME DadosTypeOK, EmissaoTypeOK, SemEtapa, NEW l \in Linhas, Passo(l)
  PROVE  /\ cv' = cv
         /\ pc'[l] \in Antes => pc[l] \in Antes \/ (pc[l] = "reserva" /\ cv.viva)
         /\ pc[l] \notin Antes => h'[l].status # "livre" /\ h'[l].ignorado = h[l].ignorado
<1> USE DEF DadosTypeOK, EmissaoTypeOK, Update, Ir, Parar, soPasso, soLinha, Antes
<1>1. h[l].status # "livre" /\ h[l] \in Linha
  BY PassoRodando DEF SemEtapa, EtapaLinha
<1>2. CASE Move(l)
  <2>1. CASE FalharCV(l) \/ PegarLock(l) \/ DesistirLock(l) \/ AbrirSessao(l)
    BY <1>1, <2>1 DEF FalharCV, PegarLock, DesistirLock, AbrirSessao
  <2>2. CASE FalharSessao(l) \/ FalharBaixa(l) \/ Emitir(l) \/ FalharEmissao(l)
    BY <1>1, <2>2 DEF FalharSessao, FalharBaixa, Emitir, FalharEmissao, Sair
  <2>3. CASE GravarBaixa(l)
    BY <1>1, <2>3 DEF GravarBaixa, Linha
  <2>4. CASE Upload(l) \/ FalharUpload(l) \/ AgendarEtapa(l)
    BY <1>1, <2>4 DEF Upload, FalharUpload, AgendarEtapa, Linha
  <2> QED
    BY <1>2, <2>1, <2>2, <2>3, <2>4 DEF Move
<1>3. CASE Para(l)
  <2>1. CASE Agendar(l)
    BY <1>1, <2>1 DEF Agendar, Linha
  <2>2. CASE Recusar(l) \/ RecusarPrazo(l)
    BY <2>2 DEF Recusar, RecusarPrazo
  <2>3. CASE Concluir(l)
    BY <1>1, <2>3 DEF Concluir, Linha
  <2>4. CASE Reagendar(l)
    BY <1>1, <2>4 DEF Reagendar, Linha
  <2>5. CASE Reprovar(l)
    BY <1>1, <2>5 DEF Reprovar, Linha
  <2> QED
    BY <1>3, <2>1, <2>2, <2>3, <2>4, <2>5 DEF Para
<1>4. CASE Decide(l)
  <2>1. CASE Iniciar(l)
    BY <1>1, <2>1 DEF Iniciar, Linha
  <2>2. CASE LerReserva(l)
    <3> DEFINE m == [h[l] EXCEPT !.status = "skipped", !.pessoa = TRUE]
    <3>1. m.status # "livre"
      BY <1>1 DEF Linha
    <3>2. m.ignorado = h[l].ignorado
      BY <1>1, Zenon DEF Linha
    <3>3. cv' = cv /\ pc[l] = "reserva" /\ (h' = h \/ h'[l] = m)
      BY <2>2 DEF LerReserva
    <3>4. pc'[l] \in Antes => pc[l] = "reserva" /\ cv.viva
      BY <2>2 DEF LerReserva
    <3> HIDE DEF m
    <3> QED
      BY <1>1, <3>1, <3>2, <3>3, <3>4
  <2>3. CASE VerPago(l) \/ VerJanela(l)
    BY <2>3 DEF VerPago, VerJanela
  <2>4. CASE DecidirRetrigger(l)
    BY <2>4 DEF DecidirRetrigger, Ignorar
  <2> QED
    BY <1>4, <2>1, <2>2, <2>3, <2>4 DEF Decide
<1>5. CASE Numerar(l)
  BY <1>5 DEF Numerar
<1>6. CASE BaixaPrevia(l)
  BY <1>6 DEF BaixaPrevia
<1> QED
  BY <1>2, <1>3, <1>4, <1>5, <1>6, Grupos

LEMMA PortaoEmissao ==
  ASSUME IInv, Portao, EmissaoNext, canc' = canc
  PROVE  Portao'
<1> USE DEF IInv, IInvTipo, TypeOK
<1> SUFFICES ASSUME PortaoAberto, ~cv.viva
             PROVE  Portao'
  <2>1. cv' = cv
    <3>1. ASSUME NEW l \in Linhas, Passo(l) PROVE cv' = cv
      BY <3>1, RumoPasso
    <3> QED
      BY <3>1 DEF EmissaoNext, Acionar, Retomar, FimRetomada
  <2> QED
    BY <2>1 DEF Portao, PortaoAberto
<1>1. \A j \in Linhas : pc[j] \in Antes => Encoberta(j)
  BY DEF Portao
<1>2. ASSUME NEW l \in Linhas, Passo(l) PROVE Portao'
  <2>1. /\ cv' = cv
        /\ pc'[l] \in Antes => pc[l] \in Antes
        /\ pc[l] \notin Antes => h'[l].status # "livre" /\ h'[l].ignorado = h[l].ignorado
    BY <1>2, RumoPasso
  <2>2. \A k \in Linhas \ {l} : /\ pc'[k] = pc[k]
                                /\ h'[k].status = h[k].status /\ h'[k].ignorado = h[k].ignorado
    <3> SUFFICES ASSUME NEW k \in Linhas \ {l}
                 PROVE  /\ pc'[k] = pc[k]
                        /\ h'[k].status = h[k].status /\ h'[k].ignorado = h[k].ignorado
      OBVIOUS
    <3>1. /\ h[k] \in Linha /\ pc'[k] = pc[k]
          /\ h'[k] = h[k] \/ h'[k] = [h[k] EXCEPT !.pay = "cancelled"]
      BY <1>2, OutrasLinhas DEF DadosTypeOK
    <3> QED
      BY <3>1, MesmaLinha
  <2>3. ASSUME NEW j \in Linhas, pc'[j] \in Antes PROVE Encoberta(j)'
    <3>1. pc[j] \in Antes
      BY <2>1, <2>2, <2>3
    <3>2. PICK k \in Linhas : j < k /\ k \in Consideradas /\ pc[k] \notin Antes
      BY <1>1, <3>1 DEF Encoberta
    <3>3. k \in Consideradas' /\ pc'[k] \notin Antes
      BY <2>1, <2>2, <3>2 DEF Consideradas, Usadas
    <3> QED
      BY <3>2, <3>3 DEF Encoberta
  <2> QED
    BY <2>1, <2>3 DEF Portao
<1>3. ASSUME NEW l \in Linhas, pc'[l] \notin Antes, pc[l] = "parado", cv' = cv,
             h'[l].status # "livre", h'[l].ignorado = h[l].ignorado,
             \A k \in Linhas \ {l} : h'[k] = h[k] /\ pc'[k] = pc[k]
      PROVE  Portao'
  <2>1. ASSUME NEW j \in Linhas, pc'[j] \in Antes PROVE Encoberta(j)'
    <3>1. PICK k \in Linhas : j < k /\ k \in Consideradas /\ pc[k] \notin Antes
      BY <1>1, <1>3, <2>1 DEF Encoberta
    <3>2. k \in Consideradas' /\ pc'[k] \notin Antes
      BY <1>3, <3>1 DEF Consideradas, Usadas
    <3> QED
      BY <3>1, <3>2 DEF Encoberta
  <2> QED
    BY <1>3, <2>1 DEF Portao
<1>4. ASSUME NEW l \in Linhas, NEW f \in BOOLEAN, NEW m \in BOOLEAN, Acionar(l, f, m)
      PROVE  Portao'
  <2>1. pc[l] = "parado"
    BY <1>4 DEF Acionar, Usadas, SemEtapa, EtapaLinha
  <2>2. /\ pc'[l] = "reserva" /\ cv' = cv
        /\ h'[l].status # "livre" /\ h'[l].ignorado = h[l].ignorado
        /\ \A k \in Linhas \ {l} : h'[k] = h[k] /\ pc'[k] = pc[k]
    BY <1>4 DEF Acionar, Update, Ir, DadosTypeOK, EmissaoTypeOK, Linha
  <2> QED
    BY <1>3, <2>1, <2>2 DEF Antes
<1>5. ASSUME NEW l \in Linhas, Retomar(l) PROVE Portao'
  <2>1. pc[l] = "parado" \/ pc[l] = "inicio"
    BY <1>5 DEF Retomar, NaFila, SemEtapa, EtapaLinha
  <2>2. /\ pc'[l] = "inicio" /\ cv' = cv /\ h'[l].processada = TRUE
        /\ h[l].status = "queued" /\ h[l] \in Linha
        /\ h'[l] = [h[l] EXCEPT !.processada = TRUE]
        /\ \A k \in Linhas \ {l} : h'[k] = h[k] /\ pc'[k] = pc[k]
    BY <1>5 DEF Retomar, NaFila, Update, Ir, DadosTypeOK, EmissaoTypeOK, Linha
  <2>3. h'[l].status = h[l].status /\ h'[l].ignorado = h[l].ignorado
    BY <2>2 DEF Linha
  <2>4. ASSUME NEW j \in Linhas, pc'[j] \in Antes PROVE Encoberta(j)'
    <3>1. pc[j] \in Antes
      BY <2>2, <2>4 DEF Antes
    <3>2. PICK k \in Linhas : j < k /\ k \in Consideradas /\ pc[k] \notin Antes
      BY <1>1, <3>1 DEF Encoberta
    <3>3. k \in Consideradas' /\ pc'[k] \notin Antes
      BY <2>2, <2>3, <3>2 DEF Consideradas, Usadas, Antes
    <3> QED
      BY <3>2, <3>3 DEF Encoberta
  <2> QED
    BY <2>2, <2>4 DEF Portao
<1>6. CASE FimRetomada
  BY <1>1, <1>6 DEF FimRetomada, Portao, Encoberta, Consideradas, Usadas
<1> QED
  BY <1>2, <1>4, <1>5, <1>6 DEF EmissaoNext

\* The gate says yes only over a latest row no run works on.
LEMMA GateSoVeUltima ==
  ASSUME IInv, Fiel, NEW l \in Linhas, pc[l] \in Antes, ~Encoberta(l)
  PROVE  \A d \in Gate : d = "barra"
<1> USE DEF IInv, IInvTipo, TypeOK
<1>1. \A k \in Linhas : pc[k] \in Antes => h[k].status = "processing" /\ ~h[k].ignorado
  BY DEF SemEtapa, EtapaLinha, Quieta, Antes
<1>2. l \in Consideradas
  BY <1>1 DEF Consideradas, Usadas
<1>3. ASSUME NEW k \in Ultima(Consideradas) PROVE Decisao(h[k]) = "barra"
  <2>1. k \in Linhas /\ k \in Consideradas /\ l <= k
    BY <1>2 DEF Ultima, Consideradas, Usadas
  <2>2. pc[k] \in Antes
    <3>1. CASE k = l
      BY <3>1
    <3>2. CASE k # l
      BY <2>1, <3>2, DadosAssumption DEF Encoberta, Linhas
    <3> QED
      BY <3>1, <3>2
  <2>3. h[k].status = "processing" /\ h[k].pay # "cancelled"
    BY <1>1, <2>1, <2>2 DEF Fiel, LinhasFieis, Numerada
  <2> QED
    BY <2>3 DEF Decisao
<1> QED
  BY <1>2, <1>3 DEF Gate

LEMMA PortaoCanc ==
  ASSUME IInv, Fiel, Portao, CancNext, UNCHANGED <<emissaoVars, verificacaoVars>>
  PROVE  Portao'
<1>1. /\ \A k \in Linhas : h'[k].status = h[k].status /\ h'[k].ignorado = h[k].ignorado
      /\ pc' = pc
  BY EscritaDoCancelamento DEF emissaoVars
<1>2. cv' = cv
  BY DEF CancNext, PassoCanc, ValidarAto, BuscarBoleto, PegarLockCanc, DesistirLockCanc,
     LerTituloCanc, FalharPortalCanc, GravarCanc, soCanc
<1>3. \A l \in Linhas : Encoberta(l) => Encoberta(l)'
  BY <1>1 DEF Encoberta, Consideradas, Usadas
<1>4. CASE ValidarAto
  <2>1. ~cv.viva
    BY <1>4 DEF ValidarAto
  <2>2. ASSUME NEW l \in Linhas, pc[l] \in Antes, ~Encoberta(l) PROVE ~PortaoAberto'
    <3>1. \A d \in Gate : d = "barra"
      BY <2>2, GateSoVeUltima
    <3> QED
      BY <1>4, <3>1 DEF ValidarAto, Responder, CancNovo, PortaoAberto
  <2> QED
    BY <1>1, <1>2, <1>3, <2>1, <2>2 DEF Portao
<1>5. CASE PassoCanc
  <2>1. PortaoAberto
    BY <1>5 DEF PassoCanc, BuscarBoleto, PegarLockCanc, DesistirLockCanc, LerTituloCanc,
       FalharPortalCanc, GravarCanc, PortaoAberto
  <2> QED
    BY <1>1, <1>2, <1>3, <2>1 DEF Portao
<1> QED
  BY <1>4, <1>5 DEF CancNext

LEMMA PortaoPasso ==
  ASSUME IInv, Fiel, Portao, [Next]_vars
  PROVE  Portao'
<1> USE DEF IInv, IInvTipo, TypeOK
<1>1. CASE EmissaoNext /\ UNCHANGED <<verificacaoVars, canc>>
  BY <1>1, PortaoEmissao
<1>2. CASE VerificacaoNext /\ UNCHANGED <<emissaoVars, canc>>
  <2>1. /\ \A k \in Linhas : h'[k].status = h[k].status /\ h'[k].ignorado = h[k].ignorado
        /\ pc' = pc /\ canc' = canc
    BY <1>2, EscritaDaRodada DEF emissaoVars
  <2>2. cv' = cv
    BY <1>2 DEF VerificacaoNext, PassoVf, IniciarRodada, Pular, Consultar, ConsultarEBaixar,
       LerLinha, Gravar, EncerrarRodada, LerParaMarcar, MarcarBaixado, soVf
  <2> QED
    BY <2>1, <2>2 DEF Portao, PortaoAberto, Encoberta, Consideradas, Usadas
<1>3. CASE CancNext /\ UNCHANGED <<emissaoVars, verificacaoVars>>
  BY <1>3, PortaoCanc
<1>4. CASE Ambiente /\ UNCHANGED <<emissaoVars, verificacaoVars, canc>>
  <2>1. h' = h /\ (cv'.viva => cv.viva)
    BY <1>4 DEF Ambiente, Pagar, BaixaExterna, TrocarCondicao, CancelarReserva,
       AbrirFecharJanela, LigarDesligar, VencerLease, DadosTypeOK
  <2> QED
    BY <1>4, <2>1 DEF emissaoVars, Portao, PortaoAberto, Encoberta, Consideradas, Usadas
<1>5. CASE Queda
  <2>1. /\ cv' = cv
        /\ \A l \in Linhas : pc'[l] = "parado"
        /\ canc'.pc = "parado" /\ canc'.res = canc.res
    BY <1>5 DEF Queda, Reiniciar, dadosVars, TodasParadas, CancNovo
  <2> QED
    BY <2>1 DEF Portao, PortaoAberto, Antes
<1>6. CASE UNCHANGED vars
  BY <1>6 DEF vars, dadosVars, emissaoVars, Portao, PortaoAberto, Encoberta, Consideradas,
     Usadas
<1> QED
  BY <1>1, <1>2, <1>3, <1>4, <1>5, <1>6 DEF Next

SoMaisAntiga ==
  canc.res = "segue" =>
    \A n \in NNs : titulo[n] = "nao" /\ titulo'[n] # "nao"
                     => \E k \in Consideradas : dono'[n] < k

LEMMA EmiteEncoberta ==
  ASSUME IInv, Portao, [Next]_vars
  PROVE  SoMaisAntiga
<1> USE DEF IInv, IInvTipo, TypeOK
<1> SUFFICES ASSUME canc.res = "segue", NEW n \in NNs, titulo[n] = "nao", titulo'[n] # "nao"
             PROVE  \E k \in Consideradas : dono'[n] < k
  BY DEF SoMaisAntiga
<1>1. ASSUME NEW l \in Linhas, Passo(l) PROVE \E k \in Consideradas : dono'[n] < k
  <2>1. /\ pc[l] = "emissao" /\ titulo' = [titulo EXCEPT ![ex[l].seq] = "aberto"]
        /\ dono' = [dono EXCEPT ![ex[l].seq] = l]
    BY <1>1, DonoPasso
  <2>2. dono'[n] = l
    BY <2>1 DEF DadosTypeOK
  <2>3. Encoberta(l)
    BY <2>1 DEF Portao, PortaoAberto, Antes
  <2> QED
    BY <2>2, <2>3 DEF Encoberta
<1>2. CASE EmissaoNext
  BY <1>1, <1>2 DEF EmissaoNext, Acionar, Retomar, FimRetomada
<1>3. 1 \in Linhas
  BY DadosAssumption DEF Linhas
<1>4. CASE \/ VerificacaoNext /\ UNCHANGED <<emissaoVars, canc>>
           \/ CancNext /\ UNCHANGED <<emissaoVars, verificacaoVars>>
           \/ Ambiente /\ UNCHANGED <<emissaoVars, verificacaoVars, canc>>
  BY <1>3, <1>4, SoPay
<1>5. CASE Queda
  BY <1>5 DEF Queda, Reiniciar, dadosVars
<1>6. CASE UNCHANGED vars
  BY <1>6 DEF vars, dadosVars
<1> QED
  BY <1>2, <1>4, <1>5, <1>6 DEF Next

\* After the gate let a cancellation go, no boleto is emitted for the reserva but
\* by a run of a row older than the one the gate looked at: for any number of
\* concurrent runs, queued rows, retries, failures and restarts.
THEOREM SemEmissaoDepoisDoPortao == Spec => CanceladaNaoEmite
<1>1. Init => Portao
  BY DEF Init, CancInit, CancNovo, Portao, PortaoAberto
<1>2. IInv /\ Fiel /\ Portao /\ [Next]_vars => Portao' /\ [SoMaisAntiga]_vars
  BY PortaoPasso, EmiteEncoberta
<1> QED
  BY <1>1, <1>2, Fidelidade, PTL DEF Spec, CanceladaNaoEmite, SoMaisAntiga

-----------------------------------------------------------------------------
(* At most one open title, as long as the runs keep their order (emOrdem,  *)
(* BoletoHistoria).  The open title is then that of the latest emitted     *)
(* row, which is the one the re-trigger decision looks at: the run that    *)
(* replaces it writes it off before it emits its own.                      *)

\* One run at a time, and of the latest row.
UmaPorVez ==
  /\ \A l, k \in Linhas : pc[l] # "parado" /\ pc[k] # "parado" => l = k
  /\ \A l, k \in Linhas : h[l].status # "livre" /\ k < l => h[k].status # "livre"
  /\ \A l, k \in Linhas : pc[l] # "parado" /\ l < k => h[k].status = "livre"

Abertos == {n \in NNs : titulo[n] = "aberto"}

\* A run that has registered its title and has not recorded its outcome.
Concluindo == {"posBaixa", "upload", "etapa", "concluir"}

AbertoDaUltima ==
  \A n \in Abertos : /\ dono[n] \in Emitidas \/ pc[dono[n]] \in Concluindo
                     /\ \A k \in Emitidas : k <= dono[n]
\* What the run of row l knows of the open titles.
SabeDoAberto(l) ==
  \A n \in Abertos :
    /\ pc[l] \in {"prazo", "lock", "sessao", "baixa"} => ex[l].prev # 0 /\ dono[n] = ex[l].prev
    /\ pc[l] # "emissao"
    /\ pc[l] \in Concluindo => dono[n] = l
Sucessao == AbertoDaUltima /\ \A l \in Linhas : SabeDoAberto(l)

LEMMA AbertoUnico ==
  ASSUME IInv, Sucessao, NEW m \in Abertos, NEW n \in Abertos
  PROVE  m = n
<1>1. /\ m \in NNs /\ n \in NNs
      /\ dono[m] \in Linhas /\ dono[n] \in Linhas
  BY DEF IInv, IInvTipo, TypeOK, DadosTypeOK, TituloComDono, Abertos
<1>2. CASE pc[dono[m]] \in Concluindo \/ pc[dono[n]] \in Concluindo
  BY <1>1, <1>2 DEF Sucessao, SabeDoAberto, IInv, UmTituloPorLinha, Linhas
<1>3. CASE dono[m] \in Emitidas /\ dono[n] \in Emitidas
  <2>1. dono[m] <= dono[n] /\ dono[n] <= dono[m]
    BY <1>3 DEF Sucessao, AbertoDaUltima
  <2>2. dono[m] = dono[n]
    BY <1>1, <2>1, DadosAssumption DEF Linhas
  <2> QED
    BY <1>1, <2>2 DEF IInv, UmTituloPorLinha, Linhas
<1> QED
  BY <1>2, <1>3 DEF Sucessao, AbertoDaUltima

LEMMA SoUmAberto == ASSUME IInv, Sucessao PROVE UmTituloAberto
<1>1. CASE Abertos = {}
  BY <1>1, FS_EmptySet DEF UmTituloAberto, Abertos
<1>2. CASE Abertos # {}
  <2>1. PICK n \in Abertos : TRUE
    BY <1>2
  <2>2. Abertos = {n}
    BY <2>1, AbertoUnico
  <2>3. Cardinality(Abertos) = 1
    BY <2>2, FS_Singleton
  <2> QED
    BY <2>3 DEF UmTituloAberto, Abertos
<1> QED
  BY <1>1, <1>2

\* The re-trigger decision sees the row of the open title, since what the rows
\* say is true of the bank.
LEMMA DecisaoVeOAberto ==
  ASSUME IInv, Fiel, UmaPorVez, Sucessao, NEW l \in Linhas, pc[l] = "validar", NEW n \in Abertos
  PROVE  Ultima(Pendentes \ {l}) = {dono[n]}
<1> USE DEF IInv, IInvTipo, TypeOK, DadosTypeOK
<1> DEFINE d == dono[n]
<1>1. n \in NNs /\ titulo[n] = "aberto" /\ d \in Linhas
  BY DEF Abertos, TituloComDono
<1>2. h[l].status = "processing"
  BY DEF SemEtapa, EtapaLinha
<1>3. d \in Emitidas
  <2>1. CASE pc[d] \in Concluindo
    <3>1. d = l
      BY <1>1, <2>1 DEF UmaPorVez, Concluindo
    <3> QED
      BY <2>1, <3>1 DEF Concluindo
  <2> QED
    BY <2>1 DEF Sucessao, AbertoDaUltima
<1>4. h[d].nn = n
  BY <1>1, <1>3 DEF NumeroDaPropria, UmTituloPorLinha, Linhas, NumeroRegistrado, Linha
<1>5. h[d].pay = "pending"
  BY <1>1, <1>3, <1>4 DEF Fiel, LinhasFieis, Leituras, Emitidas, Linha
<1>6. d \in Pendentes \ {l}
  BY <1>2, <1>3, <1>5 DEF Pendentes, Emitidas
<1>7. \A k \in Pendentes : k \in Linhas /\ k <= d
  BY DEF Sucessao, AbertoDaUltima, Pendentes, Emitidas
<1>8. \A k \in Ultima(Pendentes \ {l}) : k = d
  <2> SUFFICES ASSUME NEW k \in Ultima(Pendentes \ {l}) PROVE k = d
    OBVIOUS
  <2>1. k \in Linhas /\ k <= d /\ d <= k
    BY <1>6, <1>7 DEF Ultima
  <2> QED
    BY <1>1, <2>1, DadosAssumption DEF Linhas
<1> HIDE DEF d
<1>9. d \in Ultima(Pendentes \ {l})
  BY <1>6, <1>7 DEF Ultima
<1>10. Ultima(Pendentes \ {l}) = {d}
  BY <1>8, <1>9
<1> QED
  BY <1>10 DEF d

\* A title opens only in the emission of a run, which then goes on or is lost.
LEMMA AberturaPasso ==
  ASSUME IInv, Fiel, ~Perde, NEW l \in Linhas, Passo(l), NEW n \in Abertos'
  PROVE  \/ n \in Abertos /\ dono'[n] = dono[n]
         \/ pc[l] = "emissao" /\ dono'[n] = l /\ pc'[l] \in {"posBaixa", "upload"}
<1> USE DEF IInv, IInvTipo, TypeOK, DadosTypeOK, EmissaoTypeOK
<1>1. n \in NNs /\ titulo'[n] = "aberto"
  BY DEF Abertos
<1>2. CASE \A i \in NNs : titulo'[i] = "nao" <=> titulo[i] = "nao"
  <2>1. titulo[n] \notin {"nao", "pago", "baixado"}
    BY <1>1, <1>2, TituloFechado
  <2>2. dono' = dono
    BY <1>2, <2>1, DonoPasso DEF TituloComDono
  <2> QED
    BY <1>1, <2>1, <2>2 DEF Abertos
<1>3. CASE /\ pc[l] = "emissao" /\ titulo[ex[l].seq] = "nao"
           /\ titulo' = [titulo EXCEPT ![ex[l].seq] = "aberto"]
           /\ dono' = [dono EXCEPT ![ex[l].seq] = l]
  <2>1. ex[l].seq \in NNs
    BY DEF Exec
  <2>2. Emitir(l) \/ FalharEmissao(l)
    BY <1>3 DEF Passo, Iniciar, LerReserva, FalharCV, VerPago, VerJanela, Agendar, Recusar,
       DecidirRetrigger, RecusarPrazo, Numerar, PegarLock, DesistirLock, AbrirSessao,
       FalharSessao, BaixaPrevia, FalharBaixa, GravarBaixa, Upload, FalharUpload,
       AgendarEtapa, Concluir, Reagendar, Reprovar
  <2>3. ~FalharEmissao(l)
    <3>1. dono'[ex[l].seq] = l /\ h[l].status = "processing" /\ pc[l] # "parado"
      BY <1>3, <2>1 DEF SemEtapa, EtapaLinha
    <3> QED
      BY <2>1, <3>1 DEF FalharEmissao, Sair, Ir, Perde
  <2>4. pc'[l] \in {"posBaixa", "upload"}
    BY <2>2, <2>3 DEF Emitir, Sair, Ir
  <2> QED
    BY <1>1, <1>3, <2>1, <2>4 DEF Abertos
<1> QED
  BY <1>2, <1>3, DonoPasso

\* Where the run of row l comes from: the decision, the write-off of the boleto
\* it replaces, and after the emission the outcome, unless it is lost.
LEMMA CursoPasso ==
  ASSUME IInv, ~Perde, NEW l \in Linhas, Passo(l)
  PROVE  /\ pc[l] \in Concluindo => pc'[l] \in Concluindo \/ l \in Emitidas'
         /\ pc'[l] \in {"prazo", "lock", "sessao", "baixa"}
              => \/ pc[l] \in {"prazo", "lock", "sessao", "baixa"} /\ ex'[l].prev = ex[l].prev
                 \/ pc[l] = "validar" /\ DecidirRetrigger(l)
         /\ pc'[l] = "emissao" => (pc[l] = "sessao" /\ ex[l].prev = 0) \/ BaixaPrevia(l)
<1> USE DEF IInv, IInvTipo, TypeOK, DadosTypeOK, EmissaoTypeOK, Update, Ir, Parar, Sair,
        soPasso, soLinha
<1>1. CASE Move(l)
  <2>1. CASE FalharCV(l) \/ DesistirLock(l) \/ FalharSessao(l) \/ FalharBaixa(l)
    BY <2>1 DEF FalharCV, DesistirLock, FalharSessao, FalharBaixa, Concluindo
  <2>2. CASE Emitir(l) \/ FalharEmissao(l)
    BY <2>2 DEF Emitir, FalharEmissao, Concluindo
  <2>5. ~FalharUpload(l)
    <3> SUFFICES ASSUME FalharUpload(l) PROVE FALSE
      OBVIOUS
    <3>1. pc[l] = "upload" /\ pc'[l] = "falha" /\ h' = h /\ dono' = dono
      BY DEF FalharUpload
    <3>2. h[l].status = "processing" /\ dono[ex[l].seq] = l /\ ex[l].seq \in NNs
      BY <3>1 DEF SemEtapa, EtapaLinha, NumeroDaPropria, Exec
    <3> QED
      BY <3>1, <3>2 DEF Perde
  <2>3. CASE PegarLock(l) \/ AbrirSessao(l)
    BY <2>3 DEF PegarLock, AbrirSessao, Concluindo
  <2>4. CASE GravarBaixa(l) \/ Upload(l) \/ AgendarEtapa(l)
    BY <2>4 DEF GravarBaixa, Upload, AgendarEtapa, Concluindo
  <2> QED
    BY <1>1, <2>1, <2>2, <2>3, <2>4, <2>5 DEF Move
<1>2. CASE Concluir(l)
  <2>1. h[l] \in Linha /\ ~h[l].ignorado /\ pc[l] = "concluir"
    BY <1>2 DEF Concluir, SemEtapa, EtapaLinha
  <2>2. h'[l].status = "success" /\ ~h'[l].ignorado
    BY <1>2, <2>1 DEF Concluir, Linha
  <2> QED
    BY <1>2, <2>1, <2>2 DEF Concluir, Emitidas
<1>3. CASE Para(l) /\ ~Concluir(l)
  BY <1>3 DEF Para, Agendar, Recusar, RecusarPrazo, Reagendar, Reprovar, Concluindo
<1>4. CASE Decide(l) /\ ~DecidirRetrigger(l)
  BY <1>4 DEF Decide, Iniciar, LerReserva, VerPago, VerJanela, Concluindo
<1>5. CASE DecidirRetrigger(l)
  BY <1>5 DEF DecidirRetrigger, Ignorar, Concluindo
<1>6. CASE Numerar(l)
  BY <1>6 DEF Numerar, Concluindo, Exec
<1>7. CASE BaixaPrevia(l)
  BY <1>7 DEF BaixaPrevia, Concluindo
<1> QED
  BY <1>1, <1>2, <1>3, <1>4, <1>5, <1>6, <1>7, Grupos

\* When the run has written the previous boleto off, or found it closed, no
\* title is open.
LEMMA BaixaFechaTudo ==
  ASSUME IInv, UmaPorVez, Sucessao, NEW l \in Linhas, BaixaPrevia(l)
  PROVE  Abertos' = {}
<1> USE DEF IInv, IInvTipo, TypeOK, DadosTypeOK
<1> SUFFICES ASSUME NEW n \in Abertos' PROVE FALSE
  OBVIOUS
<1> DEFINE p == ex[l].prev
<1>1. pc[l] = "baixa" /\ n \in NNs /\ titulo'[n] = "aberto"
  BY DEF BaixaPrevia, Abertos
<1>2. n \in Abertos
  BY <1>1 DEF BaixaPrevia, Abertos
<1>3. dono[n] = p /\ p # 0 /\ p \in Linhas
  BY <1>1, <1>2 DEF Sucessao, SabeDoAberto, Abertos
<1>4. p \in Emitidas
  <2>1. pc[p] \notin Concluindo
    BY <1>1, <1>3 DEF UmaPorVez, Concluindo
  <2> QED
    BY <1>2, <1>3, <2>1 DEF Sucessao, AbertoDaUltima
<1>5. h[p].nn = n
  BY <1>1, <1>3, <1>4 DEF NumeroDaPropria, UmTituloPorLinha, NumeroRegistrado, Linha
<1> QED
  BY <1>1, <1>2, <1>5 DEF BaixaPrevia, Abertos

LEMMA SucessaoPasso ==
  ASSUME ~Perde, IInv, Fiel, UmaPorVez, Sucessao, NEW l \in Linhas, Passo(l)
  PROVE  Sucessao'
<1> USE DEF IInv, IInvTipo, TypeOK
<1>1. /\ h[l].status # "success" /\ pc[l] # "parado"
      /\ \A k \in Linhas \ {l} : pc[k] = "parado"
  BY PassoRodando, NaoESubstituida DEF Fiel, UmaPorVez
<1>2. \A k \in Linhas \ {l} :
        /\ pc'[k] = "parado"
        /\ k \in Emitidas' <=> k \in Emitidas
  <2> SUFFICES ASSUME NEW k \in Linhas \ {l}
               PROVE  pc'[k] = "parado" /\ (k \in Emitidas' <=> k \in Emitidas)
    OBVIOUS
  <2>1. /\ pc'[k] = pc[k] /\ h[k] \in Linha
        /\ h'[k] = h[k] \/ h'[k] = [h[k] EXCEPT !.pay = "cancelled"]
    BY OutrasLinhas DEF DadosTypeOK
  <2>2. h'[k].status = h[k].status /\ h'[k].ignorado = h[k].ignorado
    BY <2>1, MesmaLinha
  <2> QED
    BY <1>1, <2>1, <2>2 DEF Emitidas
<1>3. l \notin Emitidas /\ (l \in Emitidas' => pc[l] = "concluir")
  BY <1>1, ControlePasso DEF SemEtapa, Controle, Emitidas
<1>4. \A k \in Linhas : k # l /\ k \in Emitidas => k < l
  BY <1>1, DadosAssumption DEF UmaPorVez, Emitidas, Linhas
<1>5. ASSUME NEW n \in Abertos'
      PROVE  \/ n \in Abertos /\ dono'[n] = dono[n] /\ dono[n] \in Linhas
             \/ pc[l] = "emissao" /\ dono'[n] = l /\ pc'[l] \in {"posBaixa", "upload"}
  BY AberturaPasso DEF DadosTypeOK, TituloComDono, Abertos
<1>6. AbertoDaUltima'
  <2> SUFFICES ASSUME NEW n \in Abertos'
               PROVE  /\ dono'[n] \in Emitidas' \/ pc'[dono'[n]] \in Concluindo
                      /\ \A k \in Emitidas' : k <= dono'[n]
    BY DEF AbertoDaUltima
  <2>1. CASE n \in Abertos /\ dono'[n] = dono[n] /\ dono[n] \in Linhas
    <3>1. dono[n] \in Emitidas \/ pc[dono[n]] \in Concluindo
      BY <2>1 DEF Sucessao, AbertoDaUltima
    <3>2. dono'[n] \in Emitidas' \/ pc'[dono'[n]] \in Concluindo
      BY <1>1, <1>2, <1>3, <2>1, <3>1, CursoPasso DEF Concluindo
    <3>3. ASSUME NEW k \in Emitidas' PROVE k <= dono'[n]
      <4>1. CASE k = l
        BY <1>3, <2>1, <4>1, DadosAssumption DEF Sucessao, SabeDoAberto, Concluindo, Linhas
      <4>2. CASE k # l
        BY <1>2, <2>1, <4>2 DEF Sucessao, AbertoDaUltima, Emitidas
      <4> QED
        BY <4>1, <4>2
    <3> QED
      BY <3>2, <3>3
  <2>2. CASE pc[l] = "emissao" /\ dono'[n] = l /\ pc'[l] \in {"posBaixa", "upload"}
    <3>1. ASSUME NEW k \in Emitidas' PROVE k <= l
      BY <1>2, <1>4, DadosAssumption DEF Emitidas, Linhas
    <3> QED
      BY <2>2, <3>1 DEF Concluindo
  <2> QED
    BY <1>5, <2>1, <2>2
<1>7. ASSUME NEW k \in Linhas PROVE SabeDoAberto(k)'
  <2>1. CASE k # l
    BY <1>2, <2>1 DEF SabeDoAberto, Concluindo
  <2>2. ASSUME NEW n \in Abertos'
        PROVE  /\ pc'[l] \in {"prazo", "lock", "sessao", "baixa"}
                    => ex'[l].prev # 0 /\ dono'[n] = ex'[l].prev
               /\ pc'[l] # "emissao"
               /\ pc'[l] \in Concluindo => dono'[n] = l
    <3>1. CASE pc[l] = "emissao" /\ dono'[n] = l /\ pc'[l] \in {"posBaixa", "upload"}
      BY <3>1
    <3>2. CASE n \in Abertos /\ dono'[n] = dono[n] /\ dono[n] \in Linhas
      <4>1. ASSUME pc'[l] \in {"prazo", "lock", "sessao", "baixa"}
            PROVE  ex'[l].prev # 0 /\ dono'[n] = ex'[l].prev
        <5>1. CASE pc[l] \in {"prazo", "lock", "sessao", "baixa"} /\ ex'[l].prev = ex[l].prev
          BY <3>2, <5>1 DEF Sucessao, SabeDoAberto
        <5>2. CASE pc[l] = "validar" /\ DecidirRetrigger(l)
          <6>1. Ultima(Pendentes \ {l}) = {dono[n]}
            BY <3>2, <5>2, DecisaoVeOAberto
          <6>2. Pendentes \ {l} # {}
            BY <6>1 DEF Ultima
          <6>3. PICK j \in {dono[n]} : \/ ex' = [ex EXCEPT ![l].prev = j]
                                      \/ pc'[l] \in {"parado", "falha"}
            BY <5>2, <6>1, <6>2 DEF DecidirRetrigger, Ignorar, Parar, Ir, DadosTypeOK,
               EmissaoTypeOK
          <6>4. ex'[l].prev = dono[n]
            BY <4>1, <6>3 DEF EmissaoTypeOK, Exec
          <6> QED
            BY <3>2, <6>4 DEF Linhas
        <5> QED
          BY <4>1, <5>1, <5>2, CursoPasso
      <4>2. pc'[l] # "emissao"
        <5>1. ~BaixaPrevia(l)
          BY BaixaFechaTudo
        <5> QED
          BY <3>2, <5>1, CursoPasso DEF Sucessao, SabeDoAberto
      <4>3. ASSUME pc'[l] \in Concluindo PROVE dono'[n] = l
        <5>1. pc[l] \in Concluindo \cup {"emissao"}
          BY <4>3, ControlePasso DEF SemEtapa, Controle, Concluindo
        <5> QED
          BY <3>2, <5>1 DEF Sucessao, SabeDoAberto
      <4> QED
        BY <4>1, <4>2, <4>3
    <3> QED
      BY <1>5, <3>1, <3>2
  <2> QED
    BY <2>1, <2>2 DEF SabeDoAberto
<1> QED
  BY <1>6, <1>7 DEF Sucessao

\* Whoever emits nothing can only close titles.
LEMMA SucessaoFica ==
  ASSUME Sucessao, UNCHANGED <<pc, ex, dono>>, Abertos' \subseteq Abertos,
         \A k \in Linhas : h'[k].status = h[k].status /\ h'[k].ignorado = h[k].ignorado
  PROVE  Sucessao'
<1>1. Emitidas' = Emitidas
  BY DEF Emitidas
<1> QED
  BY <1>1 DEF Sucessao, AbertoDaUltima, SabeDoAberto

LEMMA SoFecha ==
  ASSUME TypeOK,
         \A n \in NNs : /\ titulo'[n] = "nao" <=> titulo[n] = "nao"
                        /\ titulo[n] \in {"pago", "baixado"} => titulo'[n] = titulo[n]
  PROVE  Abertos' \subseteq Abertos
<1> SUFFICES ASSUME NEW n \in NNs, titulo'[n] = "aberto" PROVE titulo[n] = "aberto"
  BY DEF Abertos
<1>1. titulo[n] \in {"nao", "aberto", "pago", "baixado"}
  BY DEF TypeOK, DadosTypeOK
<1> QED
  BY <1>1

Ordem == UmaPorVez /\ Sucessao

\* A run starts on the latest row when no other is under way.
LEMMA ComecaSozinha ==
  ASSUME ~Sobrepoe, ~Atrasa, UmaPorVez, NEW l \in Linhas,
         pc[l] = "parado" \/ pc'[l] = pc[l], pc'[l] # "parado"
  PROVE  /\ \A k \in Linhas \ {l} : pc[k] = "parado"
         /\ \A k \in Linhas : l < k => h[k].status = "livre"
<1>1. CASE pc[l] = "parado"
  <2>1. Comeca(l)
    BY <1>1 DEF Comeca
  <2> QED
    BY <2>1 DEF Sobrepoe, Atrasa, Rodando, Usadas
<1>2. CASE pc[l] # "parado"
  BY <1>2 DEF UmaPorVez
<1> QED
  BY <1>1, <1>2

LEMMA OrdemPasso ==
  ASSUME ~Perde, IInv, Fiel, Ordem, NEW l \in Linhas, Passo(l)
  PROVE  Ordem'
<1> USE DEF IInv, IInvTipo, TypeOK
<1>1. Sucessao'
  BY SucessaoPasso DEF Ordem
<1>2. pc[l] # "parado" /\ h[l].status # "livre"
  BY PassoRodando DEF SemEtapa, EtapaLinha
<1>3. \A k \in Linhas \ {l} : pc'[k] = pc[k] /\ h'[k].status = h[k].status
  <2> SUFFICES ASSUME NEW k \in Linhas \ {l}
               PROVE  pc'[k] = pc[k] /\ h'[k].status = h[k].status
    OBVIOUS
  <2>1. /\ h[k] \in Linha /\ pc'[k] = pc[k]
        /\ h'[k] = h[k] \/ h'[k] = [h[k] EXCEPT !.pay = "cancelled"]
    BY OutrasLinhas DEF DadosTypeOK
  <2> QED
    BY <2>1, MesmaLinha
<1>4. \A k \in Linhas : l < k => ~(k < l) /\ k # l
  BY DadosAssumption DEF Linhas
<1>5. UmaPorVez'
  BY <1>2, <1>3, <1>4 DEF Ordem, UmaPorVez
<1> QED
  BY <1>1, <1>5 DEF Ordem

LEMMA OrdemComeca ==
  ASSUME ~Sobrepoe, ~Atrasa, IInv, Fiel, Ordem, NEW l \in Linhas,
         Retomar(l) \/ \E f, m \in BOOLEAN : Acionar(l, f, m)
  PROVE  Ordem'
<1> USE DEF IInv, IInvTipo, TypeOK
<1>1. /\ pc[l] \in {"parado", "inicio"} /\ pc'[l] \in {"inicio", "reserva"}
      /\ pc[l] = "parado" \/ pc'[l] = pc[l]
      /\ \A k \in Linhas \ {l} : h'[k] = h[k] /\ pc'[k] = pc[k]
      /\ h[l].status \in {"livre", "queued"} /\ h'[l].status \in {"processing", "queued"}
      /\ \A k \in Linhas : k < l => h[k].status # "livre"
      /\ titulo' = titulo /\ dono' = dono
  <2>1. CASE Retomar(l)
    <3>1. h[l].status = "queued" /\ h[l] \in Linha
      BY <2>1 DEF Retomar, NaFila, DadosTypeOK
    <3>2. pc[l] \in {"parado", "inicio"}
      BY <3>1 DEF SemEtapa, EtapaLinha
    <3>3. h'[l].status = "queued"
      BY <2>1, <3>1 DEF Retomar, Update, DadosTypeOK, Linha
    <3>4. \A k \in Linhas : k < l => h[k].status # "livre"
      BY <3>1 DEF Ordem, UmaPorVez
    <3> QED
      BY <2>1, <3>1, <3>2, <3>3, <3>4 DEF Retomar, Update, Ir, DadosTypeOK, EmissaoTypeOK
  <2>2. ASSUME NEW f \in BOOLEAN, NEW m \in BOOLEAN, Acionar(l, f, m)
        PROVE  /\ h[l].status = "livre" /\ pc[l] = "parado" /\ pc'[l] = "reserva"
               /\ h'[l].status = "processing" /\ 1 .. l - 1 \subseteq Usadas
               /\ \A k \in Linhas \ {l} : h'[k] = h[k] /\ pc'[k] = pc[k]
               /\ titulo' = titulo /\ dono' = dono
    <3>1. h[l].status = "livre" /\ pc[l] = "parado" /\ h[l] \in Linha
      BY <2>2 DEF Acionar, Usadas, DadosTypeOK, SemEtapa, EtapaLinha
    <3>2. [h[l] EXCEPT !.status = "processing"].status = "processing"
      BY <3>1 DEF Linha
    <3> QED
      BY <2>2, <3>1, <3>2 DEF Acionar, Update, Ir, DadosTypeOK, EmissaoTypeOK
  <2>3. 1 .. l - 1 \subseteq Usadas => \A k \in Linhas : k < l => h[k].status # "livre"
    BY DadosAssumption DEF Usadas, Linhas
  <2> QED
    BY <2>1, <2>2, <2>3
<1>2. /\ \A k \in Linhas \ {l} : pc[k] = "parado"
      /\ \A k \in Linhas : l < k => h[k].status = "livre"
  BY <1>1, ComecaSozinha DEF Ordem
<1>3. \A k \in Linhas : /\ l < k => ~(k < l) /\ k # l
                        /\ k < l => k # l
  BY DadosAssumption DEF Linhas
<1>4. UmaPorVez'
  <2>1. \A i, k \in Linhas : pc'[i] # "parado" /\ pc'[k] # "parado" => i = k
    BY <1>1, <1>2
  <2>2. \A i, k \in Linhas : h'[i].status # "livre" /\ k < i => h'[k].status # "livre"
    BY <1>1, <1>2, <1>3 DEF Ordem, UmaPorVez
  <2>3. \A i, k \in Linhas : pc'[i] # "parado" /\ i < k => h'[k].status = "livre"
    BY <1>1, <1>2, <1>3
  <2> QED
    BY <2>1, <2>2, <2>3 DEF UmaPorVez
<1>5. Emitidas' = Emitidas /\ Abertos' = Abertos
  BY <1>1 DEF Emitidas, Abertos
<1>6. AbertoDaUltima'
  <2>1. \A n \in Abertos : dono[n] \in Linhas
    BY DEF DadosTypeOK, TituloComDono, Abertos
  <2>2. \A k \in Linhas : pc[k] \notin Concluindo
    BY <1>1, <1>2 DEF Concluindo
  <2> QED
    BY <1>1, <1>5, <2>1, <2>2 DEF Ordem, Sucessao, AbertoDaUltima
<1>7. \A k \in Linhas : pc'[k] \in {"parado", "inicio", "reserva"}
  BY <1>1, <1>2
<1> QED
  BY <1>4, <1>6, <1>7 DEF Ordem, Sucessao, SabeDoAberto, Concluindo

\* A restart ends every run, and by ~Perde none that had emitted.
LEMMA OrdemQueda == ASSUME ~Perde, IInv, Ordem, Queda PROVE Ordem'
<1>1. /\ h' = h /\ titulo' = titulo /\ dono' = dono
      /\ \A k \in Linhas : pc'[k] = "parado"
  BY DEF Queda, Reiniciar, dadosVars, TodasParadas
<1>2. ASSUME NEW n \in Abertos PROVE dono[n] \in Emitidas
  <2>1. n \in NNs /\ dono[n] \in Linhas
    BY DEF IInv, IInvTipo, TypeOK, DadosTypeOK, TituloComDono, Abertos
  <2>2. ~(pc[dono[n]] \in Concluindo)
    <3> SUFFICES ASSUME pc[dono[n]] \in Concluindo PROVE FALSE
      OBVIOUS
    <3>1. h[dono[n]].status = "processing" /\ pc[dono[n]] # "parado"
      BY <2>1 DEF IInv, SemEtapa, EtapaLinha, Concluindo
    <3> QED
      BY <1>1, <2>1, <3>1 DEF Perde
  <2> QED
    BY <2>2 DEF Ordem, Sucessao, AbertoDaUltima
<1>3. Emitidas' = Emitidas /\ Abertos' = Abertos
  BY <1>1 DEF Emitidas, Abertos
<1>4. AbertoDaUltima'
  BY <1>1, <1>2, <1>3 DEF Ordem, Sucessao, AbertoDaUltima
<1>5. UmaPorVez'
  BY <1>1 DEF Ordem, UmaPorVez
<1> QED
  BY <1>1, <1>4, <1>5 DEF Ordem, Sucessao, SabeDoAberto, Concluindo

LEMMA OrdemNext ==
  ASSUME ~Sobrepoe, ~Atrasa, ~Perde, IInv, Fiel, Ordem, Next
  PROVE  Ordem'
<1> USE DEF IInv, IInvTipo
<1>1. CASE FimRetomada
  BY <1>1 DEF FimRetomada, Ordem, UmaPorVez, Sucessao, AbertoDaUltima, SabeDoAberto, Abertos,
     Emitidas
<1>2. CASE EmissaoNext
  BY <1>1, <1>2, OrdemPasso, OrdemComeca DEF EmissaoNext
<1>3. CASE \/ VerificacaoNext /\ UNCHANGED <<emissaoVars, canc>>
           \/ CancNext /\ UNCHANGED <<emissaoVars, verificacaoVars>>
           \/ Ambiente /\ UNCHANGED <<emissaoVars, verificacaoVars, canc>>
  <2>1. 1 \in Linhas
    BY DadosAssumption DEF Linhas
  <2>2. /\ UNCHANGED <<pc, ex, dono>>
        /\ \A n \in NNs : titulo'[n] = "nao" <=> titulo[n] = "nao"
    BY <1>3, <2>1, SoPay
  <2>3. ASSUME NEW k \in Linhas
        PROVE  h'[k].status = h[k].status /\ h'[k].ignorado = h[k].ignorado
    <3>1. /\ h[k] \in Linha
          /\ h'[k] = h[k] \/ \E p : h'[k] = [h[k] EXCEPT !.pay = p]
      BY <1>3, SoPay DEF TypeOK, DadosTypeOK
    <3> QED
      BY <3>1, MesmaLinha
  <2>4. \A n \in NNs : titulo[n] \in {"pago", "baixado"} => titulo'[n] = titulo[n]
    <3>1. CASE VerificacaoNext
      BY <3>1, VerificacaoEstavel DEF Estavel
    <3>2. CASE CancNext
      BY <3>2, CancEstavel DEF Estavel
    <3>3. CASE Ambiente
      BY <3>3 DEF Ambiente, Pagar, BaixaExterna, TrocarCondicao, CancelarReserva,
         AbrirFecharJanela, LigarDesligar, VencerLease, TypeOK, DadosTypeOK
    <3> QED
      BY <1>3, <3>1, <3>2, <3>3
  <2>5. Abertos' \subseteq Abertos
    BY <2>2, <2>4, SoFecha
  <2>6. Sucessao'
    BY <2>2, <2>3, <2>5, SucessaoFica DEF Ordem
  <2> QED
    BY <2>2, <2>3, <2>6 DEF Ordem, UmaPorVez
<1> QED
  BY <1>2, <1>3, OrdemQueda DEF Next

LEMMA OrdemInicial == ASSUME Init PROVE Ordem
<1>1. /\ Abertos = {}
      /\ \A l \in Linhas : h[l].status = "livre" /\ pc[l] = "parado"
  BY DEF Abertos, Init, DadosInit, LinhaNova, EmissaoInit, TodasParadas
<1> QED
  BY <1>1 DEF Ordem, UmaPorVez, Sucessao, AbertoDaUltima, SabeDoAberto

\* The record of the history restricts nothing.
LEMMA HistoriaNaoRestringe == SpecH => Spec
<1>1. InitH => Init
  BY DEF InitH
<1>2. [NextH]_varsH => [Next]_vars
  BY DEF NextH, varsH
<1> QED
  BY <1>1, <1>2, PTL DEF SpecH, Spec

\* The reserva has two open titles only after two of its runs overlapped, a queued
\* row was resumed behind a later one, or a run was lost after its emission: the
\* write-offs, the refusals, the retries, the window, the restarts, the payments, the
\* checks and the cancellations never make a second one.
THEOREM UmTituloDeCadaVez == SpecH => []UmAbertoEmOrdem
<1>1. InitH => (emOrdem => Ordem)
  BY OrdemInicial DEF InitH
<1>2. IInv /\ Fiel /\ (emOrdem => Ordem) /\ [NextH]_varsH => (emOrdem => Ordem)'
  <2> SUFFICES ASSUME IInv, Fiel, emOrdem => Ordem, [NextH]_varsH, emOrdem'
               PROVE  Ordem'
    OBVIOUS
  <2>1. CASE NextH
    BY <2>1, OrdemNext DEF NextH
  <2>2. CASE UNCHANGED varsH
    BY <2>2 DEF varsH, vars, dadosVars, emissaoVars, Ordem, UmaPorVez, Sucessao,
       AbertoDaUltima, SabeDoAberto, Abertos, Emitidas
  <2> QED
    BY <2>1, <2>2
<1>3. IInv /\ (emOrdem => Ordem) => UmAbertoEmOrdem
  BY SoUmAberto DEF Ordem, UmAbertoEmOrdem
<1> QED
  BY <1>1, <1>2, <1>3, HistoriaNaoRestringe, Fidelidade, PTL DEF SpecH
=============================================================================
