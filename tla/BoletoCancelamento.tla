------------------------- MODULE BoletoCancelamento -------------------------
(***************************************************************************)
(* The ato gate of a cancellation (validarAto in ReservaCancelService) and *)
(* the write-off it may ask for (baixarBoletoPorCancelamento): the boleto  *)
(* is read, the lease polled for a minute, the portal asked, and the       *)
(* outcome written to the row as it was read.                              *)
(***************************************************************************)
EXTENDS BoletoDados

CONSTANT BaixarNoCancelamento   \* baixar_boleto_no_cancelamento

VARIABLE canc   \* the cancellation in progress and its last answer

soCanc == <<titulo, dono, cv, janela, ativo, leaseVars>>

Cancelamento == [pc: {"parado", "buscar", "lock", "portal", "gravar"},
                 l: Linhas \cup {0}, lida: {"-", "aberto", "pago", "baixado"},
                 baixou: BOOLEAN, res: {"-", "segue", "barra"}]
CancNovo == [pc |-> "parado", l |-> 0, lida |-> "-", baixou |-> FALSE, res |-> "-"]

CancTypeOK == canc \in Cancelamento
CancInit == canc = CancNovo

Responder(res) == canc' = [CancNovo EXCEPT !.res = res]

\* validarAto looks at the latest row that was not ignored.
Consideradas == {l \in Usadas : ~h[l].ignorado}
DecisaoMut(b) == CASE b.status \in {"skipped", "error", "processing"} -> "segue"
                   [] b.pay = "cancelled" -> "segue"
                   [] b.pay = "paid" -> "barra"
                   [] OTHER -> IF BaixarNoCancelamento THEN "baixar" ELSE "segue"
Decisao(b) == CASE b.status \in {"skipped", "error"} -> "segue"
                [] b.status = "processing" -> "barra"
                [] b.pay = "cancelled" -> "segue"
                [] b.pay = "paid" -> "barra"
                [] OTHER -> IF BaixarNoCancelamento THEN "baixar" ELSE "segue"
Gate == IF Consideradas = {} THEN {"segue"}
                             ELSE {Decisao(h[k]) : k \in Ultima(Consideradas)}

\* A cancellation, or its reprocessing from the screen while it is blocked.
ValidarAto == /\ canc.pc = "parado" /\ canc.res # "segue"
              /\ ~cv.viva
              /\ \E d \in Gate : IF d = "baixar"
                                 THEN canc' = [CancNovo EXCEPT !.pc = "buscar"]
                                 ELSE Responder(d)
              /\ UNCHANGED <<h, soCanc>>

BuscarBoleto == /\ canc.pc = "buscar"
                /\ LET P == {l \in Pendentes : h[l].nn # Nulo}
                   IN \/ P = {} /\ Responder("segue")
                      \/ \E k \in Ultima(P) :
                           canc' = [canc EXCEPT !.pc = "lock", !.l = k]
                /\ UNCHANGED <<h, soCanc>>

PegarLockCanc == /\ canc.pc = "lock"
                 /\ TryAcquire(Cancelador)
                 /\ canc' = [canc EXCEPT !.pc = "portal"]
                 /\ UNCHANGED <<h, titulo, dono, cv, janela, ativo>>

\* Twelve attempts against a lease that still runs.
DesistirLockCanc == /\ canc.pc = "lock" /\ Busy
                    /\ Responder("barra")
                    /\ UNCHANGED <<h, soCanc>>

\* The batch reads the title and writes it off if it is open; the lease is
\* released before anything is recorded.
LerTituloCanc ==
  /\ canc.pc = "portal"
  /\ \E s \in Leituras(h[canc.l].nn) :
       IF s = "aberto"
         THEN /\ titulo' = [titulo EXCEPT ![h[canc.l].nn] = "baixado"]
              /\ canc' = [canc EXCEPT !.pc = "gravar", !.lida = s, !.baixou = TRUE]
         ELSE /\ canc' = [canc EXCEPT !.pc = "gravar", !.lida = s]
              /\ UNCHANGED titulo
  /\ Release(Cancelador)
  /\ UNCHANGED <<h, dono, cv, janela, ativo>>

\* Session or query failed, title not found, write-off aborted or (baixa)
\* submitted without a confirmation: the cancellation is blocked.
FalharPortalCanc ==
  /\ canc.pc = "portal"
  /\ \/ Pode("consulta") /\ UNCHANGED titulo
     \/ /\ Pode("baixa") /\ titulo[h[canc.l].nn] = "aberto"
        /\ titulo' = [titulo EXCEPT ![h[canc.l].nn] = "baixado"]
  /\ Release(Cancelador)
  /\ Responder("barra")
  /\ UNCHANGED <<h, dono, cv, janela, ativo>>

\* The row takes the outcome whatever it has become meanwhile; a write-off
\* cascades to the ignored rows that mirror the boleto.
Espelhos == {k \in Linhas : h[k].ignorado /\ h[k].pay = "pending"}
GravarCanc ==
  /\ canc.pc = "gravar"
  /\ IF canc.lida = "pago"
       THEN Update(canc.l, [h[canc.l] EXCEPT !.pay = "paid"]) /\ Responder("barra")
       ELSE /\ h' = [k \in Linhas |->
                      IF k = canc.l \/ k \in Espelhos
                        THEN [h[k] EXCEPT !.pay = "cancelled"] ELSE h[k]]
            /\ Responder("segue")
  /\ UNCHANGED soCanc

PassoCanc == BuscarBoleto \/ PegarLockCanc \/ DesistirLockCanc
             \/ LerTituloCanc \/ FalharPortalCanc \/ GravarCanc
CancNext == ValidarAto \/ PassoCanc
=============================================================================
