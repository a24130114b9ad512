---------------------------- MODULE MCSituacaoCv ----------------------------
(* Four rows, two of them of one reserva, one that the CV refuses and one  *)
(* that it fails for ever; ticks of at most two rows.                      *)
EXTENDS SituacaoCv, BoletoJanela

CONSTANTS t1, t2

MCReservaDe == <<1, 2, 2, 3>>
MCResposta == <<"quebra", "aceita", "aceita", "recusa">>

\* The window against its definition: the next opening is the first instant
\* inside it, over every pair of hours and two days and a half.
Hora == 0..60
Configs == [ligada: BOOLEAN, inicio: -1..25, fim: -1..25]
PrimeiroDentro(s, t) == CHOOSE u \in t..(t + 24) :
                          /\ DentroDaJanela(s, u)
                          /\ \A v \in t..(u - 1) : ~DentroDaJanela(s, v)
ASSUME JanelaCerta ==
  \A s \in Configs : \A t \in Hora : AjustarParaJanela(s, t) = PrimeiroDentro(s, t)
=============================================================================
