---------------------------- MODULE BoletoJanela ----------------------------
(***************************************************************************)
(* The window of emission (boletoJanela.js) over local time, counted in    *)
(* hours from a midnight: the day of an instant is its quotient by 24, so  *)
(* the turn of the month and of the year are those of the calendar.        *)
(***************************************************************************)
EXTENDS Integers

HoraDe(t) == t % 24
DiaDe(t) == t \div 24

\* Settings as they come: the switch and the two hours. An invalid pair of
\* hours turns the window off (fail-open).
Valida(s) == /\ 0 <= s.inicio /\ s.inicio < 24
             /\ 0 < s.fim /\ s.fim <= 24
             /\ s.inicio < s.fim
JanelaAtiva(s) == s.ligada /\ Valida(s)

DentroDaJanela(s, t) ==
  JanelaAtiva(s) => s.inicio <= HoraDe(t) /\ HoraDe(t) < s.fim

\* Before the opening hour the next opening is today's, after the closing hour
\* tomorrow's. Only asked outside the window.
ProximaAbertura(s, t) ==
  24 * (IF HoraDe(t) < s.inicio THEN DiaDe(t) ELSE DiaDe(t) + 1) + s.inicio

AjustarParaJanela(s, t) ==
  IF DentroDaJanela(s, t) THEN t ELSE ProximaAbertura(s, t)
=============================================================================
