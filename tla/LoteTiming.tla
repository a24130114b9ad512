----------------------------- MODULE LoteTiming -----------------------------
(***************************************************************************)
(* When a change of CV stage becomes due (computeSituacaoTarget): the CV   *)
(* sends reservas to Sienge in batches at every multiple of five minutes,  *)
(* and a stage that changes before the batch hides the reserva from it.    *)
(***************************************************************************)
EXTENDS Integers

CONSTANT Minuto   \* units of time in a minute

ASSUME MinutoAssumption == Minuto \in Nat \ {0}

Lote == 5 * Minuto

\* An instant whose seconds are set to zero is a multiple of Minuto; setMinutes
\* carries into the hour.
Proximo5(t) == LET m == t \div Minuto
               IN Minuto * (IF m % 5 = 0 THEN m + 5 ELSE m + (5 - (m % 5)))

\* A plausible slip: the batch that is too near is not skipped.
SituacaoTargetMut(t, safetyMin) == Proximo5(t) + Minuto

SituacaoTarget(t, safetyMin) ==
  LET next5 == Proximo5(t)
      alvo == IF next5 - t < safetyMin * Minuto THEN next5 + Lote ELSE next5
  IN alvo + Minuto
=============================================================================
