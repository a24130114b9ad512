---------------------------- MODULE MCBoletoAto ----------------------------
(* Small instances of BoletoAto: two due conditions a and b, a third one     *)
(* whose due date the portal refuses, a daily and a manual verifier.         *)
EXTENDS BoletoAto, TLC

CONSTANTS a, b, c, diaria, manual

\* a and b differ in nothing the safety runs look at.
Simetria == Permutations({a, b})

MCOwners == Linhas \cup Verificadores \cup {Cancelador}
=============================================================================
