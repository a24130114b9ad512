----------------------------- MODULE MCEcoLock -----------------------------
(* Small instance of EcoLock: an emission and a cancellation that poll, a   *)
(* check that does not, leases of one to three minutes.                     *)
EXTENDS EcoLock

CONSTANTS emissao, cancelamento, verificacao

MCTtl == [o \in Owners |-> IF o = verificacao THEN 3 ELSE IF o = emissao THEN 1 ELSE 2]
=============================================================================
