--------------------------- MODULE MCLeadDispatch ---------------------------
(* One lead, two cycles and two other processes; every wait is one unit of  *)
(* time, and a stuck claim is older than the longest POST.                  *)
EXTENDS LeadDispatch

CONSTANTS l1, c1, c2, p1, p2

MCBackoff == [n \in 1..9 |-> 1]
=============================================================================
