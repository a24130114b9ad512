------------------------------- MODULE Lease -------------------------------
(***************************************************************************)
(* What the Ecobranca lock promises its clients, with the clock abstracted *)
(* away: one row, at most one holder, and a lease that may lapse at any    *)
(* moment after it was granted.  EcoLock implements it with a clock; the   *)
(* boleto modules run on top of it.                                        *)
(***************************************************************************)

CONSTANTS Owners,   \* whoever may ask for the lock
          Ninguem   \* owner IS NULL

ASSUME NinguemAssumption == Ninguem \notin Owners

VARIABLES holder,   \* who the row belongs to
          expired   \* the lease of the holder has run out

leaseVars == <<holder, expired>>

LeaseTypeOK == /\ holder \in Owners \cup {Ninguem}
               /\ expired \in BOOLEAN

LeaseInit == holder = Ninguem /\ expired = FALSE

\* Somebody holds the row and its lease still runs: an acquire fails.
Busy == holder # Ninguem /\ ~expired

\* The conditional UPDATE that takes the row when it is free or lapsed.
TryAcquire(o) == /\ ~Busy
                 /\ holder' = o
                 /\ expired' = FALSE

\* The UPDATE of release: it touches the row only if it is still o's.
Release(o) ==
  IF holder = o THEN holder' = Ninguem /\ expired' = FALSE
                ELSE UNCHANGED leaseVars

\* Time passes beyond expires_at.
Expire == Busy /\ expired' = TRUE /\ UNCHANGED holder

LeaseNext == Expire \/ \E o \in Owners : TryAcquire(o) \/ Release(o)

LeaseSpec == LeaseInit /\ [][LeaseNext]_leaseVars
=============================================================================
