--------------------------- MODULE EcoLock_proofs ---------------------------
(***************************************************************************)
(* Proofs about EcoLock, for every set of owners, every lease length and   *)
(* every clock: types, mutual exclusion while the leases run, who may free *)
(* a row, and that the row with its clock implements the abstract Lease.   *)
(***************************************************************************)
EXTENDS EcoLock, TLAPS

\* The inductive invariant: exclusion alone is not preserved (Acquire needs to
\* know that whoever is inside with a running lease still owns the row).
IInv == TypeOK /\ DonoNoPrazo

LEMMA InitIInv == ASSUME Init PROVE IInv
  BY OwnersAssumption DEF Init, IInv, TypeOK, DonoNoPrazo

\* The types are kept by every step.
LEMMA PassoTipo == ASSUME TypeOK, [Next]_vars PROVE TypeOK'
<1> USE OwnersAssumption DEF TypeOK
<1>1. CASE Tick
  BY <1>1 DEF Tick
<1>2. ASSUME NEW o \in Owners, Tentar(o) PROVE TypeOK'
  BY <1>2 DEF Tentar
<1>3. ASSUME NEW o \in Owners, Acquire(o) PROVE TypeOK'
  <2>1. now + Ttl[o] \in Nat
    OBVIOUS
  <2> QED
    BY <1>3, <2>1 DEF Acquire
<1>4. ASSUME NEW o \in Owners, Desistir(o) PROVE TypeOK'
  BY <1>4 DEF Desistir
<1>5. ASSUME NEW o \in Owners, Soltar(o) PROVE TypeOK'
  BY <1>5 DEF Soltar, rowVars
<1>6. ASSUME NEW o \in Owners, Morrer(o) PROVE TypeOK'
  BY <1>6 DEF Morrer
<1>7. CASE UNCHANGED vars
  BY <1>7 DEF vars
<1> QED
  BY <1>1, <1>2, <1>3, <1>4, <1>5, <1>6, <1>7 DEF Next, Cliente

\* A client inside its lease keeps owning the row with that lease.  Only two
\* steps can disturb it: Acquire, which overwrites the row, but only when it is
\* free or lapsed; and Soltar, which clears it, but only when it is the
\* caller's.
LEMMA PassoDono == ASSUME IInv, [Next]_vars PROVE DonoNoPrazo'
<1> USE OwnersAssumption DEF IInv, TypeOK
<1> SUFFICES ASSUME NEW p \in Owners, pc'[p] = "dentro", now' <= ate'[p]
             PROVE  owner' = p /\ expiresAt' = ate'[p]
  BY DEF DonoNoPrazo
<1>0. pc[p] = "dentro" /\ now <= ate[p] => owner = p /\ expiresAt = ate[p]
  BY DEF DonoNoPrazo
<1>1. CASE Tick
  BY <1>0, <1>1 DEF Tick
<1>2. ASSUME NEW o \in Owners, Tentar(o) PROVE owner' = p /\ expiresAt' = ate'[p]
  BY <1>0, <1>2 DEF Tentar
<1>3. ASSUME NEW o \in Owners, Acquire(o) PROVE owner' = p /\ expiresAt' = ate'[p]
  <2>1. CASE p = o
    BY <1>3, <2>1 DEF Acquire
  <2>2. CASE p # o
    <3>1. pc[p] = "dentro" /\ now <= ate[p]
      BY <1>3, <2>2 DEF Acquire
    <3>2. owner = p /\ expiresAt = ate[p]
      BY <1>0, <3>1
    <3> QED
      BY <1>3, <3>1, <3>2 DEF Acquire, Livre
  <2> QED
    BY <2>1, <2>2
<1>4. ASSUME NEW o \in Owners, Desistir(o) PROVE owner' = p /\ expiresAt' = ate'[p]
  BY <1>0, <1>4 DEF Desistir
<1>5. ASSUME NEW o \in Owners, Soltar(o) PROVE owner' = p /\ expiresAt' = ate'[p]
  <2>1. p # o
    BY <1>5 DEF Soltar
  <2>2. owner = p /\ expiresAt = ate[p] /\ ate'[p] = ate[p]
    BY <1>0, <1>5, <2>1 DEF Soltar
  <2> QED
    BY <1>5, <2>1, <2>2 DEF Soltar, rowVars
<1>6. ASSUME NEW o \in Owners, Morrer(o) PROVE owner' = p /\ expiresAt' = ate'[p]
  BY <1>0, <1>6 DEF Morrer
<1>7. CASE UNCHANGED vars
  BY <1>0, <1>7 DEF vars
<1> QED
  BY <1>1, <1>2, <1>3, <1>4, <1>5, <1>6, <1>7 DEF Next, Cliente

LEMMA SpecIInv == Spec => []IInv
<1>1. IInv /\ [Next]_vars => IInv'
  BY PassoTipo, PassoDono DEF IInv
<1> QED
  BY InitIInv, <1>1, PTL DEF Spec

\* The lock row and the clients keep their types (BoletoEcoLockService).
THEOREM TipoCorreto == Spec => []TypeOK
<1>1. IInv => TypeOK
  BY DEF IInv
<1> QED
  BY SpecIInv, <1>1, PTL

\* Two clients are never inside the portal with leases that both run.
THEOREM Exclusao == Spec => []ExclusaoNoPrazo
<1>1. IInv => ExclusaoNoPrazo
  BY DEF IInv, DonoNoPrazo, ExclusaoNoPrazo
<1> QED
  BY SpecIInv, <1>1, PTL

\* release never frees the lock of somebody else.
THEOREM LiberaOSeu == Spec => SoLiberaOSeu
<1>1. ASSUME TypeOK, [Next]_vars, NEW o \in Owners, owner = o, owner' # o
      PROVE  expiresAt < now \/ (pc[o] = "dentro" /\ pc'[o] = "fora")
  <2> USE OwnersAssumption DEF TypeOK
  <2>1. ~Tick /\ ~UNCHANGED vars
    BY <1>1 DEF Tick, vars
  <2>2. PICK q \in Owners : Cliente(q)
    BY <1>1, <2>1 DEF Next
  <2>3. CASE Acquire(q)
    BY <1>1, <2>3 DEF Acquire, Livre
  <2>4. CASE Soltar(q)
    BY <1>1, <2>4 DEF Soltar, rowVars
  <2> QED
    BY <1>1, <2>2, <2>3, <2>4 DEF Cliente, Tentar, Desistir, Morrer
<1>2. TypeOK /\ [Next]_vars =>
        [\A o \in Owners : owner = o /\ owner' # o =>
           expiresAt < now \/ (pc[o] = "dentro" /\ pc'[o] = "fora")]_vars
  BY <1>1
<1> QED
  BY TipoCorreto, <1>2, PTL DEF Spec, SoLiberaOSeu
-----------------------------------------------------------------------------
(* Refinement of the abstract lease. *)

LEMMA InitLease == ASSUME Init PROVE L!LeaseInit
  BY OwnersAssumption DEF Init, L!LeaseInit, Vencido

LEMMA PassoLease == ASSUME TypeOK, [Next]_vars PROVE [L!LeaseNext]_(L!leaseVars)
<1> USE OwnersAssumption DEF TypeOK
<1>1. CASE Tick
  <2>1. owner' = owner /\ expiresAt' = expiresAt /\ now' = now + 1
    BY <1>1 DEF Tick
  <2>2. CASE Vencido' = Vencido
    BY <2>1, <2>2 DEF L!leaseVars
  <2>3. CASE Vencido' # Vencido
    <3>1. owner # Ninguem /\ ~Vencido /\ Vencido'
      BY <2>1, <2>3 DEF Vencido
    <3>2. L!Expire
      BY <2>1, <3>1 DEF L!Expire, L!Busy
    <3> QED
      BY <3>2 DEF L!LeaseNext
  <2> QED
    BY <2>2, <2>3
<1>2. ASSUME NEW o \in Owners, Acquire(o) PROVE L!TryAcquire(o)
  <2>1. ~L!Busy
    BY <1>2 DEF Acquire, Livre, L!Busy, Vencido
  <2>2. owner' = o /\ expiresAt' = now' + Ttl[o] /\ now' = now
    BY <1>2 DEF Acquire
  <2>3. ~Vencido'
    BY <2>2 DEF Vencido
  <2> QED
    BY <2>1, <2>2, <2>3 DEF L!TryAcquire
<1>3. ASSUME NEW o \in Owners, Soltar(o) PROVE L!Release(o)
  <2>1. CASE owner = o
    BY <1>3, <2>1 DEF Soltar, L!Release, Vencido
  <2>2. CASE owner # o
    BY <1>3, <2>2 DEF Soltar, L!Release, L!leaseVars, Vencido, rowVars
  <2> QED
    BY <2>1, <2>2
<1>4. ASSUME NEW o \in Owners, Tentar(o) \/ Desistir(o) \/ Morrer(o)
      PROVE  UNCHANGED L!leaseVars
  BY <1>4 DEF Tentar, Desistir, Morrer, L!leaseVars, Vencido
<1>5. CASE UNCHANGED vars
  BY <1>5 DEF vars, L!leaseVars, Vencido
<1> QED
  BY <1>1, <1>2, <1>3, <1>4, <1>5 DEF Next, Cliente, L!LeaseNext

\* The row with its clock is a lease: everything the boleto modules assume of
\* Lease holds of BoletoEcoLockService.
THEOREM Refinamento == Spec => ImplementaLease
<1>1. TypeOK /\ [Next]_vars => [L!LeaseNext]_(L!leaseVars)
  BY PassoLease
<1> QED
  BY TipoCorreto, InitLease, <1>1, PTL DEF Spec, ImplementaLease, L!LeaseSpec
=============================================================================
