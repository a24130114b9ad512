------------------------------ MODULE EcoLock ------------------------------
(***************************************************************************)
(* BoletoEcoLockService: the singleton row of boleto_eco_lock that         *)
(* serialises the browser sessions on the Ecobranca account, with its      *)
(* clock, and the clients that use it: emission (polls), cancellation      *)
(* (polls), the daily and the manual check (one attempt).  Nobody renews a *)
(* lease, and a client works as long as the portal makes it.               *)
(***************************************************************************)
EXTENDS Naturals

CONSTANTS Owners,     \* owner strings; each attempt of a client has its own
          Ninguem,    \* owner IS NULL
          Insistentes, \* the owners that poll instead of giving up at once
          Ttl,        \* minutes of lease each owner asks for
          MaxEspera,  \* minutes a polling owner waits before it gives up
          MaxNow      \* bound of the clock, for TLC

ASSUME OwnersAssumption == /\ Ninguem \notin Owners
                           /\ Insistentes \subseteq Owners
                           /\ Ttl \in [Owners -> Nat \ {0}]
                           /\ MaxEspera \in Nat
                           /\ MaxNow \in Nat

VARIABLES owner, expiresAt,  \* the row
          now,               \* NOW() of the database
          pc,                \* what each client is doing
          desde,             \* when a waiting client made its first attempt
          ate                \* until when the lease of a working client runs

rowVars == <<owner, expiresAt>>
vars == <<owner, expiresAt, now, pc, desde, ate>>

TypeOK == /\ owner \in Owners \cup {Ninguem}
          /\ expiresAt \in Nat
          /\ now \in Nat
          /\ pc \in [Owners -> {"fora", "tentando", "dentro"}]
          /\ desde \in [Owners -> Nat]
          /\ ate \in [Owners -> Nat]

Init == /\ owner = Ninguem /\ expiresAt = 0 /\ now = 0
        /\ pc = [o \in Owners |-> "fora"]
        /\ desde = [o \in Owners |-> 0]
        /\ ate = [o \in Owners |-> 0]

\* WHERE owner IS NULL OR expires_at < NOW(); the mutant forgets that the
\* lease runs to the end of its last minute.
LivreMut == owner = Ninguem \/ expiresAt <= now
Livre == owner = Ninguem \/ expiresAt < now

Tentar(o) == /\ pc[o] = "fora"
             /\ pc' = [pc EXCEPT ![o] = "tentando"]
             /\ desde' = [desde EXCEPT ![o] = now]
             /\ UNCHANGED <<owner, expiresAt, now, ate>>

\* The mutant leaves expires_at as the previous holder left it.
AcquireMut(o) == /\ pc[o] = "tentando"
                 /\ Livre
                 /\ owner' = o
                 /\ pc' = [pc EXCEPT ![o] = "dentro"]
                 /\ ate' = [ate EXCEPT ![o] = now + Ttl[o]]
                 /\ desde' = [desde EXCEPT ![o] = 0]
                 /\ UNCHANGED <<expiresAt, now>>
Acquire(o) == /\ pc[o] = "tentando"
              /\ Livre
              /\ owner' = o
              /\ expiresAt' = now + Ttl[o]
              /\ pc' = [pc EXCEPT ![o] = "dentro"]
              /\ ate' = [ate EXCEPT ![o] = now + Ttl[o]]
              /\ desde' = [desde EXCEPT ![o] = 0]
              /\ UNCHANGED now

\* The attempt fails: a check skips its round at once, a polling client only
\* when it has waited long enough.
Desistir(o) == /\ pc[o] = "tentando"
               /\ ~Livre
               /\ o \notin Insistentes \/ now - desde[o] > MaxEspera
               /\ pc' = [pc EXCEPT ![o] = "fora"]
               /\ desde' = [desde EXCEPT ![o] = 0]
               /\ UNCHANGED <<owner, expiresAt, now, ate>>

\* finally { release(owner) }: the row is cleared only if it is still ours.
SoltarMut(o) == /\ pc[o] = "dentro"
                /\ owner' = Ninguem /\ expiresAt' = 0
                /\ pc' = [pc EXCEPT ![o] = "fora"]
                /\ ate' = [ate EXCEPT ![o] = 0]
                /\ UNCHANGED <<now, desde>>
SoltarTrocado(o) == /\ pc[o] = "dentro"
                    /\ IF owner = o THEN owner' = 0 /\ expiresAt' = Ninguem
                                    ELSE UNCHANGED rowVars
                    /\ pc' = [pc EXCEPT ![o] = "fora"]
                    /\ ate' = [ate EXCEPT ![o] = 0]
                    /\ UNCHANGED <<now, desde>>
Soltar(o) == /\ pc[o] = "dentro"
             /\ IF owner = o THEN owner' = Ninguem /\ expiresAt' = 0
                             ELSE UNCHANGED rowVars
             /\ pc' = [pc EXCEPT ![o] = "fora"]
             /\ ate' = [ate EXCEPT ![o] = 0]
             /\ UNCHANGED <<now, desde>>

\* The process dies: the finally never runs and the row stays taken.
Morrer(o) == /\ pc[o] # "fora"
             /\ pc' = [pc EXCEPT ![o] = "fora"]
             /\ desde' = [desde EXCEPT ![o] = 0]
             /\ ate' = [ate EXCEPT ![o] = 0]
             /\ UNCHANGED <<owner, expiresAt, now>>

Tick == /\ now < MaxNow
        /\ now' = now + 1
        /\ UNCHANGED <<owner, expiresAt, pc, desde, ate>>

Cliente(o) == Tentar(o) \/ Acquire(o) \/ Desistir(o) \/ Soltar(o) \/ Morrer(o)

Next == Tick \/ \E o \in Owners : Cliente(o)

Spec == Init /\ [][Next]_vars
-----------------------------------------------------------------------------
(* What the lock gives, and what it does not. *)

\* A client inside its lease owns the row with exactly that lease.
DonoNoPrazo == \A o \in Owners :
                 pc[o] = "dentro" /\ now <= ate[o] => owner = o /\ expiresAt = ate[o]

\* Two clients are never in the portal while both leases run, whatever
\* crashes, late releases and polling happened before.
ExclusaoNoPrazo == \A p, q \in Owners :
                     /\ pc[p] = "dentro" /\ now <= ate[p]
                     /\ pc[q] = "dentro" /\ now <= ate[q]
                     => p = q

\* A row is taken from a client only by its own release or after its lease
\* lapsed: a late release of a previous holder frees nobody else's lock.
SoLiberaOSeu == [][\A o \in Owners :
                     owner = o /\ owner' # o =>
                       expiresAt < now \/ (pc[o] = "dentro" /\ pc'[o] = "fora")]_vars

\* The row with its clock behaves as the abstract lease.
Vencido == owner # Ninguem /\ expiresAt < now
L == INSTANCE Lease WITH holder <- owner, expired <- Vencido
ImplementaLease == L!LeaseSpec
=============================================================================
