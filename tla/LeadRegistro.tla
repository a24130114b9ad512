---------------------------- MODULE LeadRegistro ----------------------------
(***************************************************************************)
(* The rows of inbound_leads, and how processes read and write them. A     *)
(* process works on an instance it loaded once; save() writes the fields   *)
(* it changed since, so two processes overwrite each other field by field. *)
(***************************************************************************)
EXTENDS Integers, FiniteSets

CONSTANTS
  Leads,
  Processos,     \* captures, dispatches, cycles and admins that may run at once
  MaxTent,       \* retry_max_attempts (6 in the code)
  MaxBusca,      \* FETCH_MAX_ATTEMPTS (6 in the code)
  Backoff,       \* units of time before the next attempt, by attempts made
  TimeoutPost,   \* the longest a POST to the CV takes (300 s)
  Preso,         \* STUCK_DISPATCHING_MIN (10 min)
  Nulo

ASSUME LeadAssumption ==
  /\ MaxTent \in Nat \ {0} /\ MaxBusca \in Nat \ {0, 1}
  /\ TimeoutPost \in Nat /\ Preso \in Nat
  /\ Nulo \notin Nat \cup Leads /\ \A n \in 1..(MaxTent + MaxBusca) : Backoff[n] \in Nat

Status == {"ausente", "received", "validated", "routed", "held", "dispatching",
           "delivered", "rejected", "failed", "spam", "historical"}
Despachaveis == {"routed", "failed", "rejected", "dispatching"}

VARIABLES
  lead,       \* the row: status, attempts, next_retry_at as a countdown, the number
              \* of failed fetches of a stub, the age of its last save (updated_at)
              \* and of its last claim (last_dispatch_at)
  sombra,     \* dry_run
  proc,       \* the processes
  aceitos,    \* times the CV took each lead (history)
  incerto,    \* leads whose acceptance was lost or cut (history)
  manual,     \* leads that people or the cutover took in hand (history)
  cruzes      \* times that a cycle took up each lead while another one had it (history)

leadVars == <<lead, sombra, proc, aceitos, incerto, manual, cruzes>>

Lead == [status: Status, tent: Nat, prox: Nat \cup {Nulo}, busca: Nat,
         idade: 0..Preso, envio: 0..Preso]

\* The instance of a process: what it believes of the row.
Instancia == [status: Status, tent: Nat, prox: Nat \cup {Nulo}, busca: Nat]
Ler(l) == [status |-> lead[l].status, tent |-> lead[l].tent,
           prox |-> lead[l].prox, busca |-> lead[l].busca]

\* A field is written when the instance says it changes.
Campo(antes, depois, banco) == IF antes = depois THEN banco ELSE depois

\* save() of instance i, whose fields become those of j, on row l. The age of a claim
\* is kept while the row is dispatching: no query looks at it else.
Salvo(l, i, j) ==
  [status |-> Campo(i.status, j.status, lead[l].status),
   tent   |-> Campo(i.tent, j.tent, lead[l].tent),
   prox   |-> Campo(i.prox, j.prox, lead[l].prox),
   busca  |-> Campo(i.busca, j.busca, lead[l].busca),
   idade  |-> 0,
   envio  |-> IF i.tent = j.tent /\ Campo(i.status, j.status, lead[l].status) = "dispatching"
                THEN lead[l].envio ELSE 0]

LeadsTypeOK == /\ lead \in [Leads -> Lead]
               /\ sombra \in BOOLEAN
               /\ aceitos \in [Leads -> 0..2]
               /\ incerto \subseteq Leads /\ manual \subseteq Leads
\* A lead is yet to come, or came with the import of the past.
LeadsInit == /\ lead \in [Leads -> {[status |-> st, tent |-> 0, prox |-> Nulo, busca |-> 0,
                                     idade |-> 0, envio |-> 0] :
                                    st \in {"ausente", "historical"}}]
             /\ aceitos = [l \in Leads |-> 0] /\ incerto = {} /\ manual = {}
             /\ cruzes = [l \in Leads |-> 0]
=============================================================================
