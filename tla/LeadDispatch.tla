---------------------------- MODULE LeadDispatch ----------------------------
(***************************************************************************)
(* Capture of marketing leads and their dispatch to the CV: the webhook of *)
(* Meta (MetaLeadAdsService), captureLead, dispatchLead, the cycle of      *)
(* marketingDispatchScheduler, the actions of the inbox and the cutover.   *)
(* Time is counted where the code looks at it: how long a POST has been    *)
(* going, how old the last save of a row is, how long until a retry.       *)
(***************************************************************************)
EXTENDS LeadRegistro

CONSTANTS
  Ciclos,      \* the processes that are cycles of the scheduler
  MaxCruzes,   \* times that two cycles overlap on one lead
  MaxQuedas,   \* restarts of the server
  MaxMaos,     \* interventions of people and of the cutover
  Eventos      \* what may happen besides

ASSUME LimitesAssumption ==
  /\ Ciclos \subseteq Processos
  /\ MaxCruzes \in Nat /\ MaxQuedas \in Nat /\ MaxMaos \in Nat
  /\ TimeoutPost < Preso      \* a claim is stuck after the longest POST

VARIABLES
  quedas, maos,
  ligadas      \* times shadow mode was on (history)

vars == <<leadVars, quedas, maos, ligadas>>

Pode(e) == e \in Eventos
Avulsos == Processos \ Ciclos

Pcs == {"livre", "graph", "valida", "roteia", "despacha", "retomado", "envia",
        "voo", "entregar", "aguarda", "rota", "promove", "spam"}
SemInst == [status |-> "ausente", tent |-> 0, prox |-> Nulo, busca |-> 0]
Processo == [pc: Pcs, l: Leads \cup {Nulo}, inst: Instancia, voo: 0..TimeoutPost,
             fila: SUBSET Leads]
\* Between two leads, with the list of a cycle still to go through.
EmEspera(f) == [pc |-> IF f = {} THEN "livre" ELSE "aguarda", l |-> Nulo, inst |-> SemInst,
                voo |-> 0, fila |-> f]
Livre == EmEspera({})

TypeOK == /\ LeadsTypeOK
          /\ proc \in [Processos -> Processo]
          /\ \A p \in Processos : proc[p].l = Nulo <=> proc[p].pc \in {"livre", "aguarda"}
          /\ quedas \in 0..MaxQuedas /\ maos \in 0..MaxMaos
          /\ cruzes \in [Leads -> 0..MaxCruzes] /\ ligadas \in 0..(MaxMaos + 1)

Init == /\ LeadsInit
        /\ sombra \in (IF Pode("sombra") THEN BOOLEAN ELSE {FALSE})
        /\ proc = [p \in Processos |-> Livre]
        /\ ligadas = IF sombra THEN 1 ELSE 0
        /\ quedas = 0 /\ maos = 0

semCiclos == <<sombra, ligadas, quedas, manual, maos>>
semCv == <<semCiclos, cruzes>>
resto == <<semCv, aceitos, incerto>>

\* What starts takes the first idle process of S: which one makes no difference.
Nova(p, S) == /\ p \in S /\ proc[p].pc = "livre"
              /\ p = CHOOSE q \in S : proc[q].pc = "livre"
\* p goes on with lead l at pc, holding instance i.
Ir(p, pc, l, i) ==
  proc' = [proc EXCEPT ![p] = [pc |-> pc, l |-> l, inst |-> i, voo |-> 0, fila |-> proc[p].fila]]
\* A plausible slip: the process ends on its lead.
FimMut(p) == proc' = [proc EXCEPT ![p].pc = IF proc[p].fila = {} THEN "livre" ELSE "aguarda"]
\* p is done with its lead: a cycle goes on with its list.
Fim(p) == proc' = [proc EXCEPT ![p] = EmEspera(proc[p].fila)]
\* Instance i with another status and another next retry.
Com(i, status, prox) == [status |-> status, tent |-> i.tent, prox |-> prox, busca |-> i.busca]
\* p saves its instance with new values j.
Salvar(p, j) == LET l == proc[p].l
                IN lead' = [lead EXCEPT ![l] = Salvo(l, proc[p].inst, j)]
-----------------------------------------------------------------------------
(* Capture. *)

\* A delivery of the webhook; one of a lead that has a row changes nothing.
Webhook(p, l) ==
  /\ Nova(p, Avulsos)
  /\ lead[l].status = "ausente"
  /\ Ir(p, "graph", l, SemInst)
  /\ UNCHANGED <<lead, resto>>

\* The data arrived and the row is created, unless another delivery was faster:
\* meta_leadgen_id is unique. A stub is completed instead.
Criar(p) ==
  /\ proc[p].pc = "graph"
  /\ LET l == proc[p].l
         novo == [SemInst EXCEPT !.status = "received"]
         i == proc[p].inst
     IN IF i.status = "ausente"
          THEN IF lead[l].status = "ausente"
                 THEN /\ lead' = [lead EXCEPT ![l] = Salvo(l, SemInst, novo)]
                      /\ Ir(p, "valida", l, novo)
                 ELSE Fim(p) /\ UNCHANGED lead
          ELSE LET j == [Com(i, i.status, Nulo) EXCEPT !.busca = 0]
               IN Salvar(p, j) /\ Ir(p, "valida", l, j)
  /\ UNCHANGED resto

\* The fetch failed: a stub to be retried is left (or counts one more failure).
FalharBusca(p) ==
  /\ Pode("graph") /\ proc[p].pc = "graph"
  /\ LET l == proc[p].l
         i == proc[p].inst
         n == i.busca + 1
         stub == [Com(i, "received", IF n >= MaxBusca THEN Nulo ELSE Backoff[n])
                    EXCEPT !.busca = n]
     IN IF i.status = "ausente" /\ lead[l].status # "ausente"
          THEN UNCHANGED lead
          ELSE lead' = [lead EXCEPT ![l] = Salvo(l, i, stub)]
  /\ Fim(p) /\ UNCHANGED resto

\* Contact data that do not pass make it spam.
Validar(p) ==
  /\ proc[p].pc = "valida"
  /\ \E bom \in BOOLEAN :
       LET j == [proc[p].inst EXCEPT !.status = IF bom THEN "validated" ELSE "spam"]
       IN Salvar(p, j) /\ IF bom THEN Ir(p, "roteia", proc[p].l, j) ELSE Fim(p)
  /\ UNCHANGED resto

\* Without a mapping of its campaign it is held. captureLead does not wait for the
\* dispatch it starts.
Rotear(p) ==
  /\ proc[p].pc = "roteia"
  /\ \E mapeado \in BOOLEAN :
       LET j == [proc[p].inst EXCEPT !.status = IF mapeado THEN "routed" ELSE "held"]
       IN Salvar(p, j) /\ IF mapeado THEN Ir(p, "despacha", proc[p].l, j) ELSE Fim(p)
  /\ UNCHANGED resto
-----------------------------------------------------------------------------
(* Dispatch. *)

\* dispatchLead: the instance must be dispatchable; the row is claimed by a save.
Reivindicar(p) ==
  /\ proc[p].pc \in {"despacha", "retomado"} /\ proc[p].inst.status \in Despachaveis
  /\ LET l == proc[p].l
         i == proc[p].inst
         j == [Com(i, "dispatching", i.prox) EXCEPT !.tent = i.tent + 1]
     IN Salvar(p, j) /\ Ir(p, "envia", l, j)
  /\ UNCHANGED resto

Dispensar(p) == /\ proc[p].pc \in {"despacha", "retomado"}
                /\ proc[p].inst.status \notin Despachaveis
                /\ Fim(p) /\ UNCHANGED <<lead, resto>>

\* The mode is read after the claim. Shadow mode: no POST, back to routed.
Sombrear(p) == /\ proc[p].pc = "envia" /\ sombra
               /\ Salvar(p, [proc[p].inst EXCEPT !.status = "routed"])
               /\ Fim(p) /\ UNCHANGED resto

Postar(p) == /\ proc[p].pc = "envia" /\ ~sombra
             /\ Ir(p, "voo", proc[p].l, proc[p].inst)
             /\ UNCHANGED <<lead, resto>>

Posta(p) == proc[p].pc = "voo"
Aceito(l) == [aceitos EXCEPT ![l] = IF @ < 2 THEN @ + 1 ELSE @]

\* The CV takes the lead and answers; markDelivered is another await.
Aceitar(p) == /\ Posta(p)
              /\ aceitos' = Aceito(proc[p].l)
              /\ Ir(p, "entregar", proc[p].l, proc[p].inst)
              /\ UNCHANGED <<lead, incerto, semCv>>

\* A plausible slip: the status is left as it was claimed.
MarcarEntregueMut(p) ==
  /\ proc[p].pc = "entregar"
  /\ Salvar(p, [proc[p].inst EXCEPT !.prox = Nulo])
  /\ Fim(p) /\ UNCHANGED resto
MarcarEntregue(p) ==
  /\ proc[p].pc = "entregar"
  /\ Salvar(p, Com(proc[p].inst, "delivered", Nulo))
  /\ Fim(p) /\ UNCHANGED resto

\* 4xx or sucesso:false.
Rejeitar(p) == /\ Pode("recusa") /\ Posta(p)
               /\ Salvar(p, Com(proc[p].inst, "rejected", Nulo))
               /\ Fim(p) /\ UNCHANGED resto

\* 5xx, network, time-out: markFailed, with a new attempt or the dead letter. What
\* the CV did of a POST without an answer is unknown.
\* (A plausible slip: one attempt too many.)
FalhaDeMut(i) == Com(i, "failed", IF i.tent > MaxTent THEN Nulo ELSE Backoff[i.tent])
FalhaDe(i) == Com(i, "failed", IF i.tent >= MaxTent THEN Nulo ELSE Backoff[i.tent])
Falhar(p) ==
  /\ Posta(p)
  /\ \/ Pode("falha") /\ UNCHANGED <<aceitos, incerto>>
     \/ /\ Pode("perde")
        /\ aceitos' = Aceito(proc[p].l) /\ incerto' = incerto \cup {proc[p].l}
  /\ Salvar(p, FalhaDe(proc[p].inst))
  /\ Fim(p) /\ UNCHANGED semCv

\* The CV answered but the row could not be saved: the catch is around
\* markDelivered too, so the lead is marked failed and will be posted again.
PerderEntrega(p) ==
  /\ Pode("banco") /\ proc[p].pc = "entregar"
  /\ incerto' = incerto \cup {proc[p].l}
  /\ Salvar(p, FalhaDe(proc[p].inst))
  /\ Fim(p) /\ UNCHANGED <<aceitos, semCv>>
-----------------------------------------------------------------------------
(* The cycle of the scheduler. *)

Stubs == {l \in Leads : lead[l].status = "received" /\ lead[l].busca > 0 /\ lead[l].prox = 0}
\* Plausible slips: a cutoff shorter than a POST; no orphans; null taken for due.
PresosMut == {l \in Leads : lead[l].status = "dispatching" /\ lead[l].envio >= TimeoutPost}
OrfaosMut == {}
VencidosMut == {l \in Leads : lead[l].status = "failed" /\ lead[l].prox \in {0, Nulo}}
Presos == {l \in Leads : lead[l].status = "dispatching" /\ lead[l].envio = Preso}
Orfaos == IF sombra THEN {}
          ELSE {l \in Leads : lead[l].status = "routed" /\ lead[l].idade = Preso}
Vencidos == {l \in Leads : lead[l].status = "failed" /\ lead[l].prox = 0}

\* A cycle has listed lead l and not claimed it yet, or fetches for its stub.
DeCiclo(q, l) == \/ l \in proc[q].fila
                 \/ proc[q].l = l /\ proc[q].pc = "retomado"
                 \/ proc[q].l = l /\ proc[q].pc = "graph" /\ proc[q].inst.status # "ausente"
\* A cycle takes up the leads of S: nothing keeps cycles apart.
Retoma(S) ==
  LET C == {l \in S : \E q \in Processos : DeCiclo(q, l)}
  IN /\ \A l \in C : cruzes[l] < MaxCruzes
     /\ cruzes' = [l \in Leads |-> IF l \in C THEN cruzes[l] + 1 ELSE cruzes[l]]
     /\ UNCHANGED <<lead, semCiclos, aceitos, incerto>>

\* Stubs come before the queries of a cycle; the dispatch that ends a capture goes
\* on by itself, so another process does it.
RetomarStub(p, l) ==
  /\ Nova(p, Avulsos) /\ l \in Stubs
  /\ Ir(p, "graph", l, Ler(l)) /\ Retoma({l})

\* A tick of the cron, three queries, ids only.
IniciarCiclo(c) ==
  /\ Nova(c, Ciclos)
  /\ LET fila == Presos \cup Orfaos \cup Vencidos
     IN fila # {} /\ proc' = [proc EXCEPT ![c] = EmEspera(fila)] /\ Retoma(fila)

\* The next lead of the list, read by its id.
Carregar(c, l) ==
  /\ proc[c].pc = "aguarda" /\ l \in proc[c].fila
  /\ proc' = [proc EXCEPT ![c] = [pc |-> "retomado", l |-> l, inst |-> Ler(l), voo |-> 0,
                                  fila |-> proc[c].fila \ {l}]]
  /\ UNCHANGED <<lead, resto>>
-----------------------------------------------------------------------------
(* People. *)

Intervir(l) == /\ maos < MaxMaos /\ maos' = maos + 1
               /\ manual' = manual \cup {l}
EmMaos(p, l, pc) == /\ Nova(p, Avulsos)
                    /\ Intervir(l) /\ Ir(p, pc, l, Ler(l))
                    /\ UNCHANGED <<lead, sombra, ligadas, quedas, aceitos, incerto, cruzes>>

\* redispatchInboundLead, on a failed or rejected lead.
Redisparar(p, l) == /\ Pode("redisparo") /\ lead[l].status \in {"failed", "rejected"}
                    /\ EmMaos(p, l, "despacha")

\* routeInboundLead, on a held lead.
RotearManual(p, l) == /\ Pode("rota") /\ lead[l].status = "held"
                      /\ EmMaos(p, l, "rota")

\* The cutover (dispatchBacklogSince, dispatchRecoverableHeld) loads the leads that
\* wait, whole, and takes its time to go through them.
CarregarBacklog(p, l) == /\ Pode("backlog") /\ ~sombra
                         /\ lead[l].status \in {"historical", "routed", "held"}
                         /\ EmMaos(p, l, "promove")

Promover(p) ==
  /\ proc[p].pc \in {"rota", "promove"}
  /\ LET j == [proc[p].inst EXCEPT !.status = "routed"]
     IN /\ IF j = proc[p].inst THEN UNCHANGED lead ELSE Salvar(p, j)
        /\ Ir(p, "despacha", proc[p].l, j)
  /\ UNCHANGED resto

\* markSpam reads the row and then writes it; unmarkSpam gives it back to the inbox.
LerParaSpam(p, l) == /\ Pode("spam") /\ lead[l].status \notin {"ausente", "delivered"}
                     /\ EmMaos(p, l, "spam")
MarcarSpam(p) == /\ proc[p].pc = "spam"
                 /\ Salvar(p, [proc[p].inst EXCEPT !.status = "spam"])
                 /\ Fim(p) /\ UNCHANGED resto
DesfazerSpam(l) ==
  /\ Pode("spam") /\ lead[l].status = "spam"
  /\ lead' = [lead EXCEPT ![l] = Salvo(l, Ler(l), [Ler(l) EXCEPT !.status = "held"])]
  /\ Intervir(l)
  /\ UNCHANGED <<proc, sombra, ligadas, quedas, aceitos, incerto, cruzes>>

\* The setting, as the 30 s cache of the configuration shows it to every process.
DesligarSombra == /\ sombra /\ sombra' = FALSE
                  /\ UNCHANGED <<lead, proc, aceitos, incerto, manual, cruzes>>
                  /\ UNCHANGED <<ligadas, quedas, maos>>
LigarSombra == /\ Pode("sombra") /\ ~sombra /\ maos < MaxMaos
               /\ sombra' = TRUE /\ ligadas' = ligadas + 1 /\ maos' = maos + 1
               /\ UNCHANGED <<lead, proc, aceitos, incerto, manual, cruzes, quedas>>
-----------------------------------------------------------------------------
(* Time and restarts. *)

\* The database answers at once next to these times, and a POST ends by its
\* time-out. Idle cycles and the cutover may wait.
Imediatos == {"graph", "valida", "roteia", "despacha", "retomado", "envia", "entregar",
              "aguarda", "rota", "spam"}
\* Ages are counted in the status whose query looks at them.
Mais(n, max) == IF n < max THEN n + 1 ELSE n
Depois(r) == [status |-> r.status, tent |-> r.tent, busca |-> r.busca,
              prox |-> IF r.prox \in Nat \ {0} THEN r.prox - 1 ELSE r.prox,
              idade |-> IF r.status = "routed" THEN Mais(r.idade, Preso) ELSE r.idade,
              envio |-> IF r.status = "dispatching" THEN Mais(r.envio, Preso) ELSE r.envio]
Passar ==
  /\ \A p \in Processos : /\ proc[p].pc \notin Imediatos
                          /\ proc[p].pc = "voo" => proc[p].voo < TimeoutPost
  /\ lead' = [l \in Leads |-> Depois(lead[l])]
  /\ proc' = [p \in Processos |->
                IF proc[p].pc = "voo" THEN [proc[p] EXCEPT !.voo = @ + 1] ELSE proc[p]]
  /\ UNCHANGED resto

\* A restart ends every process; a POST on its way may have been taken.
Reiniciar ==
  /\ quedas < MaxQuedas /\ quedas' = quedas + 1
  /\ \E chegam \in SUBSET {proc[p].l : p \in {q \in Processos : Posta(q)}} :
       /\ aceitos' = [l \in Leads |-> IF l \in chegam THEN Aceito(l)[l] ELSE aceitos[l]]
       /\ incerto' = incerto \cup chegam
                       \cup {proc[p].l : p \in {q \in Processos : proc[q].pc = "entregar"}}
  /\ proc' = [p \in Processos |-> Livre]
  /\ UNCHANGED <<lead, sombra, ligadas, manual, cruzes, maos>>

Passo(p) == \/ Criar(p) \/ FalharBusca(p) \/ Validar(p) \/ Rotear(p)
            \/ Reivindicar(p) \/ Dispensar(p) \/ Sombrear(p) \/ Postar(p) \/ Aceitar(p)
            \/ MarcarEntregue(p) \/ PerderEntrega(p) \/ Rejeitar(p) \/ Falhar(p)
            \/ MarcarSpam(p) \/ Promover(p)
            \/ \E l \in Leads : Carregar(p, l)

Retomar == \/ \E p \in Processos, l \in Leads : RetomarStub(p, l)
           \/ \E c \in Processos : IniciarCiclo(c)

Next == \/ \E p \in Processos : Passo(p)
        \/ Retomar
        \/ \E p \in Processos, l \in Leads :
             \/ Webhook(p, l) \/ RotearManual(p, l) \/ Redisparar(p, l)
             \/ LerParaSpam(p, l) \/ CarregarBacklog(p, l)
        \/ \E l \in Leads : DesfazerSpam(l)
        \/ DesligarSombra \/ LigarSombra \/ Passar \/ Reiniciar

Spec == Init /\ [][Next]_vars

\* Every process goes on (each await settles or times out), time passes, the cron
\* fires.
FairSpec == /\ Spec /\ WF_vars(Passar) /\ WF_vars(Retomar)
            /\ \A p \in Processos : WF_vars(Passo(p))
-----------------------------------------------------------------------------
\* Leads that the pipeline carried alone, and one cycle at a time.
Sozinhos == {l \in Leads \ manual : cruzes[l] = 0}
Sos == Sozinhos \ incerto
Cuida(p, l) == proc[p].l = l /\ proc[p].pc \notin {"livre", "aguarda"}

\* One conversion of a lead in the CV: deliveries of the webhook that cross, retries,
\* stubs, restarts and recoveries post it again only if an acceptance was lost,
\* someone stepped in, or two cycles overlapped on it (they may: no guard keeps a
\* cycle from what another one has listed, be it stuck, failed and due, or a stub).
EntregaUnica == \A l \in Sos : aceitos[l] <= 1

\* What the inbox shows is what the CV has, as soon as nobody works on the lead; with
\* the same exceptions.
InboxFiel == \A l \in Sos : (\A p \in Processos : ~Cuida(p, l)) =>
               (lead[l].status = "delivered" <=> aceitos[l] = 1)

\* Retries are bounded: a lead that one cycle at a time carried costs at most
\* retry_max_attempts attempts, and one for each restart that cut one and each time
\* shadow mode was on, which counts attempts it does not post.
TentativasLimitadas == \A l \in Sozinhos : lead[l].tent <= MaxTent + quedas + ligadas

\* A dead letter waits for a person, unless another cycle had listed it before.
DeadLetterEspera ==
  [][\A l \in Sozinhos : lead[l].status = "failed" /\ lead[l].prox = Nulo =>
       lead'[l].status = "failed" /\ lead'[l].tent = lead[l].tent]_vars

\* A lead on its way to the CV gets there, or is refused, or becomes a dead letter,
\* or is taken out by a person, whatever restarts and cycles overlap, unless shadow
\* mode comes.
EmCaminho(l) == \/ lead[l].status \in {"routed", "dispatching"}
                \/ lead[l].status = "failed" /\ lead[l].prox # Nulo
LeadTemDesfecho == \A l \in Leads : EmCaminho(l) ~> ~EmCaminho(l) \/ sombra
=============================================================================
