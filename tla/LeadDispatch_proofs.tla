------------------------- MODULE LeadDispatch_proofs -------------------------
(***************************************************************************)
(* The safety of LeadDispatch for every number of leads, processes, cycles *)
(* that overlap, deliveries, restarts and interventions.                   *)
(***************************************************************************)
EXTENDS LeadDispatch, TLAPS

(* Types. *)

\* A POST is an attempt: the back-off is looked up from the first on.
ProcTipo ==
  /\ proc \in [Processos -> Processo]
  /\ \A p \in Processos :
       /\ proc[p].l = Nulo <=> proc[p].pc \in {"livre", "aguarda"}
       /\ proc[p].pc \in {"envia", "voo", "entregar"} => proc[p].inst.tent >= 1
IInvTipo == TypeOK /\ ProcTipo /\ ligadas <= maos + 1

\* Nothing but p changes among the processes.
So(p) == \A q \in Processos \ {p} : proc'[q] = proc[q]
\* Nothing but l changes among the rows.
SoLinha(l) == \A m \in Leads \ {l} : lead'[m] = lead[m]

LEMMA TrocaFato ==
  ASSUME ProcTipo, NEW p \in Processos, NEW r \in Processo, proc' = [proc EXCEPT ![p] = r],
         r.l = Nulo <=> r.pc \in {"livre", "aguarda"},
         r.pc \in {"envia", "voo", "entregar"} => r.inst.tent >= 1
  PROVE  ProcTipo' /\ So(p) /\ proc'[p] = r
  BY DEF ProcTipo, So

LEMMA IrFato ==
  ASSUME ProcTipo, NEW p \in Processos, NEW pc \in Pcs \ {"livre", "aguarda"},
         NEW l \in Leads, NEW i \in Instancia, Ir(p, pc, l, i),
         pc \in {"envia", "voo", "entregar"} => i.tent >= 1
  PROVE  /\ ProcTipo' /\ So(p)
         /\ proc'[p] = [pc |-> pc, l |-> l, inst |-> i, voo |-> 0, fila |-> proc[p].fila]
<1> DEFINE r == [pc |-> pc, l |-> l, inst |-> i, voo |-> 0, fila |-> proc[p].fila]
<1>1. proc[p] \in Processo
  BY DEF ProcTipo
<1>2. r \in Processo
  BY <1>1, LeadAssumption DEF Processo
<1> QED
  BY <1>2, TrocaFato, LeadAssumption DEF ProcTipo, Ir

LEMMA EsperaFato ==
  ASSUME ProcTipo, NEW p \in Processos, NEW f \in SUBSET Leads,
         proc' = [proc EXCEPT ![p] = EmEspera(f)]
  PROVE  ProcTipo' /\ So(p) /\ proc'[p] = EmEspera(f)
<1>1. SemInst \in Instancia
  BY DEF SemInst, Instancia, Status
<1>2. EmEspera(f) \in Processo
  BY <1>1, LeadAssumption DEF Processo, Pcs, EmEspera
<1> QED
  BY <1>2, TrocaFato DEF EmEspera

LEMMA FimFato ==
  ASSUME ProcTipo, NEW p \in Processos, Fim(p)
  PROVE  ProcTipo' /\ So(p) /\ proc'[p] = EmEspera(proc[p].fila)
  BY EsperaFato DEF ProcTipo, Processo, Fim

\* Row l once instance i has saved what became of it, j.
Escrita(l, i, j) ==
  /\ lead' \in [Leads -> Lead] /\ SoLinha(l)
  /\ lead'[l].status = Campo(i.status, j.status, lead[l].status)
  /\ lead'[l].tent = Campo(i.tent, j.tent, lead[l].tent)
  /\ lead'[l].prox = Campo(i.prox, j.prox, lead[l].prox)
  /\ lead'[l].busca = Campo(i.busca, j.busca, lead[l].busca)
  /\ lead'[l].idade = 0
  /\ i.tent # j.tent => lead'[l].envio = 0

LEMMA SalvarFato ==
  ASSUME lead \in [Leads -> Lead], NEW l \in Leads, NEW i \in Instancia, NEW j \in Instancia,
         lead' = [lead EXCEPT ![l] = Salvo(l, i, j)]
  PROVE  Escrita(l, i, j)
  BY LeadAssumption DEF Lead, Instancia, Salvo, Campo, SoLinha, Escrita


LEMMA LerTipo ==
  ASSUME lead \in [Leads -> Lead], NEW l \in Leads
  PROVE  /\ Ler(l) \in Instancia
         /\ Ler(l).status = lead[l].status /\ Ler(l).tent = lead[l].tent
         /\ Ler(l).prox = lead[l].prox /\ Ler(l).busca = lead[l].busca
  BY DEF Ler, Lead, Instancia

\* What a step that leaves people, the history and the bounds alone keeps.
LEMMA TipoResto ==
  ASSUME IInvTipo, lead' \in [Leads -> Lead], ProcTipo', UNCHANGED resto
  PROVE  IInvTipo'
  BY DEF IInvTipo, TypeOK, LeadsTypeOK, ProcTipo, resto, semCv, semCiclos

LEMMA TipoDoProc ==
  ASSUME IInvTipo, NEW p \in Processos, proc[p].pc \notin {"livre", "aguarda"}
  PROVE  /\ proc[p].l \in Leads /\ proc[p].inst \in Instancia /\ proc[p].fila \subseteq Leads
         /\ proc[p].voo \in 0..TimeoutPost
         /\ ProcTipo /\ lead \in [Leads -> Lead] /\ lead[proc[p].l] \in Lead
  BY DEF IInvTipo, TypeOK, LeadsTypeOK, ProcTipo, Processo

(* The invariant, lead by lead. *)

\* p has lead l in hand: it works on the row itself, or fetches for its stub.
NaMao(p, l) ==
  /\ proc[p].l = l
  /\ \/ proc[p].pc \in {"valida", "roteia", "despacha", "retomado", "envia", "voo", "entregar"}
     \/ proc[p].pc = "graph" /\ proc[p].inst.status # "ausente"
Solto(l) == \A p \in Processos : ~NaMao(p, l)

\* One process at a time has the lead in hand.
UmSo(l) == \A p, q \in Processos : NaMao(p, l) /\ NaMao(q, l) => p = q

\* The attempts a lead may have made when it is claimed, that one included.
Folga == MaxTent + quedas + ligadas - (IF sombra THEN 1 ELSE 0)

\* What it believes of the row is so, and no query of a cycle finds the row.
Conhece(p, l) ==
  LET i == proc[p].inst
      pc == proc[p].pc
  IN /\ i.status = lead[l].status /\ i.tent = lead[l].tent /\ i.busca = lead[l].busca
     /\ i.prox = Nulo <=> lead[l].prox = Nulo
     /\ pc = "graph" => i.status = "received" /\ i.busca > 0
     /\ pc = "valida" => i.status = "received" /\ i.busca = 0
     /\ pc = "roteia" => i.status = "validated"
     /\ pc = "despacha" => i.status = "routed" /\ lead[l].idade = 0
     /\ pc = "retomado" => /\ i.status \in {"routed", "failed", "dispatching"}
                           /\ i.status = "failed" => i.prox # Nulo
     /\ pc \in {"despacha", "retomado"} => i.tent < Folga
     /\ pc \in {"envia", "voo", "entregar"} => i.status = "dispatching" /\ i.tent <= Folga
     /\ pc = "envia" => lead[l].envio = 0
     /\ pc = "voo" => lead[l].envio <= proc[p].voo
     /\ pc = "entregar" => lead[l].envio <= TimeoutPost
QuemTemConhece(l) == \A p \in Processos : NaMao(p, l) => Conhece(p, l)

\* A lead in the list of a cycle waits for it alone.
Espera(l) == /\ Solto(l)
             /\ lead[l].status \in {"dispatching", "routed", "failed"}
             /\ lead[l].status = "failed" => lead[l].prox # Nulo
             /\ lead[l].tent < Folga
SoDoCiclo(l) == \A c \in Processos : l \in proc[c].fila =>
                  Espera(l) /\ \A d \in Processos \ {c} : l \notin proc[d].fila

\* An attempt is the last one, or is owed to a restart or to shadow mode.
Contada(l) ==
  LET t == lead[l].tent
      st == lead[l].status
  IN /\ t <= MaxTent + quedas + ligadas
     /\ st \in {"ausente", "received", "validated"} => t = 0
     /\ st = "failed" /\ lead[l].prox # Nulo => t < MaxTent
     /\ st = "routed" => t < MaxTent + quedas + ligadas
     /\ st = "dispatching" => t <= Folga /\ (Solto(l) => t < Folga)

\* The CV has the lead when the row says so, or is about to.
Entregando(p, l) == proc[p].l = l /\ proc[p].pc = "entregar"
Conta(l) ==
  /\ aceitos[l] <= 1
  /\ lead[l].status = "delivered" => aceitos[l] = 1
  /\ \A p \in Processos : Entregando(p, l) => aceitos[l] = 1
  /\ aceitos[l] = 1 => \/ lead[l].status = "delivered"
                       \/ \E p \in Processos : Entregando(p, l)

Bem(l) == l \in Sozinhos =>
            /\ UmSo(l) /\ QuemTemConhece(l) /\ SoDoCiclo(l) /\ Contada(l)
            /\ l \in incerto \/ Conta(l)

\* A row that does not exist has nothing; people work on rows they
\* took in hand; shadow mode is counted.
Vazia(l) == lead[l].status = "ausente" => /\ l \in Sozinhos /\ lead[l].prox = Nulo
                                          /\ lead[l].tent = 0 /\ lead[l].busca = 0
Maos(p) == /\ proc[p].pc \in {"rota", "promove", "spam"} => proc[p].l \in manual
           /\ proc[p].pc = "livre" => proc[p].fila = {}
           /\ proc[p].pc = "graph" /\ proc[p].inst.status = "ausente" => proc[p].inst = SemInst

Sombras == sombra => ligadas >= 1

Coerente == /\ \A l \in Leads : Bem(l) /\ Vazia(l)
            /\ \A p \in Processos : Maos(p)
            /\ Sombras
IInv == IInvTipo /\ Coerente

(* What a step of one process on one lead does to the invariant. *)

\* A lead that the step does not touch.
LEMMA OutroLead ==
  ASSUME NEW l \in Leads, NEW p \in Processos, Bem(l), So(p),
         lead'[l] = lead[l], aceitos'[l] = aceitos[l],
         ~NaMao(p, l), ~NaMao(p, l)',
         l \in Sozinhos' /\ l \in proc'[p].fila =>
           l \in proc[p].fila \/ (Espera(l) /\ \A q \in Processos : l \notin proc[q].fila),
         Sozinhos' \subseteq Sozinhos, incerto \subseteq incerto', UNCHANGED <<quedas, ligadas, sombra>>
  PROVE  Bem(l)'
<1>1. SUFFICES ASSUME l \in Sozinhos' PROVE Bem(l)'
  BY DEF Bem
<1>2. l \in Sozinhos
  BY <1>1
<1>3. /\ \A q \in Processos : NaMao(q, l)' <=> NaMao(q, l)
      /\ \A q \in Processos : Entregando(q, l)' <=> Entregando(q, l)
  BY DEF So, NaMao, Entregando
<1>4. Solto(l)' <=> Solto(l)
  BY <1>3 DEF Solto
<1>5. UmSo(l)' 
  BY <1>2, <1>3 DEF Bem, UmSo
<1>6. QuemTemConhece(l)' /\ Folga' = Folga
  <2>1. Folga' = Folga
    BY DEF Folga
  <2> SUFFICES ASSUME NEW q \in Processos, NaMao(q, l)' PROVE Conhece(q, l)'
    BY <2>1 DEF QuemTemConhece
  <2>2. NaMao(q, l) /\ q # p
    BY <1>3
  <2>3. Conhece(q, l) /\ proc'[q] = proc[q]
    BY <1>2, <2>2 DEF Bem, QuemTemConhece, So
  <2> QED
    BY <2>1, <2>3 DEF Conhece
<1>7. SoDoCiclo(l)'
  <2> SUFFICES ASSUME NEW c \in Processos, l \in proc'[c].fila
               PROVE  Espera(l)' /\ \A d \in Processos \ {c} : l \notin proc'[d].fila
    BY DEF SoDoCiclo
  <2>1. \/ l \in proc[c].fila
        \/ c = p /\ Espera(l) /\ \A q \in Processos : l \notin proc[q].fila
    BY <1>1 DEF So
  <2>2. Espera(l) /\ \A d \in Processos \ {c} : l \notin proc[d].fila
    BY <1>2, <2>1 DEF Bem, SoDoCiclo
  <2>3. \A d \in Processos \ {c} : l \notin proc'[d].fila
    BY <1>1, <2>1, <2>2 DEF So
  <2> QED
    BY <1>4, <1>6, <2>2, <2>3 DEF Espera
<1>8. Contada(l)'
  BY <1>2, <1>4, <1>6 DEF Bem, Contada
<1>9. l \in incerto' \/ Conta(l)'
  BY <1>2, <1>3 DEF Bem, Conta
<1> QED
  BY <1>5, <1>6, <1>7, <1>8, <1>9 DEF Bem

\* A lead that p alone has in hand: no list holds it.
LEMMA Minha ==
  ASSUME NEW l \in Leads, NEW p \in Processos, Bem(l), l \in Sozinhos, NaMao(p, l)
  PROVE  /\ \A q \in Processos \ {p} : ~NaMao(q, l)
         /\ \A c \in Processos : l \notin proc[c].fila
         /\ Conhece(p, l) /\ Contada(l) /\ (l \in incerto \/ Conta(l))
  BY DEF Bem, UmSo, SoDoCiclo, Espera, Solto, QuemTemConhece

\* A lead that, but for p, nobody has, and p keeps, gets or leaves.
LEMMA MeuLead ==
  ASSUME NEW l \in Leads, NEW p \in Processos, So(p),
         \A q \in Processos \ {p} : ~NaMao(q, l),
         \A c \in Processos \ {p} : l \notin proc[c].fila,
         l \notin proc'[p].fila
  PROVE  /\ Solto(l)' <=> ~NaMao(p, l)'
         /\ \A q \in Processos : Entregando(q, l)' <=> q = p /\ Entregando(p, l)'
         /\ (NaMao(p, l)' => Conhece(p, l)') => UmSo(l)' /\ QuemTemConhece(l)' /\ SoDoCiclo(l)'
<1>1. \A q \in Processos : NaMao(q, l)' => q = p
  BY DEF So, NaMao
<1>2. \A q \in Processos : Entregando(q, l) => NaMao(q, l)
  BY DEF NaMao, Entregando
<1>3. \A q \in Processos : Entregando(q, l)' <=> q = p /\ Entregando(p, l)'
  BY <1>2 DEF So, Entregando
<1>4. \A c \in Processos : l \notin proc'[c].fila
  BY DEF So
<1> QED
  BY <1>1, <1>3, <1>4 DEF Solto, UmSo, QuemTemConhece, SoDoCiclo

\* Nobody moves; shadow mode may end or begin.
LEMMA LeadIgual ==
  ASSUME NEW l \in Leads, Bem(l), UNCHANGED <<proc, quedas>>, Folga <= Folga',
         Folga \in Int, Folga' \in Int, lead[l].tent \in Nat,
         ligadas <= ligadas', ligadas \in Nat, ligadas' \in Nat, quedas \in Nat,
         lead'[l] = lead[l], aceitos'[l] = aceitos[l],
         Sozinhos' \subseteq Sozinhos, incerto \subseteq incerto'
  PROVE  Bem(l)'
<1>1. SUFFICES ASSUME l \in Sozinhos' PROVE Bem(l)'
  BY DEF Bem
<1>2. l \in Sozinhos
  BY <1>1
<1>3. UmSo(l)'
  BY <1>2 DEF Bem, UmSo, NaMao
<1>4. QuemTemConhece(l)'
  <2> SUFFICES ASSUME NEW q \in Processos, NaMao(q, l)' PROVE Conhece(q, l)'
    BY DEF QuemTemConhece
  <2>1. Conhece(q, l) /\ UNCHANGED proc
    BY <1>2 DEF Bem, QuemTemConhece, NaMao
  <2> HIDE DEF Folga
  <2> QED
    BY <2>1 DEF Conhece
<1>5. SoDoCiclo(l)'
  BY <1>2 DEF Bem, SoDoCiclo, Espera, Solto, NaMao
<1>6. Contada(l)'
  BY <1>2, LeadAssumption DEF Bem, Contada, Solto, NaMao
<1>7. l \in incerto' \/ Conta(l)'
  BY <1>2 DEF Bem, Conta, Entregando
<1> QED
  BY <1>3, <1>4, <1>5, <1>6, <1>7 DEF Bem

\* One process, one lead: the rest of the invariant looks on.
LEMMA UmPasso ==
  ASSUME IInv, NEW p \in Processos, NEW l \in Leads, So(p), SoLinha(l),
         \A m \in Leads \ {l} : aceitos'[m] = aceitos[m],
         Sozinhos' \subseteq Sozinhos, Sozinhos \subseteq Sozinhos' \cup {l}, manual \subseteq manual',
         incerto \subseteq incerto', UNCHANGED <<quedas, ligadas, sombra>>,
         proc[p].l \in {l, Nulo}, proc'[p].l \in {l, Nulo}, proc'[p].fila \subseteq proc[p].fila,
         Bem(l)', Vazia(l)', Maos(p)'
  PROVE  Coerente'
<1>1. ASSUME NEW m \in Leads \ {l} PROVE Bem(m)' /\ Vazia(m)'
  <2>1. ~NaMao(p, m) /\ ~NaMao(p, m)'
    BY LeadAssumption DEF NaMao
  <2>2. lead'[m] = lead[m] /\ Bem(m) /\ Vazia(m)
    BY DEF SoLinha, IInv, Coerente
  <2>3. Bem(m)'
    BY <2>1, <2>2, OutroLead
  <2>4. m \in Sozinhos => m \in Sozinhos'
    OBVIOUS
  <2> QED
    BY <2>2, <2>3, <2>4 DEF Vazia
<1>2. ASSUME NEW q \in Processos PROVE Maos(q)'
  <2>1. CASE q = p
    BY <2>1
  <2>2. CASE q # p
    BY <2>2 DEF So, IInv, Coerente, Maos
  <2> QED
    BY <2>1, <2>2
<1>3. Sombras'
  BY DEF IInv, Coerente, Sombras
<1> QED
  BY <1>1, <1>2, <1>3 DEF Coerente

LEMMA Presente ==
  ASSUME IInv, NEW p \in Processos,
         \/ proc[p].pc \in Pcs \ {"livre", "aguarda", "graph"}
         \/ proc[p].pc = "graph" /\ proc[p].inst.status # "ausente"
  PROVE  /\ proc[p].l \in Leads /\ lead[proc[p].l].status # "ausente"
         /\ proc[p].l \in Sozinhos =>
              /\ NaMao(p, proc[p].l) /\ Conhece(p, proc[p].l) /\ Contada(proc[p].l)
              /\ proc[p].l \in incerto \/ Conta(proc[p].l)
              /\ \A q \in Processos \ {p} : ~NaMao(q, proc[p].l)
              /\ \A c \in Processos : proc[p].l \notin proc[c].fila
<1> DEFINE l == proc[p].l
<1>1. l \in Leads /\ Bem(l) /\ Vazia(l) /\ Maos(p)
  BY TipoDoProc DEF IInv, Coerente
<1>2. CASE l \notin Sozinhos
  BY <1>1, <1>2 DEF Vazia
<1>3. CASE l \in Sozinhos
  <2>1. NaMao(p, l)
    BY <1>1, <1>3 DEF Maos, NaMao, Pcs, Sozinhos
  <2>2. Conhece(p, l)
    BY <1>1, <1>3, <2>1, Minha
  <2>3. lead[l].status # "ausente"
    BY <2>1, <2>2 DEF Conhece, NaMao
  <2> QED
    BY <1>1, <1>3, <2>1, <2>3, Minha
<1> QED
  BY <1>2, <1>3

\* What save() writes when the instance is true to the row.
LEMMA SalvarCerto ==
  ASSUME IInv, NEW p \in Processos, NEW l \in Leads, proc[p].l = l,
         proc[p].pc \notin {"livre", "aguarda"},
         NEW j \in Instancia, Salvar(p, j)
  PROVE  /\ lead' \in [Leads -> Lead] /\ SoLinha(l)
         /\ lead'[l].status \in {j.status, lead[l].status}
         /\ lead'[l].idade = 0
         /\ Conhece(p, l) =>
              /\ lead'[l].status = j.status /\ lead'[l].tent = j.tent
              /\ lead'[l].busca = j.busca
              /\ lead'[l].prox = Nulo <=> j.prox = Nulo
              /\ j.tent # proc[p].inst.tent => lead'[l].envio = 0
<1>1. l \in Leads /\ proc[p].inst \in Instancia /\ lead \in [Leads -> Lead]
  BY TipoDoProc DEF IInv
<1>2. lead' = [lead EXCEPT ![l] = Salvo(l, proc[p].inst, j)]
  BY DEF Salvar
<1>3. Escrita(l, proc[p].inst, j)
  BY <1>1, <1>2, SalvarFato
<1> QED
  BY <1>3 DEF Escrita, Campo, Conhece

\* p ends with its lead after a save.
LEMMA Termina ==
  ASSUME IInv, NEW p \in Processos, NEW l \in Leads, proc[p].l = l,
         proc[p].pc \in Pcs \ {"livre", "aguarda"},
         proc[p].pc = "graph" => proc[p].inst.status # "ausente",
         NEW j \in Instancia, j.status # "ausente", Salvar(p, j), Fim(p), UNCHANGED semCv,
         \A m \in Leads \ {l} : aceitos'[m] = aceitos[m],
         incerto \subseteq incerto',
         l \in Sozinhos =>
           /\ Contada(l)' /\ lead'[l].status # "dispatching"
           /\ \/ l \in incerto'
              \/ /\ aceitos'[l] <= 1
                 /\ aceitos'[l] = 1 <=> lead'[l].status = "delivered"
  PROVE  /\ lead' \in [Leads -> Lead] /\ ProcTipo' /\ Coerente'
<1>1. /\ l \in Leads /\ lead[l].status # "ausente" /\ ProcTipo /\ proc[p].fila \subseteq Leads
      /\ l \in Sozinhos =>
              /\ NaMao(p, l)
              /\ \A q \in Processos \ {p} : ~NaMao(q, l)
              /\ \A c \in Processos : l \notin proc[c].fila
  BY Presente, TipoDoProc DEF IInv
<1>2. ProcTipo' /\ So(p) /\ proc'[p] = EmEspera(proc[p].fila)
  BY <1>1, FimFato
<1>3. /\ lead' \in [Leads -> Lead] /\ SoLinha(l)
      /\ lead'[l].status \in {j.status, lead[l].status}
  BY SalvarCerto
<1>4. ~NaMao(p, l)' /\ ~Entregando(p, l)' /\ proc'[p].l = Nulo /\ proc'[p].fila = proc[p].fila
      /\ Maos(p)'
  BY <1>1, <1>2, LeadAssumption DEF NaMao, Entregando, EmEspera, Maos
<1>5. Bem(l)'
  <2>1. SUFFICES ASSUME l \in Sozinhos' PROVE Bem(l)'
    BY DEF Bem
  <2>2. l \in Sozinhos
    BY <2>1 DEF semCv, semCiclos, Sozinhos
  <2>3. /\ \A q \in Processos : Entregando(q, l)' <=> q = p /\ Entregando(p, l)'
        /\ UmSo(l)' /\ QuemTemConhece(l)' /\ SoDoCiclo(l)'
    BY <1>1, <1>2, <1>4, <2>2, MeuLead
  <2>4. l \in incerto' \/ Conta(l)'
    BY <1>4, <2>2, <2>3 DEF Conta
  <2> QED
    BY <2>2, <2>3, <2>4 DEF Bem
<1>6. Vazia(l)'
  BY <1>1, <1>3 DEF Vazia
<1>7. Coerente'
  BY <1>1, <1>2, <1>3, <1>4, <1>5, <1>6, UmPasso DEF semCv, semCiclos, Sozinhos
<1> QED
  BY <1>2, <1>3, <1>7

\* p goes on with its lead after a save.
LEMMA Continua ==
  ASSUME IInv, NEW p \in Processos, NEW l \in Leads, proc[p].l = l,
         proc[p].pc \in Pcs \ {"livre", "aguarda"},
         proc[p].pc = "graph" => proc[p].inst.status # "ausente",
         NEW j \in Instancia, j.status # "ausente", Salvar(p, j),
         NEW pc \in {"valida", "roteia", "despacha", "envia"},
         Ir(p, pc, l, j), pc = "envia" => j.tent >= 1, UNCHANGED resto,
         l \in Sozinhos =>
           /\ Conhece(p, l)' /\ Contada(l)'
           /\ l \in incerto \/ aceitos[l] = 0
           /\ lead'[l].status # "delivered"
  PROVE  /\ lead' \in [Leads -> Lead] /\ ProcTipo' /\ Coerente'
<1>1. /\ l \in Leads /\ lead[l].status # "ausente" /\ ProcTipo /\ proc[p].fila \subseteq Leads
      /\ l \in Sozinhos =>
              /\ NaMao(p, l)
              /\ \A q \in Processos \ {p} : ~NaMao(q, l)
              /\ \A c \in Processos : l \notin proc[c].fila
  BY Presente, TipoDoProc DEF IInv
<1>2. /\ ProcTipo' /\ So(p)
      /\ proc'[p] = [pc |-> pc, l |-> l, inst |-> j, voo |-> 0, fila |-> proc[p].fila]
  BY <1>1, IrFato DEF Pcs
<1>3. /\ lead' \in [Leads -> Lead] /\ SoLinha(l)
      /\ lead'[l].status \in {j.status, lead[l].status}
  BY SalvarCerto
<1>4. ~Entregando(p, l)' /\ proc'[p].l = l /\ proc'[p].fila = proc[p].fila /\ Maos(p)'
  BY <1>2 DEF Entregando, Maos
<1>5. Bem(l)'
  <2>1. SUFFICES ASSUME l \in Sozinhos' PROVE Bem(l)'
    BY DEF Bem
  <2>2. l \in Sozinhos
    BY <2>1 DEF resto, semCv, semCiclos, Sozinhos
  <2>3. /\ \A q \in Processos : Entregando(q, l)' <=> q = p /\ Entregando(p, l)'
        /\ UmSo(l)' /\ QuemTemConhece(l)' /\ SoDoCiclo(l)'
    BY <1>1, <1>2, <1>4, <2>2, MeuLead
  <2>4. l \in incerto' \/ Conta(l)'
    BY <1>4, <2>2, <2>3 DEF Conta, resto
  <2> QED
    BY <2>2, <2>3, <2>4 DEF Bem
<1>6. Vazia(l)'
  BY <1>1, <1>3 DEF Vazia
<1>7. Coerente'
  BY <1>1, <1>2, <1>3, <1>4, <1>5, <1>6, UmPasso DEF resto, semCv, semCiclos, Sozinhos
<1> QED
  BY <1>2, <1>3, <1>7

\* The attempts left are retry_max_attempts or more.
LEMMA Somas ==
  ASSUME IInv
  PROVE  /\ quedas \in Nat /\ ligadas \in Nat /\ Folga \in Nat
         /\ MaxTent <= Folga /\ Folga <= MaxTent + quedas + ligadas
<1>1. quedas \in Nat /\ ligadas \in Nat /\ MaxTent \in Nat /\ sombra \in BOOLEAN
      /\ (sombra => ligadas >= 1)
  BY LimitesAssumption, LeadAssumption
     DEF IInv, IInvTipo, TypeOK, LeadsTypeOK, Coerente, Sombras
<1> QED
  BY <1>1 DEF Folga

\* Before its acceptance is heard of, a lead in hand has not been taken.
LEMMA Contagem ==
  ASSUME IInv, NEW p \in Processos, NEW l \in Leads, proc[p].l = l, l \in Sozinhos,
         \/ proc[p].pc \in Pcs \ {"livre", "aguarda", "graph"}
         \/ proc[p].pc = "graph" /\ proc[p].inst.status # "ausente"
  PROVE  /\ Conhece(p, l) /\ Contada(l)
         /\ lead[l].tent \in Nat /\ quedas \in Nat /\ aceitos[l] \in 0..2
         /\ ligadas \in Nat /\ Folga \in Nat /\ MaxTent <= Folga /\ Folga <= MaxTent + quedas + ligadas
         /\ \/ l \in incerto
            \/ aceitos[l] = IF proc[p].pc = "entregar" THEN 1 ELSE 0
<1>1. /\ NaMao(p, l) /\ Conhece(p, l) /\ Contada(l)
      /\ l \in incerto \/ Conta(l)
      /\ \A q \in Processos \ {p} : ~NaMao(q, l)
  BY Presente
<1>2. /\ lead[l].tent \in Nat /\ quedas \in Nat /\ aceitos[l] \in 0..2
      /\ ligadas \in Nat /\ Folga \in Nat /\ MaxTent <= Folga /\ Folga <= MaxTent + quedas + ligadas
  BY Somas, LimitesAssumption DEF IInv, IInvTipo, TypeOK, LeadsTypeOK, Lead
<1>3. lead[l].status # "delivered" 
  BY <1>1 DEF Conhece, NaMao
<1>4. \A q \in Processos : Entregando(q, l) => q = p /\ proc[p].pc = "entregar"
  BY <1>1 DEF Entregando, NaMao
<1>5. proc[p].pc = "entregar" => Entregando(p, l)
  BY DEF Entregando
<1> QED
  BY <1>1, <1>2, <1>3, <1>4, <1>5 DEF Conta

LEMMA StatusTipo ==
  ASSUME NEW i \in Instancia, NEW st \in Status
  PROVE  /\ [i EXCEPT !.status = st] \in Instancia
         /\ [i EXCEPT !.status = st].status = st /\ [i EXCEPT !.status = st].tent = i.tent
         /\ [i EXCEPT !.status = st].prox = i.prox /\ [i EXCEPT !.status = st].busca = i.busca
  BY DEF Instancia

(* Capture. *)

LEMMA SegueStatus ==
  ASSUME IInv, NEW p \in Processos, NEW l \in Leads, proc[p].l = l,
         NEW st \in Status, NEW pc \in {"roteia", "despacha"}, UNCHANGED resto,
         \/ proc[p].pc = "valida" /\ pc = "roteia" /\ st = "validated"
         \/ proc[p].pc = "roteia" /\ pc = "despacha" /\ st = "routed",
         Salvar(p, [proc[p].inst EXCEPT !.status = st]),
         Ir(p, pc, l, [proc[p].inst EXCEPT !.status = st])
  PROVE  IInv'
<1> DEFINE j == [proc[p].inst EXCEPT !.status = st]
<1>1. /\ IInvTipo /\ proc[p].inst \in Instancia /\ ProcTipo
      /\ proc[p].pc \in Pcs \ {"livre", "aguarda", "graph"}
  BY TipoDoProc DEF IInv, Pcs
<1>2. /\ j \in Instancia /\ j.status = st /\ j.tent = proc[p].inst.tent
      /\ j.prox = proc[p].inst.prox /\ j.busca = proc[p].inst.busca
  BY <1>1, StatusTipo
<1> HIDE DEF j
<1>3. /\ lead' \in [Leads -> Lead] /\ lead'[l].idade = 0
      /\ Conhece(p, l) =>
              /\ lead'[l].status = j.status /\ lead'[l].tent = j.tent
              /\ lead'[l].busca = j.busca
              /\ lead'[l].prox = Nulo <=> j.prox = Nulo
  BY <1>1, <1>2, SalvarCerto DEF j
<1>4. proc'[p] = [pc |-> pc, l |-> l, inst |-> j, voo |-> 0, fila |-> proc[p].fila]
  BY <1>1, <1>2, IrFato DEF j, Pcs
<1>5. ASSUME l \in Sozinhos
      PROVE  /\ Conhece(p, l)' /\ Contada(l)'
             /\ l \in incerto \/ aceitos[l] = 0
             /\ lead'[l].status # "delivered"
  <2>1. /\ Conhece(p, l) /\ Contada(l)
        /\ lead[l].tent \in Nat /\ quedas \in Nat
        /\ l \in incerto \/ aceitos[l] = 0
    BY <1>1, <1>5, Contagem
  <2>2. /\ lead'[l].status = st /\ lead'[l].tent = lead[l].tent /\ lead[l].tent = 0
        /\ proc'[p].inst = j /\ proc'[p].pc = pc
    BY <1>2, <1>3, <1>4, <2>1 DEF Conhece, Contada
  <2>3. UNCHANGED <<quedas, ligadas>> /\ Folga' = Folga
    BY DEF Folga, resto, semCv, semCiclos
  <2>4. ligadas \in Nat /\ lead[l].tent < Folga /\ MaxTent \in Nat \ {0}
    BY <2>2, Somas, LeadAssumption
  <2>5. Conhece(p, l)'
    BY <1>2, <1>3, <2>1, <2>2, <2>3, <2>4 DEF Conhece
  <2>6. Contada(l)'
    BY <2>1, <2>2, <2>3, <2>4 DEF Contada
  <2> QED
    BY <2>1, <2>2, <2>5, <2>6
<1>6. ProcTipo' /\ Coerente'
  BY <1>1, <1>2, <1>5, Continua DEF j
<1> QED
  BY <1>1, <1>3, <1>6, TipoResto DEF IInv

\* A save that ends with the lead, whatever came of it.
LEMMA Para ==
  ASSUME IInv, NEW p \in Processos, NEW l \in Leads, proc[p].l = l,
         \/ proc[p].pc \in Pcs \ {"livre", "aguarda", "graph"}
         \/ proc[p].pc = "graph" /\ proc[p].inst.status # "ausente",
         NEW j \in Instancia, j.status \notin {"ausente", "dispatching"},
         j.tent = proc[p].inst.tent, Salvar(p, j), Fim(p), UNCHANGED semCv,
         \A m \in Leads \ {l} : aceitos'[m] = aceitos[m], incerto \subseteq incerto',
         l \in Sozinhos /\ Conhece(p, l) =>
           /\ j.status \in {"received", "validated"} => lead[l].tent = 0
           /\ j.status = "failed" /\ j.prox # Nulo => lead[l].tent < MaxTent
           /\ j.status = "routed" => lead[l].tent < MaxTent + quedas + ligadas
           /\ l \in incerto' \/ aceitos'[l] = IF j.status = "delivered" THEN 1 ELSE 0
  PROVE  lead' \in [Leads -> Lead] /\ ProcTipo' /\ Coerente'
<1>1. /\ lead' \in [Leads -> Lead]
      /\ Conhece(p, l) => /\ lead'[l].status = j.status /\ lead'[l].tent = j.tent
                          /\ lead'[l].prox = Nulo <=> j.prox = Nulo
  BY SalvarCerto
<1>2. ASSUME l \in Sozinhos
      PROVE  /\ Contada(l)' /\ lead'[l].status # "dispatching"
             /\ \/ l \in incerto'
                \/ /\ aceitos'[l] <= 1
                   /\ aceitos'[l] = 1 <=> lead'[l].status = "delivered"
  <2>1. Conhece(p, l) /\ Contada(l) /\ lead[l].tent \in Nat /\ quedas \in Nat
    BY <1>2, Contagem
  <2>2. lead'[l].status = j.status /\ lead'[l].tent = lead[l].tent
    BY <1>1, <2>1 DEF Conhece
  <2>3. Contada(l)'
    BY <1>1, <1>2, <2>1, <2>2 DEF Contada, semCv, semCiclos
  <2> QED
    BY <1>2, <2>1, <2>2, <2>3
<1>3. proc[p].pc \in Pcs \ {"livre", "aguarda"}
  BY DEF Pcs
<1>4. ProcTipo' /\ Coerente'
  BY <1>2, <1>3, Termina
<1> QED
  BY <1>1, <1>4

LEMMA ParaStatus ==
  ASSUME IInv, NEW p \in Processos, proc[p].pc \in {"valida", "roteia"},
         NEW st \in {"spam", "held"}, UNCHANGED resto,
         Salvar(p, [proc[p].inst EXCEPT !.status = st]), Fim(p)
  PROVE  IInv'
<1> DEFINE j == [proc[p].inst EXCEPT !.status = st]
<1>1. /\ IInvTipo /\ proc[p].inst \in Instancia /\ proc[p].l \in Leads
      /\ proc[p].pc \in Pcs \ {"livre", "aguarda", "graph"} /\ proc[p].pc # "entregar"
  BY TipoDoProc DEF IInv, Pcs
<1>2. PICK l \in Leads : proc[p].l = l
  BY <1>1
<1>3. st \in Status
  BY DEF Status
<1>4. j \in Instancia /\ j.status = st /\ j.tent = proc[p].inst.tent
  BY <1>1, <1>3, StatusTipo
<1> HIDE DEF j
<1>5. Salvar(p, j) /\ UNCHANGED <<semCv, aceitos, incerto>>
  BY DEF resto, j
<1>6. l \in Sozinhos => l \in incerto \/ aceitos[l] = 0
  BY <1>1, <1>2, Contagem
<1>7. lead' \in [Leads -> Lead] /\ ProcTipo' /\ Coerente'
  BY <1>1, <1>2, <1>4, <1>5, <1>6, Para
<1> QED
  BY <1>1, <1>7, TipoResto DEF IInv

LEMMA ValidarInv == ASSUME IInv, NEW p \in Processos, Validar(p) PROVE IInv'
<1>1. proc[p].l \in Leads
  BY TipoDoProc DEF IInv, Validar
<1>2. PICK bom \in BOOLEAN :
        LET j == [proc[p].inst EXCEPT !.status = IF bom THEN "validated" ELSE "spam"]
        IN  /\ Salvar(p, j)
            /\ IF bom THEN Ir(p, "roteia", proc[p].l, j)
                    ELSE Fim(p)
  BY DEF Validar
<1>3. proc[p].pc = "valida" /\ UNCHANGED resto
  BY DEF Validar
<1>4. CASE bom
  BY <1>1, <1>2, <1>3, <1>4, SegueStatus DEF Status
<1>5. CASE ~bom
  BY <1>1, <1>2, <1>3, <1>5, ParaStatus
<1> QED
  BY <1>4, <1>5

LEMMA RotearInv == ASSUME IInv, NEW p \in Processos, Rotear(p) PROVE IInv'
<1>1. proc[p].l \in Leads
  BY TipoDoProc DEF IInv, Rotear
<1>2. PICK mapeado \in BOOLEAN :
        LET j == [proc[p].inst EXCEPT !.status = IF mapeado THEN "routed" ELSE "held"]
        IN  /\ Salvar(p, j)
            /\ IF mapeado THEN Ir(p, "despacha", proc[p].l, j)
                        ELSE Fim(p)
  BY DEF Rotear
<1>3. proc[p].pc = "roteia" /\ UNCHANGED resto
  BY DEF Rotear
<1>4. CASE mapeado
  BY <1>1, <1>2, <1>3, <1>4, SegueStatus DEF Status
<1>5. CASE ~mapeado
  BY <1>1, <1>2, <1>3, <1>5, ParaStatus
<1> QED
  BY <1>4, <1>5

(* Dispatch. *)

LEMMA SombrearInv == ASSUME IInv, NEW p \in Processos, Sombrear(p) PROVE IInv'
<1> DEFINE j == [proc[p].inst EXCEPT !.status = "routed"]
<1>1. /\ IInvTipo /\ proc[p].inst \in Instancia /\ proc[p].l \in Leads
      /\ proc[p].pc = "envia" /\ proc[p].pc \in Pcs \ {"livre", "aguarda", "graph"}
  BY TipoDoProc DEF IInv, Pcs, Sombrear
<1>2. PICK l \in Leads : proc[p].l = l
  BY <1>1
<1>3. j \in Instancia /\ j.status = "routed" /\ j.tent = proc[p].inst.tent
  <2>1. "routed" \in Status
    BY DEF Status
  <2> QED
    BY <1>1, <2>1, StatusTipo
<1> HIDE DEF j
<1>4. Salvar(p, j) /\ Fim(p) /\ UNCHANGED <<semCv, aceitos, incerto>> /\ sombra
  BY DEF Sombrear, resto, j
<1>5. l \in Sozinhos => /\ l \in incerto \/ aceitos[l] = 0
                        /\ lead[l].tent < MaxTent + quedas + ligadas
  BY <1>1, <1>2, <1>4, Contagem, LeadAssumption DEF Conhece, Folga
<1>6. lead' \in [Leads -> Lead] /\ ProcTipo' /\ Coerente'
  BY <1>1, <1>2, <1>3, <1>4, <1>5, Para
<1> QED
  BY <1>1, <1>4, <1>6, TipoResto DEF IInv, resto

\* The outcomes of a POST: the row, the processes and the rest.
LEMMA DesfechoInv ==
  ASSUME IInv, NEW p \in Processos, NEW l \in Leads, proc[p].l = l,
         proc[p].pc \in {"voo", "entregar"},
         NEW st \in {"delivered", "rejected", "failed"}, NEW px \in Nat \cup {Nulo},
         Salvar(p, Com(proc[p].inst, st, px)), Fim(p), UNCHANGED semCv,
         \/ UNCHANGED <<aceitos, incerto>> /\ (st = "delivered" <=> proc[p].pc = "entregar")
         \/ aceitos' \in {Aceito(l), aceitos} /\ incerto' = incerto \cup {l},
         st = "failed" /\ px # Nulo => proc[p].inst.tent < MaxTent
  PROVE  IInv'
<1> DEFINE j == Com(proc[p].inst, st, px)
<1>1. /\ IInvTipo /\ proc[p].inst \in Instancia
      /\ proc[p].pc \in Pcs \ {"livre", "aguarda", "graph"}
  BY TipoDoProc DEF IInv, Pcs
<1>2. st \in Status
  BY DEF Status
<1>3. j \in Instancia /\ j.status = st /\ j.tent = proc[p].inst.tent /\ j.prox = px
  BY <1>1, <1>2 DEF Com, Instancia
<1> HIDE DEF j
<1>4. Salvar(p, j) /\ Fim(p) /\ j.status \notin {"ausente", "dispatching"}
  BY <1>3 DEF j
<1>5. aceitos \in [Leads -> 0..2] /\ incerto \subseteq Leads
  BY <1>1 DEF IInvTipo, TypeOK, LeadsTypeOK
<1>6. /\ aceitos' \in [Leads -> 0..2] /\ incerto' \subseteq Leads
      /\ \A m \in Leads \ {l} : aceitos'[m] = aceitos[m]
      /\ incerto \subseteq incerto'
  BY <1>5 DEF Aceito
<1>7. l \in Sozinhos /\ Conhece(p, l) =>
        /\ l \in incerto' \/ aceitos'[l] = IF j.status = "delivered" THEN 1 ELSE 0
        /\ lead[l].tent = proc[p].inst.tent
  BY <1>1, <1>3, Contagem DEF Conhece
<1>8. lead' \in [Leads -> Lead] /\ ProcTipo' /\ Coerente'
  BY <1>1, <1>3, <1>4, <1>6, <1>7, Para
<1>9. IInvTipo'
  BY <1>1, <1>6, <1>8 DEF IInvTipo, TypeOK, LeadsTypeOK, ProcTipo, semCv, semCiclos
<1> QED
  BY <1>8, <1>9 DEF IInv

LEMMA MarcarEntregueInv == ASSUME IInv, NEW p \in Processos, MarcarEntregue(p) PROVE IInv'
<1>1. proc[p].l \in Leads /\ proc[p].pc = "entregar"
  BY TipoDoProc DEF IInv, MarcarEntregue
<1>2. Salvar(p, Com(proc[p].inst, "delivered", Nulo)) /\ Fim(p) /\ UNCHANGED <<semCv, aceitos, incerto>>
  BY DEF MarcarEntregue, resto
<1> QED
  BY <1>1, <1>2, DesfechoInv

LEMMA RejeitarInv == ASSUME IInv, NEW p \in Processos, Rejeitar(p) PROVE IInv'
<1>1. proc[p].l \in Leads /\ proc[p].pc = "voo"
  BY TipoDoProc DEF IInv, Rejeitar, Posta
<1>2. Salvar(p, Com(proc[p].inst, "rejected", Nulo)) /\ Fim(p) /\ UNCHANGED <<semCv, aceitos, incerto>>
  BY DEF Rejeitar, resto
<1> QED
  BY <1>1, <1>2, DesfechoInv

LEMMA FalharInv ==
  ASSUME IInv, NEW p \in Processos, Falhar(p) \/ PerderEntrega(p)
  PROVE  IInv'
<1> DEFINE i == proc[p].inst
           px == IF i.tent >= MaxTent THEN Nulo ELSE Backoff[i.tent]
<1>1. /\ proc[p].l \in Leads /\ proc[p].pc \in {"voo", "entregar"}
      /\ i \in Instancia /\ i.tent >= 1 /\ i.tent \in Nat
  BY TipoDoProc DEF IInv, Falhar, PerderEntrega, Posta, ProcTipo, Instancia
<1>2. /\ Salvar(p, Com(i, "failed", px)) /\ Fim(p) /\ UNCHANGED semCv
      /\ \/ UNCHANGED <<aceitos, incerto>> /\ proc[p].pc = "voo"
         \/ aceitos' \in {Aceito(proc[p].l), aceitos} /\ incerto' = incerto \cup {proc[p].l}
  BY DEF Falhar, PerderEntrega, FalhaDe, Posta
<1>3. px \in Nat \cup {Nulo} /\ (px # Nulo => i.tent < MaxTent)
  BY <1>1, LeadAssumption
<1> HIDE DEF px
<1> QED
  BY <1>1, <1>2, <1>3, DesfechoInv

LEMMA AceitarInv == ASSUME IInv, NEW p \in Processos, Aceitar(p) PROVE IInv'
<1>1. /\ IInvTipo /\ ProcTipo /\ proc[p].l \in Leads /\ proc[p].inst \in Instancia
      /\ proc[p].pc = "voo" /\ proc[p].pc \in Pcs \ {"livre", "aguarda", "graph"}
      /\ proc[p].voo \in 0..TimeoutPost /\ proc[p].inst.tent >= 1
  BY TipoDoProc DEF IInv, Pcs, Aceitar, Posta, ProcTipo
<1>2. PICK l \in Leads : proc[p].l = l
  BY <1>1
<1>3. /\ aceitos' = Aceito(l) /\ Ir(p, "entregar", l, proc[p].inst)
      /\ UNCHANGED <<lead, incerto, sombra, quedas, ligadas, manual, cruzes>>
  BY <1>2 DEF Aceitar, semCv, semCiclos
<1>4. /\ ProcTipo' /\ So(p)
      /\ proc'[p] = [pc |-> "entregar", l |-> l, inst |-> proc[p].inst, voo |-> 0,
                     fila |-> proc[p].fila]
  BY <1>1, <1>3, IrFato DEF Pcs
<1>5. aceitos \in [Leads -> 0..2] /\ aceitos' \in [Leads -> 0..2]
      /\ \A m \in Leads \ {l} : aceitos'[m] = aceitos[m]
  BY <1>1, <1>3 DEF Aceito, IInvTipo, TypeOK, LeadsTypeOK
<1>6. IInvTipo'
  BY <1>1, <1>3, <1>4, <1>5 DEF IInvTipo, TypeOK, LeadsTypeOK, ProcTipo, Aceitar, semCv, semCiclos
<1>7. Bem(l)'
  <2>1. SUFFICES ASSUME l \in Sozinhos' PROVE Bem(l)'
    BY DEF Bem
  <2>2. l \in Sozinhos
    BY <1>3, <2>1 DEF Sozinhos
  <2>3. /\ Conhece(p, l) /\ Contada(l) /\ lead[l].tent \in Nat /\ quedas \in Nat
        /\ l \in incerto \/ aceitos[l] = 0
    BY <1>1, <1>2, <2>2, Contagem
  <2>4. /\ \A q \in Processos \ {p} : ~NaMao(q, l)
        /\ \A c \in Processos : l \notin proc[c].fila
        /\ NaMao(p, l) /\ NaMao(p, l)' /\ Entregando(p, l)'
    BY <1>1, <1>2, <1>4, <2>2, Presente DEF NaMao, Entregando
  <2>5. lead[l].envio <= TimeoutPost
    BY <1>1, <1>2, <2>3, LeadAssumption DEF Conhece, IInvTipo, TypeOK, LeadsTypeOK, Lead
  <2>6. Conhece(p, l)' /\ Folga' = Folga
    <3>1. Folga' = Folga
      BY <1>3 DEF Folga
    <3> QED
      BY <1>1, <1>2, <1>3, <1>4, <2>3, <2>5, <3>1 DEF Conhece
  <2>7. /\ Solto(l)' <=> ~NaMao(p, l)'
        /\ \A q \in Processos : Entregando(q, l)' <=> q = p /\ Entregando(p, l)'
        /\ UmSo(l)' /\ QuemTemConhece(l)' /\ SoDoCiclo(l)'
    BY <1>4, <2>4, <2>6, MeuLead
  <2>8. Contada(l)'
    BY <1>3, <2>3, <2>4, <2>6, <2>7 DEF Contada
  <2>9. l \in incerto' \/ Conta(l)'
    <3>1. l \in incerto \/ aceitos'[l] = 1
      BY <1>3, <1>5, <2>3 DEF Aceito
    <3> QED
      BY <1>3, <2>4, <2>7, <3>1 DEF Conta
  <2> QED
    BY <2>7, <2>8, <2>9 DEF Bem
<1>8. Vazia(l)' /\ Maos(p)'
  BY <1>1, <1>2, <1>3, <1>4, Presente DEF Vazia, Maos
<1>9. Coerente'
  BY <1>2, <1>3, <1>4, <1>5, <1>7, <1>8, UmPasso DEF SoLinha, Sozinhos
<1> QED
  BY <1>6, <1>9 DEF IInv

LEMMA ReivindicarInv == ASSUME IInv, NEW p \in Processos, Reivindicar(p) PROVE IInv'
<1> DEFINE i == proc[p].inst
           c == Com(i, "dispatching", i.prox)
           j == [c EXCEPT !.tent = i.tent + 1]
<1>1. /\ IInvTipo /\ ProcTipo /\ proc[p].l \in Leads /\ i \in Instancia
      /\ i.tent \in Nat /\ i.prox \in Nat \cup {Nulo}
      /\ proc[p].pc \in {"despacha", "retomado"}
      /\ proc[p].pc \in Pcs \ {"livre", "aguarda", "graph"}
  BY TipoDoProc DEF IInv, Pcs, Reivindicar, Instancia
<1>2. PICK l \in Leads : proc[p].l = l
  BY <1>1
<1>3. Salvar(p, j) /\ Ir(p, "envia", l, j) /\ UNCHANGED resto
  BY <1>2 DEF Reivindicar
<1>4. /\ j \in Instancia /\ j.status = "dispatching" /\ j.tent = i.tent + 1
      /\ j.prox = i.prox /\ j.busca = i.busca
  <2>1. "dispatching" \in Status
    BY DEF Status
  <2>2. /\ c \in Instancia /\ c.status = "dispatching" /\ c.prox = i.prox /\ c.busca = i.busca
    BY <1>1, <2>1 DEF Com, Instancia
  <2> HIDE DEF c
  <2> QED
    BY <1>1, <2>2 DEF Instancia
<1> HIDE DEF j, c
<1>5. /\ lead' \in [Leads -> Lead]
      /\ Conhece(p, l) =>
              /\ lead'[l].status = j.status /\ lead'[l].tent = j.tent
              /\ lead'[l].busca = j.busca
              /\ lead'[l].prox = Nulo <=> j.prox = Nulo
              /\ j.tent # i.tent => lead'[l].envio = 0
  BY <1>1, <1>2, <1>3, <1>4, SalvarCerto
<1>6. proc'[p] = [pc |-> "envia", l |-> l, inst |-> j, voo |-> 0, fila |-> proc[p].fila]
  BY <1>1, <1>3, <1>4, IrFato DEF Pcs
<1>7. ASSUME l \in Sozinhos
      PROVE  /\ Conhece(p, l)' /\ Contada(l)'
             /\ l \in incerto \/ aceitos[l] = 0
             /\ lead'[l].status # "delivered"
  <2>1. /\ Conhece(p, l) /\ Contada(l) /\ lead[l].tent \in Nat
        /\ quedas \in Nat /\ ligadas \in Nat
        /\ Folga \in Nat /\ Folga <= MaxTent + quedas + ligadas
        /\ l \in incerto \/ aceitos[l] = 0
    BY <1>1, <1>2, <1>7, Contagem
  <2>2. /\ lead'[l].status = "dispatching" /\ lead'[l].tent = lead[l].tent + 1
        /\ lead'[l].envio = 0 /\ NaMao(p, l)'
        /\ lead[l].tent < Folga
    BY <1>1, <1>4, <1>5, <1>6, <2>1 DEF Conhece, NaMao
  <2>3. Conhece(p, l)' /\ Folga' = Folga
    <3>1. Folga' = Folga
      BY <1>3 DEF Folga, resto, semCv, semCiclos
    <3> QED
      BY <1>4, <1>5, <1>6, <2>1, <2>2, <3>1 DEF Conhece
  <2>4. Contada(l)'
    <3>1. ~Solto(l)'
      BY <2>2 DEF Solto
    <3>2. UNCHANGED <<quedas, ligadas>> /\ MaxTent \in Nat
      BY <1>3, LeadAssumption DEF resto, semCv, semCiclos
    <3> QED
      BY <2>1, <2>2, <2>3, <3>1, <3>2 DEF Contada
  <2> QED
    BY <2>1, <2>2, <2>3, <2>4
<1>8. ProcTipo' /\ Coerente'
  BY <1>1, <1>2, <1>3, <1>4, <1>7, Continua
<1> QED
  BY <1>1, <1>3, <1>5, <1>8, TipoResto DEF IInv

LEMMA PostarInv == ASSUME IInv, NEW p \in Processos, Postar(p) PROVE IInv'
<1>1. /\ IInvTipo /\ ProcTipo /\ proc[p].l \in Leads /\ proc[p].inst \in Instancia
      /\ proc[p].pc = "envia" /\ proc[p].pc \in Pcs \ {"livre", "aguarda", "graph"}
      /\ proc[p].inst.tent >= 1 /\ lead \in [Leads -> Lead]
  BY TipoDoProc DEF IInv, Pcs, Postar, ProcTipo
<1>2. PICK l \in Leads : proc[p].l = l
  BY <1>1
<1>3. Ir(p, "voo", l, proc[p].inst) /\ UNCHANGED <<lead, resto>>
  BY <1>2 DEF Postar
<1>4. /\ ProcTipo' /\ So(p)
      /\ proc'[p] = [pc |-> "voo", l |-> l, inst |-> proc[p].inst, voo |-> 0,
                     fila |-> proc[p].fila]
  BY <1>1, <1>3, IrFato DEF Pcs
<1>5. UNCHANGED <<lead, aceitos, incerto, manual, cruzes, quedas, ligadas, sombra>>
  BY <1>3 DEF resto, semCv, semCiclos
<1>6. Bem(l)'
  <2>1. SUFFICES ASSUME l \in Sozinhos' PROVE Bem(l)'
    BY DEF Bem
  <2>2. l \in Sozinhos
    BY <1>5, <2>1 DEF Sozinhos
  <2>3. /\ Conhece(p, l) /\ Contada(l) /\ lead[l].tent \in Nat
        /\ l \in incerto \/ aceitos[l] = 0
    BY <1>1, <1>2, <2>2, Contagem
  <2>4. /\ \A q \in Processos \ {p} : ~NaMao(q, l)
        /\ \A c \in Processos : l \notin proc[c].fila
        /\ NaMao(p, l) /\ NaMao(p, l)' /\ ~Entregando(p, l)'
    BY <1>1, <1>2, <1>4, <2>2, Presente DEF NaMao, Entregando
  <2>5. Conhece(p, l)' /\ Folga' = Folga
    <3>1. Folga' = Folga
      BY <1>5 DEF Folga
    <3> QED
      BY <1>1, <1>2, <1>4, <1>5, <2>3, <3>1 DEF Conhece
  <2>6. /\ Solto(l)' <=> ~NaMao(p, l)'
        /\ \A q \in Processos : ~Entregando(q, l)'
        /\ UmSo(l)' /\ QuemTemConhece(l)' /\ SoDoCiclo(l)'
    BY <1>4, <2>4, <2>5, MeuLead
  <2>7. Contada(l)'
    BY <1>5, <2>3, <2>4, <2>5, <2>6 DEF Contada
  <2>8. l \in incerto' \/ Conta(l)'
    <3>1. lead'[l].status = "dispatching"
      BY <1>1, <1>2, <1>5, <2>3 DEF Conhece
    <3> QED
      BY <1>5, <2>3, <2>6, <3>1 DEF Conta
  <2> QED
    BY <2>6, <2>7, <2>8 DEF Bem
<1>7. Vazia(l)' /\ Maos(p)'
  BY <1>1, <1>2, <1>4, <1>5, Presente DEF Vazia, Maos
<1>8. Coerente'
  BY <1>2, <1>4, <1>5, <1>6, <1>7, UmPasso DEF SoLinha, Sozinhos
<1> QED
  BY <1>1, <1>3, <1>4, <1>8, TipoResto DEF IInv

(* Captures, stubs and the end of a lead. *)

\* A row that does not exist is in nobody's hands.
LEMMA Ausente ==
  ASSUME IInv, NEW l \in Leads, lead[l].status = "ausente"
  PROVE  /\ l \in Sozinhos /\ lead[l].prox = Nulo
         /\ lead[l].tent = 0 /\ lead[l].busca = 0
         /\ \A q \in Processos : ~NaMao(q, l) /\ l \notin proc[q].fila
         /\ l \in incerto \/ aceitos[l] = 0
<1>1. Bem(l) /\ Vazia(l) /\ aceitos[l] \in 0..2
  BY DEF IInv, Coerente, IInvTipo, TypeOK, LeadsTypeOK
<1>2. l \in Sozinhos
  BY <1>1 DEF Vazia
<1>3. \A q \in Processos : ~NaMao(q, l)
  BY <1>1, <1>2 DEF Bem, QuemTemConhece, Conhece, NaMao
<1>4. \A q \in Processos : l \notin proc[q].fila
  BY <1>1, <1>2 DEF Bem, SoDoCiclo, Espera
<1>5. l \in incerto \/ aceitos[l] = 0
  BY <1>1, <1>2, <1>3 DEF Bem, Conta, Entregando, NaMao
<1> QED
  BY <1>1, <1>2, <1>3, <1>4, <1>5 DEF Vazia

\* p leaves a lead it has not in hand, or that people have.
LEMMA Larga ==
  ASSUME IInv, NEW p \in Processos, NEW l \in Leads, proc[p].l = l,
         ~NaMao(p, l) \/ l \notin Sozinhos, Fim(p), UNCHANGED <<lead, resto>>
  PROVE  IInv'
<1>1. /\ IInvTipo /\ ProcTipo /\ lead \in [Leads -> Lead] /\ Bem(l) /\ Vazia(l)
  BY DEF IInv, IInvTipo, TypeOK, LeadsTypeOK, Coerente
<1>2. ProcTipo' /\ So(p) /\ proc'[p] = EmEspera(proc[p].fila)
  BY <1>1, FimFato
<1>3. ~NaMao(p, l)' /\ proc'[p].l = Nulo /\ proc'[p].fila = proc[p].fila /\ Maos(p)'
  BY <1>2, LeadAssumption DEF NaMao, EmEspera, Maos
<1>4. UNCHANGED <<lead, aceitos, incerto, manual, cruzes, quedas, ligadas, sombra>>
  BY DEF resto, semCv, semCiclos
<1>5. Bem(l)'
  <2>1. CASE l \notin Sozinhos
    BY <1>4, <2>1 DEF Bem, Sozinhos
  <2>2. CASE ~NaMao(p, l)
    BY <1>1, <1>2, <1>3, <1>4, <2>2, OutroLead DEF Sozinhos
  <2> QED
    BY <2>1, <2>2
<1>6. Vazia(l)'
  BY <1>1, <1>4 DEF Vazia, Sozinhos
<1>7. Coerente'
  BY <1>2, <1>3, <1>4, <1>5, <1>6, UmPasso DEF SoLinha, Sozinhos
<1> QED
  BY <1>1, <1>2, <1>4, <1>7, TipoResto DEF IInv

LEMMA DispensarInv == ASSUME IInv, NEW p \in Processos, Dispensar(p) PROVE IInv'
<1>1. /\ proc[p].l \in Leads /\ proc[p].pc \in {"despacha", "retomado"} /\ Fim(p) /\ UNCHANGED <<lead, resto>>
      /\ proc[p].inst.status \notin Despachaveis
  BY TipoDoProc DEF IInv, Dispensar
<1>2. proc[p].l \notin Sozinhos
  BY <1>1, Presente DEF Pcs, Conhece, Despachaveis
<1> QED
  BY <1>1, <1>2, Larga

\* A capture makes the row, or a stub: nobody had it.
LEMMA CriaInv ==
  ASSUME IInv, NEW p \in Processos, NEW l \in Leads, proc[p].l = l,
         proc[p].pc = "graph", proc[p].inst.status = "ausente", lead[l].status = "ausente",
         NEW j \in Instancia, j.status = "received", j.tent = 0,
         lead' = [lead EXCEPT ![l] = Salvo(l, proc[p].inst, j)],
         proc[p].inst.tent = 0, proc[p].inst.prox = Nulo, proc[p].inst.busca = 0,
         \/ Ir(p, "valida", l, j) /\ j.prox = Nulo /\ j.busca = 0
         \/ Fim(p), UNCHANGED resto
  PROVE  IInv'
<1>1. /\ IInvTipo /\ ProcTipo /\ lead \in [Leads -> Lead] /\ proc[p].inst \in Instancia
  BY TipoDoProc DEF IInv, IInvTipo, TypeOK, LeadsTypeOK
<1>2. Escrita(l, proc[p].inst, j)
  BY <1>1, SalvarFato
<1>3. /\ l \in Sozinhos /\ lead[l].prox = Nulo
      /\ lead[l].tent = 0 /\ lead[l].busca = 0
      /\ \A q \in Processos : ~NaMao(q, l) /\ l \notin proc[q].fila
      /\ l \in incerto \/ aceitos[l] = 0
  BY Ausente
<1>4. /\ lead' \in [Leads -> Lead] /\ SoLinha(l)
      /\ lead'[l].status = "received" /\ lead'[l].tent = 0 /\ lead'[l].busca = j.busca
      /\ lead'[l].prox = j.prox
  BY <1>2, <1>3 DEF Escrita, Campo
<1>5. /\ ProcTipo' /\ So(p) /\ proc'[p].fila = proc[p].fila
      /\ \/ proc'[p] = EmEspera(proc[p].fila)
         \/ /\ j.prox = Nulo /\ j.busca = 0
            /\ proc'[p] = [pc |-> "valida", l |-> l, inst |-> j, voo |-> 0, fila |-> proc[p].fila]
  <2>1. CASE Fim(p)
    BY <1>1, <2>1, FimFato DEF EmEspera
  <2>2. CASE Ir(p, "valida", l, j) /\ j.prox = Nulo /\ j.busca = 0
    BY <1>1, <2>2, IrFato DEF Pcs
  <2> QED
    BY <2>1, <2>2
<1>6. /\ proc'[p].l \in {l, Nulo} /\ ~Entregando(p, l)' /\ Maos(p)'
      /\ NaMao(p, l)' => Conhece(p, l)'
  <2>1. CASE proc'[p] = EmEspera(proc[p].fila)
    BY <2>1, LeadAssumption DEF EmEspera, Entregando, Maos, NaMao
  <2>2. CASE /\ j.prox = Nulo /\ j.busca = 0
             /\ proc'[p] = [pc |-> "valida", l |-> l, inst |-> j, voo |-> 0, fila |-> proc[p].fila]
    BY <1>4, <2>2 DEF Entregando, Maos, Conhece
  <2> QED
    BY <1>5, <2>1, <2>2
<1>7. /\ \A q \in Processos : ~Entregando(q, l)'
      /\ UmSo(l)' /\ QuemTemConhece(l)' /\ SoDoCiclo(l)'
  BY <1>3, <1>5, <1>6, MeuLead
<1>8. UNCHANGED <<aceitos, incerto, manual, cruzes, quedas, ligadas, sombra>>
  BY <1>1 DEF resto, semCv, semCiclos
<1>9. Bem(l)' /\ Vazia(l)'
  <2>1. Contada(l)'
    BY <1>4, <1>8, Somas, LeadAssumption DEF Contada
  <2>2. l \in incerto' \/ Conta(l)'
    BY <1>3, <1>4, <1>7, <1>8 DEF Conta
  <2> QED
    BY <1>4, <1>7, <2>1, <2>2 DEF Bem, Vazia
<1>10. Coerente'
  BY <1>4, <1>5, <1>6, <1>8, <1>9, UmPasso DEF Sozinhos
<1> QED
  BY <1>1, <1>4, <1>5, <1>10, TipoResto DEF IInv

LEMMA CriarInv == ASSUME IInv, NEW p \in Processos, Criar(p) PROVE IInv'
<1> DEFINE i == proc[p].inst
           novo == [SemInst EXCEPT !.status = "received"]
           k == Com(i, i.status, Nulo)
           j == [k EXCEPT !.busca = 0]
<1>1. /\ proc[p].l \in Leads /\ proc[p].pc = "graph" /\ i \in Instancia /\ UNCHANGED resto
      /\ IInvTipo /\ ProcTipo /\ Maos(p)
  BY TipoDoProc DEF IInv, Criar, Coerente
<1>2. PICK l \in Leads : proc[p].l = l
  BY <1>1
<1>3. CASE i.status = "ausente" /\ lead[l].status = "ausente"
  <2>1. lead' = [lead EXCEPT ![l] = Salvo(l, SemInst, novo)] /\ Ir(p, "valida", l, novo)
    BY <1>2, <1>3 DEF Criar
  <2>2. i = SemInst
    BY <1>1, <1>3 DEF Maos
  <2>3. /\ novo \in Instancia /\ novo.status = "received" /\ novo.tent = 0
        /\ novo.prox = Nulo /\ novo.busca = 0
    BY DEF SemInst, Instancia, Status
  <2>4. i.tent = 0 /\ i.prox = Nulo /\ i.busca = 0
    BY <2>2 DEF SemInst
  <2> HIDE DEF novo
  <2> QED
    BY <1>1, <1>2, <1>3, <2>1, <2>2, <2>3, <2>4, CriaInv
<1>4. CASE i.status = "ausente" /\ lead[l].status # "ausente"
  <2>1. Fim(p) /\ UNCHANGED <<lead, resto>> /\ ~NaMao(p, l)
    BY <1>1, <1>2, <1>4 DEF Criar, NaMao
  <2> QED
    BY <1>2, <2>1, Larga
<1>5. CASE i.status # "ausente"
  <2>1. Salvar(p, j) /\ Ir(p, "valida", l, j)
    BY <1>2, <1>5 DEF Criar
  <2>2. /\ j \in Instancia /\ j.status = i.status /\ j.tent = i.tent
        /\ j.prox = Nulo /\ j.busca = 0
    <3>1. k \in Instancia /\ k.status = i.status /\ k.tent = i.tent /\ k.prox = Nulo
      BY <1>1 DEF Com, Instancia
    <3> HIDE DEF k
    <3> QED
      BY <3>1 DEF Instancia
  <2> HIDE DEF j, k
  <2>3. /\ lead' \in [Leads -> Lead]
        /\ Conhece(p, l) =>
              /\ lead'[l].status = j.status /\ lead'[l].tent = j.tent
              /\ lead'[l].busca = j.busca
              /\ lead'[l].prox = Nulo <=> j.prox = Nulo
    BY <1>1, <1>2, <2>1, <2>2, SalvarCerto
  <2>4. proc'[p] = [pc |-> "valida", l |-> l, inst |-> j, voo |-> 0, fila |-> proc[p].fila]
    BY <1>1, <2>1, <2>2, IrFato DEF Pcs
  <2>5. ASSUME l \in Sozinhos
        PROVE  /\ Conhece(p, l)' /\ Contada(l)'
               /\ l \in incerto \/ aceitos[l] = 0
               /\ lead'[l].status # "delivered"
    <3>1. /\ Conhece(p, l) /\ Contada(l) /\ lead[l].tent \in Nat /\ quedas \in Nat
          /\ l \in incerto \/ aceitos[l] = 0
      BY <1>1, <1>2, <1>5, <2>5, Contagem
    <3>2. lead'[l].status = "received" /\ lead'[l].tent = lead[l].tent /\ lead[l].tent = 0
      BY <1>1, <2>2, <2>3, <3>1 DEF Conhece, Contada
    <3>3. Conhece(p, l)'
      BY <2>2, <2>3, <2>4, <3>1, <3>2 DEF Conhece
    <3>4. Contada(l)'
      <4>1. ligadas \in Nat
        BY Somas
      <4> QED
        BY <1>1, <3>1, <3>2, <4>1, LeadAssumption DEF Contada, resto, semCv, semCiclos
    <3> QED
      BY <3>1, <3>2, <3>3, <3>4
  <2>6. ProcTipo' /\ Coerente'
    <3>1. proc[p].pc \in Pcs \ {"livre", "aguarda"} /\ j.status # "ausente"
      BY <1>1, <1>5, <2>2 DEF Pcs
    <3> QED
      BY <1>1, <1>2, <1>5, <2>1, <2>2, <2>5, <3>1, Continua
  <2> QED
    BY <1>1, <2>3, <2>6, TipoResto DEF IInv
<1> QED
  BY <1>3, <1>4, <1>5

LEMMA FalharBuscaInv == ASSUME IInv, NEW p \in Processos, FalharBusca(p) PROVE IInv'
<1> DEFINE i == proc[p].inst
           n == i.busca + 1
           px == IF n >= MaxBusca THEN Nulo ELSE Backoff[n]
           k == Com(i, "received", px)
           j == [k EXCEPT !.busca = n]
<1>1. /\ proc[p].l \in Leads /\ proc[p].pc = "graph" /\ i \in Instancia /\ UNCHANGED resto
      /\ IInvTipo /\ ProcTipo /\ Maos(p) /\ Fim(p)
  BY TipoDoProc DEF IInv, FalharBusca, Coerente
<1>2. PICK l \in Leads : proc[p].l = l
  BY <1>1
<1>3. IF i.status = "ausente" /\ lead[l].status # "ausente" THEN UNCHANGED lead
      ELSE lead' = [lead EXCEPT ![l] = Salvo(l, i, j)]
  BY <1>2 DEF FalharBusca
<1>4. /\ j \in Instancia /\ j.status = "received" /\ j.tent = i.tent
  <2>1. i.busca \in Nat /\ n \in Nat
    BY <1>1 DEF Instancia
  <2>2. px \in Nat \cup {Nulo}
    <3>1. n < MaxBusca => n \in 1..(MaxTent + MaxBusca)
      BY <2>1, LeadAssumption
    <3> QED
      BY <2>1, <3>1, LeadAssumption
  <2> HIDE DEF n, px
  <2>3. k \in Instancia /\ k.status = "received" /\ k.tent = i.tent
    BY <1>1, <2>2 DEF Com, Instancia, Status
  <2> HIDE DEF k
  <2> QED
    BY <2>1, <2>3 DEF Instancia
<1> HIDE DEF j, k, n, px
<1>5. CASE i.status = "ausente" /\ lead[l].status = "ausente"
  <2>1. i.tent = 0 /\ i.prox = Nulo /\ i.busca = 0
    BY <1>1, <1>5 DEF Maos, SemInst
  <2> QED
    BY <1>1, <1>2, <1>3, <1>4, <1>5, <2>1, CriaInv
<1>6. CASE i.status = "ausente" /\ lead[l].status # "ausente"
  <2>1. ~NaMao(p, l) /\ UNCHANGED lead
    BY <1>1, <1>3, <1>6 DEF NaMao
  <2> QED
    BY <1>1, <1>2, <2>1, Larga
<1>7. CASE i.status # "ausente"
  <2>1. Salvar(p, j) /\ UNCHANGED <<semCv, aceitos, incerto>>
    BY <1>1, <1>2, <1>3, <1>7 DEF Salvar, resto
  <2>2. l \in Sozinhos => /\ l \in incerto \/ aceitos[l] = 0
                          /\ lead[l].tent = 0
    BY <1>1, <1>2, <1>7, Contagem DEF Conhece, Contada
  <2>3. lead' \in [Leads -> Lead] /\ ProcTipo' /\ Coerente'
    BY <1>1, <1>2, <1>4, <1>7, <2>1, <2>2, Para
  <2> QED
    BY <1>1, <2>3, TipoResto DEF IInv
<1> QED
  BY <1>5, <1>6, <1>7

LEMMA MarcarSpamInv == ASSUME IInv, NEW p \in Processos, MarcarSpam(p) PROVE IInv'
<1> DEFINE j == [proc[p].inst EXCEPT !.status = "spam"]
<1>1. /\ IInvTipo /\ proc[p].inst \in Instancia /\ proc[p].l \in Leads
      /\ proc[p].pc \in Pcs \ {"livre", "aguarda", "graph"}
      /\ proc[p].l \in manual
  BY TipoDoProc DEF IInv, Pcs, MarcarSpam, Coerente, Maos
<1>2. PICK l \in Leads : proc[p].l = l
  BY <1>1
<1>3. j \in Instancia /\ j.status = "spam" /\ j.tent = proc[p].inst.tent
  <2>1. "spam" \in Status
    BY DEF Status
  <2> QED
    BY <1>1, <2>1, StatusTipo
<1> HIDE DEF j
<1>4. Salvar(p, j) /\ Fim(p) /\ UNCHANGED <<semCv, aceitos, incerto>>
  BY DEF MarcarSpam, resto, j
<1>5. lead' \in [Leads -> Lead] /\ ProcTipo' /\ Coerente'
  BY <1>1, <1>2, <1>3, <1>4, Para DEF Sozinhos
<1> QED
  BY <1>1, <1>4, <1>5, TipoResto DEF IInv, resto

LEMMA PromoverInv == ASSUME IInv, NEW p \in Processos, Promover(p) PROVE IInv'
<1> DEFINE j == [proc[p].inst EXCEPT !.status = "routed"]
<1>1. /\ IInvTipo /\ ProcTipo /\ proc[p].inst \in Instancia /\ proc[p].l \in Leads
      /\ proc[p].pc \in Pcs \ {"livre", "aguarda", "graph"}
      /\ proc[p].l \in manual /\ lead \in [Leads -> Lead]
  BY TipoDoProc DEF IInv, Pcs, Promover, Coerente, Maos
<1>2. PICK l \in Leads : proc[p].l = l
  BY <1>1
<1>3. j \in Instancia /\ j.status = "routed"
  <2>1. "routed" \in Status
    BY DEF Status
  <2> QED
    BY <1>1, <2>1, StatusTipo
<1>4. /\ lead' = lead \/ Salvar(p, j)
      /\ Ir(p, "despacha", l, j) /\ UNCHANGED resto
  BY <1>2 DEF Promover
<1> HIDE DEF j
<1>5. /\ lead' \in [Leads -> Lead] /\ SoLinha(l)
      /\ lead'[l].status \in {"routed", lead[l].status}
  <2>1. CASE lead' = lead
    BY <1>1, <2>1 DEF SoLinha
  <2>2. CASE Salvar(p, j)
    BY <1>1, <1>2, <1>3, <2>2, SalvarCerto
  <2> QED
    BY <1>4, <2>1, <2>2
<1>6. /\ ProcTipo' /\ So(p)
      /\ proc'[p] = [pc |-> "despacha", l |-> l, inst |-> j, voo |-> 0, fila |-> proc[p].fila]
  BY <1>1, <1>3, <1>4, IrFato DEF Pcs
<1>7. UNCHANGED <<aceitos, incerto, manual, cruzes, quedas, ligadas, sombra>>
  BY <1>4 DEF resto, semCv, semCiclos
<1>8. Bem(l)' /\ Vazia(l)' /\ Maos(p)'
  BY <1>1, <1>2, <1>5, <1>6, <1>7, Presente DEF Bem, Vazia, Maos, Sozinhos
<1>9. Coerente'
  BY <1>2, <1>5, <1>6, <1>7, <1>8, UmPasso DEF Sozinhos
<1> QED
  BY <1>1, <1>4, <1>5, <1>6, <1>9, TipoResto DEF IInv

(* The cycle. *)

\* A lead that a cycle takes up, and no other one has, is counted as it was.
LEMMA RetomaFato ==
  ASSUME IInv, NEW S \in SUBSET Leads, Retoma(S)
  PROVE  /\ cruzes' \in [Leads -> 0..MaxCruzes] /\ Sozinhos' \subseteq Sozinhos
         /\ Sozinhos \subseteq Sozinhos' \cup S
         /\ \A l \in Leads \ S : cruzes'[l] = cruzes[l]
         /\ \A l \in S \cap Sozinhos' : \A q \in Processos : ~DeCiclo(q, l)
         /\ UNCHANGED <<lead, aceitos, incerto, manual, quedas, ligadas, sombra, maos>>
         /\ Folga' = Folga
<1> DEFINE C == {l \in S : \E q \in Processos : DeCiclo(q, l)}
<1>1. /\ \A l \in C : cruzes[l] < MaxCruzes
      /\ cruzes' = [l \in Leads |-> IF l \in C THEN cruzes[l] + 1 ELSE cruzes[l]]
      /\ UNCHANGED <<lead, aceitos, incerto, manual, quedas, ligadas, sombra, maos>>
  BY DEF Retoma, semCiclos
<1>2. cruzes \in [Leads -> 0..MaxCruzes] /\ MaxCruzes \in Nat
  BY LimitesAssumption DEF IInv, IInvTipo, TypeOK
<1>3. cruzes' \in [Leads -> 0..MaxCruzes]
  BY <1>1, <1>2
<1>4. \A l \in C : cruzes'[l] # 0
  BY <1>1, <1>2
<1>5. \A l \in Leads \ C : cruzes'[l] = cruzes[l]
  BY <1>1
<1>6. C \subseteq S /\ \A l \in S \ C : \A q \in Processos : ~DeCiclo(q, l)
  OBVIOUS
<1>7. Folga' = Folga
  BY <1>1 DEF Folga
<1> HIDE DEF C
<1> QED
  BY <1>1, <1>3, <1>4, <1>5, <1>6, <1>7 DEF Sozinhos

LEMMA RetomarStubInv ==
  ASSUME IInv, NEW p \in Processos, NEW l \in Leads, RetomarStub(p, l) PROVE IInv'
<1>1. /\ IInvTipo /\ ProcTipo /\ lead \in [Leads -> Lead] /\ Bem(l) /\ Vazia(l)
      /\ proc[p].pc = "livre" /\ proc[p].l = Nulo
      /\ lead[l].status = "received" /\ lead[l].busca > 0
      /\ Ir(p, "graph", l, Ler(l)) /\ Retoma({l})
  BY DEF IInv, IInvTipo, TypeOK, LeadsTypeOK, ProcTipo, Coerente, RetomarStub, Nova, Stubs
<1>2. /\ Ler(l) \in Instancia
      /\ Ler(l).status = lead[l].status /\ Ler(l).tent = lead[l].tent
      /\ Ler(l).prox = lead[l].prox /\ Ler(l).busca = lead[l].busca
  BY <1>1, LerTipo
<1>3. /\ ProcTipo' /\ So(p)
      /\ proc'[p] = [pc |-> "graph", l |-> l, inst |-> Ler(l), voo |-> 0, fila |-> proc[p].fila]
  BY <1>1, <1>2, IrFato DEF Pcs
<1>4. /\ cruzes' \in [Leads -> 0..MaxCruzes] /\ Sozinhos' \subseteq Sozinhos
      /\ Sozinhos \subseteq Sozinhos' \cup {l}
      /\ l \in Sozinhos' => \A q \in Processos : ~DeCiclo(q, l)
      /\ UNCHANGED <<lead, aceitos, incerto, manual, quedas, ligadas, sombra, maos>>
      /\ Folga' = Folga
  BY <1>1, RetomaFato
<1>5. ASSUME l \in Sozinhos' PROVE Bem(l)'
  <2>1. l \in Sozinhos /\ \A q \in Processos : l \notin proc[q].fila
    BY <1>4, <1>5 DEF DeCiclo
  <2>2. \A q \in Processos : ~NaMao(q, l)
    <3> SUFFICES ASSUME NEW q \in Processos, NaMao(q, l) PROVE FALSE
      OBVIOUS
    <3>1. Conhece(q, l)
      BY <1>1, <2>1 DEF Bem, QuemTemConhece
    <3>2. ~DeCiclo(q, l)
      BY <1>4, <1>5
    <3> QED
      BY <1>1, <3>1, <3>2 DEF NaMao, Conhece, DeCiclo, Lead
  <2>3. Conhece(p, l)' /\ NaMao(p, l)' /\ ~Entregando(p, l)'
    BY <1>1, <1>2, <1>3, <1>4 DEF Conhece, NaMao, Entregando
  <2>4. /\ \A q \in Processos : ~Entregando(q, l)'
        /\ UmSo(l)' /\ QuemTemConhece(l)' /\ SoDoCiclo(l)'
    BY <1>3, <2>1, <2>2, <2>3, MeuLead
  <2>5. Contada(l)'
    BY <1>1, <1>4, <2>1 DEF Contada, Bem
  <2>6. l \in incerto' \/ Conta(l)'
    BY <1>1, <1>4, <2>1, <2>2, <2>4 DEF Bem, Conta, Entregando, NaMao
  <2> QED
    BY <2>4, <2>5, <2>6 DEF Bem
<1>6. Bem(l)' /\ Vazia(l)' /\ Maos(p)'
  BY <1>1, <1>2, <1>3, <1>4, <1>5 DEF Bem, Vazia, Maos
<1>7. Coerente'
  BY <1>1, <1>3, <1>4, <1>6, UmPasso DEF SoLinha
<1>8. IInvTipo'
  BY <1>1, <1>3, <1>4 DEF IInvTipo, TypeOK, LeadsTypeOK, ProcTipo
<1> QED
  BY <1>7, <1>8 DEF IInv

LEMMA IniciarCicloInv ==
  ASSUME IInv, NEW c \in Processos, IniciarCiclo(c) PROVE IInv'
<1> DEFINE f == Presos \cup Orfaos \cup Vencidos
<1>1. /\ IInvTipo /\ ProcTipo /\ proc[c].pc = "livre" /\ proc[c].l = Nulo
      /\ f # {} /\ proc' = [proc EXCEPT ![c] = EmEspera(f)]
      /\ Retoma(f)
      /\ lead \in [Leads -> Lead]
  BY DEF IInv, IInvTipo, TypeOK, LeadsTypeOK, ProcTipo, IniciarCiclo, Nova
<1>2. f \subseteq Leads
  BY DEF Presos, Orfaos, Vencidos
<1>3. ProcTipo' /\ So(c) /\ proc'[c] = EmEspera(f)
  BY <1>1, <1>2, EsperaFato
<1>4. /\ cruzes' \in [Leads -> 0..MaxCruzes] /\ Sozinhos' \subseteq Sozinhos
      /\ Sozinhos \subseteq Sozinhos' \cup f
      /\ \A l \in f \cap Sozinhos' : \A q \in Processos : ~DeCiclo(q, l)
      /\ UNCHANGED <<lead, aceitos, incerto, manual, quedas, ligadas, sombra, maos>>
      /\ Folga' = Folga
  BY <1>1, <1>2, RetomaFato
<1>5. ASSUME NEW l \in f, l \in Sozinhos'
      PROVE  Espera(l) /\ \A q \in Processos : l \notin proc[q].fila
  <2>1. l \in Leads /\ Bem(l) /\ l \in Sozinhos
    BY <1>2, <1>4, <1>5 DEF IInv, Coerente
  <2>2. /\ \/ lead[l].status = "dispatching" /\ lead[l].envio = Preso
           \/ lead[l].status = "routed" /\ lead[l].idade = Preso /\ ~sombra
           \/ lead[l].status = "failed" /\ lead[l].prox = 0
    BY DEF Presos, Orfaos, Vencidos
  <2>3. Solto(l)
    <3> SUFFICES ASSUME NEW q \in Processos, NaMao(q, l) PROVE FALSE
      BY DEF Solto
    <3>1. Conhece(q, l) /\ ~DeCiclo(q, l)
      BY <1>4, <1>5, <2>1 DEF Bem, QuemTemConhece
    <3>2. proc[q].voo \in 0..TimeoutPost /\ lead[l].envio \in 0..Preso
      BY <1>1, <2>1 DEF ProcTipo, Processo, Lead
    <3>3. proc[q].pc \in {"valida", "roteia", "despacha", "envia", "voo", "entregar"}
      BY <3>1 DEF NaMao, DeCiclo
    <3> QED
      BY <2>2, <3>1, <3>2, <3>3, LeadAssumption, LimitesAssumption DEF Conhece
  <2>4. lead[l].tent < Folga
    <3>1. Contada(l) /\ lead[l].tent \in Nat
      BY <1>1, <2>1 DEF Bem, Lead
    <3>2. lead[l].status = "routed" => Folga = MaxTent + quedas + ligadas
      BY <2>2, Somas, LeadAssumption DEF Folga
    <3>3. MaxTent <= Folga /\ Folga \in Nat /\ MaxTent \in Nat
      BY Somas, LeadAssumption
    <3> QED
      BY <2>2, <2>3, <3>1, <3>2, <3>3, LeadAssumption DEF Contada
  <2>5. \A q \in Processos : l \notin proc[q].fila
    BY <1>4, <1>5 DEF DeCiclo
  <2> QED
    BY <2>2, <2>3, <2>4, <2>5, LeadAssumption DEF Espera
<1>6. ASSUME NEW l \in Leads PROVE Bem(l)' /\ Vazia(l)'
  <2>1. ~NaMao(c, l) /\ ~NaMao(c, l)'
    BY <1>1, <1>3, LeadAssumption DEF NaMao, EmEspera
  <2>2. Bem(l) /\ Vazia(l)
    BY DEF IInv, Coerente
  <2>3. l \in Sozinhos' /\ l \in proc'[c].fila =>
          l \in proc[c].fila \/ (Espera(l) /\ \A q \in Processos : l \notin proc[q].fila)
    BY <1>3, <1>5 DEF EmEspera
  <2>4. Bem(l)'
    BY <1>3, <1>4, <2>1, <2>2, <2>3, OutroLead
  <2>5. lead[l].status = "ausente" => l \notin f
    BY DEF Presos, Orfaos, Vencidos
  <2> QED
    BY <1>4, <2>2, <2>4, <2>5 DEF Vazia
<1>7. ASSUME NEW q \in Processos PROVE Maos(q)'
  <2>1. CASE q = c
    BY <1>1, <1>3, <2>1 DEF Maos, EmEspera
  <2>2. CASE q # c
    BY <1>1, <1>3, <1>4, <2>2 DEF So, Maos, IInv, Coerente
  <2> QED
    BY <2>1, <2>2
<1>8. IInvTipo'
  BY <1>1, <1>3, <1>4 DEF IInvTipo, TypeOK, LeadsTypeOK, ProcTipo
<1>9. Sombras'
  BY <1>4 DEF IInv, Coerente, Sombras
<1> QED
  BY <1>6, <1>7, <1>8, <1>9 DEF IInv, Coerente

LEMMA CarregarInv ==
  ASSUME IInv, NEW c \in Processos, NEW l \in Leads, Carregar(c, l) PROVE IInv'
<1> DEFINE r == [pc |-> "retomado", l |-> l, inst |-> Ler(l), voo |-> 0, fila |-> proc[c].fila \ {l}]
<1>1. /\ IInvTipo /\ ProcTipo /\ lead \in [Leads -> Lead] /\ Bem(l) /\ Vazia(l)
      /\ proc[c].pc = "aguarda" /\ proc[c].l = Nulo /\ l \in proc[c].fila
      /\ proc' = [proc EXCEPT ![c] = r] /\ UNCHANGED <<lead, resto>>
  BY DEF IInv, IInvTipo, TypeOK, LeadsTypeOK, ProcTipo, Coerente, Carregar
<1>2. /\ Ler(l) \in Instancia
      /\ Ler(l).status = lead[l].status /\ Ler(l).tent = lead[l].tent
      /\ Ler(l).prox = lead[l].prox /\ Ler(l).busca = lead[l].busca
  BY <1>1, LerTipo
<1>3. ProcTipo' /\ So(c) /\ proc'[c] = r
  <2>1. r \in Processo
    BY <1>1, <1>2, LeadAssumption DEF ProcTipo, Processo, Pcs
  <2> QED
    BY <1>1, <2>1, TrocaFato, LeadAssumption
<1>4. UNCHANGED <<lead, aceitos, incerto, manual, cruzes, quedas, ligadas, sombra>>
  BY <1>1 DEF resto, semCv, semCiclos
<1>5. ASSUME l \in Sozinhos' PROVE Bem(l)'
  <2>1. /\ l \in Sozinhos /\ Espera(l) /\ Contada(l) /\ (l \in incerto \/ Conta(l))
        /\ \A q \in Processos \ {c} : l \notin proc[q].fila
    BY <1>1, <1>4, <1>5 DEF Bem, SoDoCiclo, Sozinhos
  <2>2. \A q \in Processos : ~NaMao(q, l)
    BY <2>1 DEF Espera, Solto
  <2>3. Folga' = Folga
    BY <1>4 DEF Folga
  <2>4. Conhece(c, l)' /\ NaMao(c, l)' /\ ~Entregando(c, l)'
    BY <1>1, <1>2, <1>3, <1>4, <2>1, <2>3 DEF Conhece, NaMao, Entregando, Espera
  <2>5. /\ Solto(l)' <=> ~NaMao(c, l)'
        /\ \A q \in Processos : ~Entregando(q, l)'
        /\ UmSo(l)' /\ QuemTemConhece(l)' /\ SoDoCiclo(l)'
    BY <1>3, <2>1, <2>2, <2>4, MeuLead
  <2>6. Contada(l)'
    BY <1>4, <2>1, <2>3, <2>4, <2>5 DEF Contada
  <2>7. l \in incerto' \/ Conta(l)'
    BY <1>4, <2>1, <2>2, <2>5 DEF Conta, Entregando, NaMao
  <2> QED
    BY <2>5, <2>6, <2>7 DEF Bem
<1>6. Bem(l)' /\ Vazia(l)' /\ Maos(c)'
  BY <1>1, <1>3, <1>4, <1>5 DEF Bem, Vazia, Maos, Sozinhos
<1>7. Coerente'
  BY <1>1, <1>3, <1>4, <1>6, UmPasso DEF SoLinha, Sozinhos
<1> QED
  BY <1>1, <1>3, <1>7, TipoResto DEF IInv

(* People, time and restarts. *)

LEMMA WebhookInv ==
  ASSUME IInv, NEW p \in Processos, NEW l \in Leads, Webhook(p, l) PROVE IInv'
<1>1. /\ IInvTipo /\ ProcTipo /\ Bem(l) /\ Vazia(l) /\ Maos(p) /\ lead \in [Leads -> Lead]
      /\ proc[p].pc = "livre" /\ proc[p].l = Nulo
      /\ UNCHANGED <<lead, resto>> /\ Ir(p, "graph", l, SemInst)
  BY DEF IInv, Coerente, IInvTipo, ProcTipo, TypeOK, LeadsTypeOK, Webhook, Nova
<1>2. SemInst \in Instancia /\ SemInst.status = "ausente"
  BY DEF SemInst, Instancia, Status
<1>3. /\ ProcTipo' /\ So(p)
      /\ proc'[p] = [pc |-> "graph", l |-> l, inst |-> SemInst, voo |-> 0, fila |-> proc[p].fila]
  BY <1>1, <1>2, IrFato DEF Pcs
<1>4. UNCHANGED <<lead, aceitos, incerto, manual, cruzes, quedas, ligadas, sombra>>
  BY <1>1 DEF resto, semCv, semCiclos
<1>5. ~NaMao(p, l) /\ ~NaMao(p, l)' /\ Maos(p)'
  BY <1>1, <1>2, <1>3, LeadAssumption DEF NaMao, Maos
<1>6. Bem(l)'
  BY <1>1, <1>3, <1>4, <1>5, OutroLead DEF Sozinhos
<1>7. Coerente'
  BY <1>1, <1>3, <1>4, <1>5, <1>6, UmPasso DEF Vazia, SoLinha, Sozinhos
<1> QED
  BY <1>1, <1>3, <1>7, TipoResto DEF IInv

LEMMA EmMaosInv ==
  ASSUME IInv, NEW p \in Processos, NEW l \in Leads, lead[l].status # "ausente",
         NEW pc \in {"despacha", "rota", "promove", "spam"}, EmMaos(p, l, pc)
  PROVE  IInv'
<1>1. /\ IInvTipo /\ ProcTipo /\ lead \in [Leads -> Lead]
      /\ proc[p].pc = "livre" /\ proc[p].l = Nulo /\ Ir(p, pc, l, Ler(l))
      /\ UNCHANGED <<lead, sombra, ligadas, quedas, aceitos, incerto, cruzes>>
      /\ maos < MaxMaos /\ maos' = maos + 1 /\ manual' = manual \cup {l}
  BY DEF IInv, IInvTipo, TypeOK, LeadsTypeOK, ProcTipo, EmMaos, Intervir, Nova
<1>2. Ler(l) \in Instancia
  BY <1>1, LerTipo
<1>3. /\ ProcTipo' /\ So(p)
      /\ proc'[p] = [pc |-> pc, l |-> l, inst |-> Ler(l), voo |-> 0, fila |-> proc[p].fila]
  BY <1>1, <1>2, IrFato DEF Pcs
<1>4. Bem(l)' /\ Vazia(l)' /\ Maos(p)'
  BY <1>1, <1>3 DEF Bem, Vazia, Maos, Sozinhos
<1>5. Coerente'
  BY <1>1, <1>3, <1>4, UmPasso DEF SoLinha, Sozinhos
<1>6. IInvTipo'
  BY <1>1, <1>3, LimitesAssumption DEF IInvTipo, TypeOK, LeadsTypeOK, ProcTipo
<1> QED
  BY <1>5, <1>6 DEF IInv

LEMMA PessoasInv ==
  ASSUME IInv, NEW p \in Processos, NEW l \in Leads,
         RotearManual(p, l) \/ Redisparar(p, l) \/ LerParaSpam(p, l) \/ CarregarBacklog(p, l)
  PROVE  IInv'
<1>1. /\ lead[l].status # "ausente"
      /\ \/ EmMaos(p, l, "rota") \/ EmMaos(p, l, "despacha")
         \/ EmMaos(p, l, "spam") \/ EmMaos(p, l, "promove")
  BY DEF RotearManual, Redisparar, LerParaSpam, CarregarBacklog
<1> QED
  BY <1>1, EmMaosInv

\* Nobody moves.
LEMMA QuietoInv ==
  ASSUME IInv, UNCHANGED <<proc, quedas, aceitos, incerto, cruzes>>,
         \/ UNCHANGED <<sombra, ligadas>>
         \/ sombra' = FALSE /\ ligadas' = ligadas
         \/ ~sombra /\ sombra' = TRUE /\ ligadas' = ligadas + 1,
         manual \subseteq manual',
         \A l \in Leads : \/ lead'[l] = lead[l] /\ (l \in manual' => l \in manual)
                          \/ l \in manual' /\ lead'[l].status # "ausente"
  PROVE  Coerente'
<1>1. /\ quedas \in Nat /\ ligadas \in Nat /\ ligadas' \in Nat /\ ligadas <= ligadas'
      /\ Folga \in Int /\ Folga' \in Int /\ Folga <= Folga' /\ Sombras'
  BY Somas, LeadAssumption
     DEF Folga, IInv, IInvTipo, TypeOK, LeadsTypeOK, Coerente, Sombras
<1>2. Sozinhos' \subseteq Sozinhos
  BY DEF Sozinhos
<1>3. ASSUME NEW l \in Leads PROVE Bem(l)' /\ Vazia(l)'
  <2>1. Bem(l) /\ Vazia(l) /\ lead[l].tent \in Nat
    BY DEF IInv, Coerente, IInvTipo, TypeOK, LeadsTypeOK, Lead
  <2>2. CASE lead'[l] = lead[l] /\ (l \in manual' => l \in manual)
    <3>1. Bem(l)'
      BY <1>1, <1>2, <2>1, <2>2, LeadIgual
    <3> QED
      BY <2>1, <2>2, <3>1 DEF Vazia, Sozinhos
  <2>3. CASE l \in manual' /\ lead'[l].status # "ausente"
    BY <2>3 DEF Bem, Vazia, Sozinhos
  <2> QED
    BY <2>2, <2>3
<1>4. ASSUME NEW q \in Processos PROVE Maos(q)'
  BY DEF IInv, Coerente, Maos
<1> QED
  BY <1>1, <1>3, <1>4 DEF Coerente

LEMMA DesfazerSpamInv == ASSUME IInv, NEW l \in Leads, DesfazerSpam(l) PROVE IInv'
<1> DEFINE j == [Ler(l) EXCEPT !.status = "held"]
<1>1. /\ IInvTipo /\ ProcTipo /\ lead \in [Leads -> Lead] /\ lead[l].status = "spam"
      /\ lead' = [lead EXCEPT ![l] = Salvo(l, Ler(l), j)]
      /\ UNCHANGED <<proc, sombra, ligadas, quedas, aceitos, incerto, cruzes>>
      /\ maos < MaxMaos /\ maos' = maos + 1 /\ manual' = manual \cup {l}
  BY DEF IInv, IInvTipo, TypeOK, LeadsTypeOK, ProcTipo, DesfazerSpam, Intervir
<1>2. Ler(l) \in Instancia /\ Ler(l).status = lead[l].status
  BY <1>1, LerTipo
<1>3. j \in Instancia /\ j.status = "held"
  <2>1. "held" \in Status
    BY DEF Status
  <2> QED
    BY <1>2, <2>1, StatusTipo
<1> HIDE DEF j
<1>4. Escrita(l, Ler(l), j)
  BY <1>1, <1>2, <1>3, SalvarFato
<1>5. lead' \in [Leads -> Lead] /\ SoLinha(l) /\ lead'[l].status = "held"
  BY <1>1, <1>2, <1>3, <1>4 DEF Escrita, Campo
<1>6. Coerente'
  BY <1>1, <1>5, QuietoInv DEF SoLinha
<1>7. IInvTipo'
  BY <1>1, <1>5, LimitesAssumption DEF IInvTipo, TypeOK, LeadsTypeOK, ProcTipo
<1> QED
  BY <1>6, <1>7 DEF IInv

LEMMA SombraInv == ASSUME IInv, LigarSombra \/ DesligarSombra PROVE IInv'
<1>1. /\ UNCHANGED <<lead, proc, aceitos, incerto, manual, cruzes, quedas>>
      /\ \/ sombra' = FALSE /\ UNCHANGED <<ligadas, maos>>
         \/ /\ ~sombra /\ sombra' = TRUE /\ ligadas' = ligadas + 1
            /\ maos < MaxMaos /\ maos' = maos + 1
  BY DEF LigarSombra, DesligarSombra
<1>2. Coerente'
  BY <1>1, QuietoInv
<1>3. maos \in 0..MaxMaos /\ ligadas \in 0..(MaxMaos + 1) /\ ligadas <= maos + 1
  BY DEF IInv, IInvTipo, TypeOK
<1>4. /\ maos' \in 0..MaxMaos /\ ligadas' \in 0..(MaxMaos + 1) /\ ligadas' <= maos' + 1
      /\ sombra' \in BOOLEAN
  <2>1. CASE sombra' = FALSE /\ UNCHANGED <<ligadas, maos>>
    BY <1>3, <2>1
  <2>2. CASE /\ sombra' = TRUE /\ ligadas' = ligadas + 1
             /\ maos < MaxMaos /\ maos' = maos + 1
    <3>1. MaxMaos \in Nat
      BY LimitesAssumption
    <3>2. maos' \in 0..MaxMaos /\ ligadas' <= maos' + 1 /\ ligadas' \in Nat
      BY <1>3, <2>2, <3>1
    <3> QED
      BY <2>2, <3>1, <3>2
  <2> QED
    BY <1>1, <2>1, <2>2
<1>5. /\ lead \in [Leads -> Lead] /\ ProcTipo /\ quedas \in 0..MaxQuedas
      /\ aceitos \in [Leads -> 0..2] /\ incerto \subseteq Leads /\ manual \subseteq Leads
      /\ cruzes \in [Leads -> 0..MaxCruzes]
  BY DEF IInv, IInvTipo, TypeOK, LeadsTypeOK
<1>6. IInvTipo'
  BY <1>1, <1>4, <1>5 DEF IInvTipo, TypeOK, LeadsTypeOK, ProcTipo
<1> QED
  BY <1>2, <1>6 DEF IInv

\* Time: a POST grows older with its claim, so no claim in flight becomes stuck.
LEMMA PassarInv == ASSUME IInv, Passar PROVE IInv'
<1>1. /\ IInvTipo /\ ProcTipo /\ lead \in [Leads -> Lead] /\ proc \in [Processos -> Processo]
      /\ lead' = [l \in Leads |-> Depois(lead[l])] /\ UNCHANGED resto
      /\ proc' = [p \in Processos |->
                IF proc[p].pc = "voo" THEN [proc[p] EXCEPT !.voo = @ + 1] ELSE proc[p]]
      /\ \A p \in Processos : /\ proc[p].pc \notin {"despacha", "retomado", "envia", "entregar"}
                              /\ proc[p].pc = "voo" => proc[p].voo < TimeoutPost
  BY DEF IInv, IInvTipo, TypeOK, LeadsTypeOK, ProcTipo, Passar, Imediatos
<1>2. ASSUME NEW l \in Leads
      PROVE  /\ lead'[l] \in Lead
             /\ lead'[l].status = lead[l].status /\ lead'[l].tent = lead[l].tent
             /\ lead'[l].busca = lead[l].busca
             /\ lead'[l].prox = Nulo <=> lead[l].prox = Nulo
             /\ lead'[l].envio <= lead[l].envio + 1
             /\ lead[l].envio \in Nat /\ lead'[l].envio \in Nat
  <2>1. lead'[l] = Depois(lead[l]) /\ lead[l] \in Lead
    BY <1>1
  <2>2. /\ lead[l].idade \in 0..Preso /\ lead[l].envio \in 0..Preso /\ Preso \in Nat
        /\ lead[l].prox \in Nat \cup {Nulo} /\ Nulo \notin Nat
    BY <2>1, LeadAssumption DEF Lead
  <2>3. /\ Mais(lead[l].idade, Preso) \in 0..Preso /\ Mais(lead[l].envio, Preso) \in 0..Preso
        /\ Mais(lead[l].envio, Preso) <= lead[l].envio + 1
    BY <2>2 DEF Mais
  <2> HIDE DEF Mais
  <2>4. lead[l].prox \in Nat \ {0} => lead[l].prox - 1 \in Nat
    OBVIOUS
  <2> QED
    BY <2>1, <2>2, <2>3, <2>4 DEF Lead, Depois
<1>3. ASSUME NEW p \in Processos
      PROVE  /\ proc'[p] \in Processo
             /\ proc'[p].pc = proc[p].pc /\ proc'[p].l = proc[p].l
             /\ proc'[p].inst = proc[p].inst /\ proc'[p].fila = proc[p].fila
             /\ proc[p].pc = "voo" => proc'[p].voo = proc[p].voo + 1
             /\ proc[p].voo \in Nat
  <2>1. proc[p] \in Processo /\ proc[p].voo \in 0..TimeoutPost
    BY <1>1 DEF Processo
  <2>2. CASE proc[p].pc = "voo"
    <3>1. proc'[p] = [proc[p] EXCEPT !.voo = proc[p].voo + 1]
      BY <1>1, <2>2
    <3>2. proc[p].voo + 1 \in 0..TimeoutPost
      BY <1>1, <2>1, <2>2, LeadAssumption
    <3> QED
      BY <2>1, <3>1, <3>2 DEF Processo
  <2>3. CASE proc[p].pc # "voo"
    BY <1>1, <2>1, <2>3
  <2> QED
    BY <2>2, <2>3
<1>4. UNCHANGED <<aceitos, incerto, manual, cruzes, quedas, ligadas, sombra>>
  BY <1>1 DEF resto, semCv, semCiclos
<1>5. Folga' = Folga
  BY <1>4 DEF Folga
<1>6. ProcTipo'
  <2>1. proc' \in [Processos -> Processo]
    BY <1>1, <1>3
  <2> QED
    BY <1>1, <1>3, <2>1 DEF ProcTipo
<1>7. ASSUME NEW l \in Leads, l \in Sozinhos PROVE Bem(l)'
  <2>1. /\ \A q \in Processos : NaMao(q, l)' <=> NaMao(q, l)
        /\ \A q \in Processos : Entregando(q, l)' <=> Entregando(q, l)
    BY <1>3 DEF NaMao, Entregando
  <2>2. Bem(l) /\ (Solto(l)' <=> Solto(l))
    BY <2>1 DEF IInv, Coerente, Solto
  <2>3. UmSo(l)'
    BY <1>7, <2>1, <2>2 DEF Bem, UmSo
  <2>4. QuemTemConhece(l)'
    <3> SUFFICES ASSUME NEW q \in Processos, NaMao(q, l)' PROVE Conhece(q, l)'
      BY DEF QuemTemConhece
    <3>1. Conhece(q, l)
      BY <1>7, <2>1, <2>2 DEF Bem, QuemTemConhece
    <3>2. proc'[q].pc \notin {"despacha", "retomado", "envia", "entregar"}
      BY <1>1, <1>3
    <3>3. proc[q].pc = "voo" => lead'[l].envio <= proc'[q].voo
      BY <1>2, <1>3, <3>1 DEF Conhece
    <3> QED
      BY <1>2, <1>3, <1>5, <3>1, <3>2, <3>3 DEF Conhece
  <2>5. SoDoCiclo(l)'
    BY <1>2, <1>3, <1>4, <1>7, <1>5, <2>2 DEF Bem, SoDoCiclo, Espera
  <2>6. Contada(l)'
    BY <1>2, <1>4, <1>7, <1>5, <2>2 DEF Bem, Contada
  <2>7. l \in incerto' \/ Conta(l)'
    BY <1>2, <1>4, <1>7, <2>1, <2>2 DEF Bem, Conta
  <2> QED
    BY <2>3, <2>4, <2>5, <2>6, <2>7 DEF Bem
<1>8. ASSUME NEW l \in Leads PROVE Bem(l)' /\ Vazia(l)'
  <2>1. Vazia(l)
    BY DEF IInv, Coerente
  <2> QED
    BY <1>2, <1>4, <1>7, <2>1 DEF Bem, Vazia, Sozinhos
<1>9. ASSUME NEW q \in Processos PROVE Maos(q)'
  BY <1>3, <1>4 DEF IInv, Coerente, Maos
<1>11. Sombras'
  BY <1>4 DEF IInv, Coerente, Sombras
<1>10. lead' \in [Leads -> Lead]
  BY <1>1, <1>2
<1> QED
  BY <1>1, <1>6, <1>8, <1>9, <1>10, <1>11, TipoResto DEF IInv, Coerente

\* A restart: every process is gone, and a claim it leaves behind is one attempt
\* that the restart pays for.
LEMMA ReiniciarInv == ASSUME IInv, Reiniciar PROVE IInv'
<1>1. PICK chegam \in SUBSET {proc[p].l : p \in {q \in Processos : Posta(q)}} :
       /\ aceitos' = [l \in Leads |-> IF l \in chegam THEN Aceito(l)[l] ELSE aceitos[l]]
       /\ incerto' = incerto \cup chegam
                       \cup {proc[p].l : p \in {q \in Processos : proc[q].pc = "entregar"}}
  BY DEF Reiniciar
<1>2. /\ IInvTipo /\ ProcTipo /\ quedas < MaxQuedas /\ quedas' = quedas + 1
      /\ proc' = [p \in Processos |-> Livre] /\ quedas \in 0..MaxQuedas
      /\ UNCHANGED <<lead, sombra, ligadas, manual, cruzes, maos>>
      /\ lead \in [Leads -> Lead] /\ aceitos \in [Leads -> 0..2] /\ incerto \subseteq Leads
  BY DEF IInv, IInvTipo, TypeOK, LeadsTypeOK, Reiniciar
<1>3. Livre \in Processo /\ Livre.pc = "livre" /\ Livre.l = Nulo /\ Livre.fila = {}
  BY LeadAssumption DEF Livre, EmEspera, Processo, Pcs, SemInst, Instancia, Status
<1>4. ProcTipo'
  BY <1>2, <1>3 DEF ProcTipo
<1>5. /\ aceitos' \in [Leads -> 0..2] /\ incerto' \subseteq Leads
      /\ \A l \in Leads : l \notin incerto' => l \notin incerto /\ aceitos'[l] = aceitos[l]
  <2>1. \A p \in Processos : Posta(p) \/ proc[p].pc = "entregar" => proc[p].l \in Leads
    BY <1>2, TipoDoProc DEF Posta
  <2> QED
    BY <1>1, <1>2, <2>1 DEF Aceito
<1>6. IInvTipo'
  BY <1>2, <1>4, <1>5, LimitesAssumption DEF IInvTipo, TypeOK, LeadsTypeOK, ProcTipo
<1>7. ASSUME NEW l \in Leads PROVE Bem(l)' /\ Vazia(l)'
  <2>1. Bem(l) /\ Vazia(l) /\ lead[l].tent \in Nat
    BY <1>2 DEF IInv, Coerente, Lead
  <2>2. /\ \A q \in Processos : ~NaMao(q, l)' /\ ~Entregando(q, l)' /\ l \notin proc'[q].fila
    BY <1>2, <1>3, LeadAssumption DEF NaMao, Entregando
  <2>3. UmSo(l)' /\ QuemTemConhece(l)' /\ SoDoCiclo(l)'
    BY <2>2 DEF UmSo, QuemTemConhece, SoDoCiclo
  <2>4. Contada(l)' \/ l \notin Sozinhos
    <3>1. /\ Folga \in Nat /\ MaxTent <= Folga /\ Folga <= MaxTent + quedas + ligadas
          /\ MaxTent \in Nat /\ ligadas \in Nat /\ quedas \in Nat
      BY Somas, LeadAssumption
    <3>2. quedas' = quedas + 1 /\ UNCHANGED <<lead, ligadas, sombra>>
      BY <1>2
    <3>3. Folga' = Folga + 1
      <4>1. CASE sombra
        BY <3>1, <3>2, <4>1 DEF Folga
      <4>2. CASE ~sombra
        BY <3>1, <3>2, <4>2 DEF Folga
      <4> QED
        BY <4>1, <4>2
    <3>4. ASSUME l \in Sozinhos PROVE Contada(l)'
      <4>1. Contada(l)
        BY <2>1, <3>4 DEF Bem
      <4>2. /\ lead[l].tent <= MaxTent + quedas' + ligadas
            /\ lead[l].status = "routed" => lead[l].tent < MaxTent + quedas' + ligadas
            /\ lead[l].status = "dispatching" =>
                 lead[l].tent <= Folga + 1 /\ lead[l].tent < Folga + 1
        BY <2>1, <3>1, <3>2, <4>1 DEF Contada
      <4> QED
        BY <3>2, <3>3, <4>1, <4>2 DEF Contada
    <3> QED
      BY <3>4
  <2>5. l \notin Sozinhos \/ l \in incerto' \/ Conta(l)'
    <3>1. l \notin incerto' => \A q \in Processos : ~Entregando(q, l)
      BY <1>1 DEF Entregando
    <3> QED
      BY <1>2, <1>5, <2>1, <2>2, <3>1 DEF Bem, Conta
  <2> QED
    BY <1>2, <2>1, <2>3, <2>4, <2>5 DEF Bem, Vazia, Sozinhos
<1>8. ASSUME NEW q \in Processos PROVE Maos(q)'
  BY <1>2, <1>3 DEF Maos
<1>9. Sombras'
  BY <1>2 DEF IInv, Coerente, Sombras
<1> QED
  BY <1>6, <1>7, <1>8, <1>9 DEF IInv, Coerente

LEMMA InicioInv == Init => IInv
<1> SUFFICES ASSUME Init PROVE IInv
  OBVIOUS
<1>1. Livre \in Processo /\ Livre.pc = "livre" /\ Livre.l = Nulo /\ Livre.fila = {}
  BY LeadAssumption DEF Livre, EmEspera, Processo, Pcs, SemInst, Instancia, Status
<1>2. /\ proc = [p \in Processos |-> Livre] /\ quedas = 0 /\ incerto = {} /\ manual = {}
      /\ aceitos = [l \in Leads |-> 0] /\ sombra \in BOOLEAN
      /\ cruzes = [l \in Leads |-> 0] /\ maos = 0
      /\ ligadas = IF sombra THEN 1 ELSE 0
      /\ lead \in [Leads -> {[status |-> st, tent |-> 0, prox |-> Nulo, busca |-> 0,
                              idade |-> 0, envio |-> 0] : st \in {"ausente", "historical"}}]
  BY DEF Init, LeadsInit
<1>3. /\ lead \in [Leads -> Lead]
      /\ \A l \in Leads : /\ lead[l].status \in {"ausente", "historical"} /\ lead[l].tent = 0
                          /\ lead[l].prox = Nulo /\ lead[l].busca = 0
  BY <1>2, LeadAssumption DEF Lead, Status
<1>4. ProcTipo
  BY <1>1, <1>2 DEF ProcTipo
<1>5. IInvTipo
  BY <1>2, <1>3, <1>4, LimitesAssumption DEF IInvTipo, TypeOK, LeadsTypeOK, ProcTipo
<1>6. ASSUME NEW l \in Leads PROVE Bem(l) /\ Vazia(l)
  <2>1. \A q \in Processos : ~NaMao(q, l) /\ ~Entregando(q, l) /\ l \notin proc[q].fila
    BY <1>1, <1>2, LeadAssumption DEF NaMao, Entregando
  <2>2. UmSo(l) /\ QuemTemConhece(l) /\ SoDoCiclo(l)
    BY <2>1 DEF UmSo, QuemTemConhece, SoDoCiclo
  <2>3. Contada(l) /\ Conta(l)
    BY <1>2, <1>3, <2>1, LeadAssumption DEF Contada, Conta
  <2> QED
    BY <1>2, <1>3, <2>2, <2>3 DEF Bem, Vazia, Sozinhos
<1>7. ASSUME NEW q \in Processos PROVE Maos(q)
  BY <1>1, <1>2 DEF Maos
<1>8. Sombras
  BY <1>2 DEF Sombras
<1> QED
  BY <1>5, <1>6, <1>7, <1>8 DEF IInv, Coerente

LEMMA PassoInv == ASSUME IInv, [Next]_vars PROVE IInv'
<1>1. CASE UNCHANGED vars
  <2>1. Coerente'
    BY <1>1, QuietoInv DEF vars, leadVars
  <2>2. IInvTipo'
    BY <1>1 DEF vars, leadVars, IInv, IInvTipo, TypeOK, LeadsTypeOK, ProcTipo
  <2> QED
    BY <2>1, <2>2 DEF IInv
<1>2. ASSUME NEW p \in Processos, Passo(p) PROVE IInv'
  BY <1>2, CriarInv, FalharBuscaInv, ValidarInv, RotearInv, ReivindicarInv, DispensarInv,
     SombrearInv, PostarInv, AceitarInv, MarcarEntregueInv, RejeitarInv, FalharInv, MarcarSpamInv,
     PromoverInv, CarregarInv DEF Passo
<1>3. CASE Retomar
  BY <1>3, RetomarStubInv, IniciarCicloInv DEF Retomar
<1>4. ASSUME NEW p \in Processos, NEW l \in Leads,
             \/ Webhook(p, l) \/ RotearManual(p, l) \/ Redisparar(p, l)
             \/ LerParaSpam(p, l) \/ CarregarBacklog(p, l)
      PROVE  IInv'
  BY <1>4, WebhookInv, PessoasInv
<1>5. CASE \E l \in Leads : DesfazerSpam(l)
  BY <1>5, DesfazerSpamInv
<1>6. CASE LigarSombra \/ DesligarSombra \/ Passar \/ Reiniciar
  BY <1>6, SombraInv, PassarInv, ReiniciarInv
<1> QED
  BY <1>1, <1>2, <1>3, <1>4, <1>5, <1>6 DEF Next

(* The theorems. *)

\* The invariant: while no two cycles overlapped on a lead and no person took it,
\* who has it in hand has it alone and knows its row, whatever captures, cycles,
\* retries, restarts and changes of mode do (dispatchLead, the queries of the cycle).
THEOREM Coerencia == Spec => []IInv
<1>1. Init => IInv
  BY InicioInv
<1>2. IInv /\ [Next]_vars => IInv'
  BY PassoInv
<1> QED
  BY <1>1, <1>2, PTL DEF Spec

\* Rows, instances and bounds keep their types: the back-off is never looked up out
\* of its table.
THEOREM Tipagem == Spec => []TypeOK
<1>1. IInv => TypeOK
  BY DEF IInv, IInvTipo
<1> QED
  BY <1>1, Coerencia, PTL

\* Captures, cycles, retries and restarts make one conversion of a lead in the CV,
\* unless an acceptance was lost, a person stepped in or a cycle took up what another
\* one had listed (CvLeadDispatchService; the overlap has no guard in the code).
THEOREM UmaConversao == Spec => []EntregaUnica
<1>1. IInv => EntregaUnica
  BY DEF IInv, Coerente, Bem, Conta, EntregaUnica, Sos, Sozinhos
<1> QED
  BY <1>1, Coerencia, PTL

\* The inbox says delivered of the leads the CV has, and of no others, with the same
\* exceptions.
THEOREM InboxDizVerdade == Spec => []InboxFiel
<1>1. IInv => InboxFiel
  BY DEF IInv, Coerente, Bem, Conta, InboxFiel, Sos, Sozinhos, Cuida, Entregando
<1> QED
  BY <1>1, Coerencia, PTL

\* A lead costs retry_max_attempts attempts, and one for each restart and each time
\* shadow mode was on, unless a person stepped in or cycles overlapped on it.
THEOREM CustoLimitado == Spec => []TentativasLimitadas
<1>1. IInv => TentativasLimitadas
  <2> SUFFICES ASSUME IInv, NEW l \in Leads, l \in Sozinhos
               PROVE  lead[l].tent <= MaxTent + quedas + ligadas
    BY DEF TentativasLimitadas, Sozinhos
  <2> QED
    BY DEF IInv, Coerente, Bem, Contada
<1> QED
  BY <1>1, Coerencia, PTL

\* Rows change in the hands of who has them.
LEMMA SemMaos ==
  ASSUME IInv, NEW l \in Leads, l \in Sozinhos, Solto(l), lead[l].status # "ausente",
         NEW p \in Processos, Passo(p)
  PROVE  lead'[l] = lead[l]
<1>1. /\ lead \in [Leads -> Lead] /\ Maos(p) /\ ~NaMao(p, l)
  BY DEF IInv, IInvTipo, TypeOK, LeadsTypeOK, Coerente, Solto
<1>2. proc[p].l = l /\ proc[p].pc \in Pcs \ {"livre", "aguarda"} =>
        proc[p].pc = "graph" /\ proc[p].inst.status = "ausente"
  BY <1>1 DEF NaMao, Maos, Pcs, Sozinhos
<1>3. CASE \/ Validar(p) \/ Rotear(p) \/ Reivindicar(p) \/ Dispensar(p) \/ Sombrear(p)
           \/ Postar(p) \/ Aceitar(p) \/ MarcarEntregue(p)
  BY <1>1, <1>2, <1>3 DEF Validar, Rotear, Reivindicar, Dispensar, Sombrear, Postar, Aceitar,
     MarcarEntregue, Posta, Salvar, Pcs
<1>4. CASE Rejeitar(p) \/ Falhar(p) \/ PerderEntrega(p) \/ MarcarSpam(p) \/ Promover(p)
  BY <1>1, <1>2, <1>4 DEF Rejeitar, Falhar, PerderEntrega, MarcarSpam, Promover, Posta, Salvar,
     Pcs, Sozinhos
<1>5. CASE Criar(p)
  BY <1>1, <1>2, <1>5 DEF Criar, Salvar, Pcs
<1>6. CASE FalharBusca(p)
  BY <1>1, <1>2, <1>6 DEF FalharBusca, Pcs
<1>7. CASE \E m \in Leads : Carregar(p, m)
  BY <1>7 DEF Carregar
<1> QED
  BY <1>3, <1>4, <1>5, <1>6, <1>7 DEF Passo

\* No query, retry or restart takes a dead letter up: it waits for a person, unless
\* cycles overlapped on it before.
THEOREM DeadLetterFica == Spec => DeadLetterEspera
<1>1. ASSUME IInv, [Next]_vars, NEW l \in Leads, l \in Sozinhos,
             lead[l].status = "failed", lead[l].prox = Nulo
      PROVE  lead'[l].status = "failed" /\ lead'[l].tent = lead[l].tent
  <2>1. Bem(l) /\ lead \in [Leads -> Lead]
    BY <1>1 DEF IInv, Coerente, IInvTipo, TypeOK, LeadsTypeOK
  <2>2. Solto(l)
    BY <1>1, <2>1 DEF Bem, QuemTemConhece, Conhece, NaMao, Solto
  <2>3. CASE UNCHANGED lead
    BY <1>1, <2>3
  <2>4. ASSUME NEW p \in Processos, Passo(p) PROVE lead'[l] = lead[l]
    BY <1>1, <2>2, <2>4, SemMaos
  <2>5. ASSUME NEW m \in Leads, DesfazerSpam(m) PROVE lead'[l] = lead[l]
    BY <1>1, <2>1, <2>5 DEF DesfazerSpam
  <2>6. CASE Passar
    BY <1>1, <2>1, <2>6 DEF Passar, Depois
  <2> QED
    BY <1>1, <2>3, <2>4, <2>5, <2>6 DEF Next, vars, leadVars, Retomar, RetomarStub, IniciarCiclo,
       Retoma, Webhook, RotearManual, Redisparar, LerParaSpam, CarregarBacklog, EmMaos,
       LigarSombra, DesligarSombra, Reiniciar
<1>2. IInv /\ [Next]_vars =>
        [\A l \in Sozinhos : lead[l].status = "failed" /\ lead[l].prox = Nulo =>
           lead'[l].status = "failed" /\ lead'[l].tent = lead[l].tent]_vars
  BY <1>1 DEF Sozinhos
<1> QED
  BY <1>2, Coerencia, PTL DEF Spec, DeadLetterEspera
=============================================================================
