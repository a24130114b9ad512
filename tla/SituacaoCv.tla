----------------------------- MODULE SituacaoCv -----------------------------
(***************************************************************************)
(* The change of CV stage that follows an emission: a run schedules it in  *)
(* the row (agendarSituacaoCv), and a tick every minute posts the due ones *)
(* to the CV and marks them (boletoSituacaoApplyScheduler). Ticks have no  *)
(* overlap guard, a POST may be lost or answered late, and the server may  *)
(* restart anywhere.                                                       *)
(***************************************************************************)
EXTENDS LoteTiming, FiniteSets

CONSTANTS
  MaxLinhas,    \* rows of boleto_history with a stage to change
  ReservaDe,    \* the reserva of each row
  Resposta,     \* what the CV says of each row: aceita, recusa (4xx), quebra (5xx for ever)
  Ticks,        \* ticks that may run at the same time
  LimitePorTick,\* 50 in the code
  SafetyMin,    \* delay_situacao_sucesso_min: any number but 0, which is taken for 2
  MaxAgora,     \* bound of the clock
  Agendamentos, \* instants at which a run schedules its stage
  MaxFalhas, MaxQuedas           \* passing failures of the CV, restarts

Linhas == 1..MaxLinhas
Reservas == {ReservaDe[l] : l \in Linhas}

ASSUME SituacaoAssumption ==
  /\ MaxLinhas \in Nat /\ LimitePorTick \in Nat \ {0} /\ SafetyMin \in Int \ {0}
  /\ MaxAgora \in Nat /\ Agendamentos \subseteq Nat
  /\ MaxFalhas \in Nat /\ MaxQuedas \in Nat
  /\ Resposta \in [Linhas -> {"aceita", "recusa", "quebra"}]

VARIABLES
  agora,
  linha,     \* situacao_pendente_*: when it was scheduled, when it is due, its state
  tick,      \* a running tick: the rows it still has to apply and what it does
  etapa,     \* the CV's stage of each reserva: the row that last changed it
  efeitos,   \* times the CV changed the stage for each row, up to 2 (history)
  tropecou,  \* rows whose POST failed, was lost or was cut by a restart (history)
  falhas, quedas

cvVars == <<etapa, efeitos>>
vars == <<agora, linha, tick, cvVars, tropecou, falhas, quedas>>

Linha == [fase: {"livre", "pendente", "aplicada"}, base: Nat, em: Nat]
Tick == [pc: {"parado", "post", "marcar"}, lista: SUBSET Linhas]
TickParado == [pc |-> "parado", lista |-> {}]

TypeOK == /\ agora \in 0..MaxAgora
          /\ linha \in [Linhas -> Linha]
          /\ tick \in [Ticks -> Tick]
          /\ \A t \in Ticks : tick[t].pc = "parado" <=> tick[t].lista = {}
          /\ etapa \in [Reservas -> Linhas \cup {0}]
          /\ efeitos \in [Linhas -> Nat]
          /\ tropecou \subseteq Linhas
          /\ falhas \in 0..MaxFalhas /\ quedas \in 0..MaxQuedas

Init == /\ agora = 0
        /\ linha = [l \in Linhas |-> [fase |-> "livre", base |-> 0, em |-> 0]]
        /\ tick = [t \in Ticks |-> TickParado]
        /\ etapa = [r \in Reservas |-> 0] /\ efeitos = [l \in Linhas |-> 0]
        /\ tropecou = {} /\ falhas = 0 /\ quedas = 0

Passar == /\ agora < MaxAgora /\ agora' = agora + 1
          /\ UNCHANGED <<linha, tick, cvVars, tropecou, falhas, quedas>>

\* agendarSituacaoCv, once for each row.
Agendar(l) ==
  /\ linha[l].fase = "livre" /\ agora \in Agendamentos
  /\ linha' = [linha EXCEPT ![l] = [fase |-> "pendente", base |-> agora,
                                    em |-> SituacaoTarget(agora, SafetyMin)]]
  /\ UNCHANGED <<agora, tick, cvVars, tropecou, falhas, quedas>>

Madura(l) == linha[l].fase = "pendente" /\ linha[l].em <= agora
\* A plausible slip: the newest first.
AntesMut(k, l) == k >= l
Antes(k, l) == \/ linha[k].em < linha[l].em
               \/ linha[k].em = linha[l].em /\ k <= l

\* ORDER BY situacao_pendente_em, id LIMIT 50. The list of a tick is the set of
\* the rows it still has; it takes them in this order.
Fila == LET maduras == {l \in Linhas : Madura(l)}
        IN {l \in maduras :
              Cardinality({k \in maduras : Antes(k, l)}) <= LimitePorTick}
Atual(t, l) == l \in tick[t].lista /\ \A k \in tick[t].lista : Antes(l, k)

IniciarTick(t) ==
  /\ tick[t].pc = "parado" /\ Fila # {}
  /\ tick' = [tick EXCEPT ![t] = [pc |-> "post", lista |-> Fila]]
  /\ UNCHANGED <<agora, linha, cvVars, tropecou, falhas, quedas>>

\* A plausible slip: the tick does not end with its list.
AvancarMut(t, l) == tick' = [tick EXCEPT ![t].pc = "post", ![t].lista = @ \ {l}]
Avancar(t, l) ==
  LET resto == tick[t].lista \ {l}
  IN tick' = [tick EXCEPT ![t] = IF resto = {} THEN TickParado
                                 ELSE [pc |-> "post", lista |-> resto]]
Marcada(l) == [linha EXCEPT ![l].fase = "aplicada"]
Conta(l) == IF efeitos[l] < 2 THEN efeitos[l] + 1 ELSE efeitos[l]
Efeito(l) == [efeitos EXCEPT ![l] = Conta(l)]
Muda(l) == efeitos' = Efeito(l) /\ etapa' = [etapa EXCEPT ![ReservaDe[l]] = l]
Postando(t, l) == tick[t].pc = "post" /\ Atual(t, l)

\* The CV changes the stage and the answer arrives; the mark is another await.
Aplicar(t, l) ==
  /\ Postando(t, l) /\ Resposta[l] = "aceita"
  /\ Muda(l)
  /\ tick' = [tick EXCEPT ![t].pc = "marcar"]
  /\ UNCHANGED <<agora, linha, tropecou, falhas, quedas>>

\* item.update, with no condition on the row.
Marcar(t, l) ==
  /\ tick[t].pc = "marcar" /\ Atual(t, l)
  /\ linha' = Marcada(l) /\ Avancar(t, l)
  /\ UNCHANGED <<agora, cvVars, tropecou, falhas, quedas>>

\* 4xx: marked as well, so that a permanent error does not come back.
RecusarMut(t, l) ==
  /\ Postando(t, l) /\ Resposta[l] = "recusa"
  /\ Avancar(t, l)
  /\ UNCHANGED <<agora, linha, cvVars, tropecou, falhas, quedas>>
Recusar(t, l) ==
  /\ Postando(t, l) /\ Resposta[l] = "recusa"
  /\ linha' = Marcada(l) /\ Avancar(t, l)
  /\ UNCHANGED <<agora, cvVars, tropecou, falhas, quedas>>

\* A plausible slip: any failure marks the row.
FalharPostMut(t, l) ==
  /\ Postando(t, l) /\ Resposta[l] # "recusa" /\ falhas < MaxFalhas
  /\ falhas' = falhas + 1
  /\ linha' = Marcada(l) /\ Avancar(t, l)
  /\ UNCHANGED <<agora, cvVars, tropecou, quedas>>
\* 5xx or no answer: the row stays for another tick. A POST without an answer
\* may have changed the stage.
FalharPost(t, l) ==
  /\ Postando(t, l)
  /\ \/ Resposta[l] = "quebra" /\ UNCHANGED <<cvVars, falhas>>
     \/ /\ Resposta[l] = "aceita" /\ falhas < MaxFalhas
        /\ falhas' = falhas + 1
        /\ Muda(l) \/ UNCHANGED cvVars
  /\ tropecou' = tropecou \cup {l}
  /\ Avancar(t, l)
  /\ UNCHANGED <<agora, linha, quedas>>

\* A restart ends the ticks; a POST on its way may still arrive.
Reiniciar ==
  /\ quedas < MaxQuedas /\ quedas' = quedas + 1
  /\ LET cortadas == {l \in Linhas : \E t \in Ticks : Atual(t, l)}
         emVoo == {l \in cortadas : Resposta[l] = "aceita" /\ \E t \in Ticks : Postando(t, l)}
     IN /\ \E chegam \in SUBSET emVoo :
             /\ efeitos' = [l \in Linhas |-> IF l \in chegam THEN Conta(l) ELSE efeitos[l]]
             /\ etapa' \in [Reservas -> Linhas \cup {0}]
             /\ \A r \in Reservas :
                  LET suas == {l \in chegam : ReservaDe[l] = r}
                  IN etapa'[r] \in (IF suas = {} THEN {etapa[r]} ELSE suas)
        /\ tropecou' = tropecou \cup cortadas
  /\ tick' = [t \in Ticks |-> TickParado]
  /\ UNCHANGED <<agora, linha, falhas>>

PassoTick(t) == \E l \in Linhas : \/ Aplicar(t, l) \/ Marcar(t, l)
                                  \/ Recusar(t, l) \/ FalharPost(t, l)

Next == \/ Passar
        \/ \E l \in Linhas : Agendar(l)
        \/ \E t \in Ticks : IniciarTick(t) \/ PassoTick(t)
        \/ Reiniciar

Spec == Init /\ [][Next]_vars

\* The clock goes on, the cron fires every minute and every POST ends in an
\* answer or a time-out.
FairSpec == /\ Spec /\ WF_vars(Passar)
            /\ \A t \in Ticks : WF_vars(IniciarTick(t)) /\ WF_vars(PassoTick(t))
-----------------------------------------------------------------------------
\* At least once: a row is marked only after the CV changed its stage, or
\* refused to, whatever fails, is lost or restarts in between.
PeloMenosUmaVez ==
  \A l \in Linhas : linha[l].fase = "aplicada"
                       => Resposta[l] # "quebra" /\ (Resposta[l] = "aceita" => efeitos[l] > 0)

\* The batch that sends the reserva to Sienge has run when its stage changes: one
\* began after the scheduling by the configured margin, and a minute before the
\* change. The code skips one batch at most, so a margin of more than the five
\* minutes between batches is kept up to five minutes only.
Margem(s) == IF s <= 5 THEN s ELSE 5
EtapaDepoisDoLote ==
  [][\A l \in Linhas : efeitos'[l] > efeitos[l] =>
       \E n \in 0..agora : /\ linha[l].base + Margem(SafetyMin) * Minuto <= n * Lote
                           /\ n * Lote + Minuto <= agora]_vars

\* The CV's stage of a reserva goes back from a newer activation to an older one
\* only when a POST is repeated: one that failed, was lost or was cut by a restart,
\* or one that another tick, which had the row in its list too, has already made.
\* Ticks that overlap do so: nothing in the code keeps them apart, and the second
\* POST of a row is made whatever was posted meanwhile.
MaisNova(k, l) == /\ l < k /\ ReservaDe[k] = ReservaDe[l]
                  /\ linha[l].base <= linha[k].base
Assume(l) == etapa[ReservaDe[l]] # l /\ etapa'[ReservaDe[l]] = l
JaPostada(l) == \/ linha[l].fase = "aplicada"
                \/ \E t \in Ticks : tick[t].pc = "marcar" /\ Atual(t, l)
OrdemDasEtapas ==
  [][\A k, l \in Linhas : Assume(l) /\ MaisNova(k, l) /\ efeitos[k] > 0 =>
       l \in tropecou \/ JaPostada(l)]_vars

\* Rows that the CV keeps failing do not hold the others back as long as they do
\* not fill a tick: every other stage is applied or refused.
TodaEtapaAplicada ==
  \A l \in Linhas : Resposta[l] # "quebra" =>
     (linha[l].fase = "pendente" ~> linha[l].fase = "aplicada")
=============================================================================
