------------------------- MODULE SituacaoCv_proofs -------------------------
(***************************************************************************)
(* Theorems about the change of CV stage: the arithmetic of the batch, the *)
(* window of emission, and the safety of the scheduler for any number of   *)
(* rows, concurrent ticks, failures and restarts.                          *)
(***************************************************************************)
EXTENDS SituacaoCv, BoletoJanela, FiniteSetTheorems, TLAPS

(***************************************************************************)
(* The batch.                                                              *)
(***************************************************************************)

\* The next batch is a multiple of five minutes, later than t by at most five.
LEMMA LoteSeguinte ==
  ASSUME NEW t \in Nat
  PROVE  \E q \in Nat : /\ Proximo5(t) = q * Lote
                        /\ q >= 1
                        /\ Proximo5(t) > t
                        /\ Proximo5(t) <= t + Lote
<1> DEFINE m == t \div Minuto
           q == m \div 5
           r == m % 5
<1>1. Minuto \in Nat /\ Minuto > 0
  BY MinutoAssumption
<1>2. m \in Nat /\ Minuto * m <= t /\ t < Minuto * m + Minuto
  BY <1>1, Z3
<1>3. q \in Nat /\ r \in 0..4 /\ m = 5 * q + r
  BY <1>2
<1> HIDE DEF m
<1>4. Proximo5(t) = Minuto * (5 * q + 5)
  BY <1>2, <1>3 DEF Proximo5, m
<1> HIDE DEF q, r
<1>5. Minuto * (5 * q + 5) = 5 * (Minuto * q) + 5 * Minuto
  BY <1>1, <1>3
<1>6. Minuto * m = 5 * (Minuto * q) + Minuto * r
  BY <1>1, <1>2, <1>3
<1>7. Minuto * r >= 0 /\ Minuto * r <= 4 * Minuto
  BY <1>1, <1>3
<1>8. Minuto * q \in Nat /\ Minuto * m \in Nat /\ Minuto * r \in Nat
  BY <1>1, <1>2, <1>3
<1>9. Proximo5(t) > t /\ Proximo5(t) <= t + Lote
  BY <1>1, <1>2, <1>4, <1>5, <1>6, <1>7, <1>8 DEF Lote
<1>10. Proximo5(t) = (q + 1) * Lote
  BY <1>1, <1>3, <1>4, <1>5 DEF Lote
<1>11. q + 1 \in Nat /\ q + 1 >= 1
  BY <1>3
<1> QED BY <1>9, <1>10, <1>11

\* Two instants, in order, have batches in order.
LEMMA LoteMonotono ==
  ASSUME NEW t \in Nat, NEW u \in Nat, t <= u
  PROVE  Proximo5(t) <= Proximo5(u)
<1>1. PICK q \in Nat : Proximo5(t) = q * Lote /\ Proximo5(t) <= t + Lote
  BY LoteSeguinte
<1>2. PICK p \in Nat : Proximo5(u) = p * Lote /\ Proximo5(u) > u
  BY LoteSeguinte
<1>3. Lote \in Nat /\ Lote > 0
  BY MinutoAssumption DEF Lote
<1>4. ASSUME p + 1 <= q PROVE FALSE
  <2>1. p * Lote + Lote <= q * Lote
    BY <1>3, <1>4
  <2>2. q * Lote \in Nat /\ p * Lote \in Nat
    BY <1>3
  <2> QED BY <1>1, <1>2, <1>3, <2>1, <2>2
<1>5. q <= p
  BY <1>4
<1>6. q * Lote <= p * Lote
  BY <1>3, <1>5
<1> QED BY <1>1, <1>2, <1>6

\* The header of cvLoteTiming.js gives three to seven minutes: with the seconds it
\* is less than eight. The batch that is waited for, a minute before the target, keeps
\* the margin, or five minutes of it if it is longer.
THEOREM AlvoDepoisDoLote ==
  ASSUME NEW t \in Nat, NEW s \in Int
  PROVE  LET alvo == SituacaoTarget(t, s)
         IN /\ alvo \in Nat /\ t + Minuto < alvo
            /\ s <= 2 => alvo < t + 8 * Minuto
            /\ \E n \in Nat : /\ alvo = n * Lote + Minuto
                             /\ t + Margem(s) * Minuto <= n * Lote
<1> DEFINE p == Proximo5(t)
<1>1. PICK q \in Nat : p = q * Lote /\ p > t /\ p <= t + Lote
  BY LoteSeguinte
<1>2. Minuto \in Nat /\ Minuto > 0 /\ Lote \in Nat /\ Lote = 5 * Minuto
  BY MinutoAssumption DEF Lote
<1>3. q * Lote \in Nat /\ (q + 1) * Lote = q * Lote + Lote /\ q + 1 \in Nat
  BY <1>2
<1>4. s * Minuto \in Int /\ Margem(s) * Minuto \in Int
  BY <1>2 DEF Margem
<1>5. s <= 2 => s * Minuto <= 2 * Minuto
  BY <1>2
<1>6. Margem(s) * Minuto <= Lote
  BY <1>2 DEF Margem
<1> HIDE DEF p
<1>7. CASE p - t < s * Minuto
  <2>1. SituacaoTarget(t, s) = (q + 1) * Lote + Minuto
    BY <1>1, <1>3, <1>7 DEF SituacaoTarget, p
  <2>2. t + Minuto < (q + 1) * Lote + Minuto
    BY <1>1, <1>2, <1>3
  <2>3. s <= 2 => (q + 1) * Lote + Minuto < t + 8 * Minuto
    BY <1>1, <1>2, <1>3, <1>4, <1>5, <1>7
  <2>4. t + Margem(s) * Minuto <= (q + 1) * Lote
    BY <1>1, <1>2, <1>3, <1>4, <1>6
  <2> QED BY <1>2, <1>3, <2>1, <2>2, <2>3, <2>4
<1>8. CASE ~(p - t < s * Minuto)
  <2>1. SituacaoTarget(t, s) = q * Lote + Minuto
    BY <1>1, <1>8 DEF SituacaoTarget, p
  <2>2. t + Minuto < q * Lote + Minuto /\ q * Lote + Minuto < t + 8 * Minuto
    BY <1>1, <1>2, <1>3
  <2>3. t + s * Minuto <= q * Lote
    BY <1>1, <1>2, <1>3, <1>4, <1>8
  <2>4. Margem(s) * Minuto <= s * Minuto
    BY <1>2 DEF Margem
  <2>5. t + Margem(s) * Minuto <= q * Lote
    BY <1>1, <1>2, <1>3, <1>4, <2>3, <2>4
  <2> QED BY <1>2, <1>3, <2>1, <2>2, <2>5
<1> QED BY <1>7, <1>8

LEMMA AlvoMonotono ==
  ASSUME NEW t \in Nat, NEW u \in Nat, NEW s \in Int, t <= u
  PROVE  SituacaoTarget(t, s) <= SituacaoTarget(u, s)
<1> DEFINE p == Proximo5(t)
           r == Proximo5(u)
<1>1. PICK q \in Nat : p = q * Lote /\ p > t
  BY LoteSeguinte
<1>2. PICK v \in Nat : r = v * Lote /\ r > u
  BY LoteSeguinte
<1>3. Minuto \in Nat /\ Lote \in Nat /\ Lote > 0 /\ s * Minuto \in Int
  BY MinutoAssumption DEF Lote
<1>4. p <= r /\ p \in Nat /\ r \in Nat
  BY <1>1, <1>2, <1>3, LoteMonotono
<1>5. p < r => p + Lote <= r
  <2>1. ASSUME q * Lote < v * Lote PROVE q + 1 <= v
    <3>1. ASSUME v <= q PROVE FALSE
      <4>1. v * Lote <= q * Lote
        BY <1>3, <3>1
      <4>2. v * Lote \in Nat /\ q * Lote \in Nat
        BY <1>3
      <4> QED BY <2>1, <4>1, <4>2
    <3> QED BY <3>1
  <2>2. q + 1 <= v => q * Lote + Lote <= v * Lote
    BY <1>3
  <2> QED BY <1>1, <1>2, <2>1, <2>2
<1> HIDE DEF p, r
<1> QED BY <1>3, <1>4, <1>5 DEF SituacaoTarget, p, r

(***************************************************************************)
(* The window.                                                             *)
(***************************************************************************)

\* The instant an emission is put off to is inside the window, less than a day
\* later, and no opening is skipped on the way.
THEOREM ProximaAberturaCerta ==
  ASSUME NEW t \in Nat, NEW s \in [ligada: BOOLEAN, inicio: Int, fim: Int],
         ~DentroDaJanela(s, t)
  PROVE  LET u == ProximaAbertura(s, t)
         IN /\ DentroDaJanela(s, u)
            /\ t < u /\ u < t + 24
            /\ \A v \in t..(u - 1) : ~DentroDaJanela(s, v)
<1>1. JanelaAtiva(s) /\ ~(s.inicio <= HoraDe(t) /\ HoraDe(t) < s.fim)
  BY DEF DentroDaJanela
<1>2. s.inicio \in 0..23 /\ s.fim \in 1..24 /\ s.inicio < s.fim
  BY <1>1 DEF JanelaAtiva, Valida
<1>3. HoraDe(t) \in 0..23 /\ DiaDe(t) \in Nat /\ t = 24 * DiaDe(t) + HoraDe(t)
  BY DEF HoraDe, DiaDe
<1> DEFINE u == ProximaAbertura(s, t)
<1>4. CASE HoraDe(t) < s.inicio
  <2>1. u = 24 * DiaDe(t) + s.inicio
    BY <1>4 DEF ProximaAbertura
  <2>2. u % 24 = s.inicio
    BY <1>2, <1>3, <2>1
  <2>3. \A v \in t..(u - 1) : v % 24 < s.inicio
    BY <1>2, <1>3, <2>1
  <2> QED BY <1>1, <1>2, <1>3, <1>4, <2>1, <2>2, <2>3 DEF DentroDaJanela, HoraDe
<1>5. CASE ~(HoraDe(t) < s.inicio)
  <2>1. u = 24 * (DiaDe(t) + 1) + s.inicio
    BY <1>5 DEF ProximaAbertura
  <2>2. HoraDe(t) >= s.fim
    BY <1>1, <1>2, <1>3, <1>5
  <2>3. u % 24 = s.inicio
    BY <1>2, <1>3, <2>1
  <2>4. \A v \in t..(u - 1) : v % 24 >= s.fim \/ v % 24 < s.inicio
    BY <1>2, <1>3, <2>1, <2>2
  <2>5. DentroDaJanela(s, u)
    BY <1>2, <2>3 DEF DentroDaJanela, HoraDe
  <2>6. t < u /\ u < t + 24
    BY <1>2, <1>3, <2>1, <2>2
  <2>7. \A v \in t..(u - 1) : ~DentroDaJanela(s, v)
    BY <1>1, <2>4 DEF DentroDaJanela, HoraDe
  <2> QED BY <2>5, <2>6, <2>7
<1> QED BY <1>4, <1>5

(***************************************************************************)
(* The scheduler.                                                          *)
(***************************************************************************)

\* A scheduled row is due at the target of the instant it was scheduled at.
Prazo == \A l \in Linhas : linha[l].fase # "livre" =>
            /\ linha[l].base <= agora
            /\ linha[l].em = SituacaoTarget(linha[l].base, SafetyMin)
\* A tick works on rows that are due.
ListaMadura == \A t \in Ticks : \A l \in tick[t].lista :
                  linha[l].fase # "livre" /\ linha[l].em <= agora
\* Only due rows were applied.
EfeitoMaduro == \A l \in Linhas : efeitos[l] > 0 =>
                   linha[l].fase # "livre" /\ linha[l].em <= agora
\* A tick that is about to mark a row has applied it.
MarcaAplicada == \A t \in Ticks : \A l \in tick[t].lista :
                    tick[t].pc = "marcar" /\ Atual(t, l)
                      => Resposta[l] = "aceita" /\ efeitos[l] > 0
\* A row that is still to be applied, and met no failure.
Devida(l) == /\ linha[l].fase # "livre" /\ Resposta[l] = "aceita"
             /\ l \notin tropecou /\ efeitos[l] = 0
\* A tick that has a row has the older ones of its reserva that are still due ...
ListaOrdenada == \A t \in Ticks : \A k \in tick[t].lista : \A l \in Linhas :
                    MaisNova(k, l) /\ Devida(l) => l \in tick[t].lista
\* ... so a row was applied only after them.
Ordenada == \A k, l \in Linhas : MaisNova(k, l) /\ Devida(l) => efeitos[k] = 0

\* A row that had its effect, and met no failure, was posted by a tick that marks it.
Postada == \A l \in Linhas : efeitos[l] > 0 /\ l \notin tropecou => JaPostada(l)

IInv == /\ TypeOK /\ PeloMenosUmaVez /\ Prazo /\ ListaMadura
        /\ EfeitoMaduro /\ MarcaAplicada /\ ListaOrdenada /\ Ordenada /\ Postada

\* A later row is due no earlier.
LEMMA OrdemDosPrazos ==
  ASSUME TypeOK, Prazo, NEW k \in Linhas, NEW l \in Linhas,
         linha[k].fase # "livre", linha[l].fase # "livre", MaisNova(k, l)
  PROVE  linha[l].em <= linha[k].em
<1>1. linha[k].base \in Nat /\ linha[l].base \in Nat /\ linha[l].base <= linha[k].base
  BY DEF TypeOK, Linha, MaisNova
<1>2. SafetyMin \in Int
  BY SituacaoAssumption
<1> QED BY <1>1, <1>2, AlvoMonotono DEF Prazo

\* The row a tick works on has no older one of its reserva in the list.
LEMMA AtualEMaisAntiga ==
  ASSUME IInv, NEW t \in Ticks, NEW k \in Linhas, NEW l \in Linhas,
         Atual(t, k), MaisNova(k, l)
  PROVE  l \notin tick[t].lista
<1> SUFFICES ASSUME l \in tick[t].lista PROVE FALSE
  OBVIOUS
<1>1. linha[k].fase # "livre" /\ linha[l].fase # "livre"
  BY DEF IInv, ListaMadura, Atual
<1>2. linha[l].em <= linha[k].em
  BY <1>1, OrdemDosPrazos DEF IInv
<1>3. Antes(k, l)
  BY DEF Atual
<1>4. linha[k].em \in Nat /\ linha[l].em \in Nat
  BY DEF IInv, TypeOK, Linha
<1> QED BY <1>2, <1>3, <1>4 DEF Antes, MaisNova, Linhas

\* Every query takes the older rows first.
LEMMA FilaOrdenada ==
  ASSUME TypeOK, Prazo, NEW k \in Fila, NEW l \in Linhas, Madura(l), Antes(l, k)
  PROVE  l \in Fila
<1> DEFINE maduras == {j \in Linhas : Madura(j)}
           A == {j \in maduras : Antes(j, l)}
           B == {j \in maduras : Antes(j, k)}
<1>1. IsFiniteSet(Linhas)
  BY SituacaoAssumption, FS_Interval DEF Linhas
<1>2. IsFiniteSet(B)
  BY <1>1, FS_Subset
<1>3. A \subseteq B
  BY DEF Antes, TypeOK, Linha, Linhas, Fila
<1>4. Cardinality(A) <= Cardinality(B) /\ Cardinality(A) \in Nat /\ Cardinality(B) \in Nat
  BY <1>2, <1>3, FS_Subset, FS_CardinalityType
<1>5. Cardinality(B) <= LimitePorTick
  BY DEF Fila
<1> QED BY <1>4, <1>5, SituacaoAssumption DEF Fila

LEMMA InicioIndutivo == Init => IInv
<1> SUFFICES ASSUME Init PROVE IInv
  OBVIOUS
<1> USE DEF Init
<1>1. TypeOK
  BY SituacaoAssumption DEF TypeOK, Linha, Tick, TickParado
<1>2. PeloMenosUmaVez /\ Prazo /\ ListaMadura /\ EfeitoMaduro /\ MarcaAplicada
  BY DEF PeloMenosUmaVez, Prazo, ListaMadura, EfeitoMaduro, MarcaAplicada, TickParado
<1>3. ListaOrdenada /\ Ordenada /\ Postada
  BY DEF ListaOrdenada, Ordenada, Postada, Devida, TickParado
<1> QED BY <1>1, <1>2, <1>3 DEF IInv

\* What leaving a row behind does to the lists.
LEMMA AvancarListas ==
  ASSUME TypeOK, NEW t \in Ticks, NEW l \in Linhas, Atual(t, l), Avancar(t, l)
  PROVE  /\ tick' \in [Ticks -> Tick]
         /\ \A u \in Ticks : tick'[u].pc = "parado" <=> tick'[u].lista = {}
         /\ tick'[t].lista = tick[t].lista \ {l} /\ tick'[t].pc # "marcar"
         /\ \A u \in Ticks \ {t} : tick'[u] = tick[u]
<1> DEFINE resto == tick[t].lista \ {l}
<1>1. tick'[t] = IF resto = {} THEN TickParado ELSE [pc |-> "post", lista |-> resto]
  BY DEF Avancar, TypeOK
<1>2. \A u \in Ticks \ {t} : tick'[u] = tick[u]
  BY DEF Avancar, TypeOK
<1>3. DOMAIN tick' = Ticks /\ tick' = [u \in Ticks |-> tick'[u]]
  BY DEF Avancar, TypeOK
<1>4. tick'[t] \in Tick
  BY <1>1 DEF TypeOK, Tick, TickParado
<1>5. tick' \in [Ticks -> Tick]
  BY <1>2, <1>3, <1>4 DEF TypeOK
<1>6. tick'[t].pc = "parado" <=> tick'[t].lista = {}
  BY <1>1 DEF TickParado
<1>7. tick'[t].lista = resto /\ tick'[t].pc # "marcar"
  BY <1>1 DEF TickParado
<1> QED BY <1>2, <1>5, <1>6, <1>7 DEF TypeOK

LEMMA Passa == IInv /\ Passar => IInv'
<1> SUFFICES ASSUME IInv, Passar PROVE IInv'
  OBVIOUS
<1> USE DEF IInv, Passar, cvVars
<1>1. TypeOK'
  BY SituacaoAssumption DEF TypeOK
<1>2. PeloMenosUmaVez' /\ Ordenada' /\ MarcaAplicada' /\ ListaOrdenada' /\ Postada'
  BY DEF cvVars, PeloMenosUmaVez, Ordenada, MarcaAplicada, ListaOrdenada, Postada, JaPostada,
         Devida, MaisNova, Atual, Antes
<1>3. agora \in Nat /\ agora <= agora'
  BY SituacaoAssumption DEF TypeOK
<1>4. Prazo'
  BY <1>3 DEF Prazo, TypeOK, Linha
<1>5. ListaMadura' /\ EfeitoMaduro'
  BY <1>3 DEF ListaMadura, EfeitoMaduro, TypeOK, Linha, Tick
<1> QED BY <1>1, <1>2, <1>4, <1>5

LEMMA Agenda == ASSUME NEW l \in Linhas, IInv, Agendar(l) PROVE IInv'
<1> USE DEF cvVars
<1> DEFINE alvo == SituacaoTarget(agora, SafetyMin)
<1>1. agora \in Nat /\ SafetyMin \in Int
  BY SituacaoAssumption DEF IInv, TypeOK
<1>2. alvo \in Nat /\ agora < alvo
  BY <1>1, AlvoDepoisDoLote, MinutoAssumption
<1>3. linha'[l] = [fase |-> "pendente", base |-> agora, em |-> alvo]
  BY DEF IInv, TypeOK, Agendar
<1>4. \A k \in Linhas \ {l} : linha'[k] = linha[k]
  BY DEF IInv, TypeOK, Agendar
<1>5. linha[l].fase = "livre"
  BY DEF Agendar
<1> HIDE DEF alvo
<1>6. \A t \in Ticks : l \notin tick[t].lista
  BY <1>5 DEF IInv, ListaMadura
<1>7. TypeOK'
  BY <1>1, <1>2, <1>3 DEF IInv, TypeOK, Agendar, Linha
<1>8. PeloMenosUmaVez'
  BY <1>3, <1>4 DEF IInv, PeloMenosUmaVez, Agendar
<1>9. Prazo'
  BY <1>1, <1>3, <1>4 DEF IInv, Prazo, Agendar, alvo
<1>10. \A t \in Ticks : \A k \in tick[t].lista : k \in Linhas \ {l}
  BY <1>6 DEF IInv, TypeOK, Tick
<1>11. ListaMadura' /\ MarcaAplicada'
  <2>1. ListaMadura'
    BY <1>4, <1>10 DEF IInv, ListaMadura, Agendar
  <2>2. ASSUME NEW t \in Ticks, NEW k \in tick[t].lista, Atual(t, k)'
        PROVE  Atual(t, k)
    BY <1>4, <1>10, <2>2 DEF Atual, Antes, Agendar
  <2>3. MarcaAplicada'
    BY <2>2 DEF IInv, MarcaAplicada, Agendar
  <2> QED BY <2>1, <2>3
<1>12. efeitos[l] = 0
  BY <1>5 DEF IInv, EfeitoMaduro, TypeOK
<1>13. EfeitoMaduro'
  BY <1>4, <1>12 DEF IInv, EfeitoMaduro, Agendar
\* A row that is due already was scheduled before now.
<1>14. ASSUME NEW k \in Linhas, k # l, linha[k].fase # "livre", linha[k].em <= agora
       PROVE  linha[k].base \in Nat /\ linha[k].base < agora
  <2>1. linha[k].base \in Nat /\ linha[k].em = SituacaoTarget(linha[k].base, SafetyMin)
    BY <1>14 DEF IInv, TypeOK, Linha, Prazo
  <2>2. linha[k].base < linha[k].em /\ linha[k].em \in Nat
    BY <1>1, <2>1, AlvoDepoisDoLote, MinutoAssumption
  <2> QED BY <1>1, <1>14, <2>1, <2>2
<1>15. ASSUME NEW k \in Linhas, k # l, linha[k].fase # "livre", linha[k].em <= agora
       PROVE  ~MaisNova(k, l)'
  BY <1>1, <1>3, <1>4, <1>14, <1>15 DEF MaisNova
<1>16. ListaOrdenada'
  <2> SUFFICES ASSUME NEW t \in Ticks, NEW k \in tick[t].lista, NEW j \in Linhas,
                      MaisNova(k, j)', Devida(j)'
               PROVE  j \in tick[t].lista
    BY DEF ListaOrdenada, Agendar
  <2>1. k \in Linhas \ {l} /\ linha[k].fase # "livre" /\ linha[k].em <= agora
    BY <1>10 DEF IInv, ListaMadura
  <2>2. j # l
    BY <1>15, <2>1
  <2>3. MaisNova(k, j) /\ Devida(j)
    BY <1>4, <2>1, <2>2 DEF MaisNova, Devida, Agendar
  <2> QED BY <2>3 DEF IInv, ListaOrdenada
<1>17. Ordenada'
  <2> SUFFICES ASSUME NEW k \in Linhas, NEW j \in Linhas, MaisNova(k, j)', Devida(j)',
                      efeitos[k] # 0
               PROVE  FALSE
    BY DEF Ordenada, Agendar
  <2>1. k # l /\ efeitos[k] > 0
    BY <1>12 DEF IInv, TypeOK
  <2>2. linha[k].fase # "livre" /\ linha[k].em <= agora
    BY <2>1 DEF IInv, EfeitoMaduro
  <2>3. j # l
    BY <1>15, <2>1, <2>2
  <2>4. MaisNova(k, j) /\ Devida(j)
    BY <1>4, <2>1, <2>3 DEF MaisNova, Devida, Agendar
  <2> QED BY <2>4 DEF IInv, Ordenada
<1>18. Postada'
  <2> SUFFICES ASSUME NEW k \in Linhas, efeitos[k] > 0, k \notin tropecou
               PROVE  JaPostada(k)'
    BY DEF Postada, Agendar
  <2>1. k # l
    BY <1>12
  <2>2. CASE linha[k].fase = "aplicada"
    BY <1>4, <2>1, <2>2 DEF JaPostada
  <2>3. ASSUME NEW t \in Ticks, tick[t].pc = "marcar", Atual(t, k) PROVE JaPostada(k)'
    <3>1. Atual(t, k)'
      BY <1>4, <1>10, <2>3 DEF Atual, Antes, Agendar
    <3> QED BY <2>3, <3>1 DEF JaPostada, Agendar
  <2> QED BY <2>2, <2>3 DEF IInv, Postada, JaPostada
<1> QED BY <1>7, <1>8, <1>9, <1>11, <1>13, <1>16, <1>17, <1>18 DEF IInv

LEMMA Inicia == ASSUME NEW t \in Ticks, IInv, IniciarTick(t) PROVE IInv'
<1> USE DEF cvVars
<1>1. tick'[t] = [pc |-> "post", lista |-> Fila] /\ \A u \in Ticks \ {t} : tick'[u] = tick[u]
  BY DEF IInv, TypeOK, IniciarTick
<1>2. Fila \subseteq {l \in Linhas : Madura(l)} /\ Fila # {}
  BY DEF Fila, IniciarTick
<1>3. tick'[t] \in Tick
  BY <1>1, <1>2 DEF Tick
<1>4. TypeOK'
  BY <1>1, <1>2, <1>3 DEF IInv, TypeOK, IniciarTick
<1>5. PeloMenosUmaVez' /\ Prazo' /\ EfeitoMaduro' /\ Ordenada'
  BY DEF IInv, IniciarTick, PeloMenosUmaVez, Prazo, EfeitoMaduro, Ordenada, MaisNova, Devida
<1>6. ListaMadura'
  BY <1>1, <1>2 DEF IInv, ListaMadura, IniciarTick, Madura
<1>7. MarcaAplicada'
  <2> SUFFICES ASSUME NEW u \in Ticks, NEW k \in tick'[u].lista,
                      tick'[u].pc = "marcar", Atual(u, k)'
               PROVE  Resposta[k] = "aceita" /\ efeitos[k] > 0
    BY DEF MarcaAplicada, IniciarTick
  <2>1. u # t
    BY <1>1
  <2>2. tick'[u] = tick[u]
    BY <1>1, <2>1
  <2>3. Atual(u, k)
    BY <2>2 DEF Atual, Antes, IniciarTick
  <2> QED BY <2>2, <2>3 DEF IInv, MarcaAplicada
<1>8. ListaOrdenada'
  <2> SUFFICES ASSUME NEW u \in Ticks, NEW k \in tick'[u].lista, NEW j \in Linhas,
                      MaisNova(k, j)', Devida(j)'
               PROVE  j \in tick'[u].lista
    BY DEF ListaOrdenada
  <2>1. MaisNova(k, j) /\ Devida(j)
    BY DEF MaisNova, Devida, IniciarTick
  <2>2. CASE u # t
    BY <1>1, <2>1, <2>2 DEF IInv, ListaOrdenada
  <2>3. CASE u = t
    <3>1. k \in Fila /\ k \in Linhas /\ Madura(k)
      BY <1>1, <1>2, <2>3
    <3>2. linha[j].fase = "pendente"
      BY <2>1 DEF Devida, IInv, PeloMenosUmaVez, TypeOK, Linha
    <3>3. linha[j].em <= linha[k].em
      BY <2>1, <3>1, <3>2, OrdemDosPrazos DEF IInv, Madura
    <3>4. Madura(j) /\ Antes(j, k)
      BY <2>1, <3>1, <3>2, <3>3 DEF Madura, Antes, MaisNova, IInv, TypeOK, Linha, Linhas
    <3> QED BY <1>1, <2>3, <3>1, <3>4, FilaOrdenada DEF IInv
  <2> QED BY <2>2, <2>3
<1>9. Postada'
  <2> SUFFICES ASSUME NEW k \in Linhas, efeitos[k] > 0, k \notin tropecou
               PROVE  JaPostada(k)'
    BY DEF Postada, IniciarTick
  <2>1. CASE linha[k].fase = "aplicada"
    BY <2>1 DEF JaPostada, IniciarTick
  <2>2. ASSUME NEW u \in Ticks, tick[u].pc = "marcar", Atual(u, k) PROVE JaPostada(k)'
    <3>1. u # t
      BY <2>2 DEF IniciarTick
    <3> QED BY <1>1, <2>2, <3>1 DEF JaPostada, Atual, Antes, IniciarTick
  <2> QED BY <2>1, <2>2 DEF IInv, Postada, JaPostada
<1> QED BY <1>4, <1>5, <1>6, <1>7, <1>8, <1>9 DEF IInv

\* While the rows keep their times, who is first in a list is a fact about the list.
LEMMA AtualEstavel ==
  ASSUME \A l \in Linhas : linha'[l].em = linha[l].em, TypeOK,
         NEW u \in Ticks, NEW k, tick'[u] = tick[u]
  PROVE  Atual(u, k)' <=> Atual(u, k)
BY DEF Atual, Antes, TypeOK, Tick

\* The first row of a list is one.
LEMMA AtualUnica ==
  ASSUME TypeOK, NEW t \in Ticks, NEW k \in Linhas, NEW l \in Linhas,
         Atual(t, k), Atual(t, l)
  PROVE  k = l
<1>1. Antes(k, l) /\ Antes(l, k)
  BY DEF Atual
<1> QED BY <1>1 DEF Antes, TypeOK, Linha, Linhas

LEMMA Aplica == ASSUME NEW t \in Ticks, NEW l \in Linhas, IInv, Aplicar(t, l) PROVE IInv'
<1>1. efeitos'[l] > 0 /\ efeitos'[l] \in Nat /\ \A k \in Linhas \ {l} : efeitos'[k] = efeitos[k]
  BY DEF IInv, TypeOK, Aplicar, Muda, Efeito, Conta
<1>2. tick'[t] = [tick[t] EXCEPT !.pc = "marcar"] /\ \A u \in Ticks \ {t} : tick'[u] = tick[u]
  BY DEF IInv, TypeOK, Aplicar
<1>3. l \in tick[t].lista /\ tick[t].pc = "post" /\ Atual(t, l) /\ Resposta[l] = "aceita"
  BY DEF Aplicar, Postando, Atual
<1>4. \A u \in Ticks : tick'[u].lista = tick[u].lista
  BY <1>2 DEF IInv, TypeOK, Tick
<1>5. linha' = linha /\ agora' = agora /\ tropecou' = tropecou
  BY DEF Aplicar
<1>6. TypeOK'
  <2>1. tick' \in [Ticks -> Tick]
    BY <1>2, <1>3 DEF IInv, TypeOK, Aplicar, Tick
  <2>2. \A u \in Ticks : tick'[u].pc = "parado" <=> tick'[u].lista = {}
    BY <1>2, <1>3 DEF IInv, TypeOK, Tick
  <2>3. efeitos' \in [Linhas -> Nat]
    BY <1>1 DEF IInv, TypeOK, Aplicar, Muda, Efeito
  <2>4. etapa' \in [Reservas -> Linhas \cup {0}]
    BY DEF IInv, TypeOK, Aplicar, Muda
  <2> QED BY <1>5, <2>1, <2>2, <2>3, <2>4 DEF IInv, TypeOK, Aplicar
<1>7. PeloMenosUmaVez' /\ Prazo' /\ ListaMadura'
  BY <1>1, <1>4, <1>5 DEF IInv, PeloMenosUmaVez, Prazo, ListaMadura
<1>8. EfeitoMaduro'
  BY <1>1, <1>3, <1>5 DEF IInv, EfeitoMaduro, ListaMadura
<1>9. MarcaAplicada'
  <2> SUFFICES ASSUME NEW u \in Ticks, NEW k \in tick'[u].lista,
                      tick'[u].pc = "marcar", Atual(u, k)'
               PROVE  Resposta[k] = "aceita" /\ efeitos'[k] > 0
    BY DEF MarcaAplicada
  <2>1. Atual(u, k) /\ k \in Linhas
    BY <1>4, <1>5 DEF Atual, Antes, IInv, TypeOK, Tick
  <2>2. CASE u = t
    BY <1>1, <1>3, <2>1, <2>2, AtualUnica DEF IInv
  <2>3. CASE u # t
    BY <1>1, <1>2, <2>1, <2>3 DEF IInv, MarcaAplicada
  <2> QED BY <2>2, <2>3
<1>10. \A j \in Linhas : Devida(j)' => Devida(j) /\ j # l
  BY <1>1, <1>5 DEF Devida
<1>11. ListaOrdenada'
  BY <1>4, <1>5, <1>10 DEF IInv, ListaOrdenada, MaisNova
<1>12. Ordenada'
  <2> SUFFICES ASSUME NEW k \in Linhas, NEW j \in Linhas, MaisNova(k, j), Devida(j)
               PROVE  efeitos'[k] = 0
    BY <1>5, <1>10 DEF Ordenada, MaisNova
  <2>1. k # l
    BY <1>3, AtualEMaisAntiga DEF IInv, ListaOrdenada
  <2> QED BY <1>1, <2>1 DEF IInv, Ordenada
<1>13. Postada'
  <2> SUFFICES ASSUME NEW k \in Linhas, efeitos'[k] > 0, k \notin tropecou
               PROVE  JaPostada(k)'
    BY <1>5 DEF Postada
  <2>1. ASSUME NEW u \in Ticks, Atual(u, k), u = t \/ tick[u].pc = "marcar"
        PROVE  JaPostada(k)'
    <3>1. tick'[u].pc = "marcar"
      BY <1>2, <2>1 DEF IInv, TypeOK, Tick
    <3>2. Atual(u, k)'
      BY <1>4, <1>5, <2>1 DEF Atual, Antes
    <3> QED BY <3>1, <3>2 DEF JaPostada
  <2>2. CASE k = l
    BY <1>3, <2>1, <2>2
  <2>3. CASE k # l
    <3>1. JaPostada(k)
      BY <1>1, <2>3 DEF IInv, Postada
    <3> QED BY <1>5, <2>1, <3>1 DEF JaPostada
  <2> QED BY <2>2, <2>3
<1> QED BY <1>6, <1>7, <1>8, <1>9, <1>11, <1>12, <1>13 DEF IInv

\* Leaving a row behind that is not due any more: it was applied, refused, or its
\* POST failed. The action may add effects of that row.
LEMMA Avanca ==
  ASSUME NEW t \in Ticks, NEW l \in Linhas, IInv, Atual(t, l), Avancar(t, l),
         linha' \in {linha, Marcada(l)}, agora' = agora,
         TypeOK', PeloMenosUmaVez',
         efeitos' \in {efeitos, Efeito(l)}, tropecou \subseteq tropecou',
         l \in tropecou' \/ linha'[l].fase = "aplicada",
         ~Devida(l)'
  PROVE  IInv'
<1>1. \A k \in Linhas : linha'[k].base = linha[k].base /\ linha'[k].em = linha[k].em
                         /\ (linha'[k].fase = "livre" <=> linha[k].fase = "livre")
  BY DEF IInv, TypeOK, Marcada, Linha, ListaMadura, Atual
<1>2. \A k \in Linhas : (k # l => efeitos'[k] = efeitos[k]) /\ efeitos'[k] >= efeitos[k]
  BY DEF IInv, TypeOK, Efeito, Conta
<1>3. /\ tick'[t].lista = tick[t].lista \ {l} /\ tick'[t].pc # "marcar"
      /\ \A u \in Ticks \ {t} : tick'[u] = tick[u]
  BY AvancarListas DEF IInv
<1>4. \A u \in Ticks : tick'[u].lista \subseteq tick[u].lista /\ tick[u].lista \subseteq Linhas
  BY <1>3 DEF IInv, TypeOK, Tick
<1>5. Prazo' /\ ListaMadura'
  BY <1>1, <1>4 DEF IInv, Prazo, ListaMadura
<1>6. EfeitoMaduro'
  <2>1. linha[l].fase # "livre" /\ linha[l].em <= agora
    BY DEF IInv, ListaMadura, Atual
  <2> QED BY <1>1, <1>2, <2>1 DEF IInv, EfeitoMaduro
<1>7. MarcaAplicada'
  <2> SUFFICES ASSUME NEW u \in Ticks, NEW k \in tick'[u].lista,
                      tick'[u].pc = "marcar", Atual(u, k)'
               PROVE  Resposta[k] = "aceita" /\ efeitos'[k] > 0
    BY DEF MarcaAplicada
  <2>1. u # t /\ tick'[u] = tick[u] /\ k \in Linhas
    BY <1>3, <1>4
  <2>2. Atual(u, k)
    BY <1>1, <2>1, AtualEstavel DEF IInv
  <2>3. Resposta[k] = "aceita" /\ efeitos[k] > 0
    BY <2>1, <2>2 DEF IInv, MarcaAplicada
  <2> QED BY <1>2, <2>1, <2>3 DEF IInv, TypeOK
<1>8. \A j \in Linhas : Devida(j)' => Devida(j) /\ j # l
  BY <1>1, <1>2 DEF Devida, IInv, TypeOK
<1>9. \A k, j \in Linhas : MaisNova(k, j)' <=> MaisNova(k, j)
  BY <1>1 DEF MaisNova
<1>10. ListaOrdenada'
  BY <1>3, <1>4, <1>8, <1>9 DEF IInv, ListaOrdenada
<1>11. Ordenada'
  <2> SUFFICES ASSUME NEW k \in Linhas, NEW j \in Linhas, MaisNova(k, j), Devida(j)
               PROVE  efeitos'[k] = 0
    BY <1>8, <1>9 DEF Ordenada
  <2>1. k # l
    BY AtualEMaisAntiga DEF IInv, ListaOrdenada, Atual
  <2> QED BY <1>2, <2>1 DEF IInv, Ordenada
<1>12. Postada'
  <2> SUFFICES ASSUME NEW k \in Linhas, efeitos'[k] > 0, k \notin tropecou'
               PROVE  JaPostada(k)'
    BY DEF Postada
  <2>1. CASE k = l
    BY <2>1 DEF JaPostada
  <2>2. CASE k # l
    <3>1. JaPostada(k)
      BY <1>2, <2>2 DEF IInv, Postada
    <3>2. CASE linha[k].fase = "aplicada"
      BY <3>2 DEF JaPostada, Marcada, IInv, TypeOK, Linha
    <3>3. ASSUME NEW u \in Ticks, tick[u].pc = "marcar", Atual(u, k) PROVE JaPostada(k)'
      <4>1. l \in Linhas
        BY DEF Atual, IInv, TypeOK, Tick
      <4>2. u # t
        BY <2>2, <3>3, <4>1, AtualUnica DEF IInv
      <4>3. tick'[u] = tick[u]
        BY <1>3, <4>2
      <4>4. Atual(u, k)'
        BY <1>1, <3>3, <4>3, AtualEstavel DEF IInv
      <4> QED BY <3>3, <4>3, <4>4 DEF JaPostada
    <3> QED BY <3>1, <3>2, <3>3 DEF JaPostada
  <2> QED BY <2>1, <2>2
<1> QED BY <1>5, <1>6, <1>7, <1>10, <1>11, <1>12 DEF IInv

LEMMA MarcadaTipo ==
  ASSUME TypeOK, NEW l \in Linhas
  PROVE  Marcada(l) \in [Linhas -> Linha]
BY DEF TypeOK, Marcada, Linha

LEMMA Marca == ASSUME NEW t \in Ticks, NEW l \in Linhas, IInv, Marcar(t, l) PROVE IInv'
<1> USE DEF cvVars
<1>1. Atual(t, l) /\ Avancar(t, l) /\ linha' = Marcada(l) /\ efeitos' = efeitos
  BY DEF Marcar
<1>2. Resposta[l] = "aceita" /\ efeitos[l] > 0
  BY DEF IInv, MarcaAplicada, Marcar, Atual
<1>3. TypeOK'
  BY <1>1, AvancarListas, MarcadaTipo DEF IInv, TypeOK, Marcar
<1>4. PeloMenosUmaVez'
  BY <1>1, <1>2 DEF IInv, PeloMenosUmaVez, Marcada, TypeOK
<1>5. ~Devida(l)'
  BY <1>1, <1>2 DEF Devida
<1>6. linha'[l].fase = "aplicada"
  BY <1>1 DEF Marcada, IInv, TypeOK, Linha
<1> QED BY <1>1, <1>3, <1>4, <1>5, <1>6, Avanca DEF Marcar

LEMMA Recusa == ASSUME NEW t \in Ticks, NEW l \in Linhas, IInv, Recusar(t, l) PROVE IInv'
<1> USE DEF cvVars
<1>1. Atual(t, l) /\ Avancar(t, l) /\ linha' = Marcada(l) /\ efeitos' = efeitos
  BY DEF Recusar, Postando
<1>2. Resposta[l] = "recusa"
  BY DEF Recusar
<1>3. TypeOK'
  BY <1>1, AvancarListas, MarcadaTipo DEF IInv, TypeOK, Recusar
<1>4. PeloMenosUmaVez'
  BY <1>1, <1>2 DEF IInv, PeloMenosUmaVez, Marcada, TypeOK
<1>5. ~Devida(l)'
  BY <1>2 DEF Devida
<1>6. linha'[l].fase = "aplicada"
  BY <1>1 DEF Marcada, IInv, TypeOK, Linha
<1> QED BY <1>1, <1>3, <1>4, <1>5, <1>6, Avanca DEF Recusar

LEMMA Falha == ASSUME NEW t \in Ticks, NEW l \in Linhas, IInv, FalharPost(t, l) PROVE IInv'
<1>1. Atual(t, l) /\ Avancar(t, l) /\ linha' = linha /\ efeitos' \in {efeitos, Efeito(l)}
  BY DEF FalharPost, Postando, Muda, cvVars
<1>2. efeitos' \in [Linhas -> Nat] /\ \A k \in Linhas : efeitos'[k] >= efeitos[k]
  BY <1>1 DEF IInv, TypeOK, Efeito, Conta
<1>3. falhas' \in 0..MaxFalhas
  BY SituacaoAssumption DEF FalharPost, IInv, TypeOK
<1>4. TypeOK'
  <2>1. etapa' \in [Reservas -> Linhas \cup {0}]
    BY DEF FalharPost, Muda, cvVars, IInv, TypeOK
  <2> QED BY <1>1, <1>2, <1>3, <2>1, AvancarListas DEF IInv, TypeOK, FalharPost
<1>5. PeloMenosUmaVez'
  BY <1>1, <1>2 DEF IInv, TypeOK, PeloMenosUmaVez
<1>6. ~Devida(l)' /\ l \in tropecou'
  BY DEF Devida, FalharPost
<1> QED BY <1>1, <1>4, <1>5, <1>6, Avanca DEF FalharPost

LEMMA Reinicia == IInv /\ Reiniciar => IInv'
<1> SUFFICES ASSUME IInv, Reiniciar PROVE IInv'
  OBVIOUS
<1> DEFINE cortadas == {l \in Linhas : \E t \in Ticks : Atual(t, l)}
<1>1. /\ tropecou' = tropecou \cup cortadas
      /\ tick' = [t \in Ticks |-> TickParado]
      /\ linha' = linha /\ agora' = agora
  BY DEF Reiniciar
<1>2. /\ efeitos' \in [Linhas -> Nat]
      /\ \A k \in Linhas : efeitos'[k] >= efeitos[k]
      /\ \A k \in Linhas \ cortadas : efeitos'[k] = efeitos[k]
  BY DEF Reiniciar, IInv, TypeOK, Conta
<1>3. TypeOK'
  BY <1>1, <1>2, SituacaoAssumption DEF IInv, TypeOK, Reiniciar, Tick, TickParado
<1>4. PeloMenosUmaVez'
  BY <1>1, <1>2 DEF IInv, TypeOK, PeloMenosUmaVez
<1>5. Prazo'
  BY <1>1 DEF IInv, Prazo
<1>6. ListaMadura' /\ MarcaAplicada' /\ ListaOrdenada'
  BY <1>1 DEF ListaMadura, MarcaAplicada, ListaOrdenada, TickParado
<1>7. EfeitoMaduro'
  <2>1. \A k \in cortadas : linha[k].fase # "livre" /\ linha[k].em <= agora
    BY DEF IInv, ListaMadura, Atual
  <2> QED BY <1>1, <1>2, <2>1 DEF IInv, EfeitoMaduro
<1>8. Ordenada'
  <2> SUFFICES ASSUME NEW k \in Linhas, NEW j \in Linhas, MaisNova(k, j)', Devida(j)'
               PROVE  efeitos'[k] = 0
    BY DEF Ordenada
  <2>1. MaisNova(k, j) /\ Devida(j) /\ j \notin cortadas
    BY <1>1, <1>2 DEF MaisNova, Devida, IInv, TypeOK
  <2>2. k \notin cortadas
    BY <2>1, AtualEMaisAntiga DEF IInv, ListaOrdenada, Atual
  <2> QED BY <1>2, <2>1, <2>2 DEF IInv, Ordenada
<1>9. Postada'
  <2> SUFFICES ASSUME NEW k \in Linhas, efeitos'[k] > 0, k \notin tropecou'
               PROVE  JaPostada(k)'
    BY DEF Postada
  <2>1. k \notin cortadas /\ k \notin tropecou
    BY <1>1
  <2>2. JaPostada(k)
    BY <1>2, <2>1 DEF IInv, Postada
  <2> QED BY <1>1, <2>1, <2>2 DEF JaPostada
<1> QED BY <1>3, <1>4, <1>5, <1>6, <1>7, <1>8, <1>9 DEF IInv

LEMMA Passos == IInv /\ [Next]_vars => IInv'
<1> SUFFICES ASSUME IInv, [Next]_vars PROVE IInv'
  OBVIOUS
<1>1. CASE Passar
  BY <1>1, Passa
<1>2. ASSUME NEW l \in Linhas, Agendar(l) PROVE IInv'
  BY <1>2, Agenda
<1>3. ASSUME NEW t \in Ticks, IniciarTick(t) PROVE IInv'
  BY <1>3, Inicia
<1>4. ASSUME NEW t \in Ticks, PassoTick(t) PROVE IInv'
  BY <1>4, Aplica, Marca, Recusa, Falha DEF PassoTick
<1>5. CASE Reiniciar
  BY <1>5, Reinicia
<1>6. CASE UNCHANGED vars
  BY <1>6 DEF vars, cvVars, Postada, JaPostada, IInv, TypeOK, PeloMenosUmaVez, Prazo, ListaMadura, EfeitoMaduro,
              MarcaAplicada, ListaOrdenada, Ordenada, MaisNova, Devida, Atual, Antes
<1> QED BY <1>1, <1>2, <1>3, <1>4, <1>5, <1>6 DEF Next

\* The inductive invariant of the scheduler.
THEOREM EtapaIndutiva == Spec => []IInv
BY InicioIndutivo, Passos, PTL DEF Spec

\* Every variable keeps its type.
THEOREM TiposEtapa == Spec => []TypeOK
BY EtapaIndutiva, PTL DEF IInv

\* A row is marked only after the CV changed its stage or refused to.
THEOREM AplicadaPeloMenosUmaVez == Spec => []PeloMenosUmaVez
BY EtapaIndutiva, PTL DEF IInv

\* Which rows a step may apply: those a tick is posting.
LEMMA QuemGanhaEfeito ==
  ASSUME IInv, [Next]_vars, NEW l \in Linhas, efeitos'[l] > efeitos[l] \/ Assume(l)
  PROVE  (\E t \in Ticks : Atual(t, l)) /\ Resposta[l] = "aceita"
<1>1. CASE Reiniciar
  <2>1. PICK chegam \in SUBSET {k \in Linhas : /\ \E t \in Ticks : Atual(t, k)
                                               /\ Resposta[k] = "aceita"} :
          /\ efeitos' = [k \in Linhas |-> IF k \in chegam THEN Conta(k) ELSE efeitos[k]]
          /\ \A r \in Reservas :
               LET suas == {k \in chegam : ReservaDe[k] = r}
               IN etapa'[r] \in (IF suas = {} THEN {etapa[r]} ELSE suas)
    BY <1>1 DEF Reiniciar
  <2>2. ReservaDe[l] \in Reservas
    BY DEF Reservas
  <2>3. CASE efeitos'[l] > efeitos[l]
    BY <2>1, <2>3 DEF IInv, TypeOK
  <2>4. CASE Assume(l)
    <3> DEFINE suas == {k \in chegam : ReservaDe[k] = ReservaDe[l]}
    <3>1. etapa'[ReservaDe[l]] \in (IF suas = {} THEN {etapa[ReservaDe[l]]} ELSE suas)
      BY <2>1, <2>2
    <3>2. l \in suas
      BY <2>4, <3>1 DEF Assume
    <3> QED BY <2>1, <3>2
  <2> QED BY <2>3, <2>4
<1>2. ASSUME NEW t \in Ticks, NEW k \in Linhas, Aplicar(t, k) \/ FalharPost(t, k)
      PROVE  (\E u \in Ticks : Atual(u, l)) /\ Resposta[l] = "aceita"
  <2>1. (k = l => Atual(t, k) /\ Resposta[k] = "aceita") \/ UNCHANGED cvVars
    BY <1>2 DEF Aplicar, FalharPost, Postando
  <2>2. Muda(k) \/ UNCHANGED cvVars
    BY <1>2 DEF Aplicar, FalharPost
  <2>3. CASE UNCHANGED cvVars
    BY <2>3 DEF cvVars, Assume, IInv, TypeOK
  <2>4. CASE Muda(k)
    <3>1. k = l
      BY <2>4 DEF Muda, Efeito, Conta, Assume, IInv, TypeOK, Reservas
    <3> QED BY <1>2, <2>1, <2>3, <3>1
  <2> QED BY <2>2, <2>3, <2>4
<1>3. CASE UNCHANGED cvVars
  BY <1>3 DEF cvVars, Assume, IInv, TypeOK
<1> QED BY <1>1, <1>2, <1>3 DEF Next, vars, Passar, Agendar, IniciarTick, PassoTick,
                               Marcar, Recusar

\* The reserva is in a batch before its stage changes, whatever margin is configured:
\* the margin is kept, or five minutes of it if it is longer.
THEOREM LoteAntesDaEtapa == Spec => EtapaDepoisDoLote
<1> DEFINE A == \A l \in Linhas : efeitos'[l] > efeitos[l] =>
                  \E n \in 0..agora : /\ linha[l].base + Margem(SafetyMin) * Minuto <= n * Lote
                                      /\ n * Lote + Minuto <= agora
<1>1. IInv /\ [Next]_vars => A
  <2> SUFFICES ASSUME IInv, [Next]_vars,
                      NEW l \in Linhas, efeitos'[l] > efeitos[l]
               PROVE  \E n \in 0..agora : /\ linha[l].base + Margem(SafetyMin) * Minuto <= n * Lote
                                          /\ n * Lote + Minuto <= agora
    OBVIOUS
  <2>1. PICK t \in Ticks : Atual(t, l)
    BY QuemGanhaEfeito
  <2>2. linha[l].fase # "livre" /\ linha[l].em <= agora
    BY <2>1 DEF IInv, ListaMadura, Atual
  <2>3. linha[l].em = SituacaoTarget(linha[l].base, SafetyMin) /\ linha[l].base \in Nat
    BY <2>2 DEF IInv, Prazo, TypeOK, Linha
  <2>4. PICK n \in Nat : /\ linha[l].em = n * Lote + Minuto
                         /\ linha[l].base + Margem(SafetyMin) * Minuto <= n * Lote
    BY <2>3, AlvoDepoisDoLote, SituacaoAssumption
  <2>5. agora \in Nat /\ Minuto \in Nat /\ Lote \in Nat /\ Lote >= 1
    BY SituacaoAssumption, MinutoAssumption DEF IInv, TypeOK, Lote
  <2>6. n * Lote >= n
    BY <2>5
  <2>7. n * Lote + Minuto <= agora
    BY <2>2, <2>4
  <2>8. n * Lote \in Nat
    BY <2>5
  <2>9. n \in 0..agora
    BY <2>5, <2>6, <2>7, <2>8
  <2> QED BY <2>4, <2>7, <2>9
<1> HIDE DEF A
<1>2. Spec => [][A]_vars
  BY <1>1, EtapaIndutiva, PTL DEF Spec
<1> QED BY <1>2 DEF EtapaDepoisDoLote, A

\* The stage of a reserva goes back to an older activation's only by a POST that is
\* repeated, after a failure or by another tick that had the row in its list.
THEOREM EtapasEmOrdem == Spec => OrdemDasEtapas
<1> DEFINE A == \A k, l \in Linhas : Assume(l) /\ MaisNova(k, l) /\ efeitos[k] > 0 =>
                  l \in tropecou \/ JaPostada(l)
<1>1. IInv /\ [Next]_vars => A
  <2> SUFFICES ASSUME IInv, [Next]_vars, NEW k \in Linhas, NEW l \in Linhas, Assume(l),
                      MaisNova(k, l), efeitos[k] > 0, l \notin tropecou
               PROVE  JaPostada(l)
    OBVIOUS
  <2>1. PICK t \in Ticks : Atual(t, l) /\ Resposta[l] = "aceita"
    BY QuemGanhaEfeito
  <2>2. linha[l].fase # "livre"
    BY <2>1 DEF IInv, ListaMadura, Atual
\* Its first POST comes before that of any newer one ...
  <2>3. ~Devida(l)
    BY DEF IInv, Ordenada, TypeOK
  <2>4. efeitos[l] > 0
    BY <2>1, <2>2, <2>3 DEF Devida, IInv, TypeOK
\* ... so this is another one.
  <2> QED BY <2>4 DEF IInv, Postada
<1> HIDE DEF A
<1>2. Spec => [][A]_vars
  BY <1>1, EtapaIndutiva, PTL DEF Spec
<1> QED BY <1>2 DEF OrdemDasEtapas, A
=============================================================================
