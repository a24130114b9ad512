------------------------ MODULE ReservaCancel_proofs ------------------------
(***************************************************************************)
(* The safety of ReservaCancel for any number of reservas, units,          *)
(* contracts, cases and restarts.                                          *)
(***************************************************************************)
EXTENDS ReservaCancel, FiniteSetTheorems, TLAPS

(* The invariant. *)

\* The run is past the duplicates; it saw the reserva cancelled; it read the contracts.
AposDedupe == Pcs \ {"parado", "inicio", "espera", "dedupe"}
AposLer == AposDedupe \ {"ler"}
Leram == {"unidade", "numero", "documento", "ato", "excluir", "reler"}
Livres == {"relerUnidade", "situacao", "liberar"}

EmCurso(c) == corrida[c].pc # "parado"
\* The reserva gave its unit back, and the row says so or is about to.
Liberada(r) == \/ ComSucesso(r)
               \/ \E c \in Casos : caso[c].r = r /\ corrida[c].pc = "concluir"
\* The reserva was sold, and its unit was not given back.
Posse(r) == r \notin fora /\ cv[r].vida # "futura" /\ ~Liberada(r)

\* One run of a reserva.
UmaCorrida == \A c, d \in Casos : EmCurso(c) /\ EmCurso(d) /\ caso[c].r = caso[d].r => c = d
\* A run that will go on has no success before it.
SemSucesso == \A c \in Casos :
                (corrida[c].pc \in AposDedupe \/ (caso[c].manual /\ EmCurso(c)))
                  /\ caso[c].r \notin fora => ~ComSucesso(caso[c].r)
Entregue == \A r \in Reservas :
              Liberada(r) => /\ cv[r].vida = "cancelada" /\ dono[Unidade[r]] # r
                             /\ PorReserva(r) = {}
DonoDaUnidade == \A r \in Reservas : Posse(r) => dono[Unidade[r]] = r
VendaUnica == \A r, s \in Reservas :
                Posse(r) /\ s # r /\ Unidade[s] = Unidade[r] => cv[s].vida # "viva"

\* What a run knows of its reserva.
Fim(c) == corrida[c].pc \in {"pendencia", "gravar"} => corrida[c].fim \in {"blocked", "error"}
Viu(c) == corrida[c].pc \in AposLer => cv[caso[c].r].vida = "cancelada"
\* The contracts it read are all that the reserva may still have, and are its own.
Meus(c) == /\ corrida[c].pc \in Leram => PorReserva(caso[c].r) \subseteq corrida[c].meus
           /\ corrida[c].pc \in Livres => PorReserva(caso[c].r) = {}
           /\ corrida[c].pc \in Leram =>
                \A k \in corrida[c].meus :
                  /\ contrato[k].sit # "livre"
                  /\ contrato[k].sit = "vivo" =>
                       contrato[k].r = caso[c].r /\ contrato[k].acha = "reserva"
           /\ corrida[c].pc \in {"numero", "documento"} => corrida[c].meus = {}
Unico(c) == /\ corrida[c].pc \in {"ato", "excluir"} =>
                 \A j, k \in corrida[c].meus : j = k
            /\ corrida[c].pc = "excluir" => corrida[c].apto
\* No contract of others came to its unit.
DaUnidade(c) ==
  caso[c].r \in ComCodigo /\ caso[c].r \notin fora =>
    /\ corrida[c].pc \in {"numero", "documento", "situacao", "liberar"}
         => PorUnidade(caso[c].r) = {}
    /\ corrida[c].pc \in {"ato", "excluir"} /\ (corrida[c].apto \/ corrida[c].meus = {})
         => PorUnidade(caso[c].r) \subseteq corrida[c].meus
Sabe == \A c \in Casos : Viu(c) /\ Meus(c) /\ Unico(c) /\ DaUnidade(c)

Tipos == TypeOK /\ \A c \in Casos : Fim(c)
IInv == /\ Tipos /\ UmaCorrida /\ SemSucesso /\ Entregue /\ DonoDaUnidade /\ VendaUnica
        /\ Sabe

\* The brake: ages and waits go together, and a case of a burst has the others of the
\* burst at most a wait younger or older.
Cedo(c) == /\ corrida[c].pc \in {"parado", "inicio", "espera"}
           /\ caso[c].status \in {"processing", "held", "skipped"}
Automatico(c) == caso[c].status # "nenhum" /\ ~caso[c].manual
Relogio == \A c \in Casos :
             modo = "comFreio" /\ Automatico(c) =>
               /\ corrida[c].pc = "inicio" => caso[c].criado = 0
               /\ corrida[c].pc = "espera" => caso[c].criado + corrida[c].resta = Espera
               /\ caso[c].criado < Espera => Cedo(c)
Vizinhos(c, J) == /\ c \in J /\ Cardinality(J) > Teto
                  /\ \A d \in J : /\ Automatico(d)
                                  /\ caso[c].criado <= Espera =>
                                       caso[d].criado < caso[c].criado + Espera
NaRajada(c) == /\ modo = "comFreio" /\ Automatico(c) /\ Cedo(c)
               /\ \E J \in SUBSET Casos : Vizinhos(c, J)
Freio == Relogio /\ \A c \in rajada : NaRajada(c)
-----------------------------------------------------------------------------
(* Types. *)

\* Nothing runs where nothing was asked for; a run is of a reserva.
LEMMA DeUmaReserva ==
  ASSUME NEW c \in Casos, TypeOK, corrida[c].pc # "parado"
  PROVE  caso[c].status = "processing" /\ caso[c].r \in Reservas
  BY DEF TypeOK, Caso

\* A run that goes on, and a row whose status only the end of its run changes, keep
\* their types.
LEMMA TiposDeUm ==
  ASSUME NEW c \in Casos, Tipos, NEW x \in Corrida, NEW y \in Caso,
         corrida' = [corrida EXCEPT ![c] = x], caso' = [caso EXCEPT ![c] = y],
         x.pc # "parado" => y.status = "processing",
         y.status = "nenhum" <=> y.r = Nulo,
         x.pc \in {"pendencia", "gravar"} => x.fim \in {"blocked", "error"}
  PROVE  /\ caso' \in [Casos -> Caso] /\ corrida' \in [Casos -> Corrida]
         /\ \A d \in Casos : /\ corrida'[d].pc # "parado" => caso'[d].status = "processing"
                             /\ caso'[d].status = "nenhum" <=> caso'[d].r = Nulo
                             /\ Fim(d)'
<1>1. caso' \in [Casos -> Caso] /\ corrida' \in [Casos -> Corrida]
  BY DEF Tipos, TypeOK
<1>2. ASSUME NEW d \in Casos
      PROVE  /\ corrida'[d].pc # "parado" => caso'[d].status = "processing"
             /\ caso'[d].status = "nenhum" <=> caso'[d].r = Nulo
             /\ Fim(d)'
  <2>1. caso'[d] = (IF d = c THEN y ELSE caso[d]) /\ corrida'[d] = (IF d = c THEN x ELSE corrida[d])
    BY DEF Tipos, TypeOK
  <2> QED BY <2>1 DEF Tipos, TypeOK, Fim
<1> QED BY <1>1, <1>2

LEMMA TiposInit == Init => Tipos
<1> SUFFICES ASSUME Init PROVE Tipos
  OBVIOUS
<1>1. SemCaso \in Caso /\ Parada \in Corrida /\ SemContrato \in Contrato
  BY ReservaAssumption DEF SemCaso, Parada, SemContrato, Caso, Corrida, Contrato, Status, Pcs, Achados
<1>2. cv \in [Reservas -> Reserva]
  BY DEF Init, Reserva
<1>3. SemCaso.status = "nenhum" /\ SemCaso.r = Nulo /\ Parada.pc = "parado" /\ SemContrato.sit = "livre"
  BY DEF SemCaso, Parada, SemContrato
<1> QED BY <1>1, <1>2, <1>3, ReservaAssumption DEF Init, Tipos, TypeOK, Fim
-----------------------------------------------------------------------------
(* A step of a run. *)

\* What it may do to the row and to itself.
Passa(c, x, y) ==
  LET pc == corrida[c].pc
  IN /\ y.r = caso[c].r /\ y.manual = caso[c].manual /\ y.criado = caso[c].criado
     /\ y.status # "nenhum"
     /\ x.pc # "parado" => y.status = "processing"
     /\ x.pc \in {"pendencia", "gravar"} => x.fim \in {"blocked", "error"}
     /\ x.pc \in AposDedupe => pc \in AposDedupe \/ (pc = "dedupe" /\ ~Duplicado(c))
     /\ x.pc \in AposLer => pc \in AposLer \/ cv[caso[c].r].vida = "cancelada"
     /\ x.pc = "concluir" => pc = "liberar"
     /\ y.status = "success" <=> pc = "concluir"
Curso(c) == /\ corrida[c].pc # "parado"
            /\ \E x \in Corrida, y \in Caso :
                 /\ corrida' = [corrida EXCEPT ![c] = x] /\ caso' = [caso EXCEPT ![c] = y]
                 /\ Passa(c, x, y)

\* The end of a run is such a step.
LEMMA CursoDoFim ==
  ASSUME NEW c \in Casos, Tipos, corrida[c].pc # "parado",
         NEW st \in Status \ {"nenhum"}, st = "success" <=> corrida[c].pc = "concluir",
         Encerrar(c, st)
  PROVE  Curso(c)
<1> DEFINE y == [caso[c] EXCEPT !.status = st]
<1>1. corrida' = [corrida EXCEPT ![c] = Parada] /\ caso' = [caso EXCEPT ![c] = y]
  BY DEF Encerrar
<1>2. Parada \in Corrida /\ Parada.pc = "parado"
  BY ReservaAssumption DEF Parada, Corrida, Pcs
<1>3. /\ y \in Caso /\ y.status = st
      /\ y.r = caso[c].r /\ y.manual = caso[c].manual /\ y.criado = caso[c].criado
  BY DEF Tipos, TypeOK, Caso
<1> HIDE DEF y
<1>4. Passa(c, Parada, y)
  BY <1>2, <1>3 DEF Passa, AposDedupe, AposLer
<1> QED BY <1>1, <1>2, <1>3, <1>4 DEF Curso

\* So is a step that leaves the row, or only touches it.
LEMMA CursoDaCorrida ==
  ASSUME NEW c \in Casos, Tipos, corrida[c].pc \notin {"parado", "concluir"},
         NEW x \in Corrida, corrida' = [corrida EXCEPT ![c] = x],
         UNCHANGED caso \/ Mexer(c),
         x.pc \in {"pendencia", "gravar"} => x.fim \in {"blocked", "error"},
         x.pc \in AposDedupe =>
           corrida[c].pc \in AposDedupe \/ (corrida[c].pc = "dedupe" /\ ~Duplicado(c)),
         x.pc \in AposLer => corrida[c].pc \in AposLer \/ cv[caso[c].r].vida = "cancelada",
         x.pc = "concluir" => corrida[c].pc = "liberar"
  PROVE  Curso(c)
<1>1. caso[c].status = "processing" /\ caso[c] \in Caso /\ caso \in [Casos -> Caso]
  BY DeUmaReserva DEF Tipos, TypeOK
<1>2. PICK y \in Caso : /\ caso' = [caso EXCEPT ![c] = y]
                        /\ y.r = caso[c].r /\ y.manual = caso[c].manual
                        /\ y.criado = caso[c].criado /\ y.status = caso[c].status
  <2>1. CASE UNCHANGED caso
    <3>1. caso' = [caso EXCEPT ![c] = caso[c]]
      BY <1>1, <2>1
    <3> QED BY <1>1, <3>1
  <2>2. CASE Mexer(c)
    <3> DEFINE z == [caso[c] EXCEPT !.recente = TRUE]
    <3>1. z \in Caso /\ caso' = [caso EXCEPT ![c] = z]
      BY <1>1, <2>2 DEF Mexer, Caso
    <3>2. /\ z.r = caso[c].r /\ z.manual = caso[c].manual
          /\ z.criado = caso[c].criado /\ z.status = caso[c].status
      BY <1>1 DEF Caso
    <3> QED BY <3>1, <3>2
  <2> QED BY <2>1, <2>2
<1>3. Passa(c, x, y)
  BY <1>1, <1>2 DEF Passa
<1> QED BY <1>2, <1>3 DEF Curso

\* A stopped run, set going again.
Adiante(p, e) == [Parada EXCEPT !.pc = p, !.etapa = e]
Barrada(p, e, f) == [Parada EXCEPT !.pc = p, !.etapa = e, !.fim = f]

\* It is a run.
LEMMA Retomada ==
  ASSUME NEW p \in Pcs, NEW e \in {"outra", "cancelada", "pendencia"},
         NEW f \in {"-", "blocked", "error"}
  PROVE  /\ Adiante(p, e) \in Corrida /\ Adiante(p, e).pc = p
         /\ Barrada(p, e, f) \in Corrida
         /\ Barrada(p, e, f).pc = p /\ Barrada(p, e, f).fim = f
<1> DEFINE a == [Parada EXCEPT !.pc = p]
           b == [a EXCEPT !.etapa = e]
           d == [b EXCEPT !.fim = f]
<1>1. Parada \in Corrida
  BY ReservaAssumption DEF Parada, Corrida, Pcs
<1>2. a \in Corrida /\ a.pc = p
  BY <1>1 DEF Corrida
<1>3. b \in Corrida /\ b.pc = p
  <2> HIDE DEF a
  <2> QED BY <1>2 DEF Corrida
<1>4. d \in Corrida /\ d.pc = p /\ d.fim = f
  <2> HIDE DEF b
  <2> QED BY <1>3 DEF Corrida
<1> QED BY <1>3, <1>4 DEF Adiante, Barrada

\* So is one that bars it.
LEMMA CursoDaBarreira ==
  ASSUME NEW c \in Casos, Tipos, corrida[c].pc \in AposLer \ {"concluir"},
         NEW f \in {"blocked", "error"}, Barrar(c, f), UNCHANGED caso
  PROVE  Curso(c)
<1> DEFINE x == Barrada("pendencia", corrida[c].etapa, f)
<1>1. x \in Corrida /\ x.pc = "pendencia" /\ x.fim = f
  <2>1. corrida[c].etapa \in {"outra", "cancelada", "pendencia"}
    BY DEF Tipos, TypeOK, Corrida
  <2> QED BY <2>1, Retomada DEF Pcs
<1>2. corrida' = [corrida EXCEPT ![c] = x]
  BY DEF Barrar, Barrada
<1>3. /\ corrida[c].pc \notin {"parado", "concluir"}
      /\ corrida[c].pc \in AposDedupe /\ corrida[c].pc \in AposLer
  BY DEF AposLer, AposDedupe
<1>4. x.pc # "concluir" /\ (x.pc \in {"pendencia", "gravar"} => x.fim \in {"blocked", "error"})
  BY <1>1
<1> HIDE DEF x
<1> QED BY <1>1, <1>2, <1>3, <1>4, CursoDaCorrida

\* So is one that goes on with the contract out of the way.
LEMMA CursoAdiante ==
  ASSUME NEW c \in Casos, Tipos, corrida[c].pc \in AposLer \ {"concluir"},
         Seguir(c), UNCHANGED caso \/ Mexer(c)
  PROVE  Curso(c)
<1> DEFINE x == Adiante("situacao", corrida[c].etapa)
<1>1. x \in Corrida /\ x.pc = "situacao"
  <2>1. corrida[c].etapa \in {"outra", "cancelada", "pendencia"}
    BY DEF Tipos, TypeOK, Corrida
  <2> QED BY <2>1, Retomada DEF Pcs
<1>2. corrida' = [corrida EXCEPT ![c] = x]
  BY DEF Seguir, Adiante
<1>3. /\ corrida[c].pc \notin {"parado", "concluir"}
      /\ corrida[c].pc \in AposDedupe /\ corrida[c].pc \in AposLer
  BY DEF AposLer, AposDedupe
<1>4. x.pc # "concluir" /\ (x.pc \in {"pendencia", "gravar"} => x.fim \in {"blocked", "error"})
  BY <1>1
<1> HIDE DEF x
<1> QED BY <1>1, <1>2, <1>3, <1>4, CursoDaCorrida

\* So is one that changes nothing but its place.
LEMMA CursoDeIr ==
  ASSUME NEW c \in Casos, Tipos, NEW p \in Pcs, Ir(c, p),
         corrida[c].pc \notin {"parado", "concluir"},
         UNCHANGED caso \/ Mexer(c),
         p \in {"pendencia", "gravar"} => corrida[c].fim \in {"blocked", "error"},
         p \in AposDedupe =>
           corrida[c].pc \in AposDedupe \/ (corrida[c].pc = "dedupe" /\ ~Duplicado(c)),
         p \in AposLer => corrida[c].pc \in AposLer \/ cv[caso[c].r].vida = "cancelada",
         p = "concluir" => corrida[c].pc = "liberar"
  PROVE  Curso(c)
<1> DEFINE x == [corrida[c] EXCEPT !.pc = p]
<1>1. x \in Corrida /\ x.pc = p /\ x.fim = corrida[c].fim
  BY DEF Tipos, TypeOK, Corrida
<1>2. corrida' = [corrida EXCEPT ![c] = x]
  BY DEF Ir
<1> HIDE DEF x
<1> QED BY <1>1, <1>2, CursoDaCorrida

\* Every step of a run is such a step.
LEMMA CursoDoPasso ==
  ASSUME NEW c \in Casos, Tipos, Passo(c)
  PROVE  Curso(c)
<1> USE DEF AposLer, AposDedupe, Pcs
<1>0. /\ corrida[c] \in Corrida /\ corrida \in [Casos -> Corrida]
      /\ caso \in [Casos -> Caso] /\ Espera \in 0..Espera
  BY ReservaAssumption DEF Tipos, TypeOK
<1>1. CASE Comecar(c)
  <2>1. CASE modo = "desligada" /\ ~caso[c].manual
    <3>1. Encerrar(c, "skipped")
      BY <1>1, <2>1 DEF Comecar
    <3> QED BY <1>1, <3>1, CursoDoFim DEF Comecar, Status
  <2>2. CASE ~(modo = "desligada" /\ ~caso[c].manual) /\ (caso[c].manual \/ modo = "semFreio")
    BY <1>1, <2>2, CursoDeIr DEF Comecar
  <2>3. CASE /\ ~(modo = "desligada" /\ ~caso[c].manual)
             /\ ~(caso[c].manual \/ modo = "semFreio") /\ NaJanela(c) > Teto
    <3>1. Encerrar(c, "held")
      BY <1>1, <2>3 DEF Comecar
    <3> QED BY <1>1, <3>1, CursoDoFim DEF Comecar, Status
  <2>4. CASE /\ ~(modo = "desligada" /\ ~caso[c].manual)
             /\ ~(caso[c].manual \/ modo = "semFreio") /\ ~(NaJanela(c) > Teto)
    <3> DEFINE a == [corrida[c] EXCEPT !.pc = "espera"]
               x == [a EXCEPT !.resta = Espera]
    <3>1. a \in Corrida /\ a.pc = "espera"
      BY <1>0 DEF Corrida
    <3>2. x \in Corrida /\ x.pc = "espera"
      <4> HIDE DEF a
      <4> QED BY <1>0, <3>1 DEF Corrida
    <3>3. corrida' = [corrida EXCEPT ![c] = x] /\ UNCHANGED caso
      BY <1>0, <1>1, <2>4 DEF Comecar
    <3>4. corrida[c].pc = "inicio"
      BY <1>1 DEF Comecar
    <3> HIDE DEF x
    <3> QED BY <3>2, <3>3, <3>4, CursoDaCorrida
  <2> QED BY <2>1, <2>2, <2>3, <2>4
<1>2. CASE Acordar(c)
  <2>1. CASE NaJanela(c) > Teto
    BY <1>2, <2>1, CursoDoFim DEF Acordar, Status
  <2>2. CASE ~(NaJanela(c) > Teto)
    BY <1>2, <2>2, CursoDeIr DEF Acordar
  <2> QED BY <2>1, <2>2
<1>3. CASE Deduplicar(c)
  <2>1. CASE Duplicado(c)
    BY <1>3, <2>1, CursoDoFim DEF Deduplicar, Status
  <2>2. CASE ~Duplicado(c)
    BY <1>3, <2>2, CursoDeIr DEF Deduplicar
  <2> QED BY <2>1, <2>2
<1>4. CASE LerReserva(c)
  <2>1. CASE cv[caso[c].r].vida = "cancelada"
    <3> DEFINE a == [corrida[c] EXCEPT !.pc = "contratos"]
               x == [a EXCEPT !.etapa = cv[caso[c].r].etapa]
    <3>1. a \in Corrida /\ a.pc = "contratos"
      BY <1>0 DEF Corrida
    <3>2. caso[c].r \in Reservas /\ corrida[c].pc = "ler"
      BY <1>4, DeUmaReserva DEF LerReserva, Tipos
    <3>3. cv[caso[c].r].etapa \in {"outra", "cancelada", "pendencia"}
      BY <3>2 DEF Tipos, TypeOK, Reserva
    <3>4. x \in Corrida /\ x.pc = "contratos"
      <4> HIDE DEF a
      <4> QED BY <3>1, <3>3 DEF Corrida
    <3>5. corrida' = [corrida EXCEPT ![c] = x] /\ Mexer(c)
      BY <1>0, <1>4, <2>1 DEF LerReserva
    <3> HIDE DEF x
    <3> QED BY <2>1, <3>2, <3>4, <3>5, CursoDaCorrida
  <2>2. CASE cv[caso[c].r].vida # "cancelada"
    BY <1>4, <2>2, CursoDoFim DEF LerReserva, Status
  <2> QED BY <2>1, <2>2
<1>5. CASE LerContratos(c)
  <2> DEFINE meus == PorReserva(caso[c].r)
  <2>0. corrida[c].pc = "contratos" /\ UNCHANGED caso
    BY <1>5 DEF LerContratos
  <2>1. CASE caso[c].r \in ComCodigo \/ Cardinality(meus) = 1
    <3> DEFINE p == IF caso[c].r \in ComCodigo THEN "unidade" ELSE "ato"
               a == [corrida[c] EXCEPT !.pc = p]
               b == [a EXCEPT !.meus = meus]
               x == [b EXCEPT !.apto = Apto(meus)]
    <3>1. a \in Corrida /\ a.pc = p /\ p \in {"unidade", "ato"}
      BY <1>0 DEF Corrida
    <3>2. meus \in SUBSET Contratos /\ Apto(meus) \in BOOLEAN
      BY DEF PorReserva, Vivos, Apto
    <3>3. b \in Corrida /\ b.pc = p
      <4> HIDE DEF a, p, meus
      <4> QED BY <3>1, <3>2 DEF Corrida
    <3>4. x \in Corrida /\ x.pc = p
      <4> HIDE DEF b, p, meus
      <4> QED BY <3>2, <3>3 DEF Corrida
    <3>5. corrida' = [corrida EXCEPT ![c] = x]
      BY <1>0, <1>5, <2>1 DEF LerContratos
    <3> HIDE DEF x, p
    <3> QED BY <2>0, <3>1, <3>4, <3>5, CursoDaCorrida
  <2>2. CASE ~(caso[c].r \in ComCodigo \/ Cardinality(meus) = 1)
    BY <1>5, <2>0, <2>2, CursoDaBarreira DEF LerContratos
  <2> QED BY <2>1, <2>2
<1>6. CASE LerUnidade(c)
  <2> DEFINE meus == corrida[c].meus
             outros == PorUnidade(caso[c].r) \ meus
             barra == Cardinality(meus) > 1 \/ (meus = {} /\ outros # {})
  <2>0. corrida[c].pc = "unidade" /\ UNCHANGED caso
    BY <1>6 DEF LerUnidade
  <2>1. CASE barra
    BY <1>6, <2>0, <2>1, CursoDaBarreira DEF LerUnidade
  <2>2. CASE ~barra
    <3> DEFINE p == IF meus = {} THEN "numero" ELSE "ato"
               a == [corrida[c] EXCEPT !.pc = p]
               x == [a EXCEPT !.apto = corrida[c].apto /\ outros = {}]
    <3>1. a \in Corrida /\ a.pc = p /\ p \in {"numero", "ato"}
      BY <1>0 DEF Corrida
    <3>2. x \in Corrida /\ x.pc = p
      <4>1. (corrida[c].apto /\ outros = {}) \in BOOLEAN
        OBVIOUS
      <4> HIDE DEF a, p, outros
      <4> QED BY <3>1, <4>1 DEF Corrida
    <3>3. corrida' = [corrida EXCEPT ![c] = x]
      BY <1>0, <1>6, <2>2 DEF LerUnidade
    <3> HIDE DEF x, p
    <3> QED BY <2>0, <3>1, <3>2, <3>3, CursoDaCorrida
  <2> QED BY <2>1, <2>2
<1>7. CASE LerNumero(c)
  BY <1>7, CursoDaBarreira, CursoDeIr DEF LerNumero
<1>8. CASE LerDocumento(c)
  BY <1>8, CursoDaBarreira, CursoDeIr DEF LerDocumento
<1>9. CASE Estourar(c)
  <2>1. CASE corrida[c].pc = "ler"
    BY <1>9, <2>1, CursoDoFim DEF Estourar, Status
  <2>2. CASE corrida[c].pc # "ler"
    BY <1>9, <2>2, CursoDaBarreira DEF Estourar
  <2> QED BY <2>1, <2>2
<1>10. CASE Ato(c)
  BY <1>10, CursoDaBarreira, CursoAdiante, CursoDeIr DEF Ato
<1>11. CASE Excluir(c)
  BY <1>11, CursoDaBarreira, CursoDeIr DEF Excluir
<1>12. CASE Reler(c)
  BY <1>12, CursoDaBarreira, CursoAdiante, CursoDeIr DEF Reler
<1>13. CASE RelerUnidade(c)
  BY <1>13, CursoDaBarreira, CursoAdiante DEF RelerUnidade
<1>14. CASE Situacao(c)
  BY <1>14, CursoDeIr DEF Situacao, Aplicar
<1>15. CASE Liberar(c)
  BY <1>15, CursoDaBarreira, CursoDeIr DEF Liberar
<1>16. CASE Concluir(c)
  BY <1>16, CursoDoFim DEF Concluir, Status
<1>17. CASE Pendencia(c)
  <2>1. corrida[c].fim \in {"blocked", "error"}
    BY <1>17 DEF Pendencia, Tipos, Fim
  <2> QED BY <1>17, <2>1, CursoDeIr DEF Pendencia, Aplicar
<1>18. CASE Gravar(c)
  <2>1. corrida[c].fim \in {"blocked", "error"}
    BY <1>18 DEF Gravar, Tipos, Fim
  <2> QED BY <1>18, <2>1, CursoDoFim DEF Gravar, Status
<1> QED BY <1>1, <1>2, <1>3, <1>4, <1>5, <1>6, <1>7, <1>8, <1>9, <1>10, <1>11, <1>12,
           <1>13, <1>14, <1>15, <1>16, <1>17, <1>18 DEF Passo

\* What a step of a run does to the other systems: the stage of a reserva, a unit given
\* back, contracts deleted.
LEMMA PassoNoMundo ==
  ASSUME NEW c \in Casos, Tipos, Passo(c)
  PROVE  /\ cv' \in [Reservas -> Reserva]
         /\ \A r \in Reservas : cv'[r].vida = cv[r].vida
         /\ UNCHANGED <<modo, rajada, quedas>>
         /\ Liberar(c) \/ UNCHANGED <<dono, fora>>
         /\ \/ UNCHANGED contrato
            \/ corrida[c].pc = "excluir" /\ contrato' = Excluidos(corrida[c].meus)
<1> USE DEF semExt, externo, estavel
<1>0. cv \in [Reservas -> Reserva]
  BY DEF Tipos, TypeOK
<1>1. ASSUME NEW etapa \in {"cancelada", "pendencia"}, Aplicar(c, etapa),
             UNCHANGED <<dono, contrato, estavel>>, corrida[c].pc # "parado"
      PROVE  /\ cv' \in [Reservas -> Reserva]
             /\ \A r \in Reservas : cv'[r].vida = cv[r].vida
  <2>1. CASE UNCHANGED cv
    BY <1>0, <2>1
  <2>2. CASE cv' = [cv EXCEPT ![caso[c].r].etapa = etapa]
    <3>1. caso[c].r \in Reservas
      BY <1>1, DeUmaReserva DEF Tipos
    <3> QED BY <1>0, <2>2, <3>1 DEF Reserva
  <2> QED BY <1>1, <2>1, <2>2 DEF Aplicar
<1>2. CASE Situacao(c)
  BY <1>1, <1>2 DEF Situacao
<1>3. CASE Pendencia(c)
  BY <1>1, <1>3 DEF Pendencia
<1>4. CASE Excluir(c)
  BY <1>0, <1>4 DEF Excluir
<1>5. CASE Liberar(c)
  BY <1>0, <1>5 DEF Liberar
<1>6. CASE \/ Comecar(c) \/ Acordar(c) \/ Deduplicar(c) \/ LerReserva(c) \/ LerContratos(c)
           \/ LerUnidade(c) \/ LerNumero(c) \/ LerDocumento(c) \/ Estourar(c) \/ Ato(c)
           \/ Reler(c) \/ RelerUnidade(c) \/ Concluir(c) \/ Gravar(c)
  <2>1. UNCHANGED semExt
    BY <1>6 DEF Comecar, Acordar, Deduplicar, LerReserva, LerContratos, LerUnidade,
                LerNumero, LerDocumento, Estourar, Ato, Reler, RelerUnidade, Concluir, Gravar
  <2> QED BY <1>0, <2>1
<1> QED BY <1>2, <1>3, <1>4, <1>5, <1>6 DEF Passo

\* What no step undoes: a cancelled reserva, a reserva out of the course, a contract
\* made; and new contracts are of reservas that are alive.
Mundo ==
  /\ \A r \in Reservas : cv[r].vida = "cancelada" => cv'[r].vida = "cancelada"
  /\ fora \subseteq fora'
  /\ \A k \in Contratos :
       /\ contrato[k].sit # "livre" => contrato'[k].sit # "livre"
       /\ contrato'[k].sit = "vivo" =>
            \/ /\ contrato[k].sit = "vivo" /\ contrato'[k].r = contrato[k].r
               /\ contrato'[k].acha = contrato[k].acha
            \/ contrato[k].sit = "livre" /\ cv[contrato'[k].r].vida = "viva"

\* What the others do keeps the types and undoes none of it.
LEMMA AmbienteNoMundo ==
  ASSUME Tipos, Ambiente
  PROVE  /\ Tipos' /\ Mundo /\ UNCHANGED semRun
         /\ \/ \E r \in Reservas : Vender(r)
            \/ /\ UNCHANGED <<dono, fora>>
               /\ \A s \in Reservas : cv'[s].vida = "viva" => cv[s].vida = "viva"
               /\ \A s \in Reservas : cv'[s].vida = "futura" <=> cv[s].vida = "futura"
<1> USE DEF Tipos, TypeOK
<1>0. /\ cv \in [Reservas -> Reserva] /\ dono \in [Unidades -> Reservas \cup {Nulo}]
      /\ contrato \in [Contratos -> Contrato] /\ fora \subseteq Reservas
  OBVIOUS
<1>1. ASSUME NEW r \in Reservas, Vender(r)
      PROVE  Tipos' /\ Mundo /\ UNCHANGED semRun
  <2>1. cv' \in [Reservas -> Reserva] /\ \A s \in Reservas : s # r => cv'[s] = cv[s]
    BY <1>0, <1>1 DEF Vender, Reserva
  <2>2. dono' \in [Unidades -> Reservas \cup {Nulo}]
    BY <1>0, <1>1 DEF Vender, Unidades
  <2>3. fora' \subseteq Reservas /\ fora \subseteq fora' /\ UNCHANGED <<contrato, semRun>>
    BY <1>0, <1>1 DEF Vender
  <2>4. cv[r].vida = "futura"
    BY <1>1 DEF Vender
  <2> QED BY <2>1, <2>2, <2>3, <2>4 DEF Mundo, semRun, Fim
<1>2. ASSUME NEW r \in Reservas, Cancelar(r) \/ Regularizar(r)
      PROVE  /\ Tipos' /\ Mundo /\ UNCHANGED semRun /\ UNCHANGED <<dono, fora>>
             /\ \A s \in Reservas : cv'[s].vida = "viva" => cv[s].vida = "viva"
             /\ \A s \in Reservas : cv'[s].vida = "futura" <=> cv[s].vida = "futura"
  <2>1. /\ cv' \in [Reservas -> Reserva] /\ \A s \in Reservas : s # r => cv'[s] = cv[s]
        /\ cv'[r].vida = cv[r].vida \/ (cv'[r].vida = "cancelada" /\ cv[r].vida = "viva")
    BY <1>0, <1>2 DEF Cancelar, Regularizar, Reserva
  <2>2. UNCHANGED <<dono, contrato, fora, semRun>>
    BY <1>2 DEF Cancelar, Regularizar
  <2> QED BY <2>1, <2>2 DEF Mundo, semRun, Fim
<1>3. ASSUME NEW k \in Contratos, NEW r \in Reservas, Contratar(k, r)
      PROVE  Tipos' /\ Mundo /\ UNCHANGED <<cv, dono, fora, semRun>>
  <2>1. PICK b \in BOOLEAN, a \in Achados :
          contrato' = [contrato EXCEPT ![k] = [r |-> r, sit |-> "vivo", bom |-> b, acha |-> a]]
    BY <1>3 DEF Contratar
  <2>2. /\ contrato' \in [Contratos -> Contrato] /\ contrato'[k].sit = "vivo"
        /\ contrato'[k].r = r /\ \A j \in Contratos : j # k => contrato'[j] = contrato[j]
    BY <1>0, <2>1 DEF Contrato
  <2>3. UNCHANGED <<cv, dono, fora, semRun>> /\ cv[r].vida = "viva" /\ contrato[k].sit = "livre"
    BY <1>3 DEF Contratar
  <2> QED BY <2>2, <2>3 DEF Mundo, semRun, Fim
<1>4. ASSUME NEW k \in Contratos, MudarContrato(k)
      PROVE  Tipos' /\ Mundo /\ UNCHANGED <<cv, dono, fora, semRun>>
  <2>1. UNCHANGED <<cv, dono, fora, semRun>> /\ contrato[k].sit = "vivo"
    BY <1>4 DEF MudarContrato, Vivos
  <2>2. CASE contrato' = [contrato EXCEPT ![k].bom = ~@]
    <3>1. /\ contrato' \in [Contratos -> Contrato]
          /\ \A j \in Contratos : /\ contrato'[j].sit = contrato[j].sit
                                  /\ contrato'[j].r = contrato[j].r
                                  /\ contrato'[j].acha = contrato[j].acha
      BY <1>0, <2>2 DEF Contrato
    <3> QED BY <2>1, <3>1 DEF Mundo, semRun, Fim
  <2>3. CASE contrato' = [contrato EXCEPT ![k] = Extinto]
    <3>1. SemContrato \in Contrato
      BY DEF SemContrato, Contrato, Achados
    <3>2. Extinto \in Contrato /\ Extinto.sit = "extinto"
      BY <3>1 DEF Extinto, Contrato
    <3>3. /\ contrato' \in [Contratos -> Contrato] /\ contrato'[k].sit = "extinto"
          /\ \A j \in Contratos : j # k => contrato'[j] = contrato[j]
      BY <1>0, <2>3, <3>2
    <3> QED BY <2>1, <3>3 DEF Mundo, semRun, Fim
  <2> QED BY <1>4, <2>2, <2>3 DEF MudarContrato
<1> QED BY <1>1, <1>2, <1>3, <1>4 DEF Ambiente

\* Deleted contracts are extinct and the others as they were.
LEMMA ApenasExcluidos ==
  ASSUME NEW ks \in SUBSET Contratos, TypeOK, contrato' = Excluidos(ks)
  PROVE  /\ contrato' \in [Contratos -> Contrato]
         /\ \A k \in Contratos : k \in ks => contrato'[k].sit = "extinto"
         /\ \A k \in Contratos : k \notin ks => contrato'[k] = contrato[k]
<1>1. SemContrato \in Contrato
  BY DEF SemContrato, Contrato, Achados
<1>2. Extinto \in Contrato /\ Extinto.sit = "extinto"
  BY <1>1 DEF Extinto, Contrato
<1>3. contrato \in [Contratos -> Contrato]
  BY DEF TypeOK
<1> QED BY <1>2, <1>3 DEF Excluidos

\* A unit given back, and the reservas that leave the course with it.
LEMMA Devolucao ==
  ASSUME NEW c \in Casos, Tipos, Liberar(c)
  PROVE  LET r == caso[c].r IN
         /\ r \in Reservas /\ Unidade[r] \in Unidades
         /\ \/ UNCHANGED <<dono, fora>> /\ corrida'[c].pc # "concluir"
            \/ /\ dono' = [dono EXCEPT ![Unidade[r]] = Nulo]
               /\ \/ /\ corrida'[c].pc = "concluir"
                     /\ fora' = fora \cup ({dono[Unidade[r]]} \ {r, Nulo})
                  \/ /\ corrida'[c].pc # "concluir"
                     /\ fora' = fora \cup ({r, dono[Unidade[r]]} \ {Nulo})
<1>1. caso[c].r \in Reservas
  BY DeUmaReserva DEF Liberar, Tipos
<1>2. Unidade[caso[c].r] \in Unidades
  BY <1>1 DEF Unidades
<1>3. corrida \in [Casos -> Corrida] /\ corrida[c] \in Corrida
  BY DEF Tipos, TypeOK
<1>4. Ir(c, "concluir") => corrida'[c].pc = "concluir"
  BY <1>3 DEF Ir, Corrida
<1>5. ASSUME Barrar(c, "error") PROVE corrida'[c].pc # "concluir"
  <2>1. corrida'[c] = Barrada("pendencia", corrida[c].etapa, "error")
    BY <1>3, <1>5 DEF Barrar, Barrada
  <2>2. corrida[c].etapa \in {"outra", "cancelada", "pendencia"} /\ "pendencia" \in Pcs
    BY <1>3 DEF Corrida, Pcs
  <2> QED BY <2>1, <2>2, Retomada
<1>6. \/ Ir(c, "concluir") /\ Solta(caso[c].r)
      \/ /\ Barrar(c, "error")
         /\ \/ UNCHANGED <<dono, fora>>
            \/ /\ dono' = [dono EXCEPT ![Unidade[caso[c].r]] = Nulo]
               /\ fora' = fora \cup ({caso[c].r, dono[Unidade[caso[c].r]]} \ {Nulo})
  BY DEF Liberar
<1> QED BY <1>1, <1>2, <1>4, <1>5, <1>6 DEF Solta

\* A step of a run keeps the types and undoes nothing.
LEMMA TiposDoPasso ==
  ASSUME NEW c \in Casos, Tipos, Passo(c)
  PROVE  Tipos' /\ Mundo
<1>1. /\ caso' \in [Casos -> Caso] /\ corrida' \in [Casos -> Corrida]
      /\ \A d \in Casos : /\ corrida'[d].pc # "parado" => caso'[d].status = "processing"
                          /\ caso'[d].status = "nenhum" <=> caso'[d].r = Nulo
                          /\ Fim(d)'
  <2>1. Curso(c)
    BY CursoDoPasso
  <2>2. PICK x \in Corrida, y \in Caso :
          /\ corrida' = [corrida EXCEPT ![c] = x] /\ caso' = [caso EXCEPT ![c] = y]
          /\ Passa(c, x, y)
    BY <2>1 DEF Curso
  <2>3. y.r \in Reservas /\ y.r # Nulo
    BY <2>1, <2>2, DeUmaReserva, ReservaAssumption DEF Curso, Passa, Tipos
  <2>4. y.status # "nenhum" /\ (x.pc # "parado" => y.status = "processing")
        /\ (x.pc \in {"pendencia", "gravar"} => x.fim \in {"blocked", "error"})
    BY <2>2 DEF Passa
  <2> QED BY <2>2, <2>3, <2>4, TiposDeUm
<1>2. /\ cv' \in [Reservas -> Reserva]
      /\ \A r \in Reservas : cv'[r].vida = cv[r].vida
      /\ UNCHANGED <<modo, rajada, quedas>>
  BY PassoNoMundo
<1>3. /\ contrato' \in [Contratos -> Contrato]
      /\ \A k \in Contratos : \/ contrato'[k] = contrato[k]
                              \/ contrato'[k].sit = "extinto"
  <2>1. CASE UNCHANGED contrato
    BY <2>1 DEF Tipos, TypeOK
  <2>2. CASE contrato' = Excluidos(corrida[c].meus)
    <3>1. corrida[c].meus \in SUBSET Contratos
      BY DEF Tipos, TypeOK, Corrida
    <3> QED BY <2>2, <3>1, ApenasExcluidos DEF Tipos
  <2> QED BY <2>1, <2>2, PassoNoMundo
<1>4. dono' \in [Unidades -> Reservas \cup {Nulo}] /\ fora \subseteq fora' /\ fora' \subseteq Reservas
  <2>0. dono \in [Unidades -> Reservas \cup {Nulo}] /\ fora \subseteq Reservas
    BY DEF Tipos, TypeOK
  <2>1. CASE UNCHANGED <<dono, fora>>
    BY <2>0, <2>1
  <2>2. CASE Liberar(c)
    BY <2>0, <2>2, Devolucao
  <2> QED BY <2>1, <2>2, PassoNoMundo
<1>5. Tipos'
  BY <1>1, <1>2, <1>3, <1>4 DEF Tipos, TypeOK
<1> QED BY <1>2, <1>3, <1>4, <1>5 DEF Mundo

\* The automatic cases of the last wait, and c.
Juntos(c) == {d \in Casos : /\ caso[d].status # "nenhum" /\ ~caso[d].manual
                             /\ caso[d].criado < Espera} \cup {c}

\* What a request adds: a row of its own, whose run begins.
LEMMA Pedido ==
  ASSUME Tipos, NEW r \in Reservas, NEW manual \in BOOLEAN, Receber(r, manual)
  PROVE  /\ ~EmVoo(r)
         /\ \E c \in Casos, x \in Corrida, y \in Caso :
              /\ corrida' = [corrida EXCEPT ![c] = x] /\ caso' = [caso EXCEPT ![c] = y]
              /\ caso[c].status = "nenhum" /\ corrida[c].pc = "parado" /\ x.pc = "inicio"
              /\ y.r = r /\ y.manual = manual /\ y.status = "processing" /\ y.criado = 0
              /\ (rajada' = IF ~manual /\ modo = "comFreio" /\ Cardinality(Juntos(c)) > Teto
                            THEN rajada \cup Juntos(c) ELSE rajada)
         /\ fora' = IF manual /\ ComSucesso(r) THEN fora \cup {r} ELSE fora
         /\ UNCHANGED <<modo, externo, quedas>>
<1>1. PICK c \in Casos :
        /\ caso[c].status = "nenhum" /\ Criou(c, r, manual)
        /\ corrida' = [corrida EXCEPT ![c] = [Parada EXCEPT !.pc = "inicio"]]
        /\ (rajada' = IF ~manual /\ modo = "comFreio" /\ Cardinality(Juntos(c)) > Teto
                            THEN rajada \cup Juntos(c) ELSE rajada)
  BY DEF Receber, Juntos
<1> DEFINE x == [Parada EXCEPT !.pc = "inicio"]
           y == [r |-> r, status |-> "processing", manual |-> manual, criado |-> 0,
                 recente |-> TRUE]
<1>2. Parada \in Corrida
  BY ReservaAssumption DEF Parada, Corrida, Pcs
<1>3. x \in Corrida /\ x.pc = "inicio"
  BY <1>2 DEF Corrida, Pcs
<1>4. y \in Caso
  BY ReservaAssumption DEF Caso, Status
<1>5. /\ corrida' = [corrida EXCEPT ![c] = x] /\ caso' = [caso EXCEPT ![c] = y]
      /\ corrida[c].pc = "parado"
  BY <1>1 DEF Criou, Tipos, TypeOK
<1>6. /\ y.r = r /\ y.manual = manual /\ y.status = "processing" /\ y.criado = 0
  OBVIOUS
<1>7. /\ ~EmVoo(r) /\ UNCHANGED <<modo, externo, quedas>>
      /\ fora' = IF manual /\ ComSucesso(r) THEN fora \cup {r} ELSE fora
  BY DEF Receber
<1> HIDE DEF x, y
<1> QED BY <1>1, <1>3, <1>4, <1>5, <1>6, <1>7

\* A request keeps the types and undoes nothing.
LEMMA TiposDoPedido ==
  ASSUME Tipos, NEW r \in Reservas, NEW manual \in BOOLEAN, Receber(r, manual)
  PROVE  Tipos' /\ Mundo
<1>1. PICK c \in Casos, x \in Corrida, y \in Caso :
        /\ corrida' = [corrida EXCEPT ![c] = x] /\ caso' = [caso EXCEPT ![c] = y]
        /\ x.pc = "inicio" /\ y.r = r /\ y.status = "processing"
        /\ (rajada' = IF ~manual /\ modo = "comFreio" /\ Cardinality(Juntos(c)) > Teto
                            THEN rajada \cup Juntos(c) ELSE rajada)
  BY Pedido
<1>2. /\ caso' \in [Casos -> Caso] /\ corrida' \in [Casos -> Corrida]
      /\ \A d \in Casos : /\ corrida'[d].pc # "parado" => caso'[d].status = "processing"
                          /\ caso'[d].status = "nenhum" <=> caso'[d].r = Nulo
                          /\ Fim(d)'
  <2>1. y.status # "nenhum" /\ y.r # Nulo /\ x.pc \notin {"pendencia", "gravar"}
    BY <1>1, ReservaAssumption
  <2> QED BY <1>1, <2>1, TiposDeUm
<1>3. rajada \subseteq Casos /\ rajada' \subseteq Casos
  BY <1>1 DEF Tipos, TypeOK, Juntos
<1>4. /\ fora \subseteq fora' /\ fora' \subseteq Reservas
      /\ UNCHANGED <<modo, cv, dono, contrato, quedas>>
  BY Pedido DEF Tipos, TypeOK, externo
<1> QED BY <1>2, <1>3, <1>4 DEF Tipos, TypeOK, Mundo

\* Time goes by: a row only grows older, a run only waits.
LEMMA TempoPassa ==
  ASSUME Tipos, Passar \/ \E c \in Casos : Envelhecer(c)
  PROVE  /\ Tipos' /\ Mundo /\ UNCHANGED semExt
         /\ \A c \in Casos : /\ caso'[c].r = caso[c].r /\ caso'[c].status = caso[c].status
                             /\ caso'[c].manual = caso[c].manual
                             /\ corrida'[c].pc = corrida[c].pc
                             /\ corrida'[c].meus = corrida[c].meus
                             /\ corrida'[c].apto = corrida[c].apto
                             /\ corrida'[c].fim = corrida[c].fim
<1>0. caso \in [Casos -> Caso] /\ corrida \in [Casos -> Corrida]
  BY DEF Tipos, TypeOK
<1>1. UNCHANGED semExt
  BY DEF Passar, Envelhecer
<1>2. /\ caso' \in [Casos -> Caso] /\ corrida' \in [Casos -> Corrida]
      /\ \A c \in Casos : /\ caso'[c].r = caso[c].r /\ caso'[c].status = caso[c].status
                          /\ caso'[c].manual = caso[c].manual
                          /\ corrida'[c].pc = corrida[c].pc
                          /\ corrida'[c].meus = corrida[c].meus
                          /\ corrida'[c].apto = corrida[c].apto
                          /\ corrida'[c].fim = corrida[c].fim
  <2>1. ASSUME NEW c \in Casos, Envelhecer(c) PROVE <1>2!:
    <3>1. corrida' = corrida /\ caso' = [caso EXCEPT ![c].recente = FALSE]
      BY <2>1 DEF Envelhecer
    <3> QED BY <1>0, <3>1 DEF Caso
  <2>2. CASE Passar
    <3>1. ASSUME NEW c \in Casos
          PROVE  /\ caso'[c] \in Caso /\ caso'[c].r = caso[c].r
                 /\ caso'[c].status = caso[c].status /\ caso'[c].manual = caso[c].manual
      <4>1. caso'[c] = Depois(caso[c]) /\ caso[c] \in Caso
        BY <1>0, <2>2 DEF Passar
      <4>2. Mais(caso[c].criado, Janela + 1) \in 0..(Janela + 1)
        BY <4>1, ReservaAssumption DEF Mais, Caso
      <4> QED BY <4>1, <4>2 DEF Depois, Caso
    <3>2. ASSUME NEW c \in Casos
          PROVE  /\ corrida'[c] \in Corrida /\ corrida'[c].pc = corrida[c].pc
                 /\ corrida'[c].meus = corrida[c].meus /\ corrida'[c].apto = corrida[c].apto
                 /\ corrida'[c].fim = corrida[c].fim
      <4>1. /\ corrida[c] \in Corrida
            /\ corrida'[c] = IF corrida[c].pc = "espera"
                               THEN [corrida[c] EXCEPT !.resta = corrida[c].resta - 1]
                               ELSE corrida[c]
        BY <1>0, <2>2 DEF Passar
      <4>2. corrida[c].pc = "espera" => corrida[c].resta - 1 \in 0..Espera
        BY <2>2, <4>1, ReservaAssumption DEF Passar, Corrida
      <4> QED BY <4>1, <4>2 DEF Corrida
    <3>3. caso' = [c \in Casos |-> caso'[c]] /\ corrida' = [c \in Casos |-> corrida'[c]]
      BY <2>2 DEF Passar
    <3> QED BY <3>1, <3>2, <3>3
  <2> QED BY <2>1, <2>2
<1>3. UNCHANGED <<modo, cv, dono, contrato, rajada, fora, quedas>>
  BY <1>1 DEF semExt, externo, estavel
<1>4. Tipos'
  BY <1>2, <1>3 DEF Tipos, TypeOK, Fim
<1>5. Mundo
  BY <1>3 DEF Mundo
<1> QED BY <1>1, <1>2, <1>4, <1>5

\* A restart stops every run and takes out of the course the releases it forgets.
LEMMA Reinicio ==
  ASSUME Tipos, Reiniciar
  PROVE  /\ Tipos' /\ Mundo /\ UNCHANGED <<modo, externo, caso, rajada>>
         /\ \A c \in Casos : corrida'[c].pc = "parado"
         /\ \A c \in Casos : corrida[c].pc = "concluir" => caso[c].r \in fora'
<1>1. Parada \in Corrida /\ Parada.pc = "parado"
  BY ReservaAssumption DEF Parada, Corrida, Pcs
<1>2. corrida' \in [Casos -> Corrida] /\ \A c \in Casos : corrida'[c].pc = "parado"
  BY <1>1 DEF Reiniciar
<1>3. /\ fora \subseteq fora' /\ quedas' \in 0..MaxQuedas
      /\ UNCHANGED <<modo, externo, caso, rajada>>
      /\ \A c \in Casos : corrida[c].pc = "concluir" => caso[c].r \in fora'
  BY ReservaAssumption DEF Reiniciar, Tipos, TypeOK
<1>4. fora' \subseteq Reservas
  <2>1. \A c \in Casos : corrida[c].pc = "concluir" => caso[c].r \in Reservas
    BY DeUmaReserva DEF Tipos
  <2> QED BY <2>1 DEF Reiniciar, Tipos, TypeOK
<1> QED BY <1>2, <1>3, <1>4 DEF Tipos, TypeOK, Fim, Mundo, externo

\* Every step keeps the types and undoes nothing.
LEMMA TiposNext ==
  ASSUME Tipos, [Next]_vars
  PROVE  Tipos' /\ Mundo
<1>1. CASE UNCHANGED vars
  BY <1>1 DEF vars, Tipos, TypeOK, Fim, Mundo
<1>2. CASE Next
  BY <1>2, TiposDoPedido, TiposDoPasso, TempoPassa, AmbienteNoMundo, Reinicio DEF Next
<1> QED BY <1>1, <1>2

\* Type correctness, for any number of reservas, units, contracts, cases and restarts.
THEOREM Tipado == Spec => []TypeOK
<1>1. Init => Tipos
  BY TiposInit
<1>2. Tipos /\ [Next]_vars => Tipos'
  BY TiposNext
<1>3. Tipos => TypeOK
  BY DEF Tipos
<1> QED BY <1>1, <1>2, <1>3, PTL DEF Spec
-----------------------------------------------------------------------------
(* One run at a time, and none after a success. *)

\* A step of a run leaves the other cases alone.
LEMMA Alheio ==
  ASSUME NEW c \in Casos, Tipos, Passo(c)
  PROVE  /\ corrida[c].pc # "parado" /\ caso[c].status = "processing"
         /\ caso[c].r \in Reservas /\ Passa(c, corrida'[c], caso'[c])
         /\ \A d \in Casos : d # c => corrida'[d] = corrida[d] /\ caso'[d] = caso[d]
<1>1. Curso(c)
  BY CursoDoPasso
<1>2. PICK x \in Corrida, y \in Caso :
        /\ corrida' = [corrida EXCEPT ![c] = x] /\ caso' = [caso EXCEPT ![c] = y]
        /\ Passa(c, x, y)
  BY <1>1 DEF Curso
<1>3. corrida'[c] = x /\ caso'[c] = y
  BY <1>2 DEF Tipos, TypeOK
<1>4. \A d \in Casos : d # c => corrida'[d] = corrida[d] /\ caso'[d] = caso[d]
  BY <1>2 DEF Tipos, TypeOK
<1>5. corrida[c].pc # "parado"
  BY <1>1 DEF Curso
<1> QED BY <1>2, <1>3, <1>4, <1>5, DeUmaReserva DEF Tipos

\* A success is kept, and comes only from a run that concludes.
LEMMA Sucessos ==
  ASSUME Tipos, [Next]_vars, NEW r \in Reservas
  PROVE  /\ ComSucesso(r) => ComSucesso(r)'
         /\ ComSucesso(r)' =>
              \/ ComSucesso(r)
              \/ \E c \in Casos : /\ Passo(c) /\ caso[c].r = r
                                  /\ corrida[c].pc = "concluir" /\ corrida'[c].pc = "parado"
<1> DEFINE Igual == \A d \in Casos : caso'[d].r = caso[d].r /\ caso'[d].status = caso[d].status
<1>1. Igual => (ComSucesso(r)' <=> ComSucesso(r))
  BY DEF ComSucesso
<1>2. ASSUME NEW s \in Reservas, NEW manual \in BOOLEAN, Receber(s, manual)
      PROVE  ComSucesso(r)' <=> ComSucesso(r)
  <2>1. PICK c \in Casos, y \in Caso : /\ caso' = [caso EXCEPT ![c] = y]
                                       /\ caso[c].status = "nenhum" /\ y.status = "processing"
    BY <1>2, Pedido
  <2>2. caso'[c] = y /\ \A d \in Casos : d # c => caso'[d] = caso[d]
    BY <2>1 DEF Tipos, TypeOK
  <2> QED BY <2>1, <2>2 DEF ComSucesso
<1>3. ASSUME NEW c \in Casos, Passo(c)
      PROVE  /\ ComSucesso(r) => ComSucesso(r)'
             /\ ComSucesso(r)' => \/ ComSucesso(r)
                                  \/ /\ caso[c].r = r
                                     /\ corrida[c].pc = "concluir" /\ corrida'[c].pc = "parado"
  <2>1. /\ caso[c].status = "processing" /\ Passa(c, corrida'[c], caso'[c])
        /\ \A d \in Casos : d # c => caso'[d] = caso[d]
    BY <1>3, Alheio
  <2> QED BY <2>1 DEF ComSucesso, Passa
<1>4. CASE Passar \/ \E c \in Casos : Envelhecer(c)
  BY <1>1, <1>4, TempoPassa
<1>5. CASE Ambiente
  BY <1>1, <1>5, AmbienteNoMundo DEF semRun
<1>6. CASE Reiniciar
  BY <1>1, <1>6, Reinicio
<1>7. CASE UNCHANGED vars
  BY <1>1, <1>7 DEF vars
<1> HIDE DEF Igual
<1> QED BY <1>2, <1>3, <1>4, <1>5, <1>6, <1>7 DEF Next

\* The runs after a step: those of before, further on, and that of a request.
Corridas ==
  \A d \in Casos :
    EmCurso(d)' =>
      \/ /\ EmCurso(d) /\ caso'[d].r = caso[d].r /\ caso'[d].manual = caso[d].manual
         /\ corrida'[d].pc \in AposDedupe =>
              corrida[d].pc \in AposDedupe \/ (corrida[d].pc = "dedupe" /\ ~Duplicado(d))
         /\ corrida'[d].pc \in AposLer =>
              corrida[d].pc \in AposLer \/ cv[caso[d].r].vida = "cancelada"
      \/ /\ corrida'[d].pc = "inicio" /\ ~EmVoo(caso'[d].r) /\ caso'[d].r \in Reservas
         /\ \A e \in Casos : e # d => corrida'[e] = corrida[e] /\ caso'[e] = caso[e]
         /\ caso'[d].manual /\ ComSucesso(caso'[d].r) => caso'[d].r \in fora'
\* No step does otherwise.
LEMMA CorridasNext ==
  ASSUME Tipos, [Next]_vars
  PROVE  Corridas
<1> DEFINE Igual == \A d \in Casos : /\ caso'[d].r = caso[d].r /\ caso'[d].manual = caso[d].manual
                                     /\ corrida'[d].pc = corrida[d].pc
<1>1. Igual => Corridas
  BY DEF Corridas, EmCurso
<1>2. ASSUME NEW s \in Reservas, NEW manual \in BOOLEAN, Receber(s, manual)
      PROVE  Corridas
  <2>1. PICK c \in Casos, x \in Corrida, y \in Caso :
          /\ corrida' = [corrida EXCEPT ![c] = x] /\ caso' = [caso EXCEPT ![c] = y]
          /\ x.pc = "inicio" /\ y.r = s /\ y.manual = manual
    BY <1>2, Pedido
  <2>2. /\ corrida'[c] = x /\ caso'[c] = y
        /\ \A d \in Casos : d # c => corrida'[d] = corrida[d] /\ caso'[d] = caso[d]
    BY <2>1 DEF Tipos, TypeOK
  <2>3. ~EmVoo(s) /\ (manual /\ ComSucesso(s) => s \in fora')
    BY <1>2, Pedido
  <2> QED BY <2>1, <2>2, <2>3 DEF Corridas, EmCurso
<1>3. ASSUME NEW c \in Casos, Passo(c) PROVE Corridas
  <2>1. /\ corrida[c].pc # "parado" /\ Passa(c, corrida'[c], caso'[c])
        /\ \A d \in Casos : d # c => corrida'[d] = corrida[d] /\ caso'[d] = caso[d]
    BY <1>3, Alheio
  <2> QED BY <2>1 DEF Corridas, EmCurso, Passa
<1>4. CASE Passar \/ \E c \in Casos : Envelhecer(c)
  BY <1>1, <1>4, TempoPassa
<1>5. CASE Ambiente
  BY <1>1, <1>5, AmbienteNoMundo DEF semRun
<1>6. CASE Reiniciar
  BY <1>6, Reinicio DEF Corridas, EmCurso
<1>7. CASE UNCHANGED vars
  BY <1>1, <1>7 DEF vars
<1> HIDE DEF Igual
<1> QED BY <1>2, <1>3, <1>4, <1>5, <1>6, <1>7 DEF Next

\* A reserva is never in two runs at once.
LEMMA UmaCorridaNext ==
  ASSUME Tipos, UmaCorrida, [Next]_vars
  PROVE  UmaCorrida'
<1>1. Corridas
  BY CorridasNext
<1>2. ASSUME NEW c \in Casos, NEW d \in Casos, EmCurso(c)', EmCurso(d)',
             caso'[c].r = caso'[d].r, c # d
      PROVE  FALSE
  <2>1. CASE EmCurso(c) /\ caso'[c].r = caso[c].r /\ EmCurso(d) /\ caso'[d].r = caso[d].r
    BY <1>2, <2>1 DEF UmaCorrida
  <2>2. CASE /\ ~EmVoo(caso'[c].r)
             /\ \A e \in Casos : e # c => corrida'[e] = corrida[e] /\ caso'[e] = caso[e]
    BY <1>2, <2>2 DEF EmVoo, EmCurso
  <2>3. CASE /\ ~EmVoo(caso'[d].r)
             /\ \A e \in Casos : e # d => corrida'[e] = corrida[e] /\ caso'[e] = caso[e]
    BY <1>2, <2>3 DEF EmVoo, EmCurso
  <2> QED BY <1>1, <1>2, <2>1, <2>2, <2>3 DEF Corridas
<1> QED BY <1>2 DEF UmaCorrida

\* After a success no run of the reserva goes on, unless a person asked for it again.
LEMMA SemSucessoNext ==
  ASSUME Tipos, UmaCorrida, SemSucesso, [Next]_vars
  PROVE  SemSucesso'
<1>0. Tipos' /\ fora \subseteq fora'
  BY TiposNext DEF Mundo
<1>1. SUFFICES ASSUME NEW d \in Casos,
                      (corrida[d].pc \in AposDedupe \/ (caso[d].manual /\ EmCurso(d)))',
                      (caso[d].r \notin fora)', ComSucesso(caso[d].r)'
               PROVE  FALSE
  BY DEF SemSucesso
<1>2. PICK r \in Reservas : r = caso'[d].r /\ EmCurso(d)'
  <2>1. EmCurso(d)'
    BY <1>1 DEF AposDedupe, EmCurso
  <2>2. caso'[d].status # "nenhum" /\ caso'[d] \in Caso
    BY <1>0, <2>1 DEF Tipos, TypeOK, EmCurso
  <2>3. caso'[d].r # Nulo
    BY <1>0, <2>2 DEF Tipos, TypeOK
  <2> QED BY <2>1, <2>2, <2>3 DEF Caso
<1>3. ComSucesso(r)'
  BY <1>1, <1>2 DEF ComSucesso
<1>4. CASE /\ EmCurso(d) /\ r = caso[d].r /\ caso'[d].manual = caso[d].manual
           /\ corrida'[d].pc \in AposDedupe =>
                corrida[d].pc \in AposDedupe \/ (corrida[d].pc = "dedupe" /\ ~Duplicado(d))
  <2>1. CASE ComSucesso(r)
    BY <1>0, <1>1, <1>2, <1>4, <2>1 DEF SemSucesso, Duplicado
  <2>2. ASSUME NEW c \in Casos, caso[c].r = r, corrida[c].pc = "concluir",
               corrida'[c].pc = "parado"
        PROVE  FALSE
    BY <1>2, <1>4, <2>2 DEF UmaCorrida, EmCurso
  <2> QED BY <1>3, <2>1, <2>2, Sucessos
<1>5. CASE /\ corrida'[d].pc = "inicio" /\ ~EmVoo(r)
           /\ caso'[d].manual /\ ComSucesso(r) => r \in fora'
  <2>1. ~ComSucesso(r) /\ caso'[d].manual
    BY <1>1, <1>2, <1>5 DEF AposDedupe
  <2>2. PICK c \in Casos : caso[c].r = r /\ corrida[c].pc = "concluir"
    BY <1>3, <2>1, Sucessos
  <2> QED BY <1>5, <2>2 DEF EmVoo
<1> QED BY <1>2, <1>4, <1>5, CorridasNext DEF Corridas
-----------------------------------------------------------------------------
(* Who has the unit. *)

\* A reserva counts as given back from the step that releases its unit, and for good,
\* unless a restart takes it out of the course.
LEMMA Liberacoes ==
  ASSUME Tipos, [Next]_vars, NEW r \in Reservas
  PROVE  /\ Liberada(r)' =>
              \/ Liberada(r)
              \/ \E c \in Casos : /\ Liberar(c) /\ caso[c].r = r
                                  /\ corrida[c].pc = "liberar" /\ corrida'[c].pc = "concluir"
         /\ Liberada(r) => Liberada(r)' \/ r \in fora'
<1> DEFINE Igual == \A d \in Casos : /\ caso'[d].r = caso[d].r /\ caso'[d].status = caso[d].status
                                     /\ corrida'[d].pc = corrida[d].pc
<1>1. Igual => (Liberada(r)' <=> Liberada(r))
  BY DEF Liberada, ComSucesso
<1>2. ASSUME NEW s \in Reservas, NEW manual \in BOOLEAN, Receber(s, manual)
      PROVE  Liberada(r)' <=> Liberada(r)
  <2>1. PICK c \in Casos, x \in Corrida, y \in Caso :
          /\ corrida' = [corrida EXCEPT ![c] = x] /\ caso' = [caso EXCEPT ![c] = y]
          /\ caso[c].status = "nenhum" /\ corrida[c].pc = "parado" /\ x.pc = "inicio"
          /\ y.status = "processing"
    BY <1>2, Pedido
  <2>2. /\ corrida'[c] = x /\ caso'[c] = y
        /\ \A d \in Casos : d # c => corrida'[d] = corrida[d] /\ caso'[d] = caso[d]
    BY <2>1 DEF Tipos, TypeOK
  <2> QED BY <2>1, <2>2 DEF Liberada, ComSucesso
<1>3. ASSUME NEW c \in Casos, Passo(c)
      PROVE  /\ Liberada(r)' => \/ Liberada(r)
                                \/ /\ Liberar(c) /\ caso[c].r = r
                                   /\ corrida[c].pc = "liberar" /\ corrida'[c].pc = "concluir"
             /\ Liberada(r) => Liberada(r)'
  <2>1. /\ Passa(c, corrida'[c], caso'[c]) /\ caso[c].status = "processing"
        /\ \A d \in Casos : d # c => corrida'[d] = corrida[d] /\ caso'[d] = caso[d]
    BY <1>3, Alheio
  <2>2. corrida[c].pc = "liberar" => Liberar(c)
    BY <1>3 DEF Passo, Comecar, Acordar, Deduplicar, LerReserva, LerContratos, LerUnidade,
                LerNumero, LerDocumento, Estourar, Ato, Excluir, Reler, RelerUnidade,
                Situacao, Concluir, Pendencia, Gravar
  <2> QED BY <2>1, <2>2 DEF Liberada, ComSucesso, Passa
<1>4. CASE Passar \/ \E c \in Casos : Envelhecer(c)
  BY <1>1, <1>4, TempoPassa
<1>5. CASE Ambiente
  BY <1>1, <1>5, AmbienteNoMundo DEF semRun
<1>6. CASE Reiniciar
  BY <1>6, Reinicio DEF Liberada, ComSucesso
<1>7. CASE UNCHANGED vars
  BY <1>1, <1>7 DEF vars
<1> HIDE DEF Igual
<1> QED BY <1>2, <1>3, <1>4, <1>5, <1>6, <1>7 DEF Next

\* Units change hands by a sale or a release, and reservas come to life by a sale.
Donos ==
  \/ UNCHANGED dono /\ \A s \in Reservas : /\ cv'[s].vida = "viva" => cv[s].vida = "viva"
                                           /\ cv'[s].vida = "futura" <=> cv[s].vida = "futura"
  \/ \E c \in Casos : Passo(c) /\ Liberar(c) /\ \A s \in Reservas : cv'[s].vida = cv[s].vida
  \/ \E s \in Reservas : Vender(s)
\* No step does otherwise.
LEMMA DonosNext ==
  ASSUME Tipos, [Next]_vars
  PROVE  Donos
<1>1. UNCHANGED <<cv, dono>> => Donos
  BY DEF Donos
<1>2. ASSUME NEW c \in Casos, Passo(c) PROVE Donos
  BY <1>2, PassoNoMundo DEF Donos
<1>3. CASE Ambiente
  BY <1>3, AmbienteNoMundo DEF Donos
<1>4. ASSUME NEW s \in Reservas, NEW manual \in BOOLEAN, Receber(s, manual) PROVE Donos
  BY <1>1, <1>4 DEF Receber, externo
<1>5. CASE Passar \/ Reiniciar \/ \E c \in Casos : Envelhecer(c)
  BY <1>1, <1>5 DEF Passar, Reiniciar, Envelhecer, semExt, externo
<1>6. CASE UNCHANGED vars
  BY <1>1, <1>6 DEF vars
<1> QED BY <1>2, <1>3, <1>4, <1>5, <1>6 DEF Next

\* What a sale writes.
LEMMA Venda ==
  ASSUME Tipos, NEW s \in Reservas, Vender(s)
  PROVE  /\ cv[s].vida = "futura" /\ cv'[s].vida = "viva"
         /\ dono[Unidade[s]] = Nulo /\ dono'[Unidade[s]] = s
         /\ \A u \in Unidades : u # Unidade[s] => dono'[u] = dono[u]
         /\ \A r \in Reservas : r # s => cv'[r] = cv[r]
         /\ (\E r \in Reservas : Unidade[r] = Unidade[s] /\ cv[r].vida = "viva") => s \in fora'
         /\ UNCHANGED <<caso, corrida>>
<1>1. Unidade[s] \in Unidades
  BY DEF Unidades
<1> QED BY <1>1 DEF Vender, Tipos, TypeOK, Reserva, semRun

\* A reserva that has lost its unit does not get it back.
LEMMA NaoVolta ==
  ASSUME Tipos, [Next]_vars, NEW r \in Reservas, cv[r].vida # "futura",
         dono[Unidade[r]] # r
  PROVE  dono'[Unidade[r]] # r
<1>0. Unidade[r] \in Unidades /\ r # Nulo
  BY ReservaAssumption DEF Unidades
<1>1. ASSUME NEW c \in Casos, Liberar(c) PROVE dono'[Unidade[r]] # r
  BY <1>0, <1>1, Devolucao DEF Tipos, TypeOK
<1>2. ASSUME NEW s \in Reservas, Vender(s) PROVE dono'[Unidade[r]] # r
  BY <1>0, <1>2, Venda
<1> QED BY <1>1, <1>2, DonosNext DEF Donos

\* A reserva comes to hold its unit by its sale only.
LEMMA PosseNova ==
  ASSUME Tipos, [Next]_vars, NEW r \in Reservas, Posse(r)'
  PROVE  Posse(r) \/ Vender(r)
<1>1. r \notin fora' /\ fora \subseteq fora' /\ ~Liberada(r)' /\ cv'[r].vida # "futura"
  BY TiposNext DEF Posse, Mundo
<1>2. r \notin fora /\ ~Liberada(r)
  BY <1>1, Liberacoes
<1>3. cv[r].vida # "futura" \/ Vender(r)
  BY <1>1, DonosNext, Venda DEF Donos
<1> QED BY <1>2, <1>3 DEF Posse

\* Who holds the unit keeps it while he holds it.
LEMMA DonoDaUnidadeNext ==
  ASSUME Tipos, DonoDaUnidade, [Next]_vars
  PROVE  DonoDaUnidade'
<1>1. SUFFICES ASSUME NEW r \in Reservas, Posse(r)' PROVE dono'[Unidade[r]] = r
  BY DEF DonoDaUnidade
<1>2. Unidade[r] \in Unidades /\ r # Nulo
  BY ReservaAssumption DEF Unidades
<1>3. CASE Vender(r)
  BY <1>3, Venda
<1>4. CASE Posse(r)
  <2>1. dono[Unidade[r]] = r
    BY <1>4 DEF DonoDaUnidade
  <2>2. ASSUME NEW c \in Casos, Passo(c), Liberar(c) PROVE dono'[Unidade[r]] = r
    <3>1. ~Liberada(r)' /\ r \notin fora'
      BY <1>1 DEF Posse
    <3>2. caso'[c].r = caso[c].r
      BY <2>2, Alheio DEF Passa
    <3>3. corrida'[c].pc = "concluir" => caso[c].r # r
      BY <3>1, <3>2 DEF Liberada
    <3> QED BY <1>2, <2>1, <2>2, <3>1, <3>3, Devolucao DEF Tipos, TypeOK
  <2>3. ASSUME NEW s \in Reservas, Vender(s) PROVE dono'[Unidade[r]] = r
    BY <1>2, <2>1, <2>3, Venda
  <2> QED BY <2>1, <2>2, <2>3, DonosNext DEF Donos
<1> QED BY <1>1, <1>3, <1>4, PosseNova

\* While he holds it the unit is not sold again.
LEMMA VendaUnicaNext ==
  ASSUME Tipos, DonoDaUnidade, VendaUnica, [Next]_vars
  PROVE  VendaUnica'
<1>1. SUFFICES ASSUME NEW r \in Reservas, NEW s \in Reservas, Posse(r)', s # r,
                      Unidade[s] = Unidade[r], cv'[s].vida = "viva"
               PROVE  FALSE
  BY DEF VendaUnica
<1>2. CASE Posse(r)
  <2>1. cv[s].vida # "viva" /\ dono[Unidade[s]] = r /\ r # Nulo
    BY <1>1, <1>2, ReservaAssumption DEF VendaUnica, DonoDaUnidade
  <2>2. ~Vender(s)
    BY <2>1, Venda
  <2> QED BY <1>1, <2>1, <2>2, DonosNext, Venda DEF Donos
<1>3. CASE Vender(r)
  <2>1. cv'[s] = cv[s] /\ r \in fora'
    BY <1>1, <1>3, Venda
  <2> QED BY <1>1, <2>1 DEF Posse
<1> QED BY <1>1, <1>2, <1>3, PosseNova

\* What a cancelled reserva, or its unit, has of contracts only gets less.
LEMMA Recolhe ==
  ASSUME Tipos, [Next]_vars, NEW r \in Reservas, cv[r].vida = "cancelada"
  PROVE  /\ PorReserva(r)' \subseteq PorReserva(r)
         /\ (\A s \in Reservas : Unidade[s] = Unidade[r] => cv[s].vida # "viva")
              => PorUnidade(r)' \subseteq PorUnidade(r)
<1>1. Tipos' /\ Mundo
  BY TiposNext
<1>2. \A k \in Contratos : contrato'[k].sit = "vivo" => contrato'[k].r \in Reservas
  BY <1>1 DEF Tipos, TypeOK
<1>3. PorReserva(r)' \subseteq PorReserva(r)
  BY <1>1, <1>2 DEF Mundo, PorReserva, Vivos
<1>4. (\A s \in Reservas : Unidade[s] = Unidade[r] => cv[s].vida # "viva")
        => PorUnidade(r)' \subseteq PorUnidade(r)
  BY <1>1, <1>2 DEF Mundo, PorUnidade, Vivos
<1> QED BY <1>3, <1>4
-----------------------------------------------------------------------------
(* What a run knows. *)

\* A run that read its reserva, and has not released it, works on a reserva that holds
\* its unit.
LEMMA PosseDaCorrida ==
  ASSUME IInv, NEW c \in Casos, corrida[c].pc \in AposLer \ {"concluir"},
         caso[c].r \notin fora
  PROVE  Posse(caso[c].r)
<1>1. caso[c].r \in Reservas /\ EmCurso(c) /\ corrida[c].pc \in AposDedupe
  BY DeUmaReserva DEF IInv, Tipos, AposLer, AposDedupe, EmCurso
<1>2. cv[caso[c].r].vida = "cancelada"
  BY DEF IInv, Sabe, Viu
<1>3. ~ComSucesso(caso[c].r)
  BY <1>1 DEF IInv, SemSucesso
<1>4. \A d \in Casos : caso[d].r = caso[c].r => corrida[d].pc # "concluir"
  BY <1>1 DEF IInv, UmaCorrida, EmCurso
<1> QED BY <1>2, <1>3, <1>4 DEF Posse, Liberada

\* What is in the way of such a run only gets less.
LEMMA RecolheDaCorrida ==
  ASSUME IInv, [Next]_vars, NEW c \in Casos, NEW r \in Reservas, r = caso[c].r,
         corrida[c].pc \in AposLer
  PROVE  /\ PorReserva(r)' \subseteq PorReserva(r)
         /\ corrida[c].pc # "concluir" /\ r \notin fora
              => PorUnidade(r)' \subseteq PorUnidade(r)
<1>1. cv[r].vida = "cancelada" /\ Tipos
  BY DEF IInv, Sabe, Viu
<1>2. ASSUME corrida[c].pc # "concluir", r \notin fora
      PROVE  \A s \in Reservas : Unidade[s] = Unidade[r] => cv[s].vida # "viva"
  <2>1. Posse(r)
    BY <1>2, PosseDaCorrida
  <2> QED BY <1>1, <2>1 DEF IInv, VendaUnica
<1> QED BY <1>1, <1>2, Recolhe

\* What a run knows stays true while it does not move.
LEMMA Guarda ==
  ASSUME IInv, [Next]_vars, NEW d \in Casos, corrida[d].pc # "parado",
         corrida'[d].pc = corrida[d].pc, corrida'[d].meus = corrida[d].meus,
         corrida'[d].apto = corrida[d].apto, caso'[d].r = caso[d].r
  PROVE  Viu(d)' /\ Meus(d)' /\ Unico(d)' /\ DaUnidade(d)'
<1>1. PICK r \in Reservas : r = caso[d].r
  BY DeUmaReserva DEF IInv, Tipos
<1>2. Viu(d) /\ Meus(d) /\ Unico(d) /\ DaUnidade(d)
  BY DEF IInv, Sabe
<1>3. Mundo /\ Tipos /\ Tipos'
  BY TiposNext DEF IInv
<1>4. Viu(d)'
  BY <1>1, <1>2, <1>3 DEF Viu, Mundo
<1>5. /\ PorReserva(caso[d].r)' = PorReserva(r)' /\ PorReserva(caso[d].r) = PorReserva(r)
      /\ PorUnidade(caso[d].r)' = PorUnidade(r)' /\ PorUnidade(caso[d].r) = PorUnidade(r)
  BY <1>1 DEF PorReserva, PorUnidade, Vivos
<1>6. corrida[d].pc \in Leram \cup Livres => PorReserva(r)' \subseteq PorReserva(r)
  BY <1>1, RecolheDaCorrida DEF Leram, Livres, AposLer, AposDedupe, Pcs
<1>7. Meus(d)'
  <2>1. corrida[d].meus \subseteq Contratos
    BY <1>3 DEF Tipos, TypeOK, Corrida
  <2>2. corrida[d].pc \in Leram =>
          \A k \in corrida[d].meus :
            /\ contrato'[k].sit # "livre"
            /\ contrato'[k].sit = "vivo" =>
                 contrato'[k].r = caso[d].r /\ contrato'[k].acha = "reserva"
    <3> SUFFICES ASSUME corrida[d].pc \in Leram, NEW k \in corrida[d].meus
                 PROVE  /\ contrato'[k].sit # "livre"
                        /\ contrato'[k].sit = "vivo" =>
                             contrato'[k].r = caso[d].r /\ contrato'[k].acha = "reserva"
      OBVIOUS
    <3>1. k \in Contratos /\ contrato[k].sit # "livre"
      BY <1>2, <2>1 DEF Meus
    <3>2. contrato[k].sit = "vivo" => contrato[k].r = r /\ contrato[k].acha = "reserva"
      BY <1>1, <1>2 DEF Meus
    <3> QED BY <1>1, <1>3, <3>1, <3>2 DEF Mundo
  <2> QED BY <1>2, <1>5, <1>6, <2>2 DEF Meus
<1>8. Unico(d)'
  BY <1>2 DEF Unico
<1>9. DaUnidade(d)'
  <2>1. SUFFICES ASSUME r \in ComCodigo, r \notin fora,
                        corrida[d].pc \in {"numero", "documento", "situacao", "liberar",
                                           "ato", "excluir"}
                 PROVE  PorUnidade(r)' \subseteq PorUnidade(r)
    BY <1>1, <1>2, <1>3, <1>5 DEF DaUnidade, Mundo
  <2> QED BY <1>1, <2>1, RecolheDaCorrida DEF AposLer, AposDedupe, Pcs
<1> QED BY <1>4, <1>7, <1>8, <1>9

\* Where a run goes, and what it takes along.
LEMMA Destinos ==
  ASSUME Tipos, NEW c \in Casos
  PROVE  /\ \A p \in Pcs : Ir(c, p) => /\ corrida'[c].pc = p
                                       /\ corrida'[c].meus = corrida[c].meus
                                       /\ corrida'[c].apto = corrida[c].apto
         /\ \A f \in {"blocked", "error"} : Barrar(c, f) => corrida'[c].pc = "pendencia"
         /\ \A st \in Status : Encerrar(c, st) => corrida'[c].pc = "parado"
         /\ Seguir(c) => corrida'[c].pc = "situacao"
<1>1. corrida \in [Casos -> Corrida] /\ corrida[c] \in Corrida
  BY DEF Tipos, TypeOK
<1>2. corrida[c].etapa \in {"outra", "cancelada", "pendencia"}
  BY <1>1 DEF Corrida
<1>3. ASSUME NEW p \in Pcs, Ir(c, p)
      PROVE  /\ corrida'[c].pc = p /\ corrida'[c].meus = corrida[c].meus
             /\ corrida'[c].apto = corrida[c].apto
  BY <1>1, <1>3 DEF Ir, Corrida
<1>4. ASSUME NEW f \in {"blocked", "error"}, Barrar(c, f) PROVE corrida'[c].pc = "pendencia"
  <2>1. corrida'[c] = Barrada("pendencia", corrida[c].etapa, f)
    BY <1>1, <1>4 DEF Barrar, Barrada
  <2> QED BY <1>2, <2>1, Retomada DEF Pcs
<1>5. ASSUME NEW st \in Status, Encerrar(c, st) PROVE corrida'[c].pc = "parado"
  BY <1>1, <1>5 DEF Encerrar, Parada
<1>6. ASSUME Seguir(c) PROVE corrida'[c].pc = "situacao"
  <2>1. corrida'[c] = Adiante("situacao", corrida[c].etapa)
    BY <1>1, <1>6 DEF Seguir, Adiante
  <2> QED BY <1>2, <2>1, Retomada DEF Pcs
<1> QED BY <1>3, <1>4, <1>5, <1>6

\* A run that has not read the contracts, or is done with them, claims nothing of them.
LEMMA NadaSabe ==
  ASSUME NEW c \in Casos, corrida'[c].pc \notin Leram \cup Livres
  PROVE  Meus(c)' /\ Unico(c)' /\ DaUnidade(c)'
  BY DEF Meus, Unico, DaUnidade, Leram, Livres

\* The contract of a run is one at most.
LEMMA UmSo ==
  ASSUME NEW ks \in SUBSET Contratos, ~(Cardinality(ks) > 1)
  PROVE  \A j, k \in ks : j = k
<1>1. IsFiniteSet(ks)
  BY ReservaAssumption, FS_Subset
<1>2. SUFFICES ASSUME NEW j \in ks, NEW k \in ks, j # k PROVE FALSE
  OBVIOUS
<1>3. {j, k} \subseteq ks /\ IsFiniteSet({j, k}) /\ Cardinality({j, k}) = 2
  <2>1. IsFiniteSet({j}) /\ Cardinality({j}) = 1
    BY FS_Singleton
  <2>2. IsFiniteSet({j} \cup {k}) /\ Cardinality({j} \cup {k}) = 2
    BY <1>2, <2>1, FS_AddElement
  <2>3. {j} \cup {k} = {j, k}
    OBVIOUS
  <2> QED BY <2>2, <2>3
<1>4. Cardinality({j, k}) <= Cardinality(ks) /\ Cardinality(ks) \in Nat
  BY <1>1, <1>3, FS_Subset, FS_CardinalityType
<1> QED BY <1>3, <1>4

\* What a run learns by a step is so.
LEMMA Aprende ==
  ASSUME IInv, [Next]_vars, NEW c \in Casos, Passo(c)
  PROVE  Viu(c)' /\ Meus(c)' /\ Unico(c)' /\ DaUnidade(c)'
<1>0. PICK r \in Reservas : r = caso[c].r /\ r = caso'[c].r
  BY Alheio DEF IInv, Passa
<1>1. Tipos /\ Tipos' /\ Mundo /\ Viu(c) /\ Meus(c) /\ Unico(c) /\ DaUnidade(c)
  BY TiposNext DEF IInv, Sabe
<1>2. Viu(c)'
  <2>1. Passa(c, corrida'[c], caso'[c])
    BY <1>1, Alheio
  <2> QED BY <1>0, <1>1, <2>1 DEF Viu, Passa, Mundo
<1>3. /\ PorReserva(caso[c].r)' = PorReserva(r)' /\ PorReserva(caso[c].r) = PorReserva(r)
      /\ PorUnidade(caso[c].r)' = PorUnidade(r)' /\ PorUnidade(caso[c].r) = PorUnidade(r)
  BY <1>0 DEF PorReserva, PorUnidade, Vivos
<1>4. UNCHANGED contrato => PorReserva(r)' = PorReserva(r) /\ PorUnidade(r)' = PorUnidade(r)
  BY DEF PorReserva, PorUnidade, Vivos
<1>5. corrida[c] \in Corrida /\ corrida[c].meus \subseteq Contratos
  BY <1>1 DEF Tipos, TypeOK, Corrida
<1>6. fora \subseteq fora'
  BY <1>1 DEF Mundo
<1>7. corrida'[c].pc \notin Leram \cup Livres => Meus(c)' /\ Unico(c)' /\ DaUnidade(c)'
  BY NadaSabe
<1> USE DEF semExt, externo, estavel
<1>8. CASE LerContratos(c)
  <2>1. /\ corrida[c].pc = "contratos" /\ UNCHANGED <<contrato, fora>>
        /\ \/ Barrar(c, "blocked")
           \/ /\ r \in ComCodigo \/ Cardinality(PorReserva(r)) = 1
              /\ corrida' = [corrida EXCEPT
                   ![c].pc = IF r \in ComCodigo THEN "unidade" ELSE "ato",
                   ![c].meus = PorReserva(r), ![c].apto = Apto(PorReserva(r))]
    BY <1>0, <1>8 DEF LerContratos
  <2>2. CASE Barrar(c, "blocked")
    BY <1>1, <1>2, <1>7, <2>2, Destinos DEF Leram, Livres
  <2>3. CASE /\ r \in ComCodigo \/ Cardinality(PorReserva(r)) = 1
             /\ corrida' = [corrida EXCEPT
                  ![c].pc = IF r \in ComCodigo THEN "unidade" ELSE "ato",
                  ![c].meus = PorReserva(r), ![c].apto = Apto(PorReserva(r))]
    <3>1. /\ corrida'[c].meus = PorReserva(r)
          /\ corrida'[c].pc = IF r \in ComCodigo THEN "unidade" ELSE "ato"
      BY <1>1, <1>5, <2>3 DEF Corrida, Tipos, TypeOK
    <3>2. \A k \in PorReserva(r) : /\ contrato[k].sit = "vivo" /\ contrato[k].r = r
                                   /\ contrato[k].acha = "reserva"
      BY DEF PorReserva, Vivos
    <3>3. Meus(c)'
      BY <1>0, <1>3, <1>4, <2>1, <3>1, <3>2 DEF Meus, Leram, Livres
    <3>4. Unico(c)'
      <4>1. r \notin ComCodigo => \A j, k \in PorReserva(r) : j = k
        <5>1. PorReserva(r) \in SUBSET Contratos
          BY DEF PorReserva, Vivos
        <5>2. r \notin ComCodigo => ~(Cardinality(PorReserva(r)) > 1)
          BY <2>3
        <5> QED BY <5>1, <5>2, UmSo
      <4> QED BY <3>1, <4>1 DEF Unico
    <3>5. DaUnidade(c)'
      BY <1>0, <3>1 DEF DaUnidade
    <3> QED BY <1>2, <3>3, <3>4, <3>5
  <2> QED BY <2>1, <2>2, <2>3
<1>9. CASE LerUnidade(c)
  <2> DEFINE meus == corrida[c].meus
             outros == PorUnidade(r) \ meus
  <2>1. /\ corrida[c].pc = "unidade" /\ UNCHANGED <<contrato, fora>>
        /\ \/ Barrar(c, "blocked")
           \/ /\ ~(Cardinality(meus) > 1) /\ ~(meus = {} /\ outros # {})
              /\ corrida' = [corrida EXCEPT ![c].pc = IF meus = {} THEN "numero" ELSE "ato",
                                            ![c].apto = @ /\ outros = {}]
    BY <1>0, <1>9 DEF LerUnidade
  <2>2. CASE Barrar(c, "blocked")
    BY <1>1, <1>2, <1>7, <2>2, Destinos DEF Leram, Livres
  <2>3. CASE /\ ~(Cardinality(meus) > 1) /\ ~(meus = {} /\ outros # {})
             /\ corrida' = [corrida EXCEPT ![c].pc = IF meus = {} THEN "numero" ELSE "ato",
                                           ![c].apto = @ /\ outros = {}]
    <3>1. /\ corrida'[c].meus = meus
          /\ corrida'[c].pc = IF meus = {} THEN "numero" ELSE "ato"
          /\ corrida'[c].apto => outros = {}
      BY <1>1, <1>5, <2>3 DEF Corrida, Tipos, TypeOK
    <3>2. Meus(c)'
      BY <1>0, <1>1, <1>3, <1>4, <2>1, <3>1 DEF Meus, Leram, Livres
    <3>3. Unico(c)'
      <4>1. \A j, k \in meus : j = k
        BY <1>5, <2>3, UmSo
      <4>2. corrida'[c].pc # "excluir"
        BY <3>1
      <4> QED BY <3>1, <4>1, <4>2 DEF Unico
    <3>4. DaUnidade(c)'
      <4>1. meus = {} => PorUnidade(r) = {}
        BY <2>3
      <4>2. corrida'[c].apto \/ meus = {} => PorUnidade(r) \subseteq meus
        BY <3>1, <4>1
      <4> HIDE DEF meus, outros
      <4> QED BY <1>0, <1>3, <1>4, <2>1, <3>1, <4>1, <4>2 DEF DaUnidade
    <3> QED BY <1>2, <3>2, <3>3, <3>4
  <2> QED BY <2>1, <2>2, <2>3
<1>10. CASE LerNumero(c)
  <2>1. /\ corrida[c].pc = "numero" /\ UNCHANGED <<contrato, fora>>
        /\ Barrar(c, "blocked") \/ Ir(c, "documento")
    BY <1>10 DEF LerNumero
  <2>2. CASE Barrar(c, "blocked")
    BY <1>1, <1>2, <1>7, <2>2, Destinos DEF Leram, Livres
  <2>3. CASE Ir(c, "documento")
    <3>1. /\ corrida'[c].pc = "documento" /\ corrida'[c].meus = corrida[c].meus
          /\ corrida'[c].apto = corrida[c].apto
      BY <1>1, <2>3, Destinos DEF Pcs
    <3>2. Meus(c)'
      BY <1>0, <1>1, <1>3, <1>4, <2>1, <3>1 DEF Meus, Leram, Livres
    <3>3. Unico(c)' /\ DaUnidade(c)'
      BY <1>0, <1>1, <1>3, <1>4, <2>1, <3>1 DEF Unico, DaUnidade
    <3> QED BY <1>2, <3>2, <3>3
  <2> QED BY <2>1, <2>2, <2>3
<1>11. CASE LerDocumento(c)
  <2>1. /\ corrida[c].pc = "documento" /\ UNCHANGED <<contrato, fora>>
        /\ Barrar(c, "blocked") \/ Ir(c, "ato")
    BY <1>11 DEF LerDocumento
  <2>2. CASE Barrar(c, "blocked")
    BY <1>1, <1>2, <1>7, <2>2, Destinos DEF Leram, Livres
  <2>3. CASE Ir(c, "ato")
    <3>1. /\ corrida'[c].pc = "ato" /\ corrida'[c].meus = {} /\ corrida[c].meus = {}
      BY <1>1, <2>1, <2>3, Destinos DEF Pcs, Meus
    <3>2. Meus(c)'
      BY <1>0, <1>1, <1>3, <1>4, <2>1, <3>1 DEF Meus, Leram, Livres
    <3>3. Unico(c)' /\ DaUnidade(c)'
      BY <1>0, <1>1, <1>3, <1>4, <2>1, <3>1 DEF Unico, DaUnidade
    <3> QED BY <1>2, <3>2, <3>3
  <2> QED BY <2>1, <2>2, <2>3
<1>12. CASE Ato(c)
  <2>1. /\ corrida[c].pc = "ato" /\ UNCHANGED <<contrato, fora>>
        /\ \/ Barrar(c, "blocked")
           \/ corrida[c].meus = {} /\ Seguir(c)
           \/ corrida[c].meus # {} /\ corrida[c].apto /\ Ir(c, "excluir")
    BY <1>12 DEF Ato
  <2>2. CASE Barrar(c, "blocked")
    BY <1>1, <1>2, <1>7, <2>2, Destinos DEF Leram, Livres
  <2>3. CASE corrida[c].meus = {} /\ Seguir(c)
    <3>1. corrida'[c].pc = "situacao"
      BY <1>1, <2>3, Destinos
    <3>2. Meus(c)'
      BY <1>0, <1>1, <1>3, <1>4, <2>1, <2>3, <3>1 DEF Meus, Leram, Livres
    <3>3. Unico(c)' /\ DaUnidade(c)'
      BY <1>0, <1>1, <1>3, <1>4, <2>1, <2>3, <3>1 DEF Unico, DaUnidade
    <3> QED BY <1>2, <3>2, <3>3
  <2>4. CASE corrida[c].apto /\ Ir(c, "excluir")
    <3>1. /\ corrida'[c].pc = "excluir" /\ corrida'[c].meus = corrida[c].meus
          /\ corrida'[c].apto = corrida[c].apto
      BY <1>1, <2>4, Destinos DEF Pcs
    <3>2. Meus(c)'
      BY <1>0, <1>1, <1>3, <1>4, <2>1, <3>1 DEF Meus, Leram, Livres
    <3>3. Unico(c)' /\ DaUnidade(c)'
      BY <1>0, <1>1, <1>3, <1>4, <2>1, <2>4, <3>1 DEF Unico, DaUnidade
    <3> QED BY <1>2, <3>2, <3>3
  <2> QED BY <2>1, <2>2, <2>3, <2>4
<1>13. CASE Excluir(c)
  <2>1. /\ corrida[c].pc = "excluir" /\ contrato' \in {contrato, Excluidos(corrida[c].meus)}
        /\ Barrar(c, "error") \/ Ir(c, "reler")
    BY <1>13 DEF Excluir
  <2>2. CASE Barrar(c, "error")
    BY <1>1, <1>2, <1>7, <2>2, Destinos DEF Leram, Livres
  <2>3. CASE Ir(c, "reler")
    <3>1. corrida'[c].pc = "reler" /\ corrida'[c].meus = corrida[c].meus
      BY <1>1, <2>3, Destinos DEF Pcs
    <3>2. /\ PorReserva(r)' \subseteq corrida[c].meus
          /\ \A k \in corrida[c].meus :
               /\ contrato'[k].sit # "livre"
               /\ contrato'[k].sit = "vivo" =>
                    contrato'[k].r = r /\ contrato'[k].acha = "reserva"
      <4>1. /\ PorReserva(r) \subseteq corrida[c].meus
            /\ \A k \in corrida[c].meus :
                 /\ contrato[k].sit # "livre"
                 /\ contrato[k].sit = "vivo" =>
                      contrato[k].r = r /\ contrato[k].acha = "reserva"
        BY <1>0, <1>1, <1>3, <2>1 DEF Meus, Leram
      <4>2. CASE UNCHANGED contrato
        BY <1>4, <4>1, <4>2
      <4>3. CASE contrato' = Excluidos(corrida[c].meus)
        <5>1. /\ \A k \in corrida[c].meus : contrato'[k].sit = "extinto"
              /\ \A k \in Contratos : k \notin corrida[c].meus => contrato'[k] = contrato[k]
          BY <1>1, <1>5, <4>3, ApenasExcluidos DEF Tipos
        <5> QED BY <4>1, <5>1 DEF PorReserva, Vivos
      <4> QED BY <2>1, <4>2, <4>3
    <3>3. Meus(c)'
      BY <1>0, <1>3, <3>1, <3>2 DEF Meus, Leram, Livres
    <3>4. Unico(c)' /\ DaUnidade(c)'
      BY <3>1 DEF Unico, DaUnidade
    <3> QED BY <1>2, <3>3, <3>4
  <2> QED BY <2>1, <2>2, <2>3
<1>14. CASE Reler(c)
  <2>1. /\ corrida[c].pc = "reler" /\ UNCHANGED <<contrato, fora>>
        /\ \/ Barrar(c, "error")
           \/ /\ PorReserva(r) \cap corrida[c].meus = {}
              /\ IF r \in ComCodigo THEN Ir(c, "relerUnidade") ELSE Seguir(c)
    BY <1>0, <1>14 DEF Reler
  <2>2. CASE Barrar(c, "error")
    BY <1>1, <1>2, <1>7, <2>2, Destinos DEF Leram, Livres
  <2>3. CASE /\ PorReserva(r) \cap corrida[c].meus = {}
             /\ IF r \in ComCodigo THEN Ir(c, "relerUnidade") ELSE Seguir(c)
    <3>1. corrida'[c].pc = IF r \in ComCodigo THEN "relerUnidade" ELSE "situacao"
      BY <1>1, <2>3, Destinos DEF Pcs
    <3>2. PorReserva(r) = {}
      BY <1>1, <1>3, <2>1, <2>3 DEF Meus, Leram
    <3>3. Meus(c)'
      BY <1>3, <1>4, <2>1, <3>1, <3>2 DEF Meus, Leram, Livres
    <3>4. Unico(c)' /\ DaUnidade(c)'
      BY <1>0, <3>1 DEF Unico, DaUnidade
    <3> QED BY <1>2, <3>3, <3>4
  <2> QED BY <2>1, <2>2, <2>3
<1>15. CASE RelerUnidade(c)
  <2>1. /\ corrida[c].pc = "relerUnidade" /\ UNCHANGED <<contrato, fora>>
        /\ Barrar(c, "error") \/ (PorUnidade(r) = {} /\ Seguir(c))
    BY <1>0, <1>15 DEF RelerUnidade
  <2>2. CASE Barrar(c, "error")
    BY <1>1, <1>2, <1>7, <2>2, Destinos DEF Leram, Livres
  <2>3. CASE PorUnidade(r) = {} /\ Seguir(c)
    <3>1. corrida'[c].pc = "situacao"
      BY <1>1, <2>3, Destinos
    <3>2. Meus(c)'
      BY <1>1, <1>3, <1>4, <2>1, <3>1 DEF Meus, Leram, Livres
    <3>3. Unico(c)' /\ DaUnidade(c)'
      BY <1>3, <1>4, <2>1, <2>3, <3>1 DEF Unico, DaUnidade
    <3> QED BY <1>2, <3>2, <3>3
  <2> QED BY <2>1, <2>2, <2>3
<1>16. CASE Situacao(c)
  <2>1. corrida[c].pc = "situacao" /\ UNCHANGED <<contrato, fora>> /\ Ir(c, "liberar")
    BY <1>16 DEF Situacao
  <2>2. corrida'[c].pc = "liberar"
    BY <1>1, <2>1, Destinos DEF Pcs
  <2>3. Meus(c)'
    BY <1>1, <1>3, <1>4, <2>1, <2>2 DEF Meus, Leram, Livres
  <2>4. Unico(c)' /\ DaUnidade(c)'
    BY <1>0, <1>1, <1>3, <1>4, <2>1, <2>2 DEF Unico, DaUnidade
  <2> QED BY <1>2, <2>3, <2>4
<1>17. CASE Liberar(c)
  <2>1. corrida'[c].pc \in {"concluir", "pendencia"}
    BY <1>1, <1>17, Destinos DEF Liberar, Pcs
  <2> QED BY <1>2, <1>7, <2>1 DEF Leram, Livres
<1>18. CASE Pendencia(c)
  <2>1. corrida'[c].pc = "gravar"
    BY <1>1, <1>18, Destinos DEF Pendencia, Pcs
  <2> QED BY <1>2, <1>7, <2>1 DEF Leram, Livres
<1>19. CASE Concluir(c) \/ Gravar(c)
  <2>1. corrida'[c].pc = "parado"
    <3>1. corrida[c].pc = "gravar" => corrida[c].fim \in Status
      BY <1>1 DEF Tipos, Fim, Status
    <3> QED BY <1>1, <1>19, <3>1, Destinos DEF Concluir, Gravar, Status
  <2> QED BY <1>2, <1>7, <2>1 DEF Leram, Livres
<1>20. CASE Estourar(c)
  <2>1. corrida'[c].pc \in {"parado", "pendencia"}
    BY <1>1, <1>20, Destinos DEF Estourar, Status
  <2> QED BY <1>2, <1>7, <2>1 DEF Leram, Livres
<1>21. CASE Comecar(c) \/ Acordar(c) \/ Deduplicar(c) \/ LerReserva(c)
  <2>1. corrida'[c].pc \in {"parado", "dedupe", "espera", "ler", "contratos"}
    <3>1. corrida \in [Casos -> Corrida]
      BY <1>1 DEF Tipos, TypeOK
    <3>2. CASE Comecar(c)
      <4>1. corrida' = [corrida EXCEPT ![c].pc = "espera", ![c].resta = Espera]
              => corrida'[c].pc = "espera"
        BY <1>5, <3>1 DEF Corrida
      <4> QED BY <1>1, <3>2, <4>1, Destinos DEF Comecar, Status, Pcs
    <3>3. CASE Acordar(c)
      BY <1>1, <3>3, Destinos DEF Acordar, Status, Pcs
    <3>4. CASE Deduplicar(c)
      BY <1>1, <3>4, Destinos DEF Deduplicar, Status, Pcs
    <3>5. CASE LerReserva(c)
      <4>1. ASSUME NEW e, corrida' = [corrida EXCEPT ![c].pc = "contratos", ![c].etapa = e]
            PROVE  corrida'[c].pc = "contratos"
        BY <1>5, <3>1, <4>1 DEF Corrida
      <4> QED BY <1>1, <3>5, <4>1, Destinos DEF LerReserva, Status
    <3> QED BY <1>21, <3>2, <3>3, <3>4, <3>5
  <2> QED BY <1>2, <1>7, <2>1 DEF Leram, Livres
<1> QED BY <1>8, <1>9, <1>10, <1>11, <1>12, <1>13, <1>14, <1>15, <1>16, <1>17, <1>18,
           <1>19, <1>20, <1>21 DEF Passo

\* What every run knows is so.
LEMMA SabeNext ==
  ASSUME IInv, [Next]_vars
  PROVE  Sabe'
<1> DEFINE S(d) == Viu(d)' /\ Meus(d)' /\ Unico(d)' /\ DaUnidade(d)'
<1>1. SUFFICES ASSUME NEW d \in Casos PROVE S(d)
  BY DEF Sabe
<1>2. Tipos
  BY DEF IInv
<1>3. corrida'[d].pc \in {"parado", "inicio"} => S(d)
  BY NadaSabe DEF Leram, Livres, Viu, AposLer, AposDedupe
<1>4. /\ corrida'[d].pc = corrida[d].pc /\ corrida'[d].meus = corrida[d].meus
      /\ corrida'[d].apto = corrida[d].apto /\ caso'[d].r = caso[d].r
      => S(d)
  BY <1>3, Guarda
<1>5. ASSUME NEW s \in Reservas, NEW manual \in BOOLEAN, Receber(s, manual) PROVE S(d)
  <2>1. PICK c \in Casos, x \in Corrida, y \in Caso :
          /\ corrida' = [corrida EXCEPT ![c] = x] /\ caso' = [caso EXCEPT ![c] = y]
          /\ x.pc = "inicio"
    BY <1>2, <1>5, Pedido
  <2>2. CASE d = c
    <3>1. corrida'[d].pc = "inicio"
      BY <1>2, <2>1, <2>2 DEF Tipos, TypeOK
    <3> HIDE DEF S
    <3> QED BY <1>3, <3>1
  <2>3. CASE d # c
    <3>1. corrida'[d] = corrida[d] /\ caso'[d] = caso[d]
      BY <1>2, <2>1, <2>3 DEF Tipos, TypeOK
    <3> HIDE DEF S
    <3> QED BY <1>4, <3>1
  <2> QED BY <2>2, <2>3
<1>6. ASSUME NEW c \in Casos, Passo(c) PROVE S(d)
  <2>1. CASE d = c
    BY <1>6, <2>1, Aprende
  <2>2. CASE d # c
    <3>1. corrida'[d] = corrida[d] /\ caso'[d] = caso[d]
      BY <1>2, <1>6, <2>2, Alheio
    <3> HIDE DEF S
    <3> QED BY <1>4, <3>1
  <2> QED BY <2>1, <2>2
<1> HIDE DEF S
<1>7. CASE Passar \/ \E c \in Casos : Envelhecer(c)
  BY <1>2, <1>4, <1>7, TempoPassa
<1>8. CASE Ambiente
  BY <1>2, <1>4, <1>8, AmbienteNoMundo DEF semRun
<1>9. CASE Reiniciar
  BY <1>2, <1>3, <1>9, Reinicio
<1>10. CASE UNCHANGED vars
  BY <1>4, <1>10 DEF vars
<1> QED BY <1>5, <1>6, <1>7, <1>8, <1>9, <1>10 DEF Next

\* A reserva that was given back stays cancelled, without its unit and without contracts.
LEMMA EntregueNext ==
  ASSUME IInv, [Next]_vars
  PROVE  Entregue'
<1>1. SUFFICES ASSUME NEW r \in Reservas, Liberada(r)'
               PROVE  /\ cv'[r].vida = "cancelada" /\ dono'[Unidade[r]] # r
                      /\ PorReserva(r)' = {}
  BY DEF Entregue
<1>2. Tipos /\ Mundo
  BY TiposNext DEF IInv
<1>3. CASE Liberada(r)
  <2>1. cv[r].vida = "cancelada" /\ dono[Unidade[r]] # r /\ PorReserva(r) = {}
    BY <1>3 DEF IInv, Entregue
  <2> QED BY <1>2, <2>1, Recolhe, NaoVolta DEF Mundo
<1>4. ASSUME NEW c \in Casos, Liberar(c), caso[c].r = r, corrida[c].pc = "liberar",
             corrida'[c].pc = "concluir"
      PROVE  /\ cv'[r].vida = "cancelada" /\ dono'[Unidade[r]] # r /\ PorReserva(r)' = {}
  <2>1. cv[r].vida = "cancelada"
    BY <1>4 DEF IInv, Sabe, Viu, AposLer, AposDedupe, Pcs
  <2>2. PorReserva(r) = {}
    BY <1>4 DEF IInv, Sabe, Meus, Livres
  <2>3. dono'[Unidade[r]] = Nulo /\ r # Nulo
    BY <1>2, <1>4, Devolucao, ReservaAssumption DEF Tipos, TypeOK
  <2> QED BY <1>2, <2>1, <2>2, <2>3, Recolhe DEF Mundo
<1> QED BY <1>1, <1>2, <1>3, <1>4, Liberacoes

\* The invariant holds at first.
LEMMA IInvInit == Init => IInv
<1> SUFFICES ASSUME Init PROVE IInv
  OBVIOUS
<1>1. Tipos
  BY TiposInit
<1>2. \A c \in Casos : /\ corrida[c].pc = "parado" /\ caso[c].status = "nenhum"
  BY DEF Init, Parada, SemCaso
<1>3. \A r \in Reservas : ~ComSucesso(r) /\ ~Liberada(r) /\ ~Posse(r)
  BY <1>2 DEF Init, ComSucesso, Liberada, Posse
<1>4. UmaCorrida /\ Entregue /\ DonoDaUnidade /\ VendaUnica
  BY <1>2, <1>3 DEF UmaCorrida, EmCurso, Entregue, DonoDaUnidade, VendaUnica
<1>5. SemSucesso
  BY <1>2 DEF SemSucesso, AposDedupe, EmCurso
<1>6. Sabe
  BY <1>2 DEF Sabe, Viu, Meus, Unico, DaUnidade, AposLer, AposDedupe, Leram, Livres
<1> QED BY <1>1, <1>4, <1>5, <1>6 DEF IInv

\* The inductive invariant of the cancellation: one run of a reserva at a time, none
\* after a success; who was sold the unit has it until his own release; and what a run
\* read of the CV and of Sienge still bounds what is there.
THEOREM Coerencia == Spec => []IInv
<1>1. IInv /\ [Next]_vars => IInv'
  <2> SUFFICES ASSUME IInv, [Next]_vars PROVE IInv'
    OBVIOUS
  <2>1. Tipos /\ UmaCorrida /\ SemSucesso /\ DonoDaUnidade /\ VendaUnica
    BY DEF IInv
  <2> QED BY <2>1, TiposNext, UmaCorridaNext, SemSucessoNext, EntregueNext,
             DonoDaUnidadeNext, VendaUnicaNext, SabeNext DEF IInv
<1> QED BY IInvInit, <1>1, PTL DEF Spec

\* A success means that both sides are done: the reserva does not have its unit any
\* more, and Sienge no active contract of it.
THEOREM AmbosOsLados == Spec => []SucessoDosDoisLados
<1>1. IInv => SucessoDosDoisLados
  BY DEF IInv, Entregue, Liberada, SucessoDosDoisLados
<1> QED BY <1>1, Coerencia, PTL

\* A unit goes back to sale only from the cancelled reserva that has it, with no active
\* contract in Sienge.
THEOREM SoltaOQueEDela == Spec => LiberacaoSegura
<1> DEFINE A == \A c \in Casos : Libera(c) /\ caso[c].r \notin fora =>
                  LET r == caso[c].r
                  IN /\ dono[Unidade[r]] = r /\ cv[r].vida = "cancelada"
                     /\ PorReserva(r) = {} /\ (r \in ComCodigo => PorUnidade(r) = {})
<1>1. IInv => A
  <2> SUFFICES ASSUME IInv, NEW c \in Casos, corrida[c].pc = "liberar", caso[c].r \notin fora
               PROVE  LET r == caso[c].r
                      IN /\ dono[Unidade[r]] = r /\ cv[r].vida = "cancelada"
                         /\ PorReserva(r) = {} /\ (r \in ComCodigo => PorUnidade(r) = {})
    BY DEF Libera
  <2>1. caso[c].r \in Reservas
    BY DeUmaReserva DEF IInv, Tipos
  <2>2. Posse(caso[c].r)
    BY PosseDaCorrida DEF AposLer, AposDedupe, Pcs
  <2>3. dono[Unidade[caso[c].r]] = caso[c].r
    BY <2>1, <2>2 DEF IInv, DonoDaUnidade
  <2>4. cv[caso[c].r].vida = "cancelada" /\ PorReserva(caso[c].r) = {}
    BY DEF IInv, Sabe, Viu, Meus, Livres, AposLer, AposDedupe, Pcs
  <2>5. caso[c].r \in ComCodigo => PorUnidade(caso[c].r) = {}
    BY DEF IInv, Sabe, DaUnidade
  <2> QED BY <2>3, <2>4, <2>5
<1> HIDE DEF A
<1>2. []IInv => [][A]_vars
  BY <1>1, PTL
<1> QED BY <1>2, Coerencia, PTL DEF LiberacaoSegura, A

\* The automation deletes the contract of a cancelled reserva only, the only one it has.
THEOREM ExcluiOQueEDela == Spec => ExclusaoCerta
<1> DEFINE A == \A c \in Casos, k \in Contratos :
       /\ corrida[c].pc = "excluir" /\ corrida'[c] # corrida[c]
       /\ k \in Vivos /\ contrato'[k] = Extinto /\ contrato[k].r \notin fora
       => /\ cv[contrato[k].r].vida = "cancelada"
          /\ PorReserva(contrato[k].r) = {k}
          /\ contrato[k].r \in ComCodigo => PorUnidade(contrato[k].r) = {k}
<1>1. IInv /\ [Next]_vars => [A]_vars
  <2> SUFFICES ASSUME IInv, [Next]_vars, NEW c \in Casos, NEW k \in Contratos,
                      corrida[c].pc = "excluir", corrida'[c] # corrida[c],
                      k \in Vivos, contrato'[k] = Extinto, contrato[k].r \notin fora
               PROVE  /\ cv[contrato[k].r].vida = "cancelada"
                      /\ PorReserva(contrato[k].r) = {k}
                      /\ contrato[k].r \in ComCodigo => PorUnidade(contrato[k].r) = {k}
    OBVIOUS
  <2>1. Tipos /\ Viu(c) /\ Meus(c) /\ Unico(c) /\ DaUnidade(c)
    BY DEF IInv, Sabe
  <2>2. contrato[k].sit = "vivo" /\ contrato'[k] # contrato[k]
    BY DEF Vivos, Extinto, SemContrato
  <2>3. k \in corrida[c].meus
    <3>1. ASSUME NEW d \in Casos, Passo(d) PROVE k \in corrida[c].meus
      <4>1. d = c
        BY <2>1, <3>1, Alheio
      <4>2. contrato' = Excluidos(corrida[c].meus)
        BY <2>1, <2>2, <3>1, <4>1, PassoNoMundo
      <4>3. corrida[c].meus \in SUBSET Contratos
        BY <2>1 DEF Tipos, TypeOK, Corrida
      <4> QED BY <2>1, <2>2, <4>2, <4>3, ApenasExcluidos DEF Tipos
    <3>2. CASE Passar \/ \E d \in Casos : Envelhecer(d)
      BY <2>1, <2>2, <3>2, TempoPassa DEF semExt, externo
    <3>3. CASE Ambiente
      BY <2>1, <3>3, AmbienteNoMundo DEF semRun
    <3>4. CASE Reiniciar
      BY <2>1, <2>2, <3>4, Reinicio DEF externo
    <3>5. ASSUME NEW s \in Reservas, NEW manual \in BOOLEAN, Receber(s, manual)
          PROVE  k \in corrida[c].meus
      BY <2>1, <2>2, <3>5, Pedido DEF externo
    <3>6. CASE UNCHANGED vars
      BY <2>2, <3>6 DEF vars
    <3> QED BY <3>1, <3>2, <3>3, <3>4, <3>5, <3>6 DEF Next
  <2>4. contrato[k].r = caso[c].r /\ contrato[k].acha = "reserva" /\ caso[c].r \in Reservas
    BY <2>1, <2>2, <2>3, DeUmaReserva DEF Meus, Leram, Tipos
  <2>5. cv[contrato[k].r].vida = "cancelada"
    BY <2>1, <2>4 DEF Viu, AposLer, AposDedupe, Pcs
  <2>6. corrida[c].meus = {k} /\ corrida[c].apto
    BY <2>1, <2>3 DEF Unico
  <2>7. PorReserva(contrato[k].r) = {k}
    <3>1. PorReserva(contrato[k].r) \subseteq {k}
      BY <2>1, <2>4, <2>6 DEF Meus, Leram
    <3>2. k \in PorReserva(contrato[k].r)
      BY <2>4 DEF PorReserva
    <3> QED BY <3>1, <3>2
  <2>8. contrato[k].r \in ComCodigo => PorUnidade(contrato[k].r) = {k}
    <3>1. contrato[k].r \in ComCodigo => PorUnidade(contrato[k].r) \subseteq {k}
      BY <2>1, <2>4, <2>6 DEF DaUnidade
    <3>2. k \in PorUnidade(contrato[k].r)
      BY <2>4 DEF PorUnidade
    <3> QED BY <3>1, <3>2
  <2> QED BY <2>5, <2>7, <2>8
<1> QED BY <1>1, Coerencia, PTL DEF Spec, ExclusaoCerta
-----------------------------------------------------------------------------
(* The brake. *)

\* Past the brake no run comes back to it.
LEMMA DepoisDoFreio ==
  ASSUME Tipos, NEW c \in Casos, Passo(c), corrida[c].pc \notin {"inicio", "espera"}
  PROVE  corrida'[c].pc \notin {"inicio", "espera"}
<1>0. corrida \in [Casos -> Corrida] /\ corrida[c] \in Corrida
  BY DEF Tipos, TypeOK
<1>1. CASE Deduplicar(c)
  BY <1>1, Destinos DEF Deduplicar, Status, Pcs
<1>2. CASE LerReserva(c)
  <2>1. ASSUME NEW e, corrida' = [corrida EXCEPT ![c].pc = "contratos", ![c].etapa = e]
        PROVE  corrida'[c].pc = "contratos"
    BY <1>0, <2>1 DEF Corrida
  <2> QED BY <1>2, <2>1, Destinos DEF LerReserva, Status
<1>3. CASE LerContratos(c)
  <2> DEFINE r == caso[c].r
  <2>1. CASE Barrar(c, "blocked")
    BY <2>1, Destinos
  <2>2. CASE corrida' = [corrida EXCEPT
               ![c].pc = IF r \in ComCodigo THEN "unidade" ELSE "ato",
               ![c].meus = PorReserva(r), ![c].apto = Apto(PorReserva(r))]
    <3>1. corrida'[c].pc = IF r \in ComCodigo THEN "unidade" ELSE "ato"
      BY <1>0, <2>2 DEF Corrida
    <3> QED BY <3>1
  <2> QED BY <1>3, <2>1, <2>2 DEF LerContratos
<1>4. CASE LerUnidade(c)
  <2>1. ASSUME NEW p \in {"numero", "ato"}, NEW a,
               corrida' = [corrida EXCEPT ![c].pc = p, ![c].apto = a]
        PROVE  corrida'[c].pc = p
    BY <1>0, <2>1 DEF Corrida
  <2> QED BY <1>4, <2>1, Destinos DEF LerUnidade
<1>5. CASE LerNumero(c)
  BY <1>5, Destinos DEF LerNumero, Pcs
<1>6. CASE LerDocumento(c)
  BY <1>6, Destinos DEF LerDocumento, Pcs
<1>7. CASE Estourar(c)
  BY <1>7, Destinos DEF Estourar, Status
<1>8. CASE Ato(c)
  BY <1>8, Destinos DEF Ato, Pcs
<1>9. CASE Excluir(c)
  BY <1>9, Destinos DEF Excluir, Pcs
<1>10. CASE Reler(c) \/ RelerUnidade(c)
  BY <1>10, Destinos DEF Reler, RelerUnidade, Pcs
<1>11. CASE Situacao(c) \/ Pendencia(c)
  BY <1>11, Destinos DEF Situacao, Pendencia, Pcs
<1>12. CASE Liberar(c)
  BY <1>12, Destinos DEF Liberar, Pcs
<1>13. CASE Concluir(c) \/ Gravar(c)
  <2>1. corrida[c].pc = "gravar" => corrida[c].fim \in Status
    BY DEF Tipos, Fim, Status
  <2> QED BY <1>13, <2>1, Destinos DEF Concluir, Gravar, Status
<1>14. ~Comecar(c) /\ ~Acordar(c)
  BY DEF Comecar, Acordar
<1> QED BY <1>1, <1>2, <1>3, <1>4, <1>5, <1>6, <1>7, <1>8, <1>9, <1>10, <1>11, <1>12,
           <1>13, <1>14 DEF Passo

\* What the first look of the brake leads to, for an automatic case.
LEMMA PrimeiroOlhar ==
  ASSUME Tipos, NEW c \in Casos, Comecar(c), modo = "comFreio", ~caso[c].manual
  PROVE  \/ corrida'[c].pc = "parado" /\ caso'[c].status = "held"
         \/ /\ corrida'[c].pc = "espera" /\ corrida'[c].resta = Espera
            /\ caso'[c].status = caso[c].status
<1>1. corrida \in [Casos -> Corrida] /\ corrida[c] \in Corrida
      /\ caso \in [Casos -> Caso] /\ caso[c] \in Caso
  BY DEF Tipos, TypeOK
<1>2. CASE Encerrar(c, "held")
  BY <1>1, <1>2 DEF Encerrar, Parada, Caso
<1>3. CASE /\ corrida' = [corrida EXCEPT ![c].pc = "espera", ![c].resta = Espera]
           /\ UNCHANGED caso
  BY <1>1, <1>3 DEF Corrida
<1> QED BY <1>2, <1>3 DEF Comecar

\* A case of a burst sees, when its wait is over, more than the limit.
LEMMA RajadaVista ==
  ASSUME 2 * Espera - 1 <= Janela, Tipos, NEW c \in Casos, NEW J \in SUBSET Casos,
         Vizinhos(c, J), caso[c].criado = Espera
  PROVE  NaJanela(c) > Teto
<1> DEFINE N == {d \in Casos : /\ caso[d].status # "nenhum" /\ ~caso[d].manual
                               /\ caso[d].criado <= Janela} \cup {c}
<1>1. \A d \in Casos : caso[d].criado \in Nat
  BY ReservaAssumption DEF Tipos, TypeOK, Caso
<1>2. Espera \in Nat /\ Janela \in Nat /\ Teto \in Nat
  BY ReservaAssumption
<1>3. J \subseteq N
  <2> SUFFICES ASSUME NEW d \in J PROVE d \in N
    OBVIOUS
  <2>1. caso[d].status # "nenhum" /\ ~caso[d].manual /\ caso[d].criado < Espera + Espera
    BY <1>2 DEF Vizinhos, Automatico
  <2>2. caso[d].criado <= Janela
    BY <1>1, <1>2, <2>1
  <2> QED BY <2>1, <2>2
<1>4. IsFiniteSet(N)
  <2>1. IsFiniteSet(Casos)
    BY ReservaAssumption, FS_Interval DEF Casos
  <2> QED BY <2>1, FS_Subset
<1>5. /\ Cardinality(J) <= Cardinality(N) /\ Cardinality(J) \in Nat
      /\ Cardinality(N) \in Nat
  BY <1>3, <1>4, FS_Subset, FS_CardinalityType
<1>6. Cardinality(J) > Teto
  BY DEF Vizinhos
<1> QED BY <1>2, <1>5, <1>6 DEF NaJanela

\* Neighbours stay neighbours while no row grows older.
LEMMA VizinhosFicam ==
  ASSUME NEW c \in Casos, NEW J \in SUBSET Casos, Vizinhos(c, J),
         \A d \in J : Automatico(d)' /\ caso'[d].criado = caso[d].criado
  PROVE  Vizinhos(c, J)'
  BY DEF Vizinhos

\* A step of a run keeps what the brake knows.
LEMMA FreioDoPasso ==
  ASSUME 2 * Espera - 1 <= Janela, Tipos, Freio, NEW c \in Casos, Passo(c)
  PROVE  Freio'
<1>1. /\ corrida[c].pc # "parado" /\ caso[c].status = "processing"
      /\ Passa(c, corrida'[c], caso'[c])
      /\ \A d \in Casos : d # c => corrida'[d] = corrida[d] /\ caso'[d] = caso[d]
  BY Alheio
<1>2. UNCHANGED <<modo, rajada>>
  BY PassoNoMundo
<1>3. \A d \in Casos : /\ Automatico(d)' <=> Automatico(d)
                       /\ caso'[d].criado = caso[d].criado
  BY <1>1 DEF Automatico, Passa
<1>4. Espera \in Nat \ {0} /\ Janela \in Nat /\ \A d \in Casos : caso[d].criado \in Nat
  BY ReservaAssumption DEF Tipos, TypeOK, Caso
<1>5. corrida[c].resta \in Nat
  BY ReservaAssumption DEF Tipos, TypeOK, Corrida
<1>6. ASSUME modo = "comFreio", Automatico(c)
      PROVE  /\ corrida'[c].pc = "inicio" => caso'[c].criado = 0
             /\ corrida'[c].pc = "espera" => caso'[c].criado + corrida'[c].resta = Espera
             /\ caso'[c].criado < Espera => Cedo(c)'
             /\ c \in rajada => Cedo(c)'
  <2>0. Relogio /\ ~caso[c].manual
    BY <1>6 DEF Freio, Automatico
  <2>1. CASE corrida[c].pc = "inicio"
    <3>1. Comecar(c)
      BY <2>1 DEF Passo, Acordar, Deduplicar, LerReserva, LerContratos, LerUnidade,
                  LerNumero, LerDocumento, Estourar, Ato, Excluir, Reler, RelerUnidade,
                  Situacao, Liberar, Concluir, Pendencia, Gravar
    <3>2. caso'[c].criado = 0
      BY <1>3, <1>6, <2>0, <2>1 DEF Relogio
    <3>3. \/ corrida'[c].pc = "parado" /\ caso'[c].status = "held"
          \/ /\ corrida'[c].pc = "espera" /\ corrida'[c].resta = Espera
             /\ caso'[c].status = caso[c].status
      BY <1>6, <2>0, <3>1, PrimeiroOlhar
    <3>4. corrida'[c].pc = "espera" => caso'[c].criado + corrida'[c].resta = Espera
      BY <1>4, <3>2, <3>3
    <3>5. Cedo(c)'
      BY <1>1, <3>3 DEF Cedo
    <3> QED BY <3>2, <3>4, <3>5
  <2>2. CASE corrida[c].pc = "espera"
    <3>1. Acordar(c)
      BY <2>2 DEF Passo, Comecar, Deduplicar, LerReserva, LerContratos, LerUnidade,
                  LerNumero, LerDocumento, Estourar, Ato, Excluir, Reler, RelerUnidade,
                  Situacao, Liberar, Concluir, Pendencia, Gravar
    <3>2. corrida[c].resta = 0 /\ caso[c].criado = Espera
      BY <1>4, <1>5, <1>6, <2>0, <2>2, <3>1 DEF Relogio, Acordar
    <3>3. corrida'[c].pc \in {"parado", "dedupe"}
      BY <3>1, Destinos DEF Acordar, Status, Pcs
    <3>4. ASSUME c \in rajada PROVE Cedo(c)'
      <4>1. PICK J \in SUBSET Casos : Vizinhos(c, J)
        BY <3>4 DEF Freio, NaRajada
      <4>2. Encerrar(c, "held")
        BY <3>1, <3>2, <4>1, RajadaVista DEF Acordar
      <4>3. corrida'[c].pc = "parado"
        BY <4>2, Destinos DEF Status
      <4>4. caso'[c].status = "held"
        BY <4>2 DEF Encerrar, Tipos, TypeOK, Caso
      <4> QED BY <4>3, <4>4 DEF Cedo
    <3>5. ~(caso'[c].criado < Espera)
      BY <1>3, <1>4, <3>2
    <3> QED BY <3>3, <3>4, <3>5
  <2>3. CASE corrida[c].pc \notin {"inicio", "espera"}
    <3>1. ~Cedo(c)
      BY <1>1, <2>3 DEF Cedo
    <3>2. ~(caso'[c].criado < Espera) /\ c \notin rajada
      BY <1>3, <1>6, <2>0, <3>1 DEF Relogio, Freio, NaRajada
    <3> QED BY <2>3, <3>2, DepoisDoFreio
  <2> QED BY <2>1, <2>2, <2>3
<1>7. Relogio'
  <2> SUFFICES ASSUME NEW d \in Casos, (modo = "comFreio")', Automatico(d)'
               PROVE  (/\ corrida[d].pc = "inicio" => caso[d].criado = 0
                       /\ corrida[d].pc = "espera" => caso[d].criado + corrida[d].resta = Espera
                       /\ caso[d].criado < Espera => Cedo(d))'
    BY DEF Relogio
  <2>1. CASE d = c
    BY <1>2, <1>3, <1>6, <2>1
  <2>2. CASE d # c
    BY <1>1, <1>2, <1>3, <2>2 DEF Freio, Relogio, Cedo
  <2> QED BY <2>1, <2>2
<1>8. ASSUME NEW d \in rajada PROVE NaRajada(d)'
  <2>0. d \in Casos
    BY DEF Tipos, TypeOK
  <2>1. NaRajada(d)
    BY DEF Freio
  <2>2. PICK J \in SUBSET Casos : Vizinhos(d, J)
    BY <2>1 DEF NaRajada
  <2>3. Vizinhos(d, J)'
    BY <1>3, <2>0, <2>2, VizinhosFicam DEF Vizinhos
  <2>4. Cedo(d)'
    BY <1>1, <1>6, <2>0, <2>1 DEF NaRajada, Cedo
  <2> QED BY <1>2, <1>3, <2>0, <2>1, <2>2, <2>3, <2>4 DEF NaRajada
<1> QED BY <1>2, <1>7, <1>8 DEF Freio

\* A request keeps it too: the cases of a new burst came within a wait of each other.
LEMMA FreioDoPedido ==
  ASSUME Tipos, Freio, NEW r \in Reservas, NEW manual \in BOOLEAN, Receber(r, manual)
  PROVE  Freio'
<1>1. PICK c \in Casos, x \in Corrida, y \in Caso :
        /\ corrida' = [corrida EXCEPT ![c] = x] /\ caso' = [caso EXCEPT ![c] = y]
        /\ caso[c].status = "nenhum" /\ corrida[c].pc = "parado" /\ x.pc = "inicio"
        /\ y.r = r /\ y.manual = manual /\ y.status = "processing" /\ y.criado = 0
        /\ (rajada' = IF ~manual /\ modo = "comFreio" /\ Cardinality(Juntos(c)) > Teto
                        THEN rajada \cup Juntos(c) ELSE rajada)
  BY Pedido
<1>2. /\ corrida'[c] = x /\ caso'[c] = y
      /\ \A d \in Casos : d # c => corrida'[d] = corrida[d] /\ caso'[d] = caso[d]
  BY <1>1 DEF Tipos, TypeOK
<1>3. UNCHANGED modo /\ Espera \in Nat \ {0}
  BY Pedido, ReservaAssumption
<1>4. \A d \in Casos : caso[d].criado \in Nat /\ caso'[d].criado \in Nat
  BY <1>1, <1>2, ReservaAssumption DEF Tipos, TypeOK, Caso
<1>5. Cedo(c)'
  BY <1>1, <1>2 DEF Cedo
<1>6. Relogio'
  BY <1>1, <1>2, <1>3, <1>5 DEF Freio, Relogio, Automatico, Cedo
<1>7. ASSUME NEW d \in rajada PROVE NaRajada(d)'
  <2>1. NaRajada(d) /\ d \in Casos
    BY DEF Freio, Tipos, TypeOK
  <2>2. PICK J \in SUBSET Casos : Vizinhos(d, J)
    BY <2>1 DEF NaRajada
  <2>3. c \notin J /\ d # c
    BY <1>1, <2>2 DEF Vizinhos, Automatico
  <2>4. \A e \in J : Automatico(e)' /\ caso'[e].criado = caso[e].criado
    BY <1>2, <2>2, <2>3 DEF Vizinhos, Automatico
  <2>5. Vizinhos(d, J)'
    BY <2>1, <2>2, <2>4, VizinhosFicam
  <2>6. Automatico(d)' /\ Cedo(d)'
    BY <1>2, <2>1, <2>3 DEF NaRajada, Automatico, Cedo
  <2> QED BY <1>3, <2>1, <2>5, <2>6 DEF NaRajada
<1>8. ASSUME NEW d \in Juntos(c), ~manual, modo = "comFreio", Cardinality(Juntos(c)) > Teto
      PROVE  NaRajada(d)'
  <2>1. Juntos(c) \in SUBSET Casos /\ d \in Casos
    BY <1>8 DEF Juntos
  <2>2. \A e \in Juntos(c) : Automatico(e)' /\ caso'[e].criado < Espera
    BY <1>1, <1>2, <1>3, <1>8 DEF Juntos, Automatico
  <2>3. \A e \in Juntos(c) : caso'[e].criado < caso'[d].criado + Espera
    BY <1>3, <1>4, <2>1, <2>2
  <2>4. Cedo(d)'
    BY <1>3, <1>6, <1>8, <2>1, <2>2 DEF Relogio
  <2>5. PICK J \in SUBSET Casos : J = Juntos(c)
    BY <2>1
  <2>6. Vizinhos(d, J)'
    BY <1>8, <2>2, <2>3, <2>5 DEF Vizinhos
  <2> QED BY <1>3, <1>8, <2>2, <2>4, <2>6 DEF NaRajada
<1>9. \A d \in rajada' : NaRajada(d)'
  BY <1>1, <1>7, <1>8
<1> QED BY <1>6, <1>9 DEF Freio

\* So does a tick: all rows of the brake grow older together.
LEMMA FreioDoTempo ==
  ASSUME 2 * Espera - 1 <= Janela, Tipos, Freio, Passar
  PROVE  Freio'
<1>1. /\ UNCHANGED <<modo, rajada>>
      /\ \A c \in Casos : /\ caso'[c].r = caso[c].r /\ caso'[c].status = caso[c].status
                          /\ caso'[c].manual = caso[c].manual
                          /\ corrida'[c].pc = corrida[c].pc
  BY TempoPassa DEF semExt, estavel
<1>2. \A c \in Casos : /\ Automatico(c)' <=> Automatico(c)
                       /\ Cedo(c)' <=> Cedo(c)
  BY <1>1 DEF Automatico, Cedo
<1>3. /\ Espera \in Nat \ {0} /\ Janela \in Nat
      /\ \A d \in Casos : caso[d].criado \in Nat /\ corrida[d].resta \in Nat
  BY ReservaAssumption DEF Tipos, TypeOK, Caso, Corrida
<1>4. ASSUME NEW c \in Casos, Automatico(c)
      PROVE  caso'[c].criado = IF caso[c].criado < Janela + 1 THEN caso[c].criado + 1
                               ELSE Janela + 1
  <2>1. caso[c].r # Nulo /\ ~caso[c].manual /\ caso[c] \in Caso
    BY <1>4 DEF Automatico, Tipos, TypeOK
  <2>2. caso'[c] = [caso[c] EXCEPT !.criado = Mais(caso[c].criado, Janela + 1)]
    BY <2>1 DEF Passar, Depois
  <2>3. caso'[c].criado = Mais(caso[c].criado, Janela + 1)
    BY <2>1, <2>2 DEF Caso
  <2>4. caso[c].criado \in 0..(Janela + 1)
    BY <2>1 DEF Caso
  <2> QED BY <1>3, <2>3, <2>4 DEF Mais
<1>5. \A c \in Casos : corrida[c].pc = "espera" =>
        corrida[c].resta > 0 /\ corrida'[c].resta = corrida[c].resta - 1
  BY DEF Passar, Tipos, TypeOK, Corrida
<1>6. Relogio'
  <2> SUFFICES ASSUME NEW c \in Casos, (modo = "comFreio")', Automatico(c)'
               PROVE  (/\ corrida[c].pc = "inicio" => caso[c].criado = 0
                       /\ corrida[c].pc = "espera" => caso[c].criado + corrida[c].resta = Espera
                       /\ caso[c].criado < Espera => Cedo(c))'
    BY DEF Relogio
  <2>1. modo = "comFreio" /\ Automatico(c)
    BY <1>1, <1>2
  <2>2. corrida'[c].pc # "inicio"
    BY <1>1 DEF Passar
  <2>3. ASSUME corrida[c].pc = "espera" PROVE caso'[c].criado + corrida'[c].resta = Espera
    <3>1. caso[c].criado + corrida[c].resta = Espera
      BY <2>1, <2>3 DEF Freio, Relogio
    <3> QED BY <1>3, <1>4, <1>5, <2>1, <2>3, <3>1
  <2>4. ASSUME caso'[c].criado < Espera PROVE Cedo(c)'
    <3>1. caso[c].criado < Espera
      BY <1>3, <1>4, <2>1, <2>4
    <3> QED BY <1>2, <2>1, <3>1 DEF Freio, Relogio
  <2> QED BY <1>1, <2>2, <2>3, <2>4
<1>7. ASSUME NEW d \in rajada PROVE NaRajada(d)'
  <2>1. NaRajada(d) /\ d \in Casos
    BY DEF Freio, Tipos, TypeOK
  <2>2. PICK J \in SUBSET Casos : Vizinhos(d, J)
    BY <2>1 DEF NaRajada
  <2>3. Vizinhos(d, J)'
    <3>1. ASSUME NEW e \in J
          PROVE  Automatico(e)' /\ (caso'[d].criado <= Espera =>
                                      caso'[e].criado < caso'[d].criado + Espera)
      <4>1. Automatico(e) /\ Automatico(d) /\ e \in Casos
        BY <2>1, <2>2 DEF Vizinhos, NaRajada
      <4>2. caso[d].criado <= Espera => caso[e].criado < caso[d].criado + Espera
        BY <2>2 DEF Vizinhos
      <4> QED BY <1>2, <1>3, <1>4, <2>1, <4>1, <4>2
    <3> QED BY <2>2, <3>1 DEF Vizinhos
  <2> QED BY <1>1, <1>2, <2>1, <2>3 DEF NaRajada
<1> QED BY <1>1, <1>6, <1>7 DEF Freio

\* What changes neither the ages nor the progress of a row keeps it.
LEMMA FreioParado ==
  ASSUME Tipos, Freio, UNCHANGED <<modo, rajada>>,
         \A c \in Casos :
           /\ caso'[c].status = caso[c].status /\ caso'[c].manual = caso[c].manual
           /\ caso'[c].criado = caso[c].criado
           /\ \/ corrida'[c].pc = "parado"
              \/ corrida'[c].pc = corrida[c].pc /\ corrida'[c].resta = corrida[c].resta
  PROVE  Freio'
<1>1. \A c \in Casos : /\ Automatico(c)' <=> Automatico(c)
                       /\ Cedo(c) => Cedo(c)'
  BY DEF Automatico, Cedo
<1>2. Relogio'
  BY <1>1 DEF Freio, Relogio
<1>3. ASSUME NEW d \in rajada PROVE NaRajada(d)'
  <2>1. NaRajada(d) /\ d \in Casos
    BY DEF Freio, Tipos, TypeOK
  <2>2. PICK J \in SUBSET Casos : Vizinhos(d, J)
    BY <2>1 DEF NaRajada
  <2>3. Vizinhos(d, J)'
    BY <1>1, <2>1, <2>2, VizinhosFicam DEF Vizinhos
  <2> QED BY <1>1, <2>1, <2>3 DEF NaRajada
<1> QED BY <1>2, <1>3 DEF Freio

\* The brake holds the whole of a burst, the first of its cases included, when the window
\* is at least twice the wait, less a unit of time: then the first case, at the end of
\* its wait, still counts the others.
THEOREM NenhumDaRajada ==
  ASSUME 2 * Espera - 1 <= Janela
  PROVE  Spec => []RajadaRetida
<1>1. Init => Freio
  <2> SUFFICES ASSUME Init PROVE Freio
    OBVIOUS
  <2>1. \A c \in Casos : ~Automatico(c)
    BY DEF Init, Automatico, SemCaso
  <2> QED BY <2>1 DEF Init, Freio, Relogio
<1>2. Tipos /\ Freio /\ [Next]_vars => Freio'
  <2> SUFFICES ASSUME Tipos, Freio, [Next]_vars PROVE Freio'
    OBVIOUS
  <2>1. CASE UNCHANGED vars
    BY <2>1, FreioParado DEF vars
  <2>2. ASSUME NEW r \in Reservas, NEW manual \in BOOLEAN, Receber(r, manual) PROVE Freio'
    BY <2>2, FreioDoPedido
  <2>3. ASSUME NEW c \in Casos, Passo(c) PROVE Freio'
    BY <2>3, FreioDoPasso
  <2>4. ASSUME NEW c \in Casos, Envelhecer(c) PROVE Freio'
    <3>1. UNCHANGED <<modo, rajada, corrida>>
      BY <2>4 DEF Envelhecer, semExt, estavel
    <3>2. \A d \in Casos : /\ caso'[d].status = caso[d].status
                           /\ caso'[d].manual = caso[d].manual
                           /\ caso'[d].criado = caso[d].criado
      BY <2>4 DEF Envelhecer, Tipos, TypeOK, Caso
    <3> QED BY <3>1, <3>2, FreioParado
  <2>5. CASE Ambiente
    BY <2>5, AmbienteNoMundo, FreioParado DEF semRun
  <2>6. CASE Passar
    BY <2>6, FreioDoTempo
  <2>7. CASE Reiniciar
    BY <2>7, Reinicio, FreioParado
  <2> QED BY <2>1, <2>2, <2>3, <2>4, <2>5, <2>6, <2>7 DEF Next
<1>3. Freio => RajadaRetida
  BY DEF Freio, NaRajada, Cedo, RajadaRetida
<1>4. Init => Tipos
  BY TiposInit
<1>5. Tipos /\ [Next]_vars => Tipos'
  BY TiposNext
<1> QED BY <1>1, <1>2, <1>3, <1>4, <1>5, PTL DEF Spec
=============================================================================
