---------------------------- MODULE ReservaDados ----------------------------
(***************************************************************************)
(* What the cancellation of reservas (ReservaCancelService) works on: the  *)
(* reservas and their units in the CV, the sales contracts in Sienge, the  *)
(* cases of reserva_cancel_history and the runs that process them; and     *)
(* what customers, people and the other systems do meanwhile.              *)
(***************************************************************************)
EXTENDS Integers, FiniteSets

CONSTANTS
  Reservas,
  Unidade,     \* the unit of each reserva; one reserva after the other may have it
  ComCodigo,   \* reservas whose unit has its internal code (idunidade_int)
  Contratos,   \* contracts that Sienge may come to hold
  MaxCasos,    \* rows of reserva_cancel_history
  Janela,      \* burst_window_seconds
  Teto,        \* burst_max_cancels
  Espera,      \* burst_settle_seconds
  MaxQuedas,   \* restarts of the server
  Eventos,     \* what may happen besides
  Nulo

ASSUME ReservaAssumption ==
  /\ MaxCasos \in Nat /\ Janela \in Nat /\ MaxQuedas \in Nat
  /\ Teto \in Nat \ {0} /\ Espera \in Nat \ {0}
  /\ ComCodigo \subseteq Reservas /\ Nulo \notin Reservas
  /\ IsFiniteSet(Contratos)

Casos == 1..MaxCasos
Unidades == {Unidade[r] : r \in Reservas}

VARIABLES
  modo,      \* active and burst_guard_active, which the screen sets
  cv,        \* the reserva in the CV: its life and the stage of the workflow
  dono,      \* the reserva that has each unit in the CV; Nulo: it is for sale
  contrato,  \* the contracts in Sienge
  caso,      \* the rows: the age of their creation, and whether their last update is
             \* less than a quarter of an hour old
  corrida,   \* the run of each row
  rajada,    \* cases of a burst (history)
  fora,      \* reservas that left the automatic course (history)
  quedas

vars == <<modo, cv, dono, contrato, caso, corrida, rajada, fora, quedas>>
externo == <<cv, dono, contrato>>

Pode(e) == e \in Eventos

Reserva == [vida: {"futura", "viva", "cancelada"}, etapa: {"outra", "cancelada", "pendencia"}]
\* acha: by what Sienge finds a contract. Those of the CV have the externalId and the
\* unit of their reserva; one made by hand may be on the unit without an externalId,
\* or have nothing but the number of the integration. bom: awaiting emission, unpaid,
\* of the customer and the unit of the reserva.
Achados == {"reserva", "unidade", "numero"}
Contrato == [r: Reservas \cup {Nulo}, sit: {"livre", "vivo", "extinto"}, bom: BOOLEAN,
             acha: Achados]
Status == {"nenhum", "processing", "success", "blocked", "held", "skipped", "ignored", "error"}
Caso == [r: Reservas \cup {Nulo}, status: Status, manual: BOOLEAN,
         criado: 0..(Janela + 1), recente: BOOLEAN]
Pcs == {"parado", "inicio", "espera", "dedupe", "ler", "contratos", "unidade", "numero",
        "documento", "ato", "excluir", "reler", "relerUnidade", "situacao", "liberar",
        "concluir", "pendencia", "gravar"}
\* The stage, the contracts and their fitness as the run read them.
Corrida == [pc: Pcs, etapa: {"outra", "cancelada", "pendencia"}, meus: SUBSET Contratos,
            apto: BOOLEAN, resta: 0..Espera, fim: {"-", "blocked", "error"}]

SemCaso == [r |-> Nulo, status |-> "nenhum", manual |-> FALSE, criado |-> 0,
            recente |-> TRUE]
SemContrato == [r |-> Nulo, sit |-> "livre", bom |-> FALSE, acha |-> "reserva"]
Extinto == [SemContrato EXCEPT !.sit = "extinto"]
Parada == [pc |-> "parado", etapa |-> "outra", meus |-> {}, apto |-> FALSE, resta |-> 0,
           fim |-> "-"]

TypeOK == /\ modo \in {"desligada", "semFreio", "comFreio"}
          /\ cv \in [Reservas -> Reserva]
          /\ dono \in [Unidades -> Reservas \cup {Nulo}]
          /\ contrato \in [Contratos -> Contrato]
          /\ \A k \in Contratos : contrato[k].sit = "vivo" => contrato[k].r \in Reservas
          /\ caso \in [Casos -> Caso] /\ corrida \in [Casos -> Corrida]
          /\ \A c \in Casos : /\ corrida[c].pc # "parado" => caso[c].status = "processing"
                              /\ caso[c].status = "nenhum" <=> caso[c].r = Nulo
          /\ rajada \subseteq Casos /\ fora \subseteq Reservas
          /\ quedas \in 0..MaxQuedas

Init == /\ modo \in {"desligada", "semFreio", "comFreio"}
        /\ cv = [r \in Reservas |-> [vida |-> "futura", etapa |-> "outra"]]
        /\ dono = [u \in Unidades |-> Nulo]
        /\ contrato = [k \in Contratos |-> SemContrato]
        /\ caso = [c \in Casos |-> SemCaso] /\ corrida = [c \in Casos |-> Parada]
        /\ rajada = {} /\ fora = {} /\ quedas = 0
-----------------------------------------------------------------------------
(* Queries. *)

Vivos == {k \in Contratos : contrato[k].sit = "vivo"}
PorReserva(r) == {k \in Vivos : contrato[k].r = r /\ contrato[k].acha = "reserva"}
PorUnidade(r) == {k \in Vivos : /\ Unidade[contrato[k].r] = Unidade[r]
                                /\ contrato[k].acha # "numero"}
PorNumero(r) == {k \in Vivos : contrato[k].r = r /\ contrato[k].acha # "unidade"}
PorDocumento(r) == {k \in Vivos : contrato[k].r = r /\ contrato[k].acha # "numero"}

\* The automatic cases of the window, this one included.
NaJanela(c) == Cardinality({d \in Casos : /\ caso[d].status # "nenhum" /\ ~caso[d].manual
                                          /\ caso[d].criado <= Janela} \cup {c})
OutroVivo(c) == \E d \in Casos \ {c} : /\ caso[d].r = caso[c].r /\ caso[d].status = "processing"
                                       /\ caso[d].recente
ComSucesso(r) == \E d \in Casos : caso[d].r = r /\ caso[d].status = "success"
\* In-process: a restart forgets it.
EmVoo(r) == \E d \in Casos : caso[d].r = r /\ corrida[d].pc # "parado"
-----------------------------------------------------------------------------
(* Customers, people, the CV and Sienge. *)

semRun == <<modo, caso, corrida, rajada, quedas>>

\* Sold while an earlier sale of the unit stands, the reserva is out of the course.
Vender(r) == /\ cv[r].vida = "futura" /\ dono[Unidade[r]] = Nulo
             /\ cv' = [cv EXCEPT ![r].vida = "viva"]
             /\ dono' = [dono EXCEPT ![Unidade[r]] = r]
             /\ LET outras == {s \in Reservas : Unidade[s] = Unidade[r] /\ cv[s].vida = "viva"}
                IN fora' = IF outras = {} THEN fora ELSE fora \cup {r}
             /\ UNCHANGED <<contrato, semRun>>

\* The contract of a sale, fit to be deleted or not; or one made by hand.
Contratar(k, r) == /\ cv[r].vida = "viva" /\ contrato[k].sit = "livre"
                   /\ \E b \in BOOLEAN, a \in Achados :
                        /\ a # "reserva" => Pode("manual") /\ ~b
                        /\ contrato' = [contrato EXCEPT ![k] =
                             [r |-> r, sit |-> "vivo", bom |-> b, acha |-> a]]
                   /\ UNCHANGED <<cv, dono, fora, semRun>>

\* Emitted, paid, corrected; or cancelled by hand.
MudarContrato(k) == /\ Pode("contrato") /\ k \in Vivos
                    /\ \/ /\ contrato[k].acha = "reserva"
                          /\ contrato' = [contrato EXCEPT ![k].bom = ~@]
                       \/ contrato' = [contrato EXCEPT ![k] = Extinto]
                    /\ UNCHANGED <<cv, dono, fora, semRun>>

Cancelar(r) == /\ cv[r].vida = "viva"
               /\ cv' = [cv EXCEPT ![r] = [vida |-> "cancelada", etapa |-> "cancelada"]]
               /\ UNCHANGED <<dono, contrato, fora, semRun>>

\* A pending reserva goes back to Cancelada.
Regularizar(r) == /\ Pode("regulariza") /\ cv[r].etapa = "pendencia"
                  /\ cv' = [cv EXCEPT ![r].etapa = "cancelada"]
                  /\ UNCHANGED <<dono, contrato, fora, semRun>>

Ambiente == \/ \E r \in Reservas : \/ Vender(r) \/ Cancelar(r) \/ Regularizar(r)
            \/ \E k \in Contratos, r \in Reservas : Contratar(k, r)
            \/ \E k \in Contratos : MudarContrato(k)
=============================================================================
