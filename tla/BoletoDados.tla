---------------------------- MODULE BoletoDados ----------------------------
(***************************************************************************)
(* What the processes of the "Boleto de Ato" share, for ONE reserva: the   *)
(* rows of boleto_history, the titles registered at the bank (Ecobranca),  *)
(* the lease on the portal account, the reserva as the CV shows it, and    *)
(* the settings.  Queries are by idreserva, but for the count that makes   *)
(* the nosso numero, which is by person (idpessoa_cv): the model is that   *)
(* of a person with one reserva, and other reservas meet it in the lease.  *)
(*                                                                         *)
(* Data kept: a (valor, vencimento) pair is a member of Conds; a nosso     *)
(* numero is the count that makes its suffix; time is left to the          *)
(* environment (a due date, a lease or the window passes at any moment).   *)
(***************************************************************************)
EXTENDS Naturals, FiniteSets, Lease

CONSTANTS Conds,         \* (valor, vencimento) of the ato series
          ForaDoPrazo,   \* those whose due date is past or beyond D+N
          SemSerie,      \* the reserva has no ato series
          Invalida,      \* two series, bad titular data, or above the ceiling
          MaxLinhas,     \* bound: rows of the reserva
          MaxReag,       \* MAX_REAGENDAMENTOS
          Eventos,       \* which failures and external events may happen
          Verificadores, \* owners of a payment check: daily, manual
          Cancelador,    \* owner of the write-off asked by a cancellation
          Nulo           \* a column that is NULL

Linhas == 1 .. MaxLinhas
NNs == 0 .. MaxLinhas - 1

ASSUME DadosAssumption ==
  /\ MaxLinhas \in Nat \ {0} /\ MaxReag \in Nat
  /\ ForaDoPrazo \subseteq Conds
  /\ Nulo \notin Conds \cup NNs
  /\ {SemSerie, Invalida} \cap (Conds \cup {Nulo}) = {}
  /\ Owners = Linhas \cup Verificadores \cup {Cancelador}

Pode(e) == e \in Eventos

VARIABLES h,       \* boleto_history, by id; "livre" is an id not used yet
          titulo,  \* at the bank, by nosso numero
          dono,    \* the row whose emission registered the title (0: none)
          cv,      \* the reserva in the CV: its conditions, and whether it lives
          janela,  \* dentroDaJanela(settings)
          ativo    \* settings.active

dadosVars == <<h, titulo, dono, cv, janela, ativo, holder, expired>>

Status == {"livre", "processing", "queued", "success", "skipped", "error"}
Linha == [status: Status, pay: {"pending", "paid", "cancelled"},
          ignorado: BOOLEAN, cond: Conds \cup {Nulo}, nn: NNs \cup {Nulo},
          pessoa: BOOLEAN, processada: BOOLEAN, tentativas: 0 .. MaxReag,
          situacao: {"nenhuma", "erro", "sucesso"}]
LinhaNova == [status |-> "livre", pay |-> "pending", ignorado |-> FALSE,
              cond |-> Nulo, nn |-> Nulo, pessoa |-> FALSE,
              processada |-> FALSE, tentativas |-> 0, situacao |-> "nenhuma"]

DadosTypeOK ==
  /\ h \in [Linhas -> Linha]
  /\ titulo \in [NNs -> {"nao", "aberto", "pago", "baixado"}]
  /\ dono \in [NNs -> Linhas \cup {0}]
  /\ cv \in [cond: Conds \cup {SemSerie, Invalida}, viva: BOOLEAN]
  /\ janela \in BOOLEAN
  /\ ativo \in BOOLEAN
  /\ LeaseTypeOK

DadosInit ==
  /\ h = [l \in Linhas |-> LinhaNova]
  /\ titulo = [n \in NNs |-> "nao"]
  /\ dono = [n \in NNs |-> 0]
  /\ cv \in [cond: Conds, viva: {TRUE}]
  /\ janela = ~Pode("fechada") /\ ativo = TRUE
  /\ LeaseInit

\* The rows the queries of the services select.
Usadas == {l \in Linhas : h[l].status # "livre"}
Emitidas == {l \in Linhas : h[l].status = "success" /\ ~h[l].ignorado}
Pendentes == {l \in Emitidas : h[l].pay = "pending"}
Pagas == {l \in Emitidas : h[l].pay = "paid"}
NaFila == {l \in Linhas : h[l].status = "queued" /\ ~h[l].processada}

\* history.update({...}): the columns given, the row as it is otherwise.
Update(l, r) == h' = [h EXCEPT ![l] = r]

\* findOne by id or created_at DESC (they grow together): one row, or none.
Ultima(S) == {k \in S : \A j \in S : j <= k}

\* What consultarTituloDetalhado may read: the bank has shown "BAIXADO POR
\* DEVOLUCAO" for titles that were paid.
Leituras(n) == {titulo[n]}
               \cup (IF titulo[n] = "pago" /\ Pode("leituraBaixado") THEN {"baixado"} ELSE {})

\* -------------------------------------------------------------- environment
\* The customer pays, or somebody writes the title off in the portal.
Pagar(n) == /\ Pode("paga")
            /\ titulo[n] = "aberto"
            /\ titulo' = [titulo EXCEPT ![n] = "pago"]
            /\ UNCHANGED <<h, dono, cv, janela, ativo, leaseVars>>

BaixaExterna(n) == /\ Pode("baixaExterna")
                   /\ titulo[n] = "aberto"
                   /\ titulo' = [titulo EXCEPT ![n] = "baixado"]
                   /\ UNCHANGED <<h, dono, cv, janela, ativo, leaseVars>>

TrocarCondicao == /\ \E c \in Conds \cup {SemSerie, Invalida} :
                       /\ c # cv.cond
                       /\ c \in Conds \/ Pode("serieInvalida")
                       /\ cv' = [cv EXCEPT !.cond = c]
                  /\ UNCHANGED <<h, titulo, dono, janela, ativo, leaseVars>>

CancelarReserva == /\ Pode("cancela") /\ cv.viva
                   /\ cv' = [cv EXCEPT !.viva = FALSE]
                   /\ UNCHANGED <<h, titulo, dono, janela, ativo, leaseVars>>

AbrirFecharJanela == /\ Pode("janela")
                     /\ janela' = ~janela
                     /\ UNCHANGED <<h, titulo, dono, cv, ativo, leaseVars>>

LigarDesligar == /\ Pode("desliga")
                 /\ ativo' = ~ativo
                 /\ UNCHANGED <<h, titulo, dono, cv, janela, leaseVars>>

VencerLease == /\ Pode("expira")
               /\ Expire
               /\ UNCHANGED <<h, titulo, dono, cv, janela, ativo>>

Ambiente == \/ \E n \in NNs : Pagar(n) \/ BaixaExterna(n)
            \/ TrocarCondicao \/ CancelarReserva
            \/ AbrirFecharJanela \/ LigarDesligar \/ VencerLease
=============================================================================
