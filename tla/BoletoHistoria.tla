--------------------------- MODULE BoletoHistoria ---------------------------
(***************************************************************************)
(* BoletoAto with a record of the three ways in which the activations of a *)
(* reserva lose their order: the emission re-checks nothing that another   *)
(* run may have changed since its decision (processBoletoWebhook is fire   *)
(* and forget, and boletoWindowScheduler resumes rows by due time).        *)
(***************************************************************************)
EXTENDS BoletoAto

VARIABLE emOrdem   \* nothing of the kind happened yet (history)

varsH == <<vars, emOrdem>>

\* A run starts: a new activation, or the scheduler resumes a row.
Comeca(l) == pc[l] = "parado" /\ pc'[l] # "parado"
\* ... while another run is under way;
Sobrepoe == \E l \in Linhas : Comeca(l) /\ Rodando # {}
\* ... of a row that waited in the queue while a later activation came.
Atrasa == \E l \in Linhas : Comeca(l) /\ \E k \in Usadas : k > l
\* A run registered a title and ends, or is cut, without a row that says so.
Perde == \E l \in Linhas : /\ \E n \in NNs : dono'[n] = l
                           /\ pc[l] # "parado" /\ pc'[l] \in {"falha", "parado"}
                           /\ h'[l].status # "success"

InitH == Init /\ emOrdem = TRUE
NextH == Next /\ emOrdem' = (emOrdem /\ ~Sobrepoe /\ ~Atrasa /\ ~Perde)
SpecH == InitH /\ [][NextH]_varsH
-----------------------------------------------------------------------------
\* Two titles of a reserva are open only after two runs overlapped, a queued row was
\* resumed behind a later activation, or a run was lost after its emission; write-offs,
\* refusals, retries, restarts, payments, checks and cancellations do not suffice.
UmAbertoEmOrdem == emOrdem => UmTituloAberto
=============================================================================
