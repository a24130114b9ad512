--------------------------- MODULE MCReservaCancel ---------------------------
(* One unit, which two reservas have one after the other. *)
EXTENDS ReservaCancel, TLC

MCUnidade == [r \in Reservas |-> "u"]
MCSimetria == Permutations(Reservas) \cup Permutations(Contratos)
=============================================================================
