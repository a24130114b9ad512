-------------------------- MODULE MCBoletoHistoria --------------------------
(* The instances of MCBoletoAto, with the history of BoletoHistoria.  Once   *)
(* the order is lost its property says nothing: such states end the search.  *)
EXTENDS MCBoletoAto, BoletoHistoria

SoEmOrdem == emOrdem
=============================================================================
