------------------------------ MODULE MCCheckout ------------------------------
(***************************************************************************)
(* A checkout of two parts and the tests.  The second commit of upstream   *)
(* has moved one of them.                                                  *)
(***************************************************************************)
EXTENDS Checkout

CarriesAll == [c \in Commits |-> IF c = 2 THEN {Sql, "csv"} ELSE Parts]
=============================================================================
