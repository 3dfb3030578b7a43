--------------------------- MODULE MCTransport410 ---------------------------
(* HalTransport with two engine slots and three helpers: one helper for the  *)
(* running engine and one for each entry a rate change can orphan.           *)
EXTENDS HalTransport
=============================================================================
