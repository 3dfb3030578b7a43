----------------------------- MODULE MCRolling -----------------------------
(* RollingTx with a second of thirteen cycles and a ring of twelve slots:    *)
(* like 8000 and 640, the second is no multiple of the ring.  The controller *)
(* reads further ahead than the guard.                                       *)
EXTENDS RollingTx
=============================================================================
