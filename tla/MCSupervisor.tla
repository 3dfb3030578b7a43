---------------------------- MODULE MCSupervisor ----------------------------
(* Supervisor with one rate of each kind (44.1, a single, a double and a     *)
(* quad rate), two disturbances and two rate changes in a behaviour.         *)
EXTENDS Supervisor
=============================================================================
