----------------------------- MODULE MCControl ------------------------------
(***************************************************************************)
(* Two users and the knob against one engine after another.  Controls whose *)
(* handler and tool agree behave alike, so a behaviour exercises one of     *)
(* each kind: a source word (differential, with the AUX bus), the gain the  *)
(* knob turns too, and a gain one of whose channels is set without a record.*)
(* The plain differential words behave as the source word below quad rate.  *)
(***************************************************************************)
EXTENDS ControlState

CONSTANTS u1, u2

MCUsers == {u1, u2}
MCInPlay == {{Key("headphoneSource", 1)}, {Key("headphoneVolume", 0)},
             {Key("inputLevel", 0), Key("inputChannelLevel", 1)}}
=============================================================================
