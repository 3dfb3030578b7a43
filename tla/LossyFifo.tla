------------------------------ MODULE LossyFifo ------------------------------
(***************************************************************************)
(* What the shared playback ring promises, without the ring: the HAL       *)
(* appends frames to a stream, and the transport delivers some of them to  *)
(* the device, each at most once, in the order they were written and with  *)
(* the contents they were written with.  Frames may be lost (discarded     *)
(* backlog, crashed engine, rate handoff); none is repeated, reordered or  *)
(* corrupted.                                                              *)
(***************************************************************************)
EXTENDS Integers, Sequences

CONSTANT Tags            \* what the promise distinguishes about a frame

VARIABLES sent,          \* the tag of every frame written so far, in order
          last           \* the last frame delivered: its position and its tag

vars == <<sent, last>>

Nothing(t) == [pos |-> 0, tag |-> t]

Init == /\ sent = <<>>
        /\ \E t \in Tags : last = Nothing(t)

(* The writer extends the stream and changes nothing it already wrote.     *)
Publish == /\ sent' \in Seq(Tags)
           /\ Len(sent') > Len(sent)
           /\ \A i \in 1 .. Len(sent) : sent'[i] = sent[i]
           /\ UNCHANGED last

(* The reader delivers a frame later than every frame it delivered before. *)
Deliver == /\ \E i \in last.pos + 1 .. Len(sent) :
                 last' = [pos |-> i, tag |-> sent[i]]
           /\ UNCHANGED sent

Next == Publish \/ Deliver

Spec == Init /\ [][Next]_vars
=============================================================================
