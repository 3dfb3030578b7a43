---------------------------- MODULE FcpRoutines ----------------------------
(***************************************************************************)
(* What the programs of the repository ask of the device over FCP, as data. *)
(* A routine is a sequence of steps; a step sends one command and says what *)
(* its failure means.  The programs differ in the answers they take:        *)
(*                                                                         *)
(*   "masked"   FcpControl of the FW1814 engines: only a response that      *)
(*              repeats the command's bytes, INTERIM extends the deadline;  *)
(*   "first"    fw1814init, rateprobe and Fw410FcpControl: the next         *)
(*              response is taken, whatever it answers.                     *)
(***************************************************************************)
EXTENDS Integers, Sequences, FiniteSets

Rates     == {44, 48, 96}
RatePlugs == {"out", "in"}            \* AV/C opcodes 0x18 and 0x19
Cells     == {"cell1", "cell2"}       \* two of the 35 main-mixer routes
Registers == RatePlugs \cup Cells \cup {"clock", "selector", "left", "right"}

Unknown == -1     \* a rate that could not be read: sfcForRate finds no code
Memo    == -2     \* stands for the value an earlier read returned
Base    == -3     \* stands for 44.1 or 48 kHz, the rates to return to

Values(b) == IF b \in RatePlugs THEN Rates ELSE {0, 1}

\* The main-mixer presets of the model class, restricted to two cells.
MacfwPreset    == [c \in Cells |-> IF c = "cell1" THEN 1 ELSE 0]
OriginalPreset == [c \in Cells |-> IF c = "cell1" THEN 0 ELSE 1]

(* A step: op says what follows from its outcome.                           *)
(*   must    failure ends the routine with FALSE                            *)
(*   should  failure makes the result FALSE, the routine goes on            *)
(*   may     the outcome is ignored                                         *)
(*   cell    as must, and the main mixer is no longer initialized           *)
(*   route   as must; on success the cached cell is updated                 *)
(*   settle  no command: the run loop is served for a while                 *)
(*   unlessAt no command: the routine ends if both rates read as asked      *)
(*   adopt   no command: the preset written becomes the trusted cache       *)
Step(op, type, b, v) == [op |-> op, type |-> type, block |-> b, value |-> v]

Set(op, b, v)    == Step(op, "control", b, v)
Read(op, b)      == Step(op, "status", b, Unknown)   \* any value will do
Expect(op, b, v) == Step(op, "status", b, v)         \* it must be v
Settle           == Step("settle", "none", "in", Unknown)
UnlessAt(v)      == Step("unlessAt", "none", "in", v)
Adopt(original)  == Step("adopt", "none", "in", IF original THEN 1 ELSE 0)

---------------------------------------------------------------------------
(* The FW1814 engines: on the way up each CONTROL must succeed; the restore *)
(* sends both whatever the first one said, then reads INPUT back.           *)
KickRates(r) == <<Set("must", "out", r), Set("must", "in", r)>>

RestoreBaseline ==
  <<Set("should", "out", 48), Set("should", "in", 48),
    Expect("should", "in", 48)>>

(* fw1814init: clock source first; a high rate is tried and taken back.     *)
InitRate(r) ==
  IF r \in {44, 48}
  THEN <<Set("must", "clock", 1), Set("should", "out", r),
         Set("should", "in", r), Expect("should", "in", r)>>
  ELSE <<Expect("must", "in", Base), Set("must", "clock", 1),
         Set("should", "out", r), Set("should", "in", r),
         Expect("should", "in", r),
         Set("should", "out", Memo), Set("should", "in", Memo),
         Expect("should", "in", Memo)>>

(* rateprobe: CONTROL answers are not trusted, the STATUS readback is.      *)
ProbeRate(r, keep) ==
  <<Read("should", "out"), Read("should", "in"), UnlessAt(r),
    Set("may", "out", r), Set("may", "in", r), Settle,
    Expect("should", "out", r), Expect("should", "in", r)>>
  \o IF keep THEN <<>>
     ELSE <<Set("may", "out", Memo), Set("may", "in", Memo), Settle,
            Expect("should", "out", Memo), Expect("should", "in", Memo)>>

(* The FW410 engines after the stream starts: both are sent, both counted.  *)
Reassert44100 == <<Set("should", "out", 44), Set("should", "in", 44)>>

(* headphoneprobe: the other input of the headphone selector, for a while.  *)
HeadphoneTrial ==
  <<Read("must", "selector"), Set("must", "selector", 1),
    Expect("may", "selector", 1), Settle,
    Set("must", "selector", Memo), Expect("must", "selector", Memo)>>

(* Requests of the FW410 control server.                                    *)
GetSelector    == <<Read("must", "selector")>>
SetSelector(v) == <<Set("must", "selector", v), Expect("must", "selector", v)>>
GetLevel       == <<Read("must", "left"), Read("must", "right")>>
SetLevel(l, r) == <<Set("must", "left", l), Set("must", "right", r),
                    Expect("must", "left", l), Expect("must", "right", r)>>
WriteMixer(original) ==
  LET p == IF original THEN OriginalPreset ELSE MacfwPreset
  IN  <<Set("cell", "cell1", p["cell1"]), Set("cell", "cell2", p["cell2"]),
        Adopt(original)>>
=============================================================================
