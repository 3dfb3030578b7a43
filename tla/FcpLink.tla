------------------------------ MODULE FcpLink ------------------------------
(***************************************************************************)
(* One FCP transaction after another: the program writes a command into the *)
(* device and serves its run loop until a response is taken or one second   *)
(* has passed.  The device executes commands in the order they came and     *)
(* answers each at most once, after an INTERIM response if it wants; the    *)
(* answers wait in order for the run loop, however late.  Responses carry   *)
(* no transaction number: they only repeat what they answer.                *)
(***************************************************************************)
EXTENDS FcpRoutines

CONSTANTS MaxFaults   \* answers lost, writes failed, deadlines missed

ASSUME FaultsAssumption == MaxFaults \in Nat

VARIABLES
  reg,       \* the device's registers
  inbox,     \* commands it has received and not executed
  deferred,  \* it has answered the first of them with INTERIM
  wire,      \* responses sent and not yet handed to responseHandler
  dialect,   \* which transaction code the running program has
  active,    \* the command being waited on, or None
  clean,     \* history: it was sent undisputed
  faults     \* bound

None == [type |-> "none"]

link == <<reg, inbox, deferred, wire, dialect, active, clean, faults>>

Command(type, b, v)     == [type |-> type, block |-> b, value |-> v]
Response(type, cmd, v)  == [type |-> type, block |-> cmd.block, value |-> v]
Responses ==
  UNION {[type : {"accepted", "rejected", "interim", "stable"}, block : {b},
          value : Values(b) \cup {Unknown}] : b \in Registers}

LinkTypeOK ==
  /\ \A b \in Registers : reg[b] \in Values(b)
  /\ \A i \in DOMAIN inbox : inbox[i].block \in Registers
  /\ deferred \in BOOLEAN /\ clean \in BOOLEAN
  /\ \A i \in DOMAIN wire : wire[i] \in Responses
  /\ dialect \in {"masked", "first"}
  /\ active = None \/ active.type \in {"control", "status"}
  /\ faults \in 0 .. MaxFaults

---------------------------------------------------------------------------
(* The device, as far as the programs rely on it.                           *)
Answer(r) == wire' = Append(wire, r)

Execute ==
  /\ inbox # <<>>
  /\ LET cmd == Head(inbox) IN
     \/ /\ cmd.type = "control"
        /\ reg' = [reg EXCEPT ![cmd.block] = cmd.value]
        /\ Answer(Response("accepted", cmd, cmd.value))
     \/ /\ cmd.type = "control" /\ UNCHANGED reg
        /\ Answer(Response("rejected", cmd, cmd.value))
     \/ /\ cmd.type = "status" /\ UNCHANGED reg
        /\ Answer(Response("stable", cmd, reg[cmd.block]))
  /\ inbox' = Tail(inbox) /\ deferred' = FALSE
  /\ UNCHANGED <<dialect, active, clean, faults>>

Defer ==
  /\ inbox # <<>> /\ ~deferred
  /\ Head(inbox).type = "control" /\ Head(inbox).block \in RatePlugs
  /\ deferred' = TRUE
  /\ Answer(Response("interim", Head(inbox), Head(inbox).value))
  /\ UNCHANGED <<reg, inbox, dialect, active, clean, faults>>

(* Executed, but the answer is lost: the bus was reset, the write refused.  *)
LoseAnswer ==
  /\ faults < MaxFaults /\ faults' = faults + 1
  /\ inbox # <<>>
  /\ LET cmd == Head(inbox) IN
     reg' = IF cmd.type = "control"
            THEN [reg EXCEPT ![cmd.block] = cmd.value] ELSE reg
  /\ inbox' = Tail(inbox) /\ deferred' = FALSE
  /\ UNCHANGED <<wire, dialect, active, clean>>

Device == Execute \/ Defer \/ LoseAnswer

---------------------------------------------------------------------------
(* Mutant: the CONTROL mask covers bytes 1-4 only.                          *)
MatchesBlockOnly(cmd, r) == r.block = cmd.block

(* matchesActiveCommand: bytes 1-5 of a rate CONTROL, bytes 1-4 of a STATUS *)
(* request; the response type is byte 0 and is not compared.                *)
Matches(cmd, r) ==
  /\ r.block = cmd.block
  /\ cmd.type = "control" => r.value = cmd.value

(* What responseHandler does with a response while a command is waited on:  *)
(* "ignored", "interim" (the deadline is extended) or "taken".              *)
Use(r) ==
  IF dialect # "masked" THEN "taken"
  ELSE IF ~Matches(active, r) THEN "ignored"
  ELSE IF active.type = "control" /\ r.type = "interim" THEN "interim"
  ELSE "taken"

(* What the caller makes of the response that was taken.  A rate or clock   *)
(* helper compares it with its command; the FW410 control helpers look at   *)
(* the type, and in a STATUS answer at the length: rate answers are short.  *)
Accepts(cmd, r) ==
  /\ IF cmd.type = "control" THEN r.type # "rejected" ELSE r.type = "stable"
  /\ \/ dialect = "masked"
     \/ cmd.block \in RatePlugs \cup {"clock"} /\ Matches(cmd, r)
     \/ /\ cmd.block \notin RatePlugs \cup {"clock"}
        /\ cmd.type = "control" \/ r.block \notin RatePlugs

(* History: no answer that is outstanding when a command is sent can be     *)
(* taken for its own and be untrue.  Where answers are compared, whatever   *)
(* is still to be executed leaves the register as the command's answer will *)
(* find it, and what is on its way says nothing else; where they are not,   *)
(* nothing is outstanding.                                                  *)
Compared(cmd) == dialect = "masked" \/ cmd.block \in RatePlugs \cup {"clock"}

Undisputed(cmd) ==
  LET v == IF cmd.type = "control" THEN cmd.value ELSE reg[cmd.block] IN
  IF Compared(cmd)
  THEN /\ \A i \in DOMAIN inbox :
            inbox[i].type = "control" /\ inbox[i].block = cmd.block
            => inbox[i].value = v
       /\ \A i \in DOMAIN wire :
            Matches(cmd, wire[i]) /\ wire[i].type \in {"accepted", "stable"}
            => wire[i].value = reg[cmd.block]
  ELSE inbox = <<>> /\ wire = <<>>

(* transaction(): the command is written and the run loop served ...        *)
Send(cmd) ==
  /\ active = None
  /\ active' = cmd /\ inbox' = Append(inbox, cmd)
  /\ clean' = Undisputed(cmd)
  /\ UNCHANGED <<reg, deferred, wire, dialect, faults>>

(* ... until its response comes; r is the first that waits.                 *)
Take(r) ==
  /\ active # None /\ wire # <<>> /\ r = Head(wire)
  /\ Use(r) = "taken"
  /\ wire' = Tail(wire) /\ active' = None /\ clean' = TRUE
  /\ UNCHANGED <<reg, inbox, deferred, dialect, faults>>

Pass ==     \* a response that does not end the transaction
  /\ active # None /\ wire # <<>> /\ Use(Head(wire)) # "taken"
  /\ wire' = Tail(wire)
  /\ UNCHANGED <<reg, inbox, deferred, dialect, active, clean, faults>>

(* Mutant: the loop waits for the response alone.                           *)
NoDeadline == active # None /\ FALSE /\ UNCHANGED link

(* ... or the deadline passes.  An answer that is still to come is late;    *)
(* the device's part of it is left for after the deadline, which the        *)
(* program cannot tell from an answer delayed on its way.                   *)
Expire ==
  /\ active # None /\ wire = <<>>
  /\ inbox # <<>> => faults < MaxFaults
  /\ faults' = IF inbox # <<>> THEN faults + 1 ELSE faults
  /\ active' = None /\ clean' = TRUE
  /\ UNCHANGED <<reg, inbox, deferred, wire, dialect>>

(* The run loop is served with no command active: nothing is waited for.    *)
Serve ==
  /\ active = None /\ wire # <<>>
  /\ wire' = <<>>
  /\ UNCHANGED <<reg, inbox, deferred, dialect, active, clean, faults>>
=============================================================================
