---------------------------- MODULE FcpCallsProofs ----------------------------
(***************************************************************************)
(* Proofs about the programs over the FCP link, for any number of calls and *)
(* of faults.  Four invariants carry them.  Typed says which commands,      *)
(* responses and steps there are, and that the command waited on is the one *)
(* of the routine's next step.  Own: while an undisputed command is waited  *)
(* on, nothing outstanding can be taken for its answer and be untrue.       *)
(* Passing: what the routine has still to send decides the registers its    *)
(* PASS is about, and those it is done with are settled, that is they hold  *)
(* the value and nothing on its way to the device will change it.  Caching: *)
(* outside a full preset every mixer cell is settled at what the cache      *)
(* says, within one the cells already written are at what the preset says.  *)
(***************************************************************************)
EXTENDS FcpCalls, TLAPS

(* What a sequence holds.                                                   *)
Within(s) == {s[i] : i \in DOMAIN s}

LEMMA WithinEmpty == Within(<<>>) = {}
BY DEF Within

(* What is added to a sequence, and what is taken off its front.            *)
LEMMA WithinAppend ==
  ASSUME NEW T, NEW s \in Seq(T), NEW x \in T
  PROVE  /\ Append(s, x) \in Seq(T)
         /\ Within(Append(s, x)) = Within(s) \cup {x}
<1>1. /\ Append(s, x) \in Seq(T) /\ Len(Append(s, x)) = Len(s) + 1
      /\ Len(s) \in Nat /\ DOMAIN s = 1 .. Len(s)
      /\ DOMAIN Append(s, x) = 1 .. (Len(s) + 1)
      /\ \A i \in 1 .. Len(s) : Append(s, x)[i] = s[i]
      /\ Append(s, x)[Len(s) + 1] = x
  OBVIOUS
<1>2. ASSUME NEW y \in Within(Append(s, x)) PROVE y \in Within(s) \cup {x}
  <2>1. PICK i \in 1 .. (Len(s) + 1) : y = Append(s, x)[i]
    BY <1>1, <1>2 DEF Within
  <2>2. CASE i \in 1 .. Len(s)
    BY <1>1, <2>1, <2>2 DEF Within
  <2>3. CASE i = Len(s) + 1
    BY <1>1, <2>1, <2>3
  <2> QED
    BY <1>1, <2>2, <2>3
<1>3. ASSUME NEW y \in Within(s) PROVE y \in Within(Append(s, x))
  <2>1. PICK i \in 1 .. Len(s) : y = s[i]
    BY <1>1, <1>3 DEF Within
  <2>2. i \in DOMAIN Append(s, x) /\ Append(s, x)[i] = y
    BY <1>1, <2>1
  <2> QED
    BY <2>2 DEF Within
<1>4. x \in Within(Append(s, x))
  <2>1. Len(s) + 1 \in DOMAIN Append(s, x)
    BY <1>1
  <2> QED
    BY <1>1, <2>1 DEF Within
<1> QED
  BY <1>1, <1>2, <1>3, <1>4

(* The rest of a sequence, element by element.                              *)
LEMMA TailAt ==
  ASSUME NEW T, NEW s \in Seq(T), s # <<>>
  PROVE  /\ Head(s) = s[1] /\ 1 \in DOMAIN s /\ Tail(s) \in Seq(T)
         /\ Len(Tail(s)) = Len(s) - 1
         /\ Len(s) \in Nat \ {0}
         /\ DOMAIN s = 1 .. Len(s) /\ DOMAIN Tail(s) = 1 .. (Len(s) - 1)
         /\ \A i \in DOMAIN Tail(s) : Tail(s)[i] = s[i + 1] /\ i + 1 \in DOMAIN s
OBVIOUS

LEMMA WithinTail ==
  ASSUME NEW T, NEW s \in Seq(T), s # <<>>
  PROVE  /\ Head(s) \in Within(s) /\ Head(s) \in T
         /\ Tail(s) \in Seq(T)
         /\ Within(Tail(s)) \subseteq Within(s)
<1>1. Head(s) \in Within(s) /\ Head(s) \in T
  BY TailAt DEF Within
<1>2. ASSUME NEW y \in Within(Tail(s)) PROVE y \in Within(s)
  <2>1. PICK i \in DOMAIN Tail(s) : y = Tail(s)[i]
    BY <1>2 DEF Within
  <2>2. i + 1 \in DOMAIN s /\ y = s[i + 1]
    BY <2>1, TailAt
  <2> QED
    BY <2>2 DEF Within
<1> QED
  BY <1>1, <1>2, TailAt

LEMMA WithinIsTyped ==
  ASSUME NEW T, NEW s \in Seq(T)
  PROVE  Within(s) \subseteq T
BY DEF Within

---------------------------------------------------------------------------
(* Commands, responses and steps, with the values they can carry.           *)
Commands ==
  {c \in [type : {"control", "status"}, block : Registers,
          value : Rates \cup {0, 1, Unknown}] :
     c.type = "control" => c.value \in Values(c.block)}

Replies ==
  {r \in [type : {"accepted", "rejected", "interim", "stable"},
          block : Registers, value : Rates \cup {0, 1}] :
     /\ r.value \in Values(r.block)
     /\ r.type = "interim" => r.block \in RatePlugs}

Steps ==
  {s \in [op : {"must", "should", "may", "cell", "route", "settle",
                "unlessAt", "adopt"},
          type : {"control", "status", "none"}, block : Registers,
          value : Rates \cup {0, 1, Unknown, Memo, Base}] :
     /\ s.type = "control" => \/ s.value \in Values(s.block)
                              \/ s.value = Memo /\ s.block \in Remembered
     /\ s.type = "control" /\ s.block \in Cells => s.op \in {"cell", "route"}
     /\ s.op \in {"cell", "route"} => /\ s.type = "control"
                                      /\ s.block \in Cells
     /\ (s.type = "none") <=> (s.op \in {"settle", "unlessAt", "adopt"})}

(* While a command is waited on it is the one of the routine's next step.   *)
Waiting ==
  active # None =>
    /\ call # Idle /\ todo # <<>>
    /\ active.type = Now.type /\ active.block = Now.block
    /\ active.value = IF Now.type = "control" THEN Wanted ELSE Unknown

(* The link: registers, commands and responses have values of their block.  *)
Link ==
  /\ reg \in [Registers -> Rates \cup {0, 1}]
  /\ \A b \in Registers : reg[b] \in Values(b)
  /\ inbox \in Seq(Commands) /\ wire \in Seq(Replies)
  /\ deferred \in BOOLEAN /\ clean \in BOOLEAN
  /\ active \in Commands \cup {None}
  /\ faults \in 0 .. MaxFaults

(* Who runs the routines whose promises depend on the dialect.              *)
RunBy(p, name) ==
  /\ name \in {"kick", "restore"} => p = "engine1814"
  /\ name = "reassert" => p = "engine410"

(* The routine under way, and what the program remembers.                   *)
Routine ==
  /\ program \in Programs \cup {"none"} /\ dialect = DialectOf(program)
  /\ todo \in Seq(Steps) /\ ok \in BOOLEAN
  /\ seen \in [Remembered -> Rates \cup {0, 1, Unknown}]
  /\ \A b \in Remembered : seen[b] \in Values(b) \cup {Unknown}
  /\ cache \in [Cells -> {0, 1}] /\ initialized \in BOOLEAN
  /\ suspect \in BOOLEAN /\ disputed \subseteq Remembered
  /\ calls \in 0 .. MaxCalls
  /\ (call.name = "idle") <=> (call = Idle)
  /\ (call = Idle) => todo = <<>> /\ active = None
  /\ RunBy(program, call.name)

Typed == Link /\ Routine /\ Waiting

(* Together they say more than the type invariant of the runs.              *)
LEMMA TypedIsTypeOK == Typed => TypeOK
<1> SUFFICES ASSUME Typed PROVE TypeOK
  OBVIOUS
<1>1. \A i \in DOMAIN inbox : inbox[i].block \in Registers
  BY DEF Typed, Link, Commands
<1>2. \A i \in DOMAIN wire : wire[i] \in Responses
  <2> SUFFICES ASSUME NEW i \in DOMAIN wire PROVE wire[i] \in Responses
    OBVIOUS
  <2>1. wire[i] \in Replies
    BY DEF Typed, Link
  <2>2. wire[i] \in [type : {"accepted", "rejected", "interim", "stable"},
                     block : {wire[i].block},
                     value : Values(wire[i].block) \cup {Unknown}]
    BY <2>1 DEF Replies
  <2>3. wire[i].block \in Registers
    BY <2>1 DEF Replies
  <2> QED
    BY <2>2, <2>3 DEF Responses
<1>3. dialect \in {"masked", "first"}
  BY DEF Typed, Routine, DialectOf
<1>4. active = None \/ active.type \in {"control", "status"}
  BY DEF Typed, Link, Commands
<1>5. \A i \in DOMAIN todo : todo[i].block \in Registers
  BY DEF Typed, Routine, Steps
<1> QED
  BY <1>1, <1>2, <1>3, <1>4, <1>5 DEF Typed, Link, Routine, TypeOK, LinkTypeOK

(* The routines are made of such steps.                                     *)
LEMMA StepsMade ==
  /\ \A op \in {"must", "should", "may"}, b \in Registers \ Cells,
        v \in Rates \cup {0, 1} :
       v \in Values(b) => Set(op, b, v) \in Steps
  /\ \A op \in {"must", "should", "may"}, b \in Remembered :
       Set(op, b, Memo) \in Steps
  /\ \A op \in {"cell", "route"}, b \in Cells, v \in {0, 1} :
       Set(op, b, v) \in Steps
  /\ \A op \in {"must", "should", "may"}, b \in Registers,
        v \in Rates \cup {0, 1, Memo, Base} : Expect(op, b, v) \in Steps
  /\ \A op \in {"must", "should", "may"}, b \in Registers :
       Read(op, b) \in Steps
  /\ Settle \in Steps
  /\ \A v \in Rates : UnlessAt(v) \in Steps
  /\ \A o \in BOOLEAN : Adopt(o) \in Steps
<1> USE DEF Step, Steps, Registers, RatePlugs, Cells, Remembered, Values, Rates,
      Memo, Base, Unknown
<1>1. \A op \in {"must", "should", "may"}, b \in Registers \ Cells,
         v \in Rates \cup {0, 1} :
        v \in Values(b) => Set(op, b, v) \in Steps
  BY DEF Set
<1>2. \A op \in {"must", "should", "may"}, b \in Remembered :
        Set(op, b, Memo) \in Steps
  BY DEF Set
<1>3. \A op \in {"cell", "route"}, b \in Cells, v \in {0, 1} :
        Set(op, b, v) \in Steps
  BY DEF Set
<1>4. \A op \in {"must", "should", "may"}, b \in Registers,
         v \in Rates \cup {0, 1, Memo, Base} : Expect(op, b, v) \in Steps
  BY DEF Expect
<1>5. \A op \in {"must", "should", "may"}, b \in Registers :
        Read(op, b) \in Steps
  BY DEF Read
<1>6. Settle \in Steps /\ \A v \in Rates : UnlessAt(v) \in Steps
  BY DEF Settle, UnlessAt
<1>7. \A o \in BOOLEAN : Adopt(o) \in Steps
  BY DEF Adopt
<1> QED
  BY <1>1, <1>2, <1>3, <1>4, <1>5, <1>6, <1>7

(* The registers and their values, written out.                             *)
LEMMA Blocks ==
  /\ Registers = {"out", "in", "cell1", "cell2", "clock", "selector", "left", "right"}
  /\ RatePlugs = {"out", "in"} /\ Cells = {"cell1", "cell2"}
  /\ Remembered = {"out", "in", "selector"} /\ Remembered \subseteq Registers
  /\ Rates = {44, 48, 96} /\ Unknown = -1 /\ Memo = -2 /\ Base = -3
  /\ Values("out") = {44, 48, 96} /\ Values("in") = {44, 48, 96}
  /\ \A b \in Registers \ RatePlugs : Values(b) = {0, 1}
  /\ \A b \in RatePlugs : Values(b) = {44, 48, 96}
BY DEF Registers, RatePlugs, Cells, Remembered, Values, Rates, Memo, Base, Unknown

LEMMA Presets ==
  /\ MacfwPreset["cell1"] = 1 /\ MacfwPreset["cell2"] = 0
  /\ OriginalPreset["cell1"] = 0 /\ OriginalPreset["cell2"] = 1
  /\ MacfwPreset \in [Cells -> {0, 1}] /\ OriginalPreset \in [Cells -> {0, 1}]
BY DEF MacfwPreset, OriginalPreset, Cells

(* Every routine is a sequence of such steps.                               *)
LEMMA RoutinesMade ==
  /\ \A r \in {44, 96} : KickRates(r) \in Seq(Steps) /\ InitRate(r) \in Seq(Steps)
  /\ RestoreBaseline \in Seq(Steps)
  /\ \A keep \in BOOLEAN : ProbeRate(44, keep) \in Seq(Steps)
  /\ HeadphoneTrial \in Seq(Steps)
  /\ Reassert44100 \in Seq(Steps)
  /\ GetSelector \in Seq(Steps) /\ SetSelector(1) \in Seq(Steps)
  /\ GetLevel \in Seq(Steps) /\ SetLevel(1, 0) \in Seq(Steps)
  /\ \A o \in BOOLEAN : WriteMixer(o) \in Seq(Steps)
<1> USE StepsMade, Blocks
<1>1. \A r \in {44, 96} : KickRates(r) \in Seq(Steps)
  BY DEF KickRates
<1>2. \A r \in {44, 96} : InitRate(r) \in Seq(Steps)
  BY DEF InitRate
<1>3. RestoreBaseline \in Seq(Steps) /\ HeadphoneTrial \in Seq(Steps)
  BY DEF RestoreBaseline, HeadphoneTrial
<1>4. \A keep \in BOOLEAN : ProbeRate(44, keep) \in Seq(Steps)
  BY DEF ProbeRate
<1>5. /\ Reassert44100 \in Seq(Steps)
      /\ GetSelector \in Seq(Steps) /\ SetSelector(1) \in Seq(Steps)
      /\ GetLevel \in Seq(Steps) /\ SetLevel(1, 0) \in Seq(Steps)
  BY DEF Reassert44100, GetSelector, SetSelector, GetLevel, SetLevel
<1>6. \A o \in BOOLEAN : WriteMixer(o) \in Seq(Steps)
  BY Presets DEF WriteMixer
<1> QED
  BY <1>1, <1>2, <1>3, <1>4, <1>5, <1>6

LEMMA RouteMade ==
  ASSUME cache \in [Cells -> {0, 1}], initialized \in BOOLEAN,
         NEW c \in Cells, NEW v \in {0, 1}
  PROVE  RouteSteps(c, v) \in Seq(Steps)
<1>1. WriteMixer(FALSE) \in Seq(Steps) /\ <<>> \in Seq(Steps)
      /\ <<Set("route", c, v)>> \in Seq(Steps)
  <2>1. FALSE \in BOOLEAN /\ Set("route", c, v) \in Steps
    BY StepsMade
  <2>2. \A o \in BOOLEAN : WriteMixer(o) \in Seq(Steps)
    BY RoutinesMade
  <2>3. WriteMixer(FALSE) \in Seq(Steps)
    BY <2>2, Zenon
  <2>4. \A x \in Steps : <<x>> \in Seq(Steps)
    OBVIOUS
  <2>5. <<>> \in Seq(Steps)
    OBVIOUS
  <2> QED
    BY <2>1, <2>3, <2>4, <2>5, Zenon
<1>2. PICK p \in Seq(Steps) :
        p = IF initialized THEN <<>> ELSE WriteMixer(FALSE)
  <2>1. CASE initialized
    BY <1>1, <2>1
  <2>2. CASE ~initialized
    BY <1>1, <2>2
  <2> QED
    BY <2>1, <2>2
<1>3. PICK q \in Seq(Steps) :
        q = IF (IF initialized THEN cache ELSE MacfwPreset)[c] = v
            THEN <<>> ELSE <<Set("route", c, v)>>
  <2>1. CASE (IF initialized THEN cache ELSE MacfwPreset)[c] = v
    BY <1>1, <2>1
  <2>2. CASE (IF initialized THEN cache ELSE MacfwPreset)[c] # v
    BY <1>1, <2>2
  <2> QED
    BY <2>1, <2>2
<1>4. p \o q \in Seq(Steps)
  OBVIOUS
<1> QED
  BY <1>2, <1>3, <1>4 DEF RouteSteps

---------------------------------------------------------------------------
(* Typed holds at the start and is kept by every step.                      *)
LEMMA InitTyped == Init => Typed
<1> SUFFICES ASSUME Init PROVE Typed
  OBVIOUS
<1>1. /\ reg \in [Registers -> Rates \cup {0, 1}]
      /\ \A b \in Registers : reg[b] \in Values(b)
  <2>1. PICK r \in {44, 48} :
          reg = [b \in Registers |-> IF b \in RatePlugs THEN r ELSE 0]
    BY DEF Init
  <2> QED
    BY <2>1, Blocks
<1>2. inbox \in Seq(Commands) /\ wire \in Seq(Replies) /\ todo \in Seq(Steps)
  BY DEF Init
<1>3. Link
  <2>1. faults \in 0 .. MaxFaults
    BY FaultsAssumption DEF Init
  <2> QED
    BY <1>1, <1>2, <2>1 DEF Init, Link
<1>4. Routine
  <2>1. calls \in 0 .. MaxCalls
    BY CallsAssumption DEF Init
  <2>2. /\ seen \in [Remembered -> Rates \cup {0, 1, Unknown}]
        /\ \A b \in Remembered : seen[b] \in Values(b) \cup {Unknown}
        /\ cache \in [Cells -> {0, 1}] /\ disputed \subseteq Remembered
    BY DEF Init, Nothing
  <2>3. call = Idle /\ call.name = "idle"
    BY DEF Init, Idle
  <2>4. /\ program \in Programs \cup {"none"} /\ dialect = DialectOf(program)
        /\ ok \in BOOLEAN /\ suspect \in BOOLEAN /\ initialized \in BOOLEAN
        /\ todo = <<>> /\ active = None /\ RunBy(program, call.name)
    BY <2>3 DEF Init, RunBy
  <2> QED
    BY <1>2, <2>1, <2>2, <2>3, <2>4 DEF Routine
<1>5. Waiting
  BY DEF Init, Waiting
<1> QED
  BY <1>3, <1>4, <1>5 DEF Typed

(* The device takes the first command of its inbox: it executes, defers or  *)
(* loses it; what it sends answers that command, and only a CONTROL         *)
(* changes a register.                                                      *)
LEMMA DeviceDoes ==
  ASSUME Link, Device
  PROVE  \E cmd \in Commands :
           /\ cmd = Head(inbox) /\ cmd \in Within(inbox) /\ inbox # <<>>
           /\ inbox' \in {inbox, Tail(inbox)} /\ inbox' \in Seq(Commands)
           /\ Within(inbox') \subseteq Within(inbox)
           /\ \/ reg' = reg
              \/ cmd.type = "control" /\ reg' = [reg EXCEPT ![cmd.block] = cmd.value]
           /\ \/ wire' = wire
              \/ \E r \in Replies :
                   /\ wire' = Append(wire, r) /\ r.block = cmd.block
                   /\ \/ /\ cmd.type = "control" /\ r.value = cmd.value
                         /\ r.type = "accepted" /\ reg' = [reg EXCEPT ![cmd.block] = cmd.value]
                      \/ /\ cmd.type = "control" /\ r.value = cmd.value
                         /\ r.type = "rejected" /\ reg' = reg
                      \/ /\ cmd.type = "control" /\ r.value = cmd.value
                         /\ cmd.block \in RatePlugs
                         /\ r.type = "interim" /\ reg' = reg
                      \/ /\ cmd.type = "status" /\ r.value = reg[cmd.block]
                         /\ r.type = "stable" /\ reg' = reg
           /\ deferred' \in BOOLEAN /\ faults' \in 0 .. MaxFaults
           /\ UNCHANGED <<dialect, active, clean>>
<1>1. inbox # <<>>
  BY DEF Device, Execute, Defer, LoseAnswer
<1> DEFINE cmd == Head(inbox)
<1>2. /\ cmd \in Commands /\ cmd \in Within(inbox)
      /\ Tail(inbox) \in Seq(Commands) /\ Within(Tail(inbox)) \subseteq Within(inbox)
  BY <1>1, WithinTail DEF Link
<1>3. /\ cmd.type \in {"control", "status"} /\ cmd.block \in Registers
      /\ cmd.type = "control" => cmd.value \in Values(cmd.block)
      /\ \A b \in Registers : Values(b) \subseteq Rates \cup {0, 1}
      /\ reg[cmd.block] \in Values(cmd.block)
  BY <1>2, Blocks DEF Commands, Link
<1>4. /\ inbox' \in {inbox, Tail(inbox)} /\ inbox' \in Seq(Commands)
      /\ Within(inbox') \subseteq Within(inbox)
      /\ deferred' \in BOOLEAN /\ UNCHANGED <<dialect, active, clean>>
  BY <1>2 DEF Device, Execute, Defer, LoseAnswer, Link
<1>5. faults' \in 0 .. MaxFaults
  BY FaultsAssumption DEF Device, Execute, Defer, LoseAnswer, Link
<1>6. /\ cmd.type = "control" =>
           \A t \in {"accepted", "rejected"} : Response(t, cmd, cmd.value) \in Replies
      /\ cmd.type = "control" /\ cmd.block \in RatePlugs =>
           Response("interim", cmd, cmd.value) \in Replies
      /\ Response("stable", cmd, reg[cmd.block]) \in Replies
  BY <1>3 DEF Response, Replies
<1>7. /\ \A t, v : /\ Response(t, cmd, v).type = t
                   /\ Response(t, cmd, v).block = cmd.block
                   /\ Response(t, cmd, v).value = v
  BY DEF Response
<1> HIDE DEF cmd
<1>8. \/ reg' = reg
      \/ cmd.type = "control" /\ reg' = [reg EXCEPT ![cmd.block] = cmd.value]
  BY DEF Device, Execute, Defer, LoseAnswer, cmd
<1>9. \/ wire' = wire
      \/ \E r \in Replies :
           /\ wire' = Append(wire, r) /\ r.block = cmd.block
           /\ \/ /\ cmd.type = "control" /\ r.value = cmd.value
                 /\ r.type = "accepted" /\ reg' = [reg EXCEPT ![cmd.block] = cmd.value]
              \/ /\ cmd.type = "control" /\ r.value = cmd.value
                 /\ r.type = "rejected" /\ reg' = reg
              \/ /\ cmd.type = "control" /\ r.value = cmd.value
                 /\ cmd.block \in RatePlugs
                 /\ r.type = "interim" /\ reg' = reg
              \/ /\ cmd.type = "status" /\ r.value = reg[cmd.block]
                 /\ r.type = "stable" /\ reg' = reg
  <2>1. CASE Execute
    <3>1. CASE /\ cmd.type = "control"
               /\ reg' = [reg EXCEPT ![cmd.block] = cmd.value]
               /\ wire' = Append(wire, Response("accepted", cmd, cmd.value))
      BY <3>1, <1>6, <1>7
    <3>2. CASE /\ cmd.type = "control" /\ reg' = reg
               /\ wire' = Append(wire, Response("rejected", cmd, cmd.value))
      BY <3>2, <1>6, <1>7
    <3>3. CASE /\ cmd.type = "status" /\ reg' = reg
               /\ wire' = Append(wire, Response("stable", cmd, reg[cmd.block]))
      BY <3>3, <1>6, <1>7
    <3> QED
      BY <2>1, <3>1, <3>2, <3>3 DEF Execute, Answer, cmd
  <2>2. CASE Defer
    <3>1. /\ cmd.type = "control" /\ cmd.block \in RatePlugs /\ reg' = reg
          /\ wire' = Append(wire, Response("interim", cmd, cmd.value))
      BY <2>2 DEF Defer, Answer, cmd
    <3> QED
      BY <3>1, <1>6, <1>7
  <2>3. CASE LoseAnswer
    BY <2>3 DEF LoseAnswer
  <2> QED
    BY <2>1, <2>2, <2>3 DEF Device
<1>10. cmd = Head(inbox)
  BY DEF cmd
<1> QED
  BY <1>1, <1>2, <1>4, <1>5, <1>8, <1>9, <1>10

LEMMA DeviceTyped ==
  ASSUME Typed, DeviceStep
  PROVE  Typed'
<1>1. Link /\ Device /\ Outside
  BY DEF Typed, DeviceStep
<1>2. PICK cmd \in Commands :
        /\ inbox' \in Seq(Commands)
        /\ \/ reg' = reg
           \/ cmd.type = "control" /\ reg' = [reg EXCEPT ![cmd.block] = cmd.value]
        /\ wire' = wire \/ \E r \in Replies : wire' = Append(wire, r)
        /\ deferred' \in BOOLEAN /\ faults' \in 0 .. MaxFaults
        /\ UNCHANGED <<dialect, active, clean>>
  BY <1>1, DeviceDoes
<1>3. wire' \in Seq(Replies)
  BY <1>2, WithinAppend DEF Typed, Link
<1>4. /\ reg' \in [Registers -> Rates \cup {0, 1}]
      /\ \A b \in Registers : reg'[b] \in Values(b)
  BY <1>2, Blocks DEF Typed, Link, Commands
<1>5. Link'
  BY <1>2, <1>3, <1>4 DEF Typed, Link
<1>6. Routine' /\ Waiting'
  BY <1>1, <1>2 DEF Typed, Routine, Waiting, Outside, Now, Wanted
<1> QED
  BY <1>5, <1>6 DEF Typed

(* A routine that starts from idle.                                         *)
LEMMA StartTyped ==
  ASSUME Typed, NEW n, NEW v, NEW steps \in Seq(Steps),
         n # "idle", RunBy(program, n), Start(Call(n, v), steps)
  PROVE  Typed'
<1>1. calls' \in 0 .. MaxCalls
  BY CallsAssumption DEF Typed, Routine, Start
<1>2. Call(n, v).name = n /\ Call(n, v) # Idle
  BY DEF Idle, Call
<1> QED
  BY <1>1, <1>2 DEF Typed, Link, Routine, Waiting, Start, link

LEMMA BeginTyped ==
  ASSUME Typed, Begin
  PROVE  Typed'
<1> USE DEF RunBy
<1>2. CASE Kick \/ Restore \/ InitDevice
  <2>1. \A r \in {44, 96} :
          KickRates(r) \in Seq(Steps) /\ InitRate(r) \in Seq(Steps)
    BY RoutinesMade
  <2>2. CASE Kick
    <3>1. PICK r \in {44, 96} : Start(Call("kick", r), KickRates(r))
      BY <2>2 DEF Kick
    <3>2. "kick" # "idle" /\ RunBy(program, "kick")
      BY <2>2 DEF Kick
    <3> QED
      BY <2>1, <3>1, <3>2, StartTyped
  <2>3. CASE Restore
    <3>1. Start(Call("restore", 48), RestoreBaseline)
      BY <2>3 DEF Restore
    <3>2. "restore" # "idle" /\ RunBy(program, "restore")
      BY <2>3 DEF Restore
    <3> QED
      BY RoutinesMade, <3>1, <3>2, StartTyped
  <2>4. CASE InitDevice
    BY <2>1, <2>4, StartTyped DEF InitDevice
  <2> QED
    BY <1>2, <2>2, <2>3, <2>4
<1>3. CASE Probe
  <2>1. PICK keep \in BOOLEAN :
          Start(Call(IF keep THEN "rate" ELSE "trial", 44), ProbeRate(44, keep))
    BY <1>3 DEF Probe
  <2>2. /\ (IF keep THEN "rate" ELSE "trial") # "idle"
        /\ RunBy(program, IF keep THEN "rate" ELSE "trial")
    OBVIOUS
  <2> QED
    BY <2>1, <2>2, RoutinesMade, StartTyped
<1>4. CASE Trial \/ Reassert
  <2>1. CASE Trial
    BY <2>1, RoutinesMade, StartTyped DEF Trial
  <2>2. CASE Reassert
    <3>1. Start(Call("reassert", 44), Reassert44100)
      BY <2>2 DEF Reassert
    <3>2. "reassert" # "idle" /\ RunBy(program, "reassert")
      BY <2>2 DEF Reassert
    <3> QED
      BY RoutinesMade, <3>1, <3>2, StartTyped
  <2> QED
    BY <1>4, <2>1, <2>2
<1>5. CASE Selector \/ Level
  BY <1>5, RoutinesMade, StartTyped DEF Selector, Level
<1>6. CASE MixerPreset
  <2>1. PICK o \in BOOLEAN :
          Start(Call("preset", IF o THEN 1 ELSE 0), WriteMixer(o))
    BY <1>6 DEF MixerPreset
  <2>2. WriteMixer(o) \in Seq(Steps)
    BY RoutinesMade
  <2>3. "preset" # "idle" /\ RunBy(program, "preset")
    OBVIOUS
  <2> QED
    BY <2>1, <2>2, <2>3, StartTyped
<1>7. CASE Route
  <2>1. PICK v \in {0, 1} : Start(Call("route", v), RouteSteps("cell1", v))
    BY <1>7 DEF Route
  <2>2. RouteSteps("cell1", v) \in Seq(Steps)
    BY RouteMade, Blocks DEF Typed, Routine
  <2> QED
    BY <2>1, <2>2, StartTyped
<1>8. CASE EditModel
  <2>1. cache' \in [Cells -> {0, 1}]
    BY <1>8, Presets, Blocks DEF EditModel, EditedModel, Typed, Routine
  <2> QED
    BY <1>8, <2>1 DEF EditModel, Typed, Link, Routine, Waiting, link, Now, Wanted
<1>9. CASE Rearm
  <2>1. program' \in Programs \cup {"none"}
    BY <1>9 DEF Rearm, Peers, Programs
  <2> QED
    BY <1>9, <2>1 DEF Rearm, Typed, Link, Routine, Waiting, link, Now, Wanted
<1> QED
  BY <1>2, <1>3, <1>4, <1>5, <1>6, <1>7, <1>8, <1>9 DEF Begin

(* What becomes of a step: of the routine's steps only the first goes, or   *)
(* all.                                                                     *)
LEMMA ConcludeDoes ==
  ASSUME Typed, call # Idle, todo # <<>>, NEW good \in BOOLEAN, Conclude(good)
  PROVE  /\ todo' \in {<<>>, Tail(todo)} /\ todo' \in Seq(Steps)
         /\ ok' \in BOOLEAN /\ initialized' \in BOOLEAN
         /\ suspect' \in BOOLEAN /\ cache' \in [Cells -> {0, 1}]
         /\ UNCHANGED <<program, call, calls, disputed>>
<1>1. Now \in Steps /\ Tail(todo) \in Seq(Steps)
  BY WithinTail DEF Typed, Routine, Now
<1>2. cache' \in [Cells -> {0, 1}]
  <2>1. CASE Now.op = "route"
    <3>1. Now.block \in Cells /\ Now.value \in {0, 1}
      BY <1>1, <2>1, Blocks DEF Steps
    <3> QED
      BY <2>1, <3>1 DEF Conclude, Typed, Routine
  <2>2. CASE Now.op # "route"
    BY <2>2 DEF Conclude, Typed, Routine
  <2> QED
    BY <2>1, <2>2
<1> QED
  BY <1>1, <1>2 DEF Conclude, Typed, Routine

(* What a read returns is a value of its register.                          *)
LEMMA SeenTyped ==
  ASSUME Typed, NEW r \in Replies, active # None, Accepts(active, r),
         Use(r) = "taken", Now.block \in Remembered, Now.type = "status"
  PROVE  r.value \in Values(Now.block)
<1>1. /\ active \in Commands /\ active.block = Now.block
      /\ active.type = "status"
  BY DEF Typed, Link, Waiting
<1>2. dialect # "masked" => r.value \in Values(Now.block)
  <2>1. CASE Now.block \in RatePlugs
    BY <1>1, <2>1 DEF Accepts, Matches, Replies
  <2>2. CASE Now.block = "selector"
    BY <1>1, <2>2, Blocks DEF Accepts, Replies
  <2> QED
    BY <2>1, <2>2, Blocks
<1>3. dialect = "masked" => Matches(active, r)
  BY DEF Use
<1> QED
  BY <1>1, <1>2, <1>3 DEF Matches, Replies

(* The response that ends a transaction, and what it was taken for.         *)
LEMMA ReturnDoes ==
  ASSUME Typed, Return
  PROVE  \E r \in Replies :
           /\ r \in Within(wire) /\ r = Head(wire) /\ wire # <<>>
           /\ active # None /\ call # Idle /\ todo # <<>>
           /\ Use(r) = "taken"
           /\ wire' = Tail(wire) /\ wire' \in Seq(Replies)
           /\ Within(wire') \subseteq Within(wire)
           /\ active' = None /\ clean' = TRUE
           /\ UNCHANGED <<reg, inbox, deferred, dialect, faults>>
           /\ \E good \in BOOLEAN :
                /\ Conclude(good)
                /\ good => Accepts(active, r)
                /\ good /\ Now.type # "control" => Meets(r.value)
           /\ seen' = IF /\ Now.type = "status" /\ Now.value \in {Unknown, Base}
                         /\ Now.block \in Remembered /\ Accepts(active, r)
                      THEN [seen EXCEPT ![Now.block] = r.value] ELSE seen
<1>1. PICK r : /\ Take(r)
               /\ IF Now.type = "control" THEN Conclude(Accepts(active, r))
                  ELSE Conclude(Accepts(active, r) /\ Meets(r.value))
               /\ seen' = IF /\ Now.type = "status"
                             /\ Now.value \in {Unknown, Base}
                             /\ Now.block \in Remembered /\ Accepts(active, r)
                          THEN [seen EXCEPT ![Now.block] = r.value] ELSE seen
  BY DEF Return
<1>2. /\ r \in Within(wire) /\ r \in Replies /\ r = Head(wire)
      /\ wire # <<>> /\ wire' = Tail(wire) /\ wire' \in Seq(Replies)
      /\ Within(wire') \subseteq Within(wire)
  BY <1>1, WithinTail DEF Take, Typed, Link
<1>3. /\ active # None /\ Use(r) = "taken" /\ active' = None /\ clean' = TRUE
      /\ UNCHANGED <<reg, inbox, deferred, dialect, faults>>
  BY <1>1 DEF Take
<1>4. call # Idle /\ todo # <<>>
  BY <1>3 DEF Typed, Waiting
<1>5. /\ Accepts(active, r) \in BOOLEAN
      /\ (Accepts(active, r) /\ Meets(r.value)) \in BOOLEAN
  BY DEF Accepts
<1>6. \E good \in BOOLEAN :
        /\ Conclude(good)
        /\ good => Accepts(active, r)
        /\ good /\ Now.type # "control" => Meets(r.value)
  <2>1. CASE Now.type = "control"
    <3>1. Conclude(Accepts(active, r))
      BY <1>1, <2>1
    <3> QED
      BY <1>5, <2>1, <3>1
  <2>2. CASE Now.type # "control"
    <3>1. Conclude(Accepts(active, r) /\ Meets(r.value))
      BY <1>1, <2>2
    <3> QED
      BY <1>5, <2>2, <3>1
  <2> QED
    BY <2>1, <2>2
<1> QED
  BY <1>1, <1>2, <1>3, <1>4, <1>6

(* The steps of a routine keep the types.                                   *)
LEMMA ProgressTyped ==
  ASSUME Typed, Progress
  PROVE  Typed'
<1>1. /\ todo # <<>> => /\ Now \in Steps /\ Tail(todo) \in Seq(Steps)
      /\ \A x : x \in Remembered => x \in Registers
  BY WithinTail, Blocks DEF Typed, Routine, Now
<1>2. CASE Request
  <2> DEFINE cmd == Command(Now.type, Now.block,
                            IF Now.type = "control" THEN Wanted ELSE Unknown)
  <2>1. Send(cmd) /\ todo # <<>> /\ call # Idle
    BY <1>2 DEF Request
  <2>2. cmd \in Commands
    <3>1. CASE Now.type = "status"
      BY <1>1, <2>1, <3>1 DEF Command, Commands, Steps
    <3>2. CASE Now.type = "control" /\ Wanted # Unknown
      <4>1. Wanted \in Values(Now.block)
        BY <1>1, <2>1, <3>2, Blocks DEF Wanted, Steps, Typed, Routine
      <4>2. Wanted \in Rates \cup {0, 1}
        BY <1>1, <2>1, <4>1, Blocks DEF Steps
      <4> QED
        BY <1>1, <2>1, <3>2, <4>1, <4>2 DEF Command, Commands, Steps
    <3> QED
      BY <1>2, <3>1, <3>2 DEF Request
  <2>3. inbox' \in Seq(Commands)
    BY <2>1, <2>2, WithinAppend DEF Send, Typed, Link
  <2>4. clean' \in BOOLEAN
    BY <2>1 DEF Send, Undisputed
  <2>5. Link'
    BY <2>1, <2>2, <2>3, <2>4 DEF Send, Typed, Link
  <2>6. disputed' \subseteq Remembered
    BY <1>2 DEF Request, Typed, Routine
  <2>7. suspect' \in BOOLEAN
    <3>1. CASE Now.op = "cell" /\ Now.block = "cell1"
      BY <1>2, <3>1 DEF Request
    <3>2. CASE ~(Now.op = "cell" /\ Now.block = "cell1") /\ Now.op \in {"cell", "route"}
      BY <1>2, <3>2, <2>4 DEF Request, Typed, Routine
    <3>3. CASE Now.op \notin {"cell", "route"}
      BY <1>2, <3>3 DEF Request, Typed, Routine
    <3> QED
      BY <3>1, <3>2, <3>3
  <2>8. /\ cmd.type = Now.type /\ cmd.block = Now.block
        /\ cmd.value = IF Now.type = "control" THEN Wanted ELSE Unknown
    BY DEF Command
  <2>9. /\ active' = cmd /\ Now' = Now /\ Wanted' = Wanted
        /\ UNCHANGED <<call, todo>>
    BY <1>2, <2>1 DEF Request, Send, Now, Wanted
  <2>10. Waiting'
    BY <2>1, <2>8, <2>9 DEF Waiting
  <2>11. Routine'
    BY <1>2, <2>1, <2>6, <2>7 DEF Request, Send, Typed, Routine
  <2> QED
    BY <2>5, <2>10, <2>11 DEF Typed
<1>3. CASE Return
  <2>1. PICK r \in Replies :
           /\ active # None /\ call # Idle /\ todo # <<>>
           /\ Use(r) = "taken"
           /\ wire' \in Seq(Replies)
           /\ active' = None /\ clean' = TRUE
           /\ UNCHANGED <<reg, inbox, deferred, dialect, faults>>
           /\ \E good \in BOOLEAN : Conclude(good)
           /\ seen' = IF /\ Now.type = "status" /\ Now.value \in {Unknown, Base}
                         /\ Now.block \in Remembered /\ Accepts(active, r)
                      THEN [seen EXCEPT ![Now.block] = r.value] ELSE seen
    BY <1>3, ReturnDoes
  <2>2. /\ seen' \in [Remembered -> Rates \cup {0, 1, Unknown}]
        /\ \A b \in Remembered : seen'[b] \in Values(b) \cup {Unknown}
    <3>1. CASE seen' = seen
      BY <3>1 DEF Typed, Routine
    <3>2. CASE /\ seen' = [seen EXCEPT ![Now.block] = r.value]
               /\ Now.type = "status" /\ Now.block \in Remembered
               /\ Accepts(active, r)
      <4>1. r.value \in Values(Now.block) /\ r.value \in Rates \cup {0, 1}
        BY <2>1, <3>2, SeenTyped DEF Replies
      <4> QED
        BY <3>2, <4>1 DEF Typed, Routine
    <3> QED
      BY <2>1, <3>1, <3>2
  <2>3. PICK good \in BOOLEAN : Conclude(good)
    BY <2>1
  <2>4. /\ todo' \in Seq(Steps)
        /\ ok' \in BOOLEAN /\ initialized' \in BOOLEAN
        /\ suspect' \in BOOLEAN /\ cache' \in [Cells -> {0, 1}]
        /\ UNCHANGED <<program, call, calls, disputed>>
    BY <2>1, <2>3, ConcludeDoes
  <2> QED
    BY <2>1, <2>2, <2>4 DEF Typed, Link, Routine, Waiting
<1>4. CASE Ignored
  <2>1. wire' \in Seq(Replies)
    BY <1>4, WithinTail DEF Ignored, Pass, Typed, Link
  <2> QED
    BY <1>4, <2>1 DEF Ignored, Pass, Outside, Typed, Link, Routine, Waiting, Now, Wanted
<1>5. CASE TimeOut
  <2>1. /\ active # None /\ Conclude(FALSE) /\ active' = None /\ clean' = TRUE
        /\ UNCHANGED <<reg, inbox, deferred, wire, dialect, seen>>
    BY <1>5 DEF TimeOut, Expire
  <2>4. faults' \in 0 .. MaxFaults
    BY <1>5, FaultsAssumption DEF TimeOut, Expire, Typed, Link
  <2>2. call # Idle /\ todo # <<>>
    BY <2>1 DEF Typed, Waiting
  <2>3. /\ todo' \in Seq(Steps)
        /\ ok' \in BOOLEAN /\ initialized' \in BOOLEAN
        /\ suspect' \in BOOLEAN /\ cache' \in [Cells -> {0, 1}]
        /\ UNCHANGED <<program, call, calls, disputed>>
    BY <2>1, <2>2, ConcludeDoes
  <2> QED
    BY <2>1, <2>2, <2>3, <2>4 DEF Typed, Link, Routine, Waiting
<1>6. CASE WriteFails
  <2>1. /\ active = None /\ call # Idle /\ todo # <<>> /\ Conclude(FALSE)
        /\ UNCHANGED <<reg, inbox, deferred, wire, dialect, active, clean, seen>>
    BY <1>6 DEF WriteFails
  <2>3. faults' \in 0 .. MaxFaults
    BY <1>6, FaultsAssumption DEF WriteFails, Typed, Link
  <2>2. /\ todo' \in Seq(Steps)
        /\ ok' \in BOOLEAN /\ initialized' \in BOOLEAN
        /\ suspect' \in BOOLEAN /\ cache' \in [Cells -> {0, 1}]
        /\ UNCHANGED <<program, call, calls, disputed>>
    BY <2>1, ConcludeDoes
  <2> QED
    BY <2>1, <2>2, <2>3 DEF Typed, Link, Routine, Waiting
<1>7. CASE Local
  <2>1. /\ active = None /\ call # Idle /\ todo # <<>>
        /\ wire' \in {wire, <<>>} /\ todo' \in {<<>>, Tail(todo)}
        /\ cache' \in {cache, OriginalPreset, MacfwPreset}
        /\ initialized' \in {initialized, TRUE}
        /\ UNCHANGED <<reg, inbox, deferred, dialect, active, clean, faults,
                       program, call, ok, seen, disputed, suspect, calls>>
    BY <1>7 DEF Local
  <2>2. /\ wire' \in Seq(Replies) /\ todo' \in Seq(Steps)
    <3>1. <<>> \in Seq(Replies) /\ <<>> \in Seq(Steps)
      OBVIOUS
    <3> QED
      BY <1>1, <2>1, <3>1 DEF Typed, Link
  <2>3. cache' \in [Cells -> {0, 1}] /\ initialized' \in BOOLEAN
    BY <2>1, Presets DEF Typed, Routine
  <2> QED
    BY <2>1, <2>2, <2>3 DEF Typed, Link, Routine, Waiting
<1>8. CASE Finish
  <2>1. /\ seen' \in [Remembered -> Rates \cup {0, 1, Unknown}]
        /\ \A b \in Remembered : seen'[b] \in Values(b) \cup {Unknown}
    BY <1>8 DEF Finish, Nothing
  <2>2. program' \in Programs \cup {"none"}
    BY <1>8 DEF Finish, Typed, Routine
  <2>3. dialect' = DialectOf(program')
    <3>1. CASE program' = program
      BY <1>8, <3>1 DEF Finish, link, Typed, Routine
    <3>2. CASE program' = "none" /\ call.name = "reassert"
      BY <1>8, <3>2 DEF Finish, link, Typed, Routine, RunBy, DialectOf
    <3> QED
      BY <1>8, <3>1, <3>2 DEF Finish
  <2>4. call' = Idle /\ call'.name = "idle" /\ RunBy(program', call'.name)
    BY <1>8 DEF Finish, Idle, RunBy
  <2> QED
    BY <1>8, <2>1, <2>2, <2>3, <2>4 DEF Finish, Typed, Link, Routine, Waiting, link, Idle
<1> QED
  BY <1>2, <1>3, <1>4, <1>5, <1>6, <1>7, <1>8 DEF Progress

---------------------------------------------------------------------------
(* Every step keeps the types.                                              *)
LEMMA TypedStep ==
  ASSUME Typed, [Next]_vars
  PROVE  Typed'
<1>1. CASE ServeIdle
  <2>1. wire' \in Seq(Replies)
    BY <1>1 DEF ServeIdle, Serve
  <2> QED
    BY <1>1, <2>1 DEF ServeIdle, Serve, Outside, Typed, Link, Routine, Waiting,
      Now, Wanted
<1>2. CASE UNCHANGED vars
  BY <1>2 DEF vars, link, Typed, Link, Routine, Waiting, Now, Wanted
<1> QED
  BY <1>1, <1>2, BeginTyped, ProgressTyped, DeviceTyped DEF Next

(* What an undisputed command finds: whatever can be taken for its answer   *)
(* says what its register holds.                                            *)
Own ==
  active # None /\ clean =>
    /\ \A c \in Within(inbox) :
         c.type = "control" /\ c.block = active.block =>
           c.value = IF active.type = "control" THEN active.value
                     ELSE reg[active.block]
    /\ \A r \in Within(wire) :
         Matches(active, r) /\ r.type \in {"accepted", "stable"} =>
           r.value = reg[active.block]
    /\ ~Compared(active) =>
         /\ \A c \in Within(inbox) : c = active
         /\ \A r \in Within(wire) : Matches(active, r) /\ r.type # "interim"

(* The device answers the commands of its inbox as their registers are.     *)
LEMMA DeviceOwn ==
  ASSUME Typed, Own, DeviceStep
  PROVE  Own'
<1> SUFFICES ASSUME active' # None, clean' PROVE Own'
  BY DEF Own
<1>1. PICK cmd \in Commands :
           /\ cmd \in Within(inbox)
           /\ Within(inbox') \subseteq Within(inbox)
           /\ \/ reg' = reg
              \/ cmd.type = "control" /\ reg' = [reg EXCEPT ![cmd.block] = cmd.value]
           /\ \/ wire' = wire
              \/ \E r \in Replies :
                   /\ wire' = Append(wire, r) /\ r.block = cmd.block
                   /\ \/ /\ cmd.type = "control" /\ r.value = cmd.value
                         /\ r.type = "accepted" /\ reg' = [reg EXCEPT ![cmd.block] = cmd.value]
                      \/ /\ cmd.type = "control" /\ r.value = cmd.value
                         /\ r.type = "rejected" /\ reg' = reg
                      \/ /\ cmd.type = "control" /\ r.value = cmd.value
                         /\ cmd.block \in RatePlugs
                         /\ r.type = "interim" /\ reg' = reg
                      \/ /\ cmd.type = "status" /\ r.value = reg[cmd.block]
                         /\ r.type = "stable" /\ reg' = reg
           /\ UNCHANGED <<dialect, active, clean>>
  BY DeviceDoes DEF Typed, DeviceStep
<1>2. /\ active \in Commands /\ active' = active /\ active # None /\ clean
      /\ reg \in [Registers -> Rates \cup {0, 1}]
      /\ dialect' = dialect /\ wire \in Seq(Replies)
  BY <1>1 DEF Typed, Link
<1>3. active.block \in Registers /\ active.type \in {"control", "status"}
      /\ cmd.block \in Registers
  BY <1>2 DEF Commands
<1>4. ASSUME cmd.type = "control", cmd.block = active.block
      PROVE  cmd.value = IF active.type = "control" THEN active.value
                         ELSE reg[active.block]
  BY <1>1, <1>2, <1>4 DEF Own
<1>5. \/ reg'[active.block] = reg[active.block]
      \/ active.type = "control" /\ reg'[active.block] = active.value
  BY <1>1, <1>2, <1>3, <1>4
<1>6. \A c \in Within(inbox') :
         c.type = "control" /\ c.block = active.block =>
           c.value = IF active.type = "control" THEN active.value
                     ELSE reg'[active.block]
  BY <1>1, <1>2, <1>3, <1>5 DEF Own
<1>7. ASSUME NEW r \in Within(wire), Matches(active, r),
             r.type \in {"accepted", "stable"}
      PROVE  r.value = reg'[active.block]
  BY <1>2, <1>3, <1>5, <1>7 DEF Own, Matches
<1>8. CASE wire' = wire
  BY <1>1, <1>2, <1>6, <1>7, <1>8 DEF Own, Compared, Matches
<1>9. ASSUME NEW r \in Replies, wire' = Append(wire, r), r.block = cmd.block,
             \/ /\ cmd.type = "control" /\ r.value = cmd.value
                /\ r.type = "accepted" /\ reg' = [reg EXCEPT ![cmd.block] = cmd.value]
             \/ /\ cmd.type = "control" /\ r.value = cmd.value
                /\ r.type = "rejected" /\ reg' = reg
             \/ /\ cmd.type = "control" /\ r.value = cmd.value
                /\ cmd.block \in RatePlugs
                /\ r.type = "interim" /\ reg' = reg
             \/ /\ cmd.type = "status" /\ r.value = reg[cmd.block]
                /\ r.type = "stable" /\ reg' = reg
      PROVE  Own'
  <2>1. Within(wire') = Within(wire) \cup {r}
    BY <1>2, <1>9, WithinAppend
  <2>2. Matches(active, r) /\ r.type \in {"accepted", "stable"} =>
          r.value = reg'[active.block]
    BY <1>2, <1>3, <1>9 DEF Matches
  <2>3. ASSUME ~Compared(active)
        PROVE  Matches(active, r) /\ r.type # "interim"
    <3>1. cmd = active /\ cmd.block \notin RatePlugs
      BY <1>1, <1>2, <2>3 DEF Own, Compared
    <3> QED
      BY <1>9, <3>1 DEF Matches
  <2> QED
    BY <1>1, <1>2, <1>6, <1>7, <2>1, <2>2, <2>3 DEF Own, Compared, Matches
<1> QED
  BY <1>1, <1>8, <1>9

(* A new command finds only answers that cannot be untrue, or is disputed.  *)
LEMMA RequestOwn ==
  ASSUME Typed, Request
  PROVE  Own'
<1> SUFFICES ASSUME clean' PROVE Own'
  BY DEF Own
<1>0. PICK cmd : cmd = Command(Now.type, Now.block,
                               IF Now.type = "control" THEN Wanted ELSE Unknown)
  OBVIOUS
<1>1. /\ active' = cmd /\ inbox' = Append(inbox, cmd)
      /\ Undisputed(cmd) /\ UNCHANGED <<reg, wire, dialect>>
      /\ cmd.type \in {"control", "status"}
  BY <1>0 DEF Request, Send, Command
<1>2. /\ cmd \in Commands /\ inbox \in Seq(Commands)
  <2>1. Typed'
    BY TypedStep DEF Next, Progress
  <2>2. cmd # None
    BY <1>1 DEF None
  <2> QED
    BY <1>1, <2>1, <2>2 DEF Typed, Link
<1>3. Within(inbox') = Within(inbox) \cup {cmd}
  BY <1>1, <1>2, WithinAppend
<1>4. CASE Compared(cmd)
  <2>1. /\ \A c \in Within(inbox) :
             c.type = "control" /\ c.block = cmd.block =>
               c.value = IF cmd.type = "control" THEN cmd.value
                         ELSE reg[cmd.block]
        /\ \A r \in Within(wire) :
             Matches(cmd, r) /\ r.type \in {"accepted", "stable"} =>
               r.value = reg[cmd.block]
    BY <1>1, <1>4 DEF Undisputed, Within
  <2> QED
    BY <1>1, <1>3, <1>4, <2>1 DEF Own, Compared, Matches
<1>5. CASE ~Compared(cmd)
  <2>1. Within(inbox) = {} /\ Within(wire) = {}
    BY <1>1, <1>5, WithinEmpty DEF Undisputed
  <2> QED
    BY <1>1, <1>3, <1>5, <2>1 DEF Own, Compared, Matches
<1> QED
  BY <1>4, <1>5

(* Every other step leaves the command alone, or none is waited on after it.*)
LEMMA Elsewise ==
  ASSUME Typed, [Next]_vars, ~Request, ~DeviceStep
  PROVE  /\ UNCHANGED <<reg, inbox>>
         /\ \/ active' = None
            \/ /\ UNCHANGED <<active, clean, dialect>>
               /\ Within(wire') \subseteq Within(wire)
<1>1. CASE Begin
  BY <1>1 DEF Begin, Kick, Restore, InitDevice, Probe, Trial, Reassert,
    Selector, Level, MixerPreset, Route, EditModel, Rearm, Start, link, Typed,
    Routine
<1>2. CASE Return
  BY <1>2, ReturnDoes
<1>3. CASE Ignored
  BY <1>3, WithinTail DEF Ignored, Pass, Typed, Link
<1>4. CASE TimeOut \/ WriteFails \/ Local \/ Finish
  BY <1>4 DEF TimeOut, Expire, WriteFails, Local, Finish, link, Typed, Routine
<1>5. CASE ServeIdle
  BY <1>5 DEF ServeIdle, Serve
<1>6. CASE UNCHANGED vars
  BY <1>6 DEF vars, link
<1> QED
  BY <1>1, <1>2, <1>3, <1>4, <1>5, <1>6 DEF Next, Progress

(* Every step keeps it.                                                     *)
LEMMA OwnStep ==
  ASSUME Typed, Own, [Next]_vars
  PROVE  Own'
<1>1. CASE ~Request /\ ~DeviceStep
  BY <1>1, Elsewise DEF Own, Compared, Matches
<1> QED
  BY <1>1, DeviceOwn, RequestOwn

(* What a successful helper tells the routine about an undisputed command:  *)
(* the register holds the answer, and nothing outstanding will change it.   *)
Settled(b, v) ==
  /\ reg[b] = v
  /\ \A c \in Within(inbox) : c.type = "control" /\ c.block = b => c.value = v

(* A true answer to an undisputed command settles its register; an INTERIM  *)
(* to a CONTROL of a rate does not.                                         *)
LEMMA AnswerSettles ==
  ASSUME Typed, Own, NEW r \in Within(wire), active # None, clean,
         Use(r) = "taken", Accepts(active, r)
  PROVE  \/ r.type = "interim" /\ dialect # "masked" /\ active.type = "control"
            /\ active.block \in RatePlugs
         \/ /\ Settled(active.block, r.value)
            /\ active.type = "control" => r.value = active.value
<1>1. /\ r \in Replies /\ active \in Commands
      /\ active.type \in {"control", "status"}
  BY WithinIsTyped DEF Typed, Link, Commands
<1>2. Matches(active, r)
  <2>1. CASE dialect = "masked"
    BY <2>1 DEF Use
  <2>2. CASE dialect # "masked" /\ Compared(active)
    BY <2>2 DEF Accepts, Compared
  <2>3. CASE ~Compared(active)
    BY <2>3 DEF Own
  <2> QED
    BY <2>1, <2>2, <2>3 DEF Compared
<1>3. CASE r.type = "interim"
  <2>1. active.type = "control"
    BY <1>1, <1>3 DEF Accepts
  <2>2. dialect # "masked"
    BY <1>2, <1>3, <2>1 DEF Use
  <2>3. active.block \in RatePlugs
    BY <1>1, <1>2, <1>3 DEF Matches, Replies
  <2> QED
    BY <1>3, <2>1, <2>2, <2>3
<1>4. CASE r.type # "interim"
  <2>1. r.type \in {"accepted", "stable"}
    BY <1>1, <1>4 DEF Accepts, Replies
  <2>2. r.value = reg[active.block]
    BY <1>2, <2>1 DEF Own
  <2>3. active.type = "control" => r.value = active.value
    BY <1>2 DEF Matches
  <2> QED
    BY <2>2, <2>3, <1>1 DEF Own, Settled
<1> QED
  BY <1>3, <1>4

(* Whatever the faults and however many calls: an accepted answer to an     *)
(* undisputed command says what the register of the device holds, and is the *)
(* value a CONTROL asked for (FcpControl::transact and Fw410FcpControl).    *)
THEOREM AnswersAreTrueAlways == Spec => AnswersAreTrue
<1>1. Init => Typed /\ Own
  BY InitTyped DEF Init, Own
<1>2. Typed /\ Own /\ [Next]_vars => (Typed /\ Own)'
  BY TypedStep, OwnStep
<1>3. Typed /\ Own =>
       \A r \in {wire[i] : i \in DOMAIN wire} :
         Return /\ r = Head(wire) /\ Accepts(active, r) /\ clean
         => \/ reg[active.block] = r.value
               /\ (active.type = "control" => r.value = active.value)
            \/ r.type = "interim" /\ dialect # "masked"
  <2> SUFFICES ASSUME Typed, Own, NEW r \in {wire[i] : i \in DOMAIN wire},
                      Return, r = Head(wire), Accepts(active, r), clean
               PROVE  \/ reg[active.block] = r.value
                         /\ (active.type = "control" => r.value = active.value)
                      \/ r.type = "interim" /\ dialect # "masked"
    OBVIOUS
  <2>1. active # None /\ Use(r) = "taken"
    BY DEF Return, Take
  <2> QED
    BY <2>1, AnswerSettles DEF Within, Settled
<1> QED
  BY <1>1, <1>2, <1>3, PTL DEF Spec, AnswersAreTrue

---------------------------------------------------------------------------
(* The registers a routine's PASS is about, and what it says of them.       *)
Names(c, b) ==
  \/ c.name \in {"kick", "restore", "rate", "trial"} /\ b \in RatePlugs
  \/ c.name = "init" /\ b = "in"
  \/ c.name = "headphone" /\ b = "selector"

(* The routines that name their rate; the others restore what they read.    *)
Fixed(c) == \/ c.name \in {"kick", "restore", "rate"}
            \/ c.name = "init" /\ c.value = 44

Aim(c) == IF Fixed(c) THEN c.value ELSE Memo

Goal(b) == IF Fixed(call) THEN call.value ELSE seen[b]

Sends(s) == s.type # "none"

(* The last command for such a register counts, and is answered truly: a    *)
(* STATUS request, or a CONTROL of the engines.                             *)
Decides(c, s) ==
  /\ s.op \in {"must", "should"} /\ s.value = Aim(c)
  /\ s.value \notin {Unknown, Base} /\ (Fixed(c) => s.value # Memo)
  /\ \/ s.type = "status"
     \/ s.type = "control" /\ c.name \in {"kick", "restore"}

(* A step whose register no later step of the routine names.                *)
Last(s, i) ==
  \A j \in DOMAIN s : j > i => ~Sends(s[j]) \/ s[j].block # s[i].block

Decided(c, s) ==
  \A i \in DOMAIN s :
    Sends(s[i]) /\ Names(c, s[i].block) /\ Last(s, i) => Decides(c, s[i])

(* rateprobe leaves early only after it has read both rates.                *)
Probing(c, s) ==
  \A i \in DOMAIN s : s[i].op = "unlessAt" =>
    /\ c.name \in {"rate", "trial"} /\ s[i].value = 44 /\ c.value = 44
    /\ \A j \in DOMAIN s : j < i =>
         s[j] = Read("should", s[j].block) /\ s[j].block \in RatePlugs

(* How the routines that promise something are built.                       *)
Shape(c, s) == Decided(c, s) /\ Probing(c, s)

(* The register has been dealt with: no command for it is left.             *)
Done(b) == \A i \in DOMAIN todo : ~Sends(todo[i]) \/ todo[i].block # b

(* rateprobe has read this rate and has not yet decided to leave.           *)
ReadsDone(b) ==
  \E i \in DOMAIN todo :
    /\ todo[i].op = "unlessAt"
    /\ \A j \in DOMAIN todo : j < i => todo[j].block # b

(* While nothing has failed, the registers dealt with are as promised.      *)
Held ==
  \A b : Names(call, b) /\ ok /\ b \notin disputed /\ Done(b) =>
           Settled(b, Goal(b))

(* And the rates read so far are what the device holds.                     *)
ReadHeld ==
  \A b \in RatePlugs : ok /\ b \notin disputed /\ ReadsDone(b) =>
                         Settled(b, seen[b])

Trusted ==
  active # None /\ active.block \in Remembered /\ active.block \notin disputed
  => clean

Passing == Shape(call, todo) /\ Held /\ ReadHeld /\ Trusted

(* A routine keeps its shape while its steps are taken off.                 *)
LEMMA ShapeTail ==
  ASSUME NEW c, NEW s \in Seq(Steps), s # <<>>, Shape(c, s)
  PROVE  Shape(c, Tail(s))
<1>1. /\ \A i \in DOMAIN Tail(s) : Tail(s)[i] = s[i + 1] /\ i + 1 \in DOMAIN s
      /\ DOMAIN Tail(s) = 1 .. (Len(s) - 1) /\ DOMAIN s = 1 .. Len(s)
      /\ Len(s) \in Nat
  BY TailAt
<1>2. ASSUME NEW i \in DOMAIN Tail(s), Last(Tail(s), i)
      PROVE  Last(s, i + 1)
  <2> SUFFICES ASSUME NEW j \in DOMAIN s, j > i + 1
               PROVE  ~Sends(s[j]) \/ s[j].block # s[i + 1].block
    BY DEF Last
  <2>1. j - 1 \in DOMAIN Tail(s) /\ j - 1 > i
    BY <1>1
  <2>2. Tail(s)[j - 1] = s[j] /\ Tail(s)[i] = s[i + 1]
    BY <1>1, <2>1
  <2> QED
    BY <1>2, <2>1, <2>2 DEF Last
<1>3. Decided(c, Tail(s))
  BY <1>1, <1>2 DEF Shape, Decided
<1>4. Probing(c, Tail(s))
  <2> SUFFICES ASSUME NEW i \in DOMAIN Tail(s), Tail(s)[i].op = "unlessAt"
               PROVE  /\ c.name \in {"rate", "trial"} /\ Tail(s)[i].value = 44
                      /\ c.value = 44
                      /\ \A j \in DOMAIN Tail(s) : j < i =>
                           /\ Tail(s)[j] = Read("should", Tail(s)[j].block)
                           /\ Tail(s)[j].block \in RatePlugs
    BY DEF Probing
  <2>1. i + 1 \in DOMAIN s /\ s[i + 1].op = "unlessAt" /\ Tail(s)[i] = s[i + 1]
    BY <1>1
  <2>2. \A j \in DOMAIN Tail(s) : j < i => j + 1 < i + 1
    BY <1>1
  <2> QED
    BY <1>1, <2>1, <2>2 DEF Shape, Probing
<1> QED
  BY <1>3, <1>4 DEF Shape

LEMMA ShapeEmpty == \A c : Shape(c, <<>>)
BY DEF Shape, Decided, Probing

(* A register stays settled until another command is sent to it.            *)
LEMMA SettledKept ==
  ASSUME Typed, [Next]_vars, NEW b, NEW v, Settled(b, v), b \in Registers,
         Request => Now.block # b \/ Now.type = "status"
  PROVE  Settled(b, v)'
<1>1. CASE DeviceStep
  <2>1. PICK cmd \in Commands :
           /\ cmd \in Within(inbox)
           /\ Within(inbox') \subseteq Within(inbox)
           /\ \/ reg' = reg
              \/ cmd.type = "control" /\ reg' = [reg EXCEPT ![cmd.block] = cmd.value]
    BY <1>1, DeviceDoes DEF Typed, DeviceStep
  <2>2. reg \in [Registers -> Rates \cup {0, 1}]
    BY DEF Typed, Link
  <2> QED
    BY <2>1, <2>2 DEF Settled
<1>2. CASE Request
  <2>1. PICK cmd : cmd = Command(Now.type, Now.block,
                                 IF Now.type = "control" THEN Wanted ELSE Unknown)
    OBVIOUS
  <2>2. /\ active' = cmd /\ inbox' = Append(inbox, cmd)
        /\ UNCHANGED reg
        /\ cmd.type \in {"control", "status"} /\ cmd.type = Now.type
        /\ cmd.block = Now.block
    BY <1>2, <2>1 DEF Request, Send, Command
  <2>3. /\ cmd \in Commands /\ inbox \in Seq(Commands)
    <3>1. Typed'
      BY TypedStep
    <3>2. cmd # None
      BY <2>2 DEF None
    <3> QED
      BY <2>2, <3>1, <3>2 DEF Typed, Link
  <2>4. Within(inbox') = Within(inbox) \cup {cmd}
    BY <2>2, <2>3, WithinAppend
  <2> QED
    BY <1>2, <2>2, <2>4 DEF Settled
<1>3. CASE ~DeviceStep /\ ~Request
  BY <1>3, Elsewise DEF Settled
<1> QED
  BY <1>1, <1>2, <1>3

(* The registers a PASS is about are those the routines keep.               *)
LEMMA NamedAreRemembered ==
  ASSUME NEW c, NEW b, Names(c, b)
  PROVE  b \in Remembered /\ b \in Registers
BY Blocks DEF Names

(* Steps that leave the routine where it is.                                *)
LEMMA QuietPassing ==
  ASSUME Typed, Passing, [Next]_vars, ~Request,
         UNCHANGED <<call, todo, ok, seen, disputed>>,
         active' = None \/ UNCHANGED <<active, clean>>
  PROVE  Passing'
<1>1. Held'
  <2> SUFFICES ASSUME NEW b, Names(call, b), ok, b \notin disputed, Done(b)
               PROVE  Settled(b, Goal(b))'
    BY DEF Held, Done
  <2>1. Settled(b, Goal(b)) /\ b \in Registers
    BY NamedAreRemembered DEF Passing, Held
  <2>2. Goal(b)' = Goal(b)
    BY DEF Goal
  <2> QED
    BY <2>1, <2>2, SettledKept DEF Settled
<1>2. ReadHeld'
  <2> SUFFICES ASSUME NEW b \in RatePlugs, ok, b \notin disputed, ReadsDone(b)
               PROVE  Settled(b, seen[b])'
    BY DEF ReadHeld, ReadsDone
  <2>1. Settled(b, seen[b]) /\ b \in Registers
    BY Blocks DEF Passing, ReadHeld
  <2> QED
    BY <2>1, SettledKept DEF Settled
<1> QED
  BY <1>1, <1>2 DEF Passing, Trusted

(* A command unsettles its own register only, which is not done with.       *)
LEMMA RequestPassing ==
  ASSUME Typed, Passing, Request
  PROVE  Passing'
<1>1. /\ UNCHANGED <<call, todo, ok, seen>> /\ todo # <<>>
      /\ Now.type \in {"control", "status"} /\ active'.block = Now.block
      /\ disputed' = IF clean' THEN disputed \ {Now.block}
                     ELSE disputed \cup ({Now.block} \cap Remembered)
  BY DEF Request, Send, Command
<1>2. /\ todo \in Seq(Steps) /\ Now = todo[1] /\ 1 \in DOMAIN todo
      /\ DOMAIN todo = 1 .. Len(todo) /\ Len(todo) \in Nat /\ Now \in Steps
  BY <1>1, TailAt, WithinTail DEF Typed, Routine, Now
<1>3. [Next]_vars
  BY DEF Next, Progress
<1>4. Held'
  <2> SUFFICES ASSUME NEW b, Names(call, b), ok, b \notin disputed', Done(b)
               PROVE  Settled(b, Goal(b))'
    BY <1>1 DEF Held, Done
  <2>1. Now.block # b
    BY <1>1, <1>2 DEF Done, Sends
  <2>2. b \notin disputed
    BY <1>1, <2>1
  <2>3. Settled(b, Goal(b)) /\ b \in Registers
    BY <2>2, NamedAreRemembered DEF Passing, Held
  <2>4. Goal(b)' = Goal(b)
    BY <1>1 DEF Goal
  <2> QED
    BY <1>3, <2>1, <2>3, <2>4, SettledKept DEF Settled
<1>5. ReadHeld'
  <2> SUFFICES ASSUME NEW b \in RatePlugs, ok, b \notin disputed', ReadsDone(b)
               PROVE  Settled(b, seen[b])'
    BY <1>1 DEF ReadHeld, ReadsDone
  <2>1. Now.block # b
    <3>1. PICK i \in DOMAIN todo :
            /\ todo[i].op = "unlessAt"
            /\ \A j \in DOMAIN todo : j < i => todo[j].block # b
      BY DEF ReadsDone
    <3>2. i # 1
      BY <1>1, <1>2, <3>1 DEF Steps
    <3> QED
      BY <1>2, <3>1, <3>2
  <2>2. b \notin disputed
    BY <1>1, <2>1
  <2>3. Settled(b, seen[b]) /\ b \in Registers
    BY <2>2, Blocks DEF Passing, ReadHeld
  <2> QED
    BY <1>1, <1>3, <2>1, <2>3, SettledKept DEF Settled
<1>6. Trusted'
  BY <1>1, Blocks DEF Trusted
<1>7. Shape(call', todo')
  BY <1>1 DEF Passing
<1> QED
  BY <1>4, <1>5, <1>6, <1>7 DEF Passing

(* What is left of a routine once its first step is gone.                   *)
LEMMA DoneTail ==
  ASSUME todo \in Seq(Steps), todo # <<>>, todo' = Tail(todo), NEW b, Done(b)'
  PROVE  \/ Done(b)
         \/ Sends(Now) /\ Now.block = b /\ Last(todo, 1)
<1>1. /\ \A i \in DOMAIN Tail(todo) : Tail(todo)[i] = todo[i + 1]
      /\ DOMAIN Tail(todo) = 1 .. (Len(todo) - 1) /\ DOMAIN todo = 1 .. Len(todo)
      /\ Len(todo) \in Nat /\ Now = todo[1]
  BY TailAt DEF Now
<1>2. \A j \in DOMAIN todo : j > 1 => ~Sends(todo[j]) \/ todo[j].block # b
  <2> SUFFICES ASSUME NEW j \in DOMAIN todo, j > 1
               PROVE  ~Sends(todo[j]) \/ todo[j].block # b
    OBVIOUS
  <2>1. j - 1 \in DOMAIN Tail(todo) /\ Tail(todo)[j - 1] = todo[j]
    BY <1>1
  <2> QED
    BY <2>1 DEF Done
<1>3. CASE Sends(Now) /\ Now.block = b
  BY <1>1, <1>2, <1>3 DEF Last
<1>4. CASE ~(Sends(Now) /\ Now.block = b)
  <2>1. \A j \in DOMAIN todo : j = 1 \/ j > 1
    BY <1>1
  <2> QED
    BY <1>1, <1>2, <1>4, <2>1 DEF Done
<1> QED
  BY <1>3, <1>4

LEMMA ReadsDoneTail ==
  ASSUME todo \in Seq(Steps), todo # <<>>, todo' = Tail(todo), NEW b,
         Probing(call, todo), ReadsDone(b)'
  PROVE  /\ Now = Read("should", Now.block) /\ Now.block \in RatePlugs
         /\ ReadsDone(b) \/ Now.block = b
<1>1. /\ \A i \in DOMAIN Tail(todo) : Tail(todo)[i] = todo[i + 1] /\ i + 1 \in DOMAIN todo
      /\ DOMAIN Tail(todo) = 1 .. (Len(todo) - 1) /\ DOMAIN todo = 1 .. Len(todo)
      /\ Len(todo) \in Nat /\ Now = todo[1] /\ 1 \in DOMAIN todo
  BY TailAt DEF Now
<1>2. PICK i \in DOMAIN Tail(todo) :
        /\ Tail(todo)[i].op = "unlessAt"
        /\ \A j \in DOMAIN Tail(todo) : j < i => Tail(todo)[j].block # b
  BY DEF ReadsDone
<1>3. i + 1 \in DOMAIN todo /\ todo[i + 1].op = "unlessAt" /\ 1 < i + 1
  BY <1>1, <1>2
<1>4. Now = Read("should", Now.block) /\ Now.block \in RatePlugs
  BY <1>1, <1>3 DEF Probing
<1>5. ASSUME Now.block # b PROVE ReadsDone(b)
  <2>1. ASSUME NEW j \in DOMAIN todo, j < i + 1 PROVE todo[j].block # b
    <3>1. CASE j = 1
      BY <1>1, <1>5, <3>1
    <3>2. CASE j > 1
      <4>1. j - 1 \in DOMAIN Tail(todo) /\ j - 1 < i /\ Tail(todo)[j - 1] = todo[j]
        BY <1>1, <1>2, <2>1, <3>2
      <4> QED
        BY <1>2, <4>1
    <3> QED
      BY <1>1, <3>1, <3>2
  <2> QED
    BY <1>3, <2>1 DEF ReadsDone
<1> QED
  BY <1>4, <1>5

(* The outcome of a step: a failure clears the result or does not matter.   *)
LEMMA ConcludePassing ==
  ASSUME Typed, Passing, [Next]_vars, ~Request, call # Idle, todo # <<>>,
         Now.type \in {"control", "status"}, active' = None,
         NEW good \in BOOLEAN, Conclude(good),
         \A b \in Remembered : b # Now.block => seen'[b] = seen[b],
         good /\ Now.block \notin disputed /\ Names(call, Now.block)
           /\ Decides(call, Now) =>
             Settled(Now.block, Goal(Now.block)) /\ seen' = seen,
         good /\ Now.block \notin disputed /\ Now.block \in RatePlugs
           /\ Now = Read("should", Now.block) =>
             Settled(Now.block, seen'[Now.block])
  PROVE  Passing'
<1>1. /\ todo \in Seq(Steps) /\ Now \in Steps
      /\ UNCHANGED <<call, disputed>>
      /\ todo' \in {<<>>, Tail(todo)}
  BY WithinTail, ConcludeDoes DEF Typed, Routine, Now
<1>2. todo # <<>> /\ 1 \in DOMAIN todo /\ Now = todo[1]
  BY <1>1, TailAt DEF Now
<1>3. ASSUME ok'
      PROVE  ok /\ todo' = Tail(todo) /\ (good \/ Now.op = "may")
  BY <1>3 DEF Conclude
<1>4. Shape(call', todo')
  BY <1>1, ShapeTail, ShapeEmpty DEF Passing
<1>5. Held'
  <2> SUFFICES ASSUME NEW b, Names(call, b), ok', b \notin disputed, Done(b)'
               PROVE  Settled(b, Goal(b))'
    BY <1>1 DEF Held
  <2>1. b \in Registers /\ b \in Remembered
    BY NamedAreRemembered
  <2>2. Settled(b, Goal(b)) /\ Goal(b)' = Goal(b)
    <3>1. CASE Sends(Now) /\ Now.block = b /\ Last(todo, 1)
      <4>1. Decides(call, Now)
        BY <1>2, <3>1 DEF Passing, Shape, Decided
      <4>2. good
        BY <1>3, <4>1 DEF Decides
      <4> QED
        BY <1>1, <3>1, <4>1, <4>2 DEF Goal
    <3>2. CASE Done(b)
      <4>1. Now.block # b
        BY <1>2, <3>2 DEF Done, Sends
      <4> QED
        BY <1>1, <1>3, <2>1, <3>2, <4>1 DEF Goal, Passing, Held
    <3> QED
      BY <1>1, <1>3, <3>1, <3>2, DoneTail
  <2> QED
    BY <2>1, <2>2, SettledKept DEF Settled
<1>6. ReadHeld'
  <2> SUFFICES ASSUME NEW b \in RatePlugs, ok', b \notin disputed, ReadsDone(b)'
               PROVE  Settled(b, seen[b])'
    BY <1>1 DEF ReadHeld
  <2>1. b \in Registers /\ b \in Remembered
    BY Blocks
  <2>2. /\ Now = Read("should", Now.block) /\ Now.block \in RatePlugs
        /\ ReadsDone(b) \/ Now.block = b
    BY <1>1, <1>3, ReadsDoneTail DEF Passing, Shape
  <2>3. good
    <3>1. Now.op = "should"
      BY <2>2 DEF Read, Step
    <3> QED
      BY <1>3, <3>1
  <2>4. Settled(b, seen'[b])
    <3>1. CASE Now.block = b
      BY <2>2, <2>3, <3>1
    <3>2. CASE Now.block # b
      BY <1>3, <2>1, <2>2, <3>2 DEF Passing, ReadHeld
    <3> QED
      BY <3>1, <3>2
  <2> QED
    BY <2>1, <2>4, SettledKept DEF Settled
<1> QED
  BY <1>4, <1>5, <1>6 DEF Passing, Trusted

(* A command that timed out or could not be written has failed.             *)
LEMMA FailPassing ==
  ASSUME Typed, Passing, TimeOut \/ WriteFails
  PROVE  Passing'
<1>1. /\ call # Idle /\ todo # <<>> /\ active' = None
      /\ Conclude(FALSE) /\ seen' = seen
  BY DEF TimeOut, WriteFails, Expire, Typed, Waiting
<1>2. Now.type \in {"control", "status"}
  BY DEF TimeOut, WriteFails, Expire, Typed, Waiting, Link, Commands
<1>3. ~Request /\ [Next]_vars
  <2>1. ~Request
    BY <1>1 DEF Request, Send, Command, None
  <2> QED
    BY <2>1 DEF Next, Progress
<1> QED
  BY <1>1, <1>2, <1>3, ConcludePassing

(* An answer settles the register, unless it was disputed.                  *)
LEMMA ReturnPassing ==
  ASSUME Typed, Own, Passing, Return
  PROVE  Passing'
<1>1. PICK r \in Replies :
           /\ r \in Within(wire)
           /\ active # None /\ call # Idle /\ todo # <<>>
           /\ Use(r) = "taken" /\ active' = None
           /\ \E good \in BOOLEAN :
                /\ Conclude(good)
                /\ good => Accepts(active, r)
                /\ good /\ Now.type # "control" => Meets(r.value)
           /\ seen' = IF /\ Now.type = "status" /\ Now.value \in {Unknown, Base}
                         /\ Now.block \in Remembered /\ Accepts(active, r)
                      THEN [seen EXCEPT ![Now.block] = r.value] ELSE seen
  BY ReturnDoes
<1>2. PICK good \in BOOLEAN :
        /\ Conclude(good)
        /\ good => Accepts(active, r)
        /\ good /\ Now.type # "control" => Meets(r.value)
  BY <1>1
<1>3. /\ active.block = Now.block /\ active.type = Now.type
      /\ active.type \in {"control", "status"}
      /\ Now.type = "control" => active.value = Wanted
      /\ seen \in [Remembered -> Rates \cup {0, 1, Unknown}]
  BY <1>1 DEF Typed, Waiting, Link, Commands, Routine
<1>4. ~Request /\ [Next]_vars
  <2>1. ~Request
    BY <1>1 DEF Request, Send
  <2> QED
    BY <2>1 DEF Next, Progress
<1>5. ASSUME good, Now.block \notin disputed, Now.block \in Remembered,
             Now.type = "status" \/ dialect = "masked"
      PROVE  /\ Settled(Now.block, r.value)
             /\ Now.type = "control" => r.value = Wanted
  <2>1. clean /\ Accepts(active, r)
    BY <1>1, <1>2, <1>3, <1>5 DEF Passing, Trusted
  <2> QED
    BY <1>1, <1>3, <1>5, <2>1, AnswerSettles
<1>6. \A b \in Remembered : b # Now.block => seen'[b] = seen[b]
  BY <1>1, <1>3
<1>7. ASSUME good, Now.block \notin disputed, Names(call, Now.block),
             Decides(call, Now)
      PROVE  Settled(Now.block, Goal(Now.block)) /\ seen' = seen
  <2>1. Now.block \in Remembered
    BY <1>7, NamedAreRemembered
  <2>2. Now.type = "status" \/ dialect = "masked"
    BY <1>7 DEF Decides, Typed, Routine, RunBy, DialectOf
  <2>3. seen' = seen
    BY <1>1, <1>7 DEF Decides
  <2>4. r.value = Wanted
    <3>1. CASE Now.type = "control"
      BY <1>5, <1>7, <2>1, <2>2, <3>1
    <3>2. CASE Now.type = "status"
      BY <1>2, <1>7, <3>2 DEF Meets, Decides
    <3> QED
      BY <1>3, <3>1, <3>2
  <2>5. Wanted = Goal(Now.block)
    BY <1>7 DEF Wanted, Goal, Decides, Aim
  <2> QED
    BY <1>5, <1>7, <2>1, <2>2, <2>3, <2>4, <2>5
<1>8. ASSUME good, Now.block \notin disputed, Now.block \in RatePlugs,
             Now = Read("should", Now.block)
      PROVE  Settled(Now.block, seen'[Now.block])
  <2>1. Now.block \in Remembered /\ Now.type = "status" /\ Now.value = Unknown
    BY <1>8, Blocks DEF Read, Step
  <2>2. seen'[Now.block] = r.value
    BY <1>1, <1>2, <1>3, <1>8, <2>1
  <2> QED
    BY <1>5, <1>8, <2>1, <2>2
<1> QED
  BY <1>1, <1>2, <1>3, <1>4, <1>6, <1>7, <1>8, ConcludePassing

(* The steps that send nothing, rateprobe's early return among them.        *)
LEMMA LocalPassing ==
  ASSUME Typed, Passing, Local
  PROVE  Passing'
<1>1. /\ call # Idle /\ active = None /\ todo # <<>> /\ Now.type = "none"
      /\ UNCHANGED <<reg, inbox, active, clean, call, ok, seen, disputed>>
      /\ \/ todo' = Tail(todo)
         \/ /\ todo' = <<>> /\ Now.op = "unlessAt" /\ ok
            /\ \A b \in RatePlugs : seen[b] = Now.value
  BY DEF Local
<1>2. /\ todo \in Seq(Steps) /\ 1 \in DOMAIN todo /\ Now = todo[1]
      /\ DOMAIN todo = 1 .. Len(todo) /\ Len(todo) \in Nat
  BY <1>1, TailAt DEF Now, Typed, Routine
<1>3. ~Request /\ [Next]_vars
  BY <1>1 DEF Request, Next, Progress
<1>4. Shape(call', todo')
  BY <1>1, <1>2, ShapeTail, ShapeEmpty DEF Passing
<1>5. Held'
  <2> SUFFICES ASSUME NEW b, Names(call, b), ok, b \notin disputed, Done(b)'
               PROVE  Settled(b, Goal(b))
    BY <1>1 DEF Held, Settled, Goal
  <2>1. CASE todo' = Tail(todo)
    <3>1. Done(b)
      BY <1>1, <1>2, <2>1, DoneTail DEF Sends
    <3> QED
      BY <3>1 DEF Passing, Held
  <2>2. CASE /\ Now.op = "unlessAt"
             /\ \A x \in RatePlugs : seen[x] = Now.value
    <3>1. /\ call.name \in {"rate", "trial"} /\ Now.value = 44 /\ call.value = 44
      BY <1>2, <2>2 DEF Passing, Shape, Probing
    <3>2. b \in RatePlugs
      BY <3>1 DEF Names
    <3>3. ReadsDone(b)
      BY <1>2, <2>2 DEF ReadsDone
    <3>4. Settled(b, seen[b])
      BY <3>2, <3>3 DEF Passing, ReadHeld
    <3> QED
      BY <2>2, <3>1, <3>2, <3>4 DEF Goal, Fixed
  <2> QED
    BY <1>1, <2>1, <2>2
<1>6. ReadHeld'
  <2> SUFFICES ASSUME NEW b \in RatePlugs, ReadsDone(b)'
               PROVE  FALSE
    BY <1>1 DEF ReadHeld
  <2>1. todo' # <<>>
    BY DEF ReadsDone
  <2>2. Now = Read("should", Now.block)
    BY <1>1, <1>2, <2>1, ReadsDoneTail DEF Passing, Shape
  <2> QED
    BY <1>1, <2>2 DEF Read, Step
<1> QED
  BY <1>1, <1>4, <1>5, <1>6 DEF Passing, Trusted

---------------------------------------------------------------------------
(* The routine has a command for every register its PASS is about.          *)
Covered(c, s) ==
  \A b : Names(c, b) => \E i \in DOMAIN s : Sends(s[i]) /\ s[i].block = b

(* Both rates are read before the step that may leave.                      *)
Unread(s) ==
  \A b \in RatePlugs, i \in DOMAIN s : s[i].op = "unlessAt" =>
    \E j \in DOMAIN s : j < i /\ s[j].block = b

(* There is no such step.                                                   *)
Straight(s) == \A i \in DOMAIN s : s[i].op # "unlessAt"

(* What a routine must be made of when it starts.                           *)
LEMMA StartPassing ==
  ASSUME Typed, Passing, NEW c, NEW steps, Start(c, steps),
         Shape(c, steps), Covered(c, steps), Unread(steps)
  PROVE  Passing'
<1>1. call' = c /\ todo' = steps /\ active' = None
  BY DEF Start, Typed, Routine, link
<1>2. Held'
  <2> SUFFICES ASSUME NEW b, Names(c, b), Done(b)' PROVE FALSE
    BY <1>1 DEF Held
  <2> QED
    BY <1>1 DEF Covered, Done
<1>3. ReadHeld'
  <2> SUFFICES ASSUME NEW b \in RatePlugs, ReadsDone(b)' PROVE FALSE
    BY DEF ReadHeld
  <2> QED
    BY <1>1 DEF ReadsDone, Unread
<1> QED
  BY <1>1, <1>2, <1>3 DEF Passing, Trusted

(* A routine whose PASS is about no register.                               *)
LEMMA UnnamedStart ==
  ASSUME Typed, Passing, NEW n, NEW v, NEW steps, Start(Call(n, v), steps),
         n \notin {"kick", "restore", "rate", "trial", "init", "headphone"},
         Straight(steps)
  PROVE  Passing'
<1>1. \A b : ~Names(Call(n, v), b)
  BY DEF Names, Call
<1> QED
  BY <1>1, StartPassing DEF Straight, Unread, Covered, Shape, Decided, Probing

(* A routine that ends on two such commands decides its rates by them.      *)
LEMMA TwoLast ==
  ASSUME NEW c, NEW s, NEW m \in DOMAIN s, NEW n \in DOMAIN s,
         \A j \in DOMAIN s : m > j \/ j = m \/ j = n,
         \A j \in DOMAIN s : n > j \/ j = n,
         \A b : Names(c, b) => b \in {"out", "in"},
         s[m].block = "out", s[n].block = "in",
         Decides(c, s[m]), Decides(c, s[n])
  PROVE  Decided(c, s) /\ Covered(c, s)
<1>1. Sends(s[n]) /\ Sends(s[m])
  BY DEF Decides, Sends
<1>2. Covered(c, s)
  BY <1>1 DEF Covered
<1>3. ASSUME NEW i \in DOMAIN s, Sends(s[i]), Names(c, s[i].block), Last(s, i)
      PROVE  Decides(c, s[i])
  <2>1. CASE s[i].block = "out"
    <3>1. ~(m > i)
      BY <1>1, <1>3, <2>1 DEF Last
    <3> QED
      BY <3>1
  <2>2. CASE s[i].block = "in"
    <3>1. ~(n > i)
      BY <1>1, <1>3, <2>2 DEF Last
    <3> QED
      BY <3>1
  <2> QED
    BY <1>3, <2>1, <2>2
<1> QED
  BY <1>2, <1>3 DEF Decided

(* A routine about one register that ends on such a command.                *)
LEMMA OneLast ==
  ASSUME NEW c, NEW s, NEW n \in DOMAIN s,
         \A j \in DOMAIN s : n > j \/ j = n,
         \A b : Names(c, b) => b = s[n].block,
         Decides(c, s[n])
  PROVE  Decided(c, s) /\ Covered(c, s)
<1>1. Sends(s[n])
  BY DEF Decides, Sends
<1>2. Covered(c, s)
  BY <1>1 DEF Covered
<1>3. ASSUME NEW i \in DOMAIN s, Sends(s[i]), Names(c, s[i].block), Last(s, i)
      PROVE  Decides(c, s[i])
  <2>1. ~(n > i)
    BY <1>1, <1>3 DEF Last
  <2> QED
    BY <2>1
<1> QED
  BY <1>2, <1>3 DEF Decided

(* The fields of the steps and the calls.                                   *)
LEMMA Parts ==
  /\ \A n, v : Call(n, v).name = n /\ Call(n, v).value = v
  /\ \A op, b, v : /\ Set(op, b, v).op = op /\ Set(op, b, v).block = b
                   /\ Set(op, b, v).value = v /\ Set(op, b, v).type = "control"
                   /\ Expect(op, b, v).op = op /\ Expect(op, b, v).block = b
                   /\ Expect(op, b, v).value = v
                   /\ Expect(op, b, v).type = "status"
  /\ \A op, b : /\ Read(op, b).op = op /\ Read(op, b).block = b
                /\ Read(op, b).type = "status"
  /\ Settle.op = "settle"
  /\ \A v : UnlessAt(v).op = "unlessAt" /\ UnlessAt(v).value = v
            /\ UnlessAt(v).type = "none"
  /\ \A o : Adopt(o).op = "adopt"
BY DEF Call, Set, Expect, Read, Settle, UnlessAt, Adopt, Step

(* A readback that must match decides its register.                         *)
LEMMA ExpectDecides ==
  ASSUME NEW c, NEW op \in {"must", "should"}, NEW b, NEW v,
         v = Aim(c), v \notin {Unknown, Base}, Fixed(c) => v # Memo
  PROVE  Decides(c, Expect(op, b, v))
<1>1. PICK s : s = Expect(op, b, v)
  OBVIOUS
<1>2. s.op = op /\ s.value = v /\ s.type = "status"
  BY <1>1 DEF Expect, Step
<1>3. Decides(c, s)
  BY <1>2 DEF Decides
<1> QED
  BY <1>1, <1>3

(* What each call aims at.                                                  *)
LEMMA Aims ==
  /\ \A v : /\ Fixed(Call("kick", v)) /\ Fixed(Call("restore", v))
           /\ Fixed(Call("rate", v))
           /\ ~Fixed(Call("trial", v)) /\ ~Fixed(Call("headphone", v))
  /\ Fixed(Call("init", 44)) /\ ~Fixed(Call("init", 96))
  /\ Memo \notin {Unknown, Base}
  /\ \A r \in {44, 48, 96} : r \notin {Unknown, Base, Memo}
<1>1. \A v : /\ Fixed(Call("kick", v)) /\ Fixed(Call("restore", v))
            /\ Fixed(Call("rate", v))
  BY Parts DEF Fixed
<1>2. \A v : ~Fixed(Call("trial", v)) /\ ~Fixed(Call("headphone", v))
  BY Parts DEF Fixed
<1>3. Fixed(Call("init", 44)) /\ ~Fixed(Call("init", 96))
  BY Parts DEF Fixed
<1> QED
  BY <1>1, <1>2, <1>3 DEF Memo, Unknown, Base

(* The routines one by one: startOnce's kick.                               *)
LEMMA KickShape ==
  ASSUME NEW r \in {44, 96}
  PROVE  /\ Shape(Call("kick", r), KickRates(r))
         /\ Covered(Call("kick", r), KickRates(r)) /\ Straight(KickRates(r))
<1>1. /\ DOMAIN KickRates(r) = 1 .. 2
      /\ KickRates(r)[1] = Set("must", "out", r)
      /\ KickRates(r)[2] = Set("must", "in", r)
  BY DEF KickRates
<1>2. Straight(KickRates(r))
  BY <1>1, Parts DEF Straight
<1>3. \A b : Names(Call("kick", r), b) => b \in {"out", "in"}
  BY Parts, Blocks DEF Names
<1>4. /\ Decides(Call("kick", r), KickRates(r)[1])
      /\ Decides(Call("kick", r), KickRates(r)[2])
  BY <1>1, Parts, Aims, Blocks DEF Decides, Aim
<1>5. KickRates(r)[1].block = "out" /\ KickRates(r)[2].block = "in"
  BY <1>1, Parts
<1>6. Decided(Call("kick", r), KickRates(r)) /\ Covered(Call("kick", r), KickRates(r))
  <2>1. PICK c, s : c = Call("kick", r) /\ s = KickRates(r)
    OBVIOUS
  <2>2. /\ 1 \in DOMAIN s /\ 2 \in DOMAIN s
        /\ \A j \in DOMAIN s : 1 > j \/ j = 1 \/ j = 2
        /\ \A j \in DOMAIN s : 2 > j \/ j = 2
        /\ s[1].block = "out" /\ s[2].block = "in"
        /\ \A b : Names(c, b) => b \in {"out", "in"}
        /\ Decides(c, s[1]) /\ Decides(c, s[2])
    BY <1>1, <1>3, <1>4, <1>5, <2>1
  <2>3. Decided(c, s) /\ Covered(c, s)
    BY <2>2, TwoLast
  <2> QED
    BY <2>1, <2>3
<1> QED
  BY <1>2, <1>6 DEF Shape, Probing, Straight

(* The engines' restore: OUTPUT rests on the CONTROL, INPUT on the readback. *)
LEMMA RestoreShape ==
  /\ Shape(Call("restore", 48), RestoreBaseline)
  /\ Covered(Call("restore", 48), RestoreBaseline) /\ Straight(RestoreBaseline)
<1>1. PICK c : c = Call("restore", 48)
  OBVIOUS
<1>2. /\ DOMAIN RestoreBaseline = 1 .. 3
      /\ RestoreBaseline[1] = Set("should", "out", 48)
      /\ RestoreBaseline[2] = Set("should", "in", 48)
      /\ RestoreBaseline[3] = Expect("should", "in", 48)
  BY DEF RestoreBaseline
<1>3. Straight(RestoreBaseline)
  BY <1>2, Parts DEF Straight
<1>4. \A b : Names(c, b) => b \in {"out", "in"}
  BY <1>1, Parts, Blocks DEF Names
<1>5. Decides(c, RestoreBaseline[1]) /\ Decides(c, RestoreBaseline[3])
  BY <1>1, <1>2, Parts, Aims, Blocks DEF Decides, Aim
<1>6. ~Last(RestoreBaseline, 2)
  BY <1>2, Parts DEF Last, Sends
<1>7. Decided(c, RestoreBaseline)
  BY <1>2, <1>5, <1>6 DEF Decided
<1>8. Covered(c, RestoreBaseline)
  BY <1>2, <1>4, Parts DEF Covered, Sends
<1> QED
  BY <1>1, <1>3, <1>7, <1>8 DEF Shape, Probing, Straight

(* fw1814init, at a rate that stays and at one that is taken back.          *)
LEMMA InitShape ==
  ASSUME NEW r \in {44, 96}
  PROVE  /\ Shape(Call("init", r), InitRate(r))
         /\ Covered(Call("init", r), InitRate(r)) /\ Straight(InitRate(r))
<1>1. PICK c : c = Call("init", r)
  OBVIOUS
<1>2. \A b : Names(c, b) => b = "in"
  BY <1>1, Parts DEF Names
<1>3. CASE r = 44
  <2>1. /\ DOMAIN InitRate(r) = 1 .. 4
        /\ InitRate(r)[1] = Set("must", "clock", 1)
        /\ InitRate(r)[2] = Set("should", "out", r)
        /\ InitRate(r)[3] = Set("should", "in", r)
        /\ InitRate(r)[4] = Expect("should", "in", r)
    BY <1>3 DEF InitRate
  <2>2. Straight(InitRate(r))
    BY <2>1, Parts DEF Straight
  <2>3. Decides(c, InitRate(r)[4]) /\ InitRate(r)[4].block = "in"
    BY <1>1, <1>3, <2>1, Parts, Aims, ExpectDecides DEF Aim
  <2>4. Decided(c, InitRate(r)) /\ Covered(c, InitRate(r))
    <3>1. PICK s : s = InitRate(r)
      OBVIOUS
    <3>2. /\ 4 \in DOMAIN s /\ \A j \in DOMAIN s : 4 > j \/ j = 4
          /\ Decides(c, s[4]) /\ \A b : Names(c, b) => b = s[4].block
      BY <1>2, <2>1, <2>3, <3>1
    <3>3. Decided(c, s) /\ Covered(c, s)
      BY <3>2, OneLast
    <3> QED
      BY <3>1, <3>3
  <2> QED
    BY <1>1, <2>2, <2>4 DEF Shape, Probing, Straight
<1>4. CASE r = 96
  <2>1. /\ DOMAIN InitRate(r) = 1 .. 8
        /\ InitRate(r)[1] = Expect("must", "in", Base)
        /\ InitRate(r)[2] = Set("must", "clock", 1)
        /\ InitRate(r)[3] = Set("should", "out", r)
        /\ InitRate(r)[4] = Set("should", "in", r)
        /\ InitRate(r)[5] = Expect("should", "in", r)
        /\ InitRate(r)[6] = Set("should", "out", Memo)
        /\ InitRate(r)[7] = Set("should", "in", Memo)
        /\ InitRate(r)[8] = Expect("should", "in", Memo)
    BY <1>4 DEF InitRate
  <2>2. Straight(InitRate(r))
    BY <2>1, Parts DEF Straight
  <2>3. Decides(c, InitRate(r)[8]) /\ InitRate(r)[8].block = "in"
    BY <1>1, <1>4, <2>1, Parts, Aims, ExpectDecides DEF Aim
  <2>4. Decided(c, InitRate(r)) /\ Covered(c, InitRate(r))
    <3>1. PICK s : s = InitRate(r)
      OBVIOUS
    <3>2. /\ 8 \in DOMAIN s /\ \A j \in DOMAIN s : 8 > j \/ j = 8
          /\ Decides(c, s[8]) /\ \A b : Names(c, b) => b = s[8].block
      BY <1>2, <2>1, <2>3, <3>1
    <3>3. Decided(c, s) /\ Covered(c, s)
      BY <3>2, OneLast
    <3> QED
      BY <3>1, <3>3
  <2> QED
    BY <1>1, <2>2, <2>4 DEF Shape, Probing, Straight
<1> QED
  BY <1>3, <1>4

(* headphoneprobe.                                                          *)
LEMMA TrialShape ==
  /\ Shape(Call("headphone", 0), HeadphoneTrial)
  /\ Covered(Call("headphone", 0), HeadphoneTrial) /\ Straight(HeadphoneTrial)
<1>1. PICK c : c = Call("headphone", 0)
  OBVIOUS
<1>2. \A b : Names(c, b) => b = "selector"
  BY <1>1, Parts DEF Names
<1>3. /\ DOMAIN HeadphoneTrial = 1 .. 6
      /\ HeadphoneTrial[1] = Read("must", "selector")
      /\ HeadphoneTrial[2] = Set("must", "selector", 1)
      /\ HeadphoneTrial[3] = Expect("may", "selector", 1)
      /\ HeadphoneTrial[4] = Settle
      /\ HeadphoneTrial[5] = Set("must", "selector", Memo)
      /\ HeadphoneTrial[6] = Expect("must", "selector", Memo)
  BY DEF HeadphoneTrial
<1>4. Straight(HeadphoneTrial)
  BY <1>3, Parts DEF Straight
<1>5. Decides(c, HeadphoneTrial[6]) /\ HeadphoneTrial[6].block = "selector"
  BY <1>1, <1>3, Parts, Aims, ExpectDecides DEF Aim
<1>6. Decided(c, HeadphoneTrial) /\ Covered(c, HeadphoneTrial)
  <2>1. PICK s : s = HeadphoneTrial
    OBVIOUS
  <2>2. /\ 6 \in DOMAIN s /\ \A j \in DOMAIN s : 6 > j \/ j = 6
        /\ Decides(c, s[6]) /\ \A b : Names(c, b) => b = s[6].block
    BY <1>2, <1>3, <1>5, <2>1
  <2>3. Decided(c, s) /\ Covered(c, s)
    BY <2>2, OneLast
  <2> QED
    BY <2>1, <2>3
<1> QED
  BY <1>1, <1>4, <1>6 DEF Shape, Probing, Straight

(* rateprobe, with the rate kept or restored.                               *)
LEMMA ProbeShape ==
  ASSUME NEW keep \in BOOLEAN, NEW n, n = IF keep THEN "rate" ELSE "trial"
  PROVE  /\ Shape(Call(n, 44), ProbeRate(44, keep))
         /\ Covered(Call(n, 44), ProbeRate(44, keep))
         /\ Unread(ProbeRate(44, keep))
<1>1. PICK c : c = Call(n, 44)
  OBVIOUS
<1>2. \A b : Names(c, b) => b \in {"out", "in"}
  BY <1>1, Parts, Blocks DEF Names
<1>3. PICK s : s = ProbeRate(44, keep)
  OBVIOUS
<1>4. /\ s[1] = Read("should", "out") /\ s[2] = Read("should", "in")
      /\ s[3] = UnlessAt(44)
      /\ s[4] = Set("may", "out", 44) /\ s[5] = Set("may", "in", 44)
      /\ s[6] = Settle
      /\ s[7] = Expect("should", "out", 44) /\ s[8] = Expect("should", "in", 44)
      /\ keep => DOMAIN s = 1 .. 8
      /\ ~keep => /\ DOMAIN s = 1 .. 13
                  /\ s[9] = Set("may", "out", Memo)
                  /\ s[10] = Set("may", "in", Memo) /\ s[11] = Settle
                  /\ s[12] = Expect("should", "out", Memo)
                  /\ s[13] = Expect("should", "in", Memo)
  <2>1. CASE keep
    BY <1>3, <2>1 DEF ProbeRate
  <2>2. CASE ~keep
    BY <1>3, <2>2 DEF ProbeRate
  <2> QED
    BY <2>1, <2>2
<1>5. \A i \in DOMAIN s : s[i].op = "unlessAt" => i = 3
  BY <1>4, Parts
<1>6. /\ 1 \in DOMAIN s /\ 2 \in DOMAIN s
      /\ s[1].block = "out" /\ s[2].block = "in" /\ s[3].value = 44
      /\ s[1] = Read("should", s[1].block) /\ s[2] = Read("should", s[2].block)
      /\ \A j \in DOMAIN s : j < 3 => j = 1 \/ j = 2
  BY <1>4, Parts
<1>7. Probing(c, s)
  BY <1>1, <1>5, <1>6, Parts, Blocks DEF Probing
<1>8. Unread(s)
  BY <1>5, <1>6, Blocks DEF Unread
<1>9. Decided(c, s) /\ Covered(c, s)
  <2>1. CASE keep
    <3>1. /\ 7 \in DOMAIN s /\ 8 \in DOMAIN s
          /\ \A j \in DOMAIN s : 7 > j \/ j = 7 \/ j = 8
          /\ \A j \in DOMAIN s : 8 > j \/ j = 8
          /\ s[7].block = "out" /\ s[8].block = "in"
      BY <1>4, <2>1, Parts
    <3>2. Decides(c, s[7]) /\ Decides(c, s[8])
      <4>1. c = Call("rate", 44) /\ Aim(c) = 44
        BY <1>1, <2>1, Aims, Parts DEF Aim
      <4> QED
        BY <1>4, <4>1, Aims, ExpectDecides
    <3> QED
      BY <1>2, <3>1, <3>2, TwoLast
  <2>2. CASE ~keep
    <3>1. /\ 12 \in DOMAIN s /\ 13 \in DOMAIN s
          /\ \A j \in DOMAIN s : 12 > j \/ j = 12 \/ j = 13
          /\ \A j \in DOMAIN s : 13 > j \/ j = 13
          /\ s[12].block = "out" /\ s[13].block = "in"
      BY <1>4, <2>2, Parts
    <3>2. Decides(c, s[12]) /\ Decides(c, s[13])
      BY <1>1, <1>4, <2>2, Aims, ExpectDecides DEF Aim
    <3> QED
      BY <1>2, <3>1, <3>2, TwoLast
  <2> QED
    BY <2>1, <2>2
<1> QED
  BY <1>1, <1>3, <1>7, <1>8, <1>9 DEF Shape

(* The routines that only send, one command after the other.                *)
LEMMA StraightOnes ==
  /\ Straight(Reassert44100) /\ Straight(GetSelector)
  /\ Straight(SetSelector(1)) /\ Straight(GetLevel) /\ Straight(SetLevel(1, 0))
  /\ \A o \in BOOLEAN : Straight(WriteMixer(o))
<1> USE Parts
<1>1. Straight(Reassert44100) /\ Straight(GetSelector) /\ Straight(SetSelector(1))
  BY DEF Reassert44100, GetSelector, SetSelector, Straight
<1>2. Straight(GetLevel) /\ Straight(SetLevel(1, 0))
  BY DEF GetLevel, SetLevel, Straight
<1>3. \A o \in BOOLEAN : Straight(WriteMixer(o))
  BY DEF WriteMixer, Straight
<1> QED
  BY <1>1, <1>2, <1>3

(* A preset with a route after it.                                          *)
LEMMA ConcatStraight ==
  ASSUME NEW p \in Seq(Steps), NEW q \in Seq(Steps), Straight(p), Straight(q)
  PROVE  Straight(p \o q)
<1> SUFFICES ASSUME NEW i \in DOMAIN (p \o q)
             PROVE  (p \o q)[i].op # "unlessAt"
  BY DEF Straight
<1>1. /\ Len(p) \in Nat /\ DOMAIN p = 1 .. Len(p)
      /\ Len(q) \in Nat /\ DOMAIN q = 1 .. Len(q)
      /\ DOMAIN (p \o q) = 1 .. (Len(p) + Len(q))
  OBVIOUS
<1>2. CASE i <= Len(p)
  <2>1. i \in DOMAIN p /\ (p \o q)[i] = p[i]
    BY <1>1, <1>2
  <2> QED
    BY <2>1 DEF Straight
<1>3. CASE i > Len(p)
  <2>1. i - Len(p) \in DOMAIN q /\ (p \o q)[i] = q[i - Len(p)]
    BY <1>1, <1>3
  <2> QED
    BY <2>1 DEF Straight
<1> QED
  BY <1>1, <1>2, <1>3

(* writeCachedMainMixerRoute.                                               *)
LEMMA RouteStraight ==
  ASSUME NEW c \in Cells, NEW v \in {0, 1}
  PROVE  Straight(RouteSteps(c, v))
<1>1. PICK p \in Seq(Steps) :
        p = (IF initialized THEN <<>> ELSE WriteMixer(FALSE)) /\ Straight(p)
  <2>1. <<>> \in Seq(Steps) /\ Straight(<<>>)
    BY DEF Straight
  <2>2. \A o \in BOOLEAN : WriteMixer(o) \in Seq(Steps) /\ Straight(WriteMixer(o))
    BY RoutinesMade, StraightOnes
  <2>3. WriteMixer(FALSE) \in Seq(Steps) /\ Straight(WriteMixer(FALSE))
    BY <2>2, Zenon
  <2>4. CASE initialized
    BY <2>1, <2>4
  <2>5. CASE ~initialized
    BY <2>3, <2>5
  <2> QED
    BY <2>4, <2>5
<1>2. PICK q \in Seq(Steps) :
        /\ q = IF (IF initialized THEN cache ELSE MacfwPreset)[c] = v
               THEN <<>> ELSE <<Set("route", c, v)>>
        /\ Straight(q)
  <2>1. <<>> \in Seq(Steps) /\ Straight(<<>>)
    BY DEF Straight
  <2>2. <<Set("route", c, v)>> \in Seq(Steps)
    <3>1. Set("route", c, v) \in Steps
      BY StepsMade
    <3> QED
      BY <3>1
  <2>3. Straight(<<Set("route", c, v)>>)
    BY Parts DEF Straight
  <2>4. CASE (IF initialized THEN cache ELSE MacfwPreset)[c] = v
    BY <2>1, <2>4
  <2>5. CASE (IF initialized THEN cache ELSE MacfwPreset)[c] # v
    BY <2>2, <2>3, <2>5
  <2> QED
    BY <2>4, <2>5
<1>3. RouteSteps(c, v) = p \o q
  BY <1>1, <1>2 DEF RouteSteps
<1> QED
  BY <1>1, <1>2, <1>3, ConcatStraight

(* Every routine starts with Passing.                                       *)
LEMMA BeginPassing ==
  ASSUME Typed, Passing, Begin
  PROVE  Passing'
<1>1. CASE Kick
  <2>1. PICK r \in {44, 96} : Start(Call("kick", r), KickRates(r))
    BY <1>1 DEF Kick
  <2> QED
    BY <2>1, KickShape, StartPassing DEF Straight, Unread
<1>2. CASE Restore
  BY <1>2, RestoreShape, StartPassing DEF Restore, Straight, Unread
<1>3. CASE InitDevice
  <2>1. PICK r \in {44, 96} : Start(Call("init", r), InitRate(r))
    BY <1>3 DEF InitDevice
  <2> QED
    BY <2>1, InitShape, StartPassing DEF Straight, Unread
<1>4. CASE Probe
  <2>1. PICK keep \in BOOLEAN :
          Start(Call(IF keep THEN "rate" ELSE "trial", 44), ProbeRate(44, keep))
    BY <1>4 DEF Probe
  <2> QED
    BY <2>1, ProbeShape, StartPassing
<1>5. CASE Trial
  BY <1>5, TrialShape, StartPassing DEF Trial, Straight, Unread
<1>6. CASE Reassert
  BY <1>6, StraightOnes, UnnamedStart DEF Reassert
<1>7. CASE Selector \/ Level
  BY <1>7, StraightOnes, UnnamedStart DEF Selector, Level
<1>8. CASE MixerPreset
  BY <1>8, StraightOnes, UnnamedStart DEF MixerPreset
<1>9. CASE Route
  BY <1>9, RouteStraight, UnnamedStart, Blocks DEF Route
<1>10. CASE EditModel \/ Rearm
  <2>1. /\ UNCHANGED <<call, todo, ok, seen, disputed, active, clean>>
    BY <1>10 DEF EditModel, Rearm, link
  <2>2. [Next]_vars /\ ~Request
    BY <1>10 DEF EditModel, Rearm, Request, Next, Begin
  <2> QED
    BY <2>1, <2>2, QuietPassing
<1> QED
  BY <1>1, <1>2, <1>3, <1>4, <1>5, <1>6, <1>7, <1>8, <1>9, <1>10 DEF Begin

(* Every step keeps Passing.                                                *)
LEMMA PassingStep ==
  ASSUME Typed, Own, Passing, [Next]_vars
  PROVE  Passing'
<1>1. CASE DeviceStep \/ Ignored \/ ServeIdle \/ UNCHANGED vars
  <2>1. CASE Request
    BY <2>1, RequestPassing
  <2>2. CASE ~Request
    <3>1. UNCHANGED <<call, todo, ok, seen, disputed, active, clean>>
      BY <1>1 DEF DeviceStep, Device, Execute, Defer, LoseAnswer, Ignored, Pass,
        ServeIdle, Serve, Outside, vars, link
    <3> QED
      BY <2>2, <3>1, QuietPassing
  <2> QED
    BY <2>1, <2>2
<1>2. CASE Finish
  <2>1. call' = Idle /\ todo' = <<>> /\ active' = None
    BY <1>2 DEF Finish, link
  <2>2. \A b : ~Names(Idle, b)
    BY DEF Names, Idle
  <2>3. Held'
    BY <2>1, <2>2 DEF Held
  <2>4. ReadHeld'
    BY <2>1 DEF ReadHeld, ReadsDone
  <2> QED
    BY <2>1, <2>3, <2>4, ShapeEmpty DEF Passing, Trusted
<1> QED
  BY <1>1, <1>2, BeginPassing, RequestPassing, ReturnPassing, FailPassing,
    LocalPassing DEF Next, Progress

(* A routine that reports PASS leaves the rates, or the selector, it names, *)
(* but for a register whose last command was disputed: runFw410RateProbe,   *)
(* restoreBaseline48k, runInit of fw1814init, headphoneprobe.               *)
THEOREM PassMeansRatesAlways == Spec => PassMeansRates
<1>1. Init => Typed /\ Own /\ Passing
  <2> SUFFICES ASSUME Init PROVE Typed /\ Own /\ Passing
    OBVIOUS
  <2>1. Typed /\ Own
    BY InitTyped DEF Init, Own
  <2>2. call = Idle /\ todo = <<>> /\ active = None
    BY DEF Init
  <2>3. \A b : ~Names(Idle, b)
    BY DEF Names, Idle
  <2>4. Held
    BY <2>2, <2>3 DEF Held
  <2>5. ReadHeld
    BY <2>2 DEF ReadHeld, ReadsDone
  <2> QED
    BY <2>1, <2>2, <2>4, <2>5, ShapeEmpty DEF Passing, Trusted
<1>2. Typed /\ Own /\ Passing /\ [Next]_vars => (Typed /\ Own /\ Passing)'
  BY TypedStep, OwnStep, PassingStep
<1>3. Typed /\ Passing /\ Finish /\ ok =>
       /\ call.name \in {"kick", "restore", "rate"} =>
            \A b \in RatePlugs : Leaves(b, call.value)
       /\ call.name = "init" =>
            Leaves("in", IF call.value = 44 THEN 44 ELSE seen["in"])
       /\ call.name = "trial" => \A b \in RatePlugs : Leaves(b, seen[b])
       /\ call.name = "headphone" => Leaves("selector", seen["selector"])
  <2> SUFFICES ASSUME Typed, Passing, Finish, ok
               PROVE  /\ call.name \in {"kick", "restore", "rate"} =>
                           \A b \in RatePlugs : Leaves(b, call.value)
                      /\ call.name = "init" =>
                           Leaves("in", IF call.value = 44 THEN 44 ELSE seen["in"])
                      /\ call.name = "trial" =>
                           \A b \in RatePlugs : Leaves(b, seen[b])
                      /\ call.name = "headphone" =>
                           Leaves("selector", seen["selector"])
    OBVIOUS
  <2>1. \A b : Names(call, b) => Leaves(b, Goal(b))
    BY DEF Finish, Done, Passing, Held, Settled, Leaves
  <2>2. CASE call.name \in {"kick", "restore", "rate"}
    <3>1. \A b \in RatePlugs : Names(call, b) /\ Goal(b) = call.value
      BY <2>2 DEF Names, Goal, Fixed
    <3> QED
      BY <2>1, <2>2, <3>1
  <2>3. CASE call.name = "init"
    <3>1. /\ Names(call, "in")
          /\ Goal("in") = IF call.value = 44 THEN 44 ELSE seen["in"]
      BY <2>3 DEF Names, Goal, Fixed
    <3> QED
      BY <2>1, <2>3, <3>1
  <2>4. CASE call.name = "trial"
    <3>1. \A b \in RatePlugs : Names(call, b) /\ Goal(b) = seen[b]
      BY <2>4 DEF Names, Goal, Fixed
    <3> QED
      BY <2>1, <2>4, <3>1
  <2>5. CASE call.name = "headphone"
    <3>1. Names(call, "selector") /\ Goal("selector") = seen["selector"]
      BY <2>5 DEF Names, Goal, Fixed
    <3> QED
      BY <2>1, <2>5, <3>1
  <2> QED
    BY <2>2, <2>3, <2>4, <2>5
<1> QED
  BY <1>1, <1>2, <1>3, PTL DEF Spec, PassMeansRates

---------------------------------------------------------------------------
PresetOf(v) == IF v = 1 THEN OriginalPreset ELSE MacfwPreset

(* A full preset: both cells, cell1 first, then the cache is adopted.       *)
MixShape(s) ==
  \A i \in DOMAIN s :
    /\ s[i].op = "adopt" =>
         \A j \in DOMAIN s : j < i =>
           s[j].op = "cell" /\ s[j].value = PresetOf(s[i].value)[s[j].block]
    /\ s[i].op = "cell" =>
         /\ \E k \in DOMAIN s : k > i /\ s[k].op = "adopt"
         /\ s[i].block = "cell1" =>
              \E k \in DOMAIN s :
                k > i /\ s[k].op = "cell" /\ s[k].block = "cell2"

(* No preset is under way.                                                  *)
NoAdopt == \A i \in DOMAIN todo : todo[i].op # "adopt"

(* The cell is still to be written.                                         *)
Unwritten(c) == \E j \in DOMAIN todo : todo[j].op = "cell" /\ todo[j].block = c

(* Outside a full preset each cell is as the cache has it, but for the one  *)
(* a route command is out for; within one, the cells already written are as *)
(* the preset has them.                                                     *)
InCache ==
  ~suspect /\ initialized /\ NoAdopt =>
    \A c \in Cells :
      active = None \/ active.type = "status" \/ active.block # c =>
        Settled(c, cache[c])

InPreset ==
  ~suspect =>
    \A c \in Cells, i \in DOMAIN todo :
      todo[i].op = "adopt" /\ ~Unwritten(c) =>
        Settled(c, PresetOf(todo[i].value)[c])

(* A mixer command that is not suspect is undisputed.                       *)
Alone ==
  active # None /\ ~suspect /\ Now.op \in {"cell", "route"} => clean

Caching == MixShape(todo) /\ InCache /\ InPreset /\ Alone

(* A preset keeps its shape while its steps are taken off.                  *)
LEMMA MixShapeTail ==
  ASSUME NEW s \in Seq(Steps), s # <<>>, MixShape(s)
  PROVE  MixShape(Tail(s))
<1>1. /\ \A i \in DOMAIN Tail(s) : Tail(s)[i] = s[i + 1] /\ i + 1 \in DOMAIN s
      /\ DOMAIN Tail(s) = 1 .. (Len(s) - 1) /\ DOMAIN s = 1 .. Len(s)
      /\ Len(s) \in Nat
  BY TailAt
<1> SUFFICES ASSUME NEW i \in DOMAIN Tail(s)
             PROVE  /\ Tail(s)[i].op = "adopt" =>
                         \A j \in DOMAIN Tail(s) : j < i =>
                           /\ Tail(s)[j].op = "cell"
                           /\ Tail(s)[j].value =
                                PresetOf(Tail(s)[i].value)[Tail(s)[j].block]
                    /\ Tail(s)[i].op = "cell" =>
                         /\ \E k \in DOMAIN Tail(s) :
                              k > i /\ Tail(s)[k].op = "adopt"
                         /\ Tail(s)[i].block = "cell1" =>
                              \E k \in DOMAIN Tail(s) :
                                /\ k > i /\ Tail(s)[k].op = "cell"
                                /\ Tail(s)[k].block = "cell2"
  BY DEF MixShape
<1>2. i + 1 \in DOMAIN s /\ Tail(s)[i] = s[i + 1]
  BY <1>1
<1>3. ASSUME Tail(s)[i].op = "adopt", NEW j \in DOMAIN Tail(s), j < i
      PROVE  /\ Tail(s)[j].op = "cell"
             /\ Tail(s)[j].value = PresetOf(Tail(s)[i].value)[Tail(s)[j].block]
  <2>1. j + 1 \in DOMAIN s /\ j + 1 < i + 1 /\ Tail(s)[j] = s[j + 1]
    BY <1>1, <1>3
  <2> QED
    BY <1>2, <1>3, <2>1 DEF MixShape
<1>4. \A k \in DOMAIN s : k > i + 1 =>
        k - 1 \in DOMAIN Tail(s) /\ k - 1 > i /\ Tail(s)[k - 1] = s[k]
  BY <1>1
<1>5. ASSUME Tail(s)[i].op = "cell"
      PROVE  \E k \in DOMAIN Tail(s) : k > i /\ Tail(s)[k].op = "adopt"
  <2>1. PICK k \in DOMAIN s : k > i + 1 /\ s[k].op = "adopt"
    BY <1>2, <1>5 DEF MixShape
  <2> QED
    BY <1>4, <2>1
<1>6. ASSUME Tail(s)[i].op = "cell", Tail(s)[i].block = "cell1"
      PROVE  \E k \in DOMAIN Tail(s) :
               k > i /\ Tail(s)[k].op = "cell" /\ Tail(s)[k].block = "cell2"
  <2>1. PICK k \in DOMAIN s : k > i + 1 /\ s[k].op = "cell" /\ s[k].block = "cell2"
    BY <1>2, <1>6 DEF MixShape
  <2> QED
    BY <1>4, <2>1
<1> QED
  BY <1>3, <1>5, <1>6

(* While a preset is under way, only its cells come before its end.         *)
LEMMA OnlyCells ==
  ASSUME Typed, MixShape(todo), todo # <<>>
  PROVE  /\ Now.op = "adopt" => \A c : ~Unwritten(c)
         /\ Now.op = "adopt" =>
              \A i \in DOMAIN todo : todo[i].op = "adopt" => i = 1
         /\ Now.op \notin {"cell", "adopt"} => NoAdopt
         /\ Now.op = "cell" => ~NoAdopt
         /\ Now.op = "cell" /\ Now.block = "cell1" => Unwritten("cell2")
<1>1. /\ Now = todo[1] /\ 1 \in DOMAIN todo
      /\ \A i \in DOMAIN todo : i = 1 \/ (i > 1 /\ 1 < i)
  BY TailAt DEF Typed, Routine, Now
<1>2. ASSUME NEW i \in DOMAIN todo, todo[i].op = "adopt", i # 1
      PROVE  Now.op = "cell"
  BY <1>1, <1>2 DEF MixShape
<1>3. ASSUME NEW j \in DOMAIN todo, todo[j].op = "cell", Now.op = "adopt"
      PROVE  FALSE
  <2>1. PICK k \in DOMAIN todo : k > j /\ todo[k].op = "adopt"
    BY <1>3 DEF MixShape
  <2>2. j # 1
    BY <1>1, <1>3
  <2>3. k # 1
    BY <1>1, <2>1, <2>2, TailAt DEF Typed, Routine
  <2> QED
    BY <1>2, <1>3, <2>1, <2>3
<1>4. Now.op = "cell" => ~NoAdopt
  BY <1>1 DEF MixShape, NoAdopt
<1>5. Now.op = "cell" /\ Now.block = "cell1" => Unwritten("cell2")
  BY <1>1 DEF MixShape, Unwritten
<1>6. Now.op \notin {"cell", "adopt"} => NoAdopt
  BY <1>1, <1>2 DEF NoAdopt
<1>7. Now.op = "adopt" => \A i \in DOMAIN todo : todo[i].op = "adopt" => i = 1
  BY <1>2
<1> QED
  BY <1>3, <1>4, <1>5, <1>6, <1>7 DEF Unwritten

(* The cells are registers with no rate.                                    *)
LEMMA CellsAre ==
  /\ Cells \subseteq Registers
  /\ \A c \in Cells : c \notin RatePlugs /\ c \notin Remembered /\ Values(c) = {0, 1}
  /\ \A c \in Cells : c = "cell1" \/ c = "cell2"
BY Blocks

(* A command for a cell is one of a preset or of a route.                   *)
LEMMA NowOfCell ==
  ASSUME Typed, todo # <<>>
  PROVE  /\ Now \in Steps
         /\ Now.type = "control" /\ Now.block \in Cells =>
              /\ Now.op \in {"cell", "route"}
         /\ Now.op \in {"cell", "route"} =>
              /\ Now.type = "control" /\ Now.block \in Cells
              /\ Wanted = Now.value
<1>1. Now \in Steps
  BY WithinTail DEF Typed, Routine, Now
<1>2. Now.op \in {"cell", "route"} => Wanted = Now.value
  BY <1>1, CellsAre, Blocks DEF Steps, Wanted
<1> QED
  BY <1>1, <1>2 DEF Steps

(* Steps that leave the routine and the cache where they are.               *)
LEMMA QuietCaching ==
  ASSUME Typed, Caching, [Next]_vars, ~Request,
         UNCHANGED <<todo, cache, initialized, suspect>>,
         UNCHANGED <<active, clean>>
  PROVE  Caching'
<1>1. \A c \in Cells : \A v : Settled(c, v) => Settled(c, v)'
  BY SettledKept, CellsAre
<1>2. InCache'
  BY <1>1 DEF Caching, InCache, NoAdopt, Settled
<1>3. InPreset'
  BY <1>1 DEF Caching, InPreset, Unwritten, Settled
<1> QED
  BY <1>2, <1>3 DEF Caching, Alone, Now

(* The end of every routine.                                                *)
LEMMA MixShapeEmpty == MixShape(<<>>)
BY DEF MixShape

(* A mixer command unsettles one cell: the one it will have written.        *)
LEMMA RequestCaching ==
  ASSUME Typed, Caching, Request
  PROVE  Caching'
<1>1. /\ UNCHANGED <<todo, cache, initialized>> /\ todo # <<>> /\ active = None
      /\ active'.type = Now.type /\ active'.block = Now.block
      /\ Now.type \in {"control", "status"}
  BY DEF Request, Send, Command
<1>2. /\ (Now.op = "cell" /\ Now.block = "cell1") => suspect' = ~clean'
      /\ (Now.op \in {"cell", "route"}
            /\ ~(Now.op = "cell" /\ Now.block = "cell1"))
           => suspect' = (suspect \/ ~clean')
      /\ (Now.op \notin {"cell", "route"}) => suspect' = suspect
  <2>1. suspect' = IF Now.op = "cell" /\ Now.block = "cell1" THEN ~clean'
                   ELSE suspect \/ (Now.op \in {"cell", "route"} /\ ~clean')
    BY DEF Request
  <2>2. suspect \in BOOLEAN
    BY DEF Typed, Routine
  <2> QED
    BY <2>1, <2>2
<1>3. /\ suspect \in BOOLEAN /\ suspect' \in BOOLEAN /\ clean' \in BOOLEAN
      /\ [Next]_vars
  <2>1. [Next]_vars
    BY DEF Next, Progress
  <2> QED
    BY <2>1, TypedStep DEF Typed, Routine, Link
<1>4. ASSUME NEW c \in Cells, NEW v, Settled(c, v),
             Now.type = "status" \/ Now.block # c
      PROVE  Settled(c, v)'
  BY <1>3, <1>4, SettledKept, CellsAre
<1>5. Alone'
  BY <1>2, <1>3 DEF Alone, Now, Request
<1>6. InCache'
  <2> SUFFICES ASSUME ~suspect', initialized, NoAdopt, NEW c \in Cells,
                      active'.type = "status" \/ active'.block # c
               PROVE  Settled(c, cache[c])'
    BY <1>1 DEF InCache, NoAdopt, None
  <2>1. Now.op # "cell"
    BY <1>1, OnlyCells DEF Caching
  <2>2. ~suspect
    BY <1>2, <1>3, <2>1
  <2>3. Settled(c, cache[c])
    BY <1>1, <2>2 DEF Caching, InCache
  <2> QED
    BY <1>1, <1>4, <2>3 DEF Settled
<1>7. InPreset'
  <2> SUFFICES ASSUME ~suspect', NEW c \in Cells, NEW i \in DOMAIN todo,
                      todo[i].op = "adopt", ~Unwritten(c)
               PROVE  Settled(c, PresetOf(todo[i].value)[c])'
    BY <1>1 DEF InPreset, Unwritten
  <2>1. ~NoAdopt /\ Now.op = "cell"
    BY <1>1, OnlyCells, NowOfCell DEF NoAdopt, Caching, Steps
  <2>2. Now.block # c
    BY <1>1, <2>1, TailAt DEF Unwritten, Now, Typed, Routine
  <2>3. Now.block # "cell1"
    <3>1. SUFFICES ASSUME Now.block = "cell1" PROVE FALSE
      OBVIOUS
    <3>2. Unwritten("cell2") /\ c = "cell2"
      BY <1>1, <2>1, <2>2, <3>1, OnlyCells, CellsAre DEF Caching
    <3> QED
      BY <3>2
  <2>4. ~suspect
    BY <1>2, <1>3, <2>1, <2>3
  <2>5. Settled(c, PresetOf(todo[i].value)[c])
    BY <2>4 DEF Caching, InPreset
  <2> QED
    BY <1>1, <1>4, <2>2, <2>5 DEF Settled
<1> QED
  BY <1>1, <1>5, <1>6, <1>7 DEF Caching

(* The step that goes is a preset's cell, its end, or neither.              *)
LEMMA TailKeeps ==
  ASSUME todo \in Seq(Steps), todo # <<>>, todo' = Tail(todo)
  PROVE  /\ \A i \in DOMAIN todo' : i + 1 \in DOMAIN todo /\ todo'[i] = todo[i + 1]
         /\ NoAdopt' => NoAdopt \/ Now.op = "adopt"
         /\ \A c : ~Unwritten(c)' =>
              \/ ~Unwritten(c)
              \/ Now.op = "cell" /\ Now.block = c
<1>1. /\ \A i \in DOMAIN todo' : todo'[i] = todo[i + 1] /\ i + 1 \in DOMAIN todo
      /\ DOMAIN todo' = 1 .. (Len(todo) - 1) /\ DOMAIN todo = 1 .. Len(todo)
      /\ Len(todo) \in Nat /\ Now = todo[1]
  BY TailAt DEF Now
<1>2. \A j \in DOMAIN todo : j = 1 \/ (j - 1 \in DOMAIN todo' /\ todo'[j - 1] = todo[j])
  BY <1>1
<1>3. NoAdopt' => NoAdopt \/ Now.op = "adopt"
  BY <1>1, <1>2 DEF NoAdopt
<1>4. ASSUME NEW c, ~Unwritten(c)', Unwritten(c)
      PROVE  Now.op = "cell" /\ Now.block = c
  <2>1. PICK j \in DOMAIN todo : todo[j].op = "cell" /\ todo[j].block = c
    BY <1>4 DEF Unwritten
  <2>2. j = 1
    BY <1>2, <1>4, <2>1 DEF Unwritten
  <2> QED
    BY <1>1, <2>1, <2>2
<1> QED
  BY <1>1, <1>3, <1>4

(* A mixer write that was answered settles its cell; one that failed ends   *)
(* the trust in the cache, or is suspect.                                   *)
LEMMA ConcludeCaching ==
  ASSUME Typed, Caching, [Next]_vars, ~Request, call # Idle, todo # <<>>,
         Now.type \in {"control", "status"}, active' = None,
         active = None \/ (active.type = Now.type /\ active.block = Now.block),
         NEW good \in BOOLEAN, Conclude(good),
         good /\ Now.op \in {"cell", "route"} /\ ~suspect =>
           Settled(Now.block, Now.value)
  PROVE  Caching'
<1>1. /\ todo \in Seq(Steps) /\ todo' \in {<<>>, Tail(todo)}
      /\ suspect' = (suspect \/ (~good /\ Now.op = "route"))
      /\ initialized' = (initialized /\ (good \/ Now.op # "cell"))
      /\ cache \in [Cells -> {0, 1}]
      /\ suspect \in BOOLEAN /\ initialized \in BOOLEAN
      /\ cache' = IF good /\ Now.op = "route"
                  THEN [cache EXCEPT ![Now.block] = Now.value] ELSE cache
      /\ todo' = IF ~good /\ Now.op \in {"must", "cell", "route"}
                 THEN <<>> ELSE Tail(todo)
  BY DEF Conclude, Typed, Routine
<1>2. /\ Now \in Steps /\ Now.op # "adopt"
      /\ Now.op \notin {"cell"} => NoAdopt
  BY NowOfCell, OnlyCells DEF Caching, Steps
<1>3. \A c \in Cells : \A v : Settled(c, v) => Settled(c, v)'
  BY SettledKept, CellsAre
<1>4. ~suspect' => ~suspect
  BY <1>1
<1>5. MixShape(todo')
  BY <1>1, MixShapeTail, MixShapeEmpty DEF Caching
<1>6. InCache'
  <2> SUFFICES ASSUME ~suspect', initialized', NoAdopt', NEW c \in Cells
               PROVE  Settled(c, cache'[c])
    BY <1>3 DEF InCache, Settled
  <2>1. NoAdopt /\ Now.op # "cell"
    <3>1. Now.op = "cell" => todo' = Tail(todo)
      BY <1>1
    <3>2. Now.op # "cell"
      BY <1>1, <1>2, <3>1, TailKeeps, OnlyCells DEF Caching
    <3> QED
      BY <1>2, <3>2
  <2>2. ~suspect /\ initialized
    BY <1>1
  <2>3. CASE Now.op = "route"
    <3>1. good /\ Now.block \in Cells /\ Now.type = "control"
      BY <1>1, <2>3, NowOfCell
    <3>2. CASE c = Now.block
      BY <1>1, <2>2, <2>3, <3>1, <3>2
    <3>3. CASE c # Now.block
      <4>1. Settled(c, cache[c])
        BY <2>1, <2>2, <3>3 DEF Caching, InCache
      <4> QED
        BY <1>1, <3>1, <3>3, <4>1
    <3> QED
      BY <3>2, <3>3
  <2>4. CASE Now.op # "route"
    <3>1. Now.type = "status" \/ Now.block # c
      BY <2>1, <2>4, NowOfCell
    <3>2. Settled(c, cache[c])
      BY <2>1, <2>2, <3>1 DEF Caching, InCache
    <3> QED
      BY <1>1, <2>4, <3>2
  <2> QED
    BY <2>3, <2>4
<1>7. InPreset'
  <2> SUFFICES ASSUME ~suspect', NEW c \in Cells, NEW i \in DOMAIN todo',
                      todo'[i].op = "adopt", ~Unwritten(c)'
               PROVE  Settled(c, PresetOf(todo'[i].value)[c])
    BY <1>3 DEF InPreset, Settled
  <2>1. todo' = Tail(todo)
    BY <1>1
  <2>2. i + 1 \in DOMAIN todo /\ todo'[i] = todo[i + 1]
    BY <1>1, <2>1, TailKeeps
  <2>3. CASE ~Unwritten(c)
    BY <1>4, <2>2, <2>3 DEF Caching, InPreset
  <2>4. CASE Now.op = "cell" /\ Now.block = c
    <3>1. good
      <4>1. todo' # <<>>
        OBVIOUS
      <4> QED
        BY <1>1, <2>4, <4>1
    <3>2. Now.value = PresetOf(todo[i + 1].value)[c]
      <4>1. /\ Now = todo[1] /\ 1 \in DOMAIN todo /\ 1 < i + 1
        BY <1>1, <2>1, TailAt DEF Now
      <4> QED
        BY <2>2, <2>4, <4>1 DEF Caching, MixShape
    <3> QED
      BY <1>4, <2>2, <2>4, <3>1, <3>2
  <2> QED
    BY <1>1, <2>1, <2>3, <2>4, TailKeeps
<1> QED
  BY <1>5, <1>6, <1>7 DEF Caching, Alone

(* The write timed out or was never made.                                   *)
LEMMA FailCaching ==
  ASSUME Typed, Caching, TimeOut \/ WriteFails
  PROVE  Caching'
<1>1. /\ call # Idle /\ todo # <<>> /\ active' = None /\ Conclude(FALSE)
      /\ active = None \/ (active.type = Now.type /\ active.block = Now.block)
  BY DEF TimeOut, WriteFails, Expire, Typed, Waiting
<1>2. Now.type \in {"control", "status"}
  BY DEF TimeOut, WriteFails, Expire, Typed, Waiting, Link, Commands
<1>3. ~Request /\ [Next]_vars
  <2>1. ~Request
    BY <1>1 DEF Request, Send, Command, None
  <2> QED
    BY <2>1 DEF Next, Progress
<1> QED
  BY <1>1, <1>2, <1>3, ConcludeCaching

(* The write was answered.                                                  *)
LEMMA ReturnCaching ==
  ASSUME Typed, Own, Caching, Return
  PROVE  Caching'
<1>1. PICK r \in Replies :
           /\ r \in Within(wire)
           /\ active # None /\ call # Idle /\ todo # <<>>
           /\ Use(r) = "taken" /\ active' = None
           /\ \E good \in BOOLEAN :
                /\ Conclude(good)
                /\ good => Accepts(active, r)
  BY ReturnDoes
<1>2. PICK good \in BOOLEAN : Conclude(good) /\ (good => Accepts(active, r))
  BY <1>1
<1>3. /\ active.block = Now.block /\ active.type = Now.type
      /\ active.type \in {"control", "status"}
      /\ Now.type = "control" => active.value = Wanted
  BY <1>1 DEF Typed, Waiting, Link, Commands
<1>4. ~Request /\ [Next]_vars
  <2>1. ~Request
    BY <1>1 DEF Request, Send
  <2> QED
    BY <2>1 DEF Next, Progress
<1>5. ASSUME good, Now.op \in {"cell", "route"}, ~suspect
      PROVE  Settled(Now.block, Now.value)
  <2>1. clean /\ Accepts(active, r)
    BY <1>1, <1>2, <1>5 DEF Caching, Alone
  <2>2. Now.block \notin RatePlugs /\ Now.type = "control" /\ Wanted = Now.value
    BY <1>1, <1>5, NowOfCell, CellsAre
  <2> QED
    BY <1>1, <1>3, <2>1, <2>2, AnswerSettles
<1> QED
  BY <1>1, <1>2, <1>3, <1>4, <1>5, ConcludeCaching

(* The end of a preset: both cells are settled, the cache is adopted.       *)
LEMMA LocalCaching ==
  ASSUME Typed, Caching, Local
  PROVE  Caching'
<1>1. /\ call # Idle /\ active = None /\ active' = None /\ todo # <<>>
      /\ Now.type = "none" /\ todo' \in {<<>>, Tail(todo)}
      /\ todo \in Seq(Steps) /\ suspect' = suspect /\ UNCHANGED <<reg, inbox>>
      /\ \/ Now.op # "adopt" /\ UNCHANGED <<cache, initialized>>
         \/ /\ Now.op = "adopt" /\ initialized' = TRUE
            /\ cache' = PresetOf(Now.value)
  BY DEF Local, Typed, Routine, PresetOf
<1>2. MixShape(todo')
  BY <1>1, MixShapeTail, MixShapeEmpty DEF Caching
<1>3. Now.op # "cell"
  BY <1>1, NowOfCell
<1>4. \A c, v : Settled(c, v)' <=> Settled(c, v)
  BY <1>1 DEF Settled
<1>5. CASE Now.op # "adopt"
  <2>1. NoAdopt
    BY <1>1, <1>3, <1>5, OnlyCells DEF Caching
  <2>2. NoAdopt'
    <3>1. CASE todo' = Tail(todo)
      BY <1>1, <2>1, <3>1, TailKeeps DEF NoAdopt
    <3>2. CASE todo' = <<>>
      BY <3>2 DEF NoAdopt
    <3> QED
      BY <1>1, <3>1, <3>2
  <2>3. InCache'
    BY <1>1, <1>4, <1>5, <2>1 DEF InCache, Caching
  <2>4. InPreset'
    BY <2>2 DEF InPreset, NoAdopt
  <2> QED
    BY <1>1, <1>2, <2>3, <2>4 DEF Caching, Alone
<1>6. CASE Now.op = "adopt"
  <2>1. /\ \A c : ~Unwritten(c)
        /\ \A i \in DOMAIN todo : todo[i].op = "adopt" => i = 1
    BY <1>1, <1>6, OnlyCells DEF Caching
  <2>2. ~suspect => \A c \in Cells : Settled(c, PresetOf(Now.value)[c])
    <3>1. 1 \in DOMAIN todo /\ Now = todo[1]
      BY <1>1, TailAt DEF Now
    <3> QED
      BY <1>6, <2>1, <3>1 DEF Caching, InPreset
  <2>3. InCache'
    BY <1>1, <1>4, <1>6, <2>2 DEF InCache
  <2>4. NoAdopt'
    <3>1. CASE todo' = Tail(todo)
      <4>1. \A i \in DOMAIN todo' : i + 1 \in DOMAIN todo /\ todo'[i] = todo[i + 1] /\ i + 1 # 1
        BY <1>1, <3>1, TailAt
      <4> QED
        BY <2>1, <4>1 DEF NoAdopt
    <3>2. CASE todo' = <<>>
      BY <3>2 DEF NoAdopt
    <3> QED
      BY <1>1, <3>1, <3>2
  <2>5. InPreset'
    BY <2>4 DEF InPreset, NoAdopt
  <2> QED
    BY <1>1, <1>2, <2>3, <2>5 DEF Caching, Alone
<1> QED
  BY <1>5, <1>6

---------------------------------------------------------------------------
(* A routine with nothing of a preset; a preset, whole.                     *)
Plain(s) == \A i \in DOMAIN s : s[i].op \notin {"cell", "adopt"}

Full(s) ==
  /\ MixShape(s) /\ \E i \in DOMAIN s : s[i].op = "adopt"
  /\ \A c \in Cells : \E i \in DOMAIN s : s[i].op = "cell" /\ s[i].block = c

(* Either may start.                                                        *)
LEMMA StartCaching ==
  ASSUME Typed, Caching, NEW c, NEW steps, Start(c, steps),
         Plain(steps) \/ Full(steps)
  PROVE  Caching'
<1>1. /\ todo = <<>> /\ todo' = steps /\ active = None /\ active' = None
      /\ UNCHANGED <<reg, inbox, cache, initialized, suspect>>
  BY DEF Start, Typed, Routine, link
<1>2. NoAdopt
  BY <1>1 DEF NoAdopt
<1>3. CASE Plain(steps)
  <2>1. MixShape(todo') /\ NoAdopt'
    BY <1>1, <1>3 DEF Plain, MixShape, NoAdopt
  <2>2. InCache'
    BY <1>1, <1>2 DEF Caching, InCache, Settled
  <2>3. InPreset'
    BY <2>1 DEF InPreset, NoAdopt
  <2> QED
    BY <1>1, <2>1, <2>2, <2>3 DEF Caching, Alone
<1>4. CASE Full(steps)
  <2>1. MixShape(todo') /\ ~NoAdopt' /\ \A x \in Cells : Unwritten(x)'
    BY <1>1, <1>4 DEF Full, NoAdopt, Unwritten
  <2>2. InCache' /\ InPreset'
    BY <2>1 DEF InCache, InPreset
  <2> QED
    BY <1>1, <2>1, <2>2 DEF Caching, Alone
<1> QED
  BY <1>3, <1>4

(* The routines that write no preset.                                       *)
LEMMA PlainOnes ==
  /\ \A r \in {44, 96} : Plain(KickRates(r)) /\ Plain(InitRate(r))
  /\ Plain(RestoreBaseline) /\ Plain(HeadphoneTrial) /\ Plain(Reassert44100)
  /\ \A keep \in BOOLEAN : Plain(ProbeRate(44, keep))
  /\ Plain(GetSelector) /\ Plain(SetSelector(1))
  /\ Plain(GetLevel) /\ Plain(SetLevel(1, 0))
<1> USE Parts
<1>1. \A r \in {44, 96} : Plain(KickRates(r))
  BY DEF KickRates, Plain
<1>2. \A r \in {44, 96} : Plain(InitRate(r))
  BY DEF InitRate, Plain
<1>3. Plain(RestoreBaseline) /\ Plain(HeadphoneTrial) /\ Plain(Reassert44100)
  BY DEF RestoreBaseline, HeadphoneTrial, Reassert44100, Plain
<1>4. \A keep \in BOOLEAN : Plain(ProbeRate(44, keep))
  BY DEF ProbeRate, Plain
<1>5. /\ Plain(GetSelector) /\ Plain(SetSelector(1))
      /\ Plain(GetLevel) /\ Plain(SetLevel(1, 0))
  BY DEF GetSelector, SetSelector, GetLevel, SetLevel, Plain
<1> QED
  BY <1>1, <1>2, <1>3, <1>4, <1>5

(* A preset first, and after it steps of other kinds.                       *)
LEMMA PresetFirst ==
  ASSUME NEW o \in BOOLEAN, NEW s, NEW n \in Nat, n >= 3, DOMAIN s = 1 .. n,
         s[1] = WriteMixer(o)[1], s[2] = WriteMixer(o)[2],
         s[3] = WriteMixer(o)[3],
         \A i \in DOMAIN s : i > 3 => s[i].op \notin {"cell", "adopt"}
  PROVE  Full(s)
<1>1. PICK p : p = IF o THEN OriginalPreset ELSE MacfwPreset
  OBVIOUS
<1>2. /\ s[1] = Set("cell", "cell1", p["cell1"])
      /\ s[2] = Set("cell", "cell2", p["cell2"]) /\ s[3] = Adopt(o)
  BY <1>1 DEF WriteMixer
<1>3. PresetOf(s[3].value) = p
  <2>1. s[3].value = IF o THEN 1 ELSE 0
    BY <1>2 DEF Adopt, Step
  <2>2. CASE o
    BY <1>1, <2>1, <2>2 DEF PresetOf
  <2>3. CASE ~o
    BY <1>1, <2>1, <2>3 DEF PresetOf
  <2> QED
    BY <2>2, <2>3
<1>4. /\ s[1].op = "cell" /\ s[1].block = "cell1" /\ s[1].value = p["cell1"]
      /\ s[2].op = "cell" /\ s[2].block = "cell2" /\ s[2].value = p["cell2"]
      /\ s[3].op = "adopt" /\ 1 \in DOMAIN s /\ 2 \in DOMAIN s /\ 3 \in DOMAIN s
  BY <1>2, Parts
<1>5. \A i \in DOMAIN s : s[i].op = "adopt" => i = 3
  BY <1>4
<1>6. \A i \in DOMAIN s : s[i].op = "cell" => i \in {1, 2}
  BY <1>4
<1>7. \A j \in DOMAIN s : j < 3 => j \in {1, 2}
  OBVIOUS
<1>8. MixShape(s)
  BY <1>3, <1>4, <1>5, <1>6, <1>7 DEF MixShape
<1> QED
  BY <1>4, <1>8, Blocks DEF Full

(* writeCachedMainMixerRoute writes a whole preset first, or none.          *)
LEMMA RouteCaching ==
  ASSUME NEW c \in Cells, NEW v \in {0, 1}
  PROVE  Plain(RouteSteps(c, v)) \/ Full(RouteSteps(c, v))
<1>1. PICK q : /\ q = IF (IF initialized THEN cache ELSE MacfwPreset)[c] = v
                      THEN <<>> ELSE <<Set("route", c, v)>>
               /\ q = <<>> \/ q = <<Set("route", c, v)>>
  OBVIOUS
<1>2. Set("route", c, v).op = "route"
  BY Parts
<1>3. CASE initialized
  <2>1. RouteSteps(c, v) = <<>> \o q
    BY <1>1, <1>3 DEF RouteSteps
  <2>2. CASE q = <<>>
    BY <2>1, <2>2 DEF Plain
  <2>3. CASE q = <<Set("route", c, v)>>
    <3>1. RouteSteps(c, v) = <<Set("route", c, v)>>
      BY <2>1, <2>3
    <3> QED
      BY <1>2, <3>1 DEF Plain
  <2> QED
    BY <1>1, <2>2, <2>3
<1>4. CASE ~initialized
  <2>1. RouteSteps(c, v) = WriteMixer(FALSE) \o q
    BY <1>1, <1>4 DEF RouteSteps
  <2>2. PICK w : w = WriteMixer(FALSE)
    OBVIOUS
  <2>3. PICK x, y, z : w = <<x, y, z>>
    BY <2>2 DEF WriteMixer
  <2>4. PICK s : s = RouteSteps(c, v)
    OBVIOUS
  <2>5. s = <<x, y, z>> \o q
    BY <2>1, <2>2, <2>3, <2>4
  <2>6. PICK n \in {3, 4} :
          /\ DOMAIN s = 1 .. n /\ s[1] = w[1] /\ s[2] = w[2] /\ s[3] = w[3]
          /\ n = 4 => s[4] = Set("route", c, v)
    <3>1. CASE q = <<>>
      <4>1. s = <<x, y, z>>
        BY <2>5, <3>1
      <4> QED
        BY <2>3, <4>1
    <3>2. CASE q = <<Set("route", c, v)>>
      <4>1. PICK d : d = Set("route", c, v)
        OBVIOUS
      <4>2. PICK T : T = {x, y, z, d}
        OBVIOUS
      <4>3. <<x, y, z>> \in Seq(T) /\ <<d>> \in Seq(T)
        BY <4>2
      <4>4. /\ DOMAIN (<<x, y, z>> \o <<d>>) = 1 .. 4
            /\ (<<x, y, z>> \o <<d>>)[1] = x /\ (<<x, y, z>> \o <<d>>)[2] = y
            /\ (<<x, y, z>> \o <<d>>)[3] = z /\ (<<x, y, z>> \o <<d>>)[4] = d
        BY <4>3
      <4> QED
        BY <2>3, <2>5, <3>2, <4>1, <4>4
    <3> QED
      BY <1>1, <3>1, <3>2
  <2>7. \A i \in DOMAIN s : i > 3 => s[i].op \notin {"cell", "adopt"}
    BY <1>2, <2>6
  <2>8. Full(s)
    <3>1. FALSE \in BOOLEAN /\ n \in Nat /\ n >= 3
      BY <2>6
    <3> QED
      BY <2>2, <2>6, <2>7, <3>1, PresetFirst
  <2> QED
    BY <2>4, <2>8
<1> QED
  BY <1>3, <1>4

(* Every routine starts with Caching; an edited model is not trusted.       *)
LEMMA BeginCaching ==
  ASSUME Typed, Caching, Begin
  PROVE  Caching'
<1>1. CASE Kick \/ Restore \/ InitDevice
  BY <1>1, PlainOnes, StartCaching DEF Kick, Restore, InitDevice
<1>2. CASE Probe \/ Trial \/ Reassert
  BY <1>2, PlainOnes, StartCaching DEF Probe, Trial, Reassert
<1>3. CASE Selector \/ Level
  BY <1>3, PlainOnes, StartCaching DEF Selector, Level
<1>4. CASE MixerPreset
  <2>1. PICK o \in BOOLEAN :
          Start(Call("preset", IF o THEN 1 ELSE 0), WriteMixer(o))
    BY <1>4 DEF MixerPreset
  <2>2. Full(WriteMixer(o))
    <3>1. PICK w : w = WriteMixer(o)
      OBVIOUS
    <3>2. DOMAIN w = 1 .. 3
      BY <3>1 DEF WriteMixer
    <3>3. 3 \in Nat /\ 3 >= 3 /\ \A i \in DOMAIN w : ~(i > 3)
      BY <3>2
    <3> QED
      BY <3>1, <3>2, <3>3, PresetFirst
  <2> QED
    BY <2>1, <2>2, StartCaching
<1>5. CASE Route
  <2>1. PICK v \in {0, 1} : Start(Call("route", v), RouteSteps("cell1", v))
    BY <1>5 DEF Route
  <2>2. "cell1" \in Cells
    BY Blocks
  <2> QED
    BY <2>1, <2>2, RouteCaching, StartCaching
<1>6. CASE EditModel \/ Rearm
  <2>1. /\ initialized' = FALSE /\ todo' = <<>> /\ active' = None
    BY <1>6 DEF EditModel, Rearm, link, Typed, Routine
  <2>2. InCache' /\ InPreset'
    BY <2>1 DEF InCache, InPreset
  <2> QED
    BY <2>1, <2>2, MixShapeEmpty DEF Caching, Alone
<1> QED
  BY <1>1, <1>2, <1>3, <1>4, <1>5, <1>6 DEF Begin

(* Every step keeps Caching.                                                *)
LEMMA CachingStep ==
  ASSUME Typed, Own, Caching, [Next]_vars
  PROVE  Caching'
<1>1. CASE DeviceStep \/ Ignored \/ ServeIdle \/ UNCHANGED vars
  <2>1. CASE Request
    BY <2>1, RequestCaching
  <2>2. CASE ~Request
    <3>1. /\ UNCHANGED <<todo, cache, initialized, suspect>>
          /\ UNCHANGED <<active, clean>>
      BY <1>1 DEF DeviceStep, Device, Execute, Defer, LoseAnswer, Ignored, Pass,
        ServeIdle, Serve, Outside, vars, link
    <3> QED
      BY <2>2, <3>1, QuietCaching
  <2> QED
    BY <2>1, <2>2
<1>2. CASE Finish
  <2>1. /\ UNCHANGED <<reg, inbox, active, todo, cache, initialized, suspect>>
        /\ active' = None
    BY <1>2 DEF Finish, link
  <2>2. InCache' /\ InPreset'
    BY <2>1 DEF Caching, InCache, InPreset, NoAdopt, Unwritten, Settled
  <2> QED
    BY <2>1, <2>2 DEF Caching, Alone
<1> QED
  BY <1>1, <1>2, BeginCaching, RequestCaching, ReturnCaching, FailCaching,
    LocalCaching DEF Next, Progress

(* The mixer cache of the FW410 control server is what the device holds when *)
(* it is trusted: writeMainMixerModel, writeCachedMainMixerRoute.           *)
THEOREM CacheIsHardwareAlways == Spec => []CacheIsHardware
<1>1. Init => Typed /\ Own /\ Caching
  <2> SUFFICES ASSUME Init PROVE Typed /\ Own /\ Caching
    OBVIOUS
  <2>1. Typed /\ Own
    BY InitTyped DEF Init, Own
  <2>2. todo = <<>> /\ active = None /\ ~initialized
    BY DEF Init
  <2>3. InCache /\ InPreset
    BY <2>2 DEF InCache, InPreset
  <2> QED
    BY <2>1, <2>2, <2>3, MixShapeEmpty DEF Caching, Alone
<1>2. Typed /\ Own /\ Caching /\ [Next]_vars => (Typed /\ Own /\ Caching)'
  BY TypedStep, OwnStep, CachingStep
<1>3. Typed /\ Caching => CacheIsHardware
  <2> SUFFICES ASSUME Typed, Caching, initialized, ~suspect, call = Idle,
                      NEW c \in Cells
               PROVE  cache[c] = reg[c]
    BY DEF CacheIsHardware
  <2>1. todo = <<>> /\ active = None
    BY DEF Typed, Routine
  <2>2. NoAdopt
    BY <2>1 DEF NoAdopt
  <2> QED
    BY <2>1, <2>2 DEF Caching, InCache, Settled
<1> QED
  BY <1>1, <1>2, <1>3, PTL DEF Spec

(* The type invariant of the runs.                                          *)
THEOREM TypeCorrect == Spec => []TypeOK
<1>1. Init => Typed
  BY InitTyped
<1>2. Typed /\ [Next]_vars => Typed'
  BY TypedStep
<1>3. Typed => TypeOK
  BY TypedIsTypeOK
<1> QED
  BY <1>1, <1>2, <1>3, PTL DEF Spec
===============================================================================
