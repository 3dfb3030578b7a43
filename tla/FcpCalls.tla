------------------------------ MODULE FcpCalls ------------------------------
(***************************************************************************)
(* The programs over the FCP link: each runs one routine at a time, step by *)
(* step, and reports whether it succeeded.  The FW410 control server also   *)
(* keeps the main mixer's routes in a cache which it trusts instead of      *)
(* reading them back: it writes a full preset first, then only differences. *)
(***************************************************************************)
EXTENDS FcpLink

CONSTANTS MaxCalls   \* bound: routines started

ASSUME CallsAssumption == MaxCalls \in Nat

VARIABLES
  program,      \* the program that has the device open
  call,         \* the routine it runs: a name and its arguments, or Idle
  todo, ok,     \* the steps left and the result so far
  seen,         \* rates read by this routine so far: previousRate, outRate
  cache, initialized,   \* mainMixerModel_, mainMixerHardwareInitialized_
  disputed,     \* history: registers whose last command of this routine could
                \* be answered, untruly, by the answer to an earlier one
  suspect,      \* history: since the last full preset a route write failed, or
                \* a mixer write was sent with earlier answers outstanding
  calls         \* bound

vars == <<link, program, call, todo, ok, seen, cache, initialized, disputed,
          suspect, calls>>

Programs1814 == {"engine1814", "fw1814init"}
ProgramsOf410 == {"engine410", "rateprobe", "headphoneprobe"}
Programs == Programs1814 \cup ProgramsOf410

\* The programs for the device the running one has ("none": it has ended).
Peers == IF program \in Programs1814 THEN Programs1814 ELSE ProgramsOf410

DialectOf(p) == IF p = "engine1814" THEN "masked" ELSE "first"

Remembered == RatePlugs \cup {"selector"}   \* what the routines keep to restore

Idle == [name |-> "idle"]
Call(n, v) == [name |-> n, value |-> v]

TypeOK ==
  /\ LinkTypeOK
  /\ program \in Programs \cup {"none"} /\ dialect = DialectOf(program)
  /\ \A i \in DOMAIN todo : todo[i].block \in Registers
  /\ ok \in BOOLEAN /\ initialized \in BOOLEAN /\ suspect \in BOOLEAN
  /\ disputed \subseteq Remembered
  /\ seen \in [Remembered -> Rates \cup {0, 1, Unknown}]
  /\ cache \in [Cells -> {0, 1}]
  /\ (call = Idle) => todo = <<>> /\ active = None
  /\ calls \in 0 .. MaxCalls

Nothing == [b \in Remembered |-> Unknown]

Init ==
  /\ reg \in {[b \in Registers |-> IF b \in RatePlugs THEN r ELSE 0] :
               r \in {44, 48}}
  /\ inbox = <<>> /\ deferred = FALSE /\ wire = <<>>
  /\ active = None /\ clean = TRUE /\ faults = 0
  /\ program \in Programs /\ dialect = DialectOf(program)
  /\ call = Idle /\ todo = <<>> /\ ok = TRUE /\ seen = Nothing
  /\ cache = [c \in Cells |-> 0] /\ initialized = FALSE
  /\ disputed = {} /\ suspect = FALSE /\ calls = 0

---------------------------------------------------------------------------
(* A routine starts when the program has no other: every caller blocks.     *)
Start(c, steps) ==
  /\ call = Idle /\ calls < MaxCalls
  /\ call' = c /\ todo' = steps /\ calls' = calls + 1
  /\ UNCHANGED <<link, program, ok, seen, cache, initialized, disputed,
                 suspect>>

Kick == /\ program = "engine1814"
        /\ \E r \in {44, 96} : Start(Call("kick", r), KickRates(r))

Restore == /\ program = "engine1814"
           /\ Start(Call("restore", 48), RestoreBaseline)

InitDevice == /\ program = "fw1814init"
              /\ \E r \in {44, 96} : Start(Call("init", r), InitRate(r))

Probe == /\ program = "rateprobe"
         /\ \E keep \in BOOLEAN :
              Start(Call(IF keep THEN "rate" ELSE "trial", 44),
                    ProbeRate(44, keep))

Trial == /\ program = "headphoneprobe"
         /\ Start(Call("headphone", 0), HeadphoneTrial)

Reassert == /\ program = "engine410"
            /\ Start(Call("reassert", 44), Reassert44100)

(* The registers the requests below name start at 0 and are set to 1.       *)
Selector ==
  /\ program = "engine410"
  /\ \/ Start(Call("selectorGet", 0), GetSelector)
     \/ Start(Call("selectorSet", 1), SetSelector(1))

Level ==
  /\ program = "engine410"
  /\ \/ Start(Call("levelGet", 0), GetLevel)
     \/ Start(Call("levelSet", 1), SetLevel(1, 0))

MixerPreset ==
  /\ program = "engine410"
  /\ \E o \in BOOLEAN :
       Start(Call("preset", IF o THEN 1 ELSE 0), WriteMixer(o))

(* writeCachedMainMixerRoute: the full preset first if it has not been      *)
(* written; nothing is sent for a route the cache already holds.            *)
RouteSteps(c, v) ==
  LET known == IF initialized THEN cache ELSE MacfwPreset
  IN  (IF initialized THEN <<>> ELSE WriteMixer(FALSE))
      \o (IF known[c] = v THEN <<>> ELSE <<Set("route", c, v)>>)

Route ==
  /\ program = "engine410"
  /\ \E v \in {0, 1} : Start(Call("route", v), RouteSteps("cell1", v))

(* MAIN_MIXER_MODEL: the cache is edited without a command to the device.   *)
(* (An edit of a model that is not initialized is lost to the next preset.) *)
EditedModel(c) == {OriginalPreset, MacfwPreset, [x \in Cells |-> 0]}
                  \cup {[c EXCEPT ![x] = v] : x \in Cells, v \in {0, 1}}

EditModel ==
  /\ program = "engine410" /\ call = Idle /\ initialized
  /\ cache' \in EditedModel(cache)
  /\ initialized' = FALSE
  /\ UNCHANGED <<link, program, call, todo, ok, seen, disputed, suspect,
                 calls>>

(* The process ends and another program opens the device: arm() of a fresh  *)
(* FCP object; answers still on their way will reach it.                    *)
Rearm ==
  /\ call = Idle
  /\ program' \in Peers
  /\ dialect' = DialectOf(program')
  /\ cache' = [c \in Cells |-> 0] /\ initialized' = FALSE
  /\ suspect' = FALSE
  /\ UNCHANGED <<reg, inbox, deferred, wire, active, clean, faults,
                 call, todo, ok, seen, disputed, calls>>

Begin == \/ Kick \/ Restore \/ InitDevice \/ Probe \/ Trial \/ Reassert
         \/ Selector \/ Level \/ MixerPreset \/ Route \/ EditModel \/ Rearm

---------------------------------------------------------------------------
Now == Head(todo)

\* A step's value, with what an earlier read of the routine returned.
Wanted == IF Now.value = Memo THEN seen[Now.block] ELSE Now.value
Meets(v) == \/ Now.value = Unknown
            \/ (Now.value = Base /\ v \in {44, 48})
            \/ v = Wanted

(* The routine's next command: not sent if the rate it needs is unknown.    *)
Request ==
  /\ call # Idle /\ active = None /\ todo # <<>>
  /\ \/ Now.type = "status"
     \/ Now.type = "control" /\ Wanted # Unknown
  /\ Send(Command(Now.type, Now.block,
                  IF Now.type = "control" THEN Wanted ELSE Unknown))
  /\ disputed' = IF clean' THEN disputed \ {Now.block}
                 ELSE disputed \cup ({Now.block} \cap Remembered)
  /\ suspect' = IF Now.op = "cell" /\ Now.block = "cell1" THEN ~clean'
                ELSE suspect \/ (Now.op \in {"cell", "route"} /\ ~clean')
  /\ UNCHANGED <<program, call, todo, ok, seen, cache, initialized, calls>>

(* Mutant: a failed full write leaves the mixer initialized.                *)
ConcludeInitialized(good) ==
  /\ ok' = (ok /\ (good \/ Now.op = "may"))
  /\ todo' = IF ~good /\ Now.op \in {"must", "cell", "route"}
             THEN <<>> ELSE Tail(todo)
  /\ cache' = IF good /\ Now.op = "route"
              THEN [cache EXCEPT ![Now.block] = Now.value] ELSE cache
  /\ suspect' = (suspect \/ (~good /\ Now.op = "route"))
  /\ UNCHANGED <<program, call, calls, initialized, disputed>>

(* What a step's outcome does: good is the helper's result.                 *)
Conclude(good) ==
  /\ ok' = (ok /\ (good \/ Now.op = "may"))
  /\ todo' = IF ~good /\ Now.op \in {"must", "cell", "route"}
             THEN <<>> ELSE Tail(todo)
  /\ initialized' = (initialized /\ (good \/ Now.op # "cell"))
  /\ cache' = IF good /\ Now.op = "route"
              THEN [cache EXCEPT ![Now.block] = Now.value] ELSE cache
  /\ suspect' = (suspect \/ (~good /\ Now.op = "route"))
  /\ UNCHANGED <<program, call, calls, disputed>>

Return ==
  \E r \in {wire[i] : i \in DOMAIN wire} :
    /\ Take(r)
    /\ IF Now.type = "control" THEN Conclude(Accepts(active, r))
       ELSE Conclude(Accepts(active, r) /\ Meets(r.value))
    /\ seen' = IF /\ Now.type = "status" /\ Now.value \in {Unknown, Base}
                  /\ Now.block \in Remembered /\ Accepts(active, r)
               THEN [seen EXCEPT ![Now.block] = r.value] ELSE seen

TimeOut == Expire /\ Conclude(FALSE) /\ UNCHANGED seen

(* The command cannot be written, or is not: sfcForRate(0).                 *)
WriteFails ==
  /\ call # Idle /\ active = None /\ todo # <<>>
  /\ Now.type \in {"control", "status"}
  /\ IF Now.type = "control" /\ Wanted = Unknown THEN UNCHANGED faults
     ELSE faults < MaxFaults /\ faults' = faults + 1
  /\ Conclude(FALSE)
  /\ UNCHANGED <<reg, inbox, deferred, wire, dialect, active, clean, seen>>

\* The steps that send nothing.
Local ==
  /\ call # Idle /\ active = None /\ todo # <<>> /\ Now.type = "none"
  /\ \/ /\ Now.op = "settle"
        /\ wire' = <<>> /\ todo' = Tail(todo)
        /\ UNCHANGED <<cache, initialized>>
     \/ /\ Now.op = "unlessAt"
        /\ todo' = IF ok /\ \A b \in RatePlugs : seen[b] = Now.value
                   THEN <<>> ELSE Tail(todo)
        /\ UNCHANGED <<wire, cache, initialized>>
     \/ /\ Now.op = "adopt"
        /\ cache' = IF Now.value = 1 THEN OriginalPreset ELSE MacfwPreset
        /\ initialized' = TRUE /\ todo' = Tail(todo)
        /\ UNCHANGED wire
  /\ UNCHANGED <<reg, inbox, deferred, dialect, active, clean, faults,
                 program, call, ok, seen, disputed, suspect, calls>>

(* The routine returns; an FW410 engine whose rates failed stops.           *)
Finish ==
  /\ call # Idle /\ active = None /\ todo = <<>>
  /\ call' = Idle /\ ok' = TRUE /\ seen' = Nothing /\ disputed' = {}
  /\ program' = IF call.name = "reassert" /\ ~ok THEN "none" ELSE program
  /\ UNCHANGED <<link, todo, cache, initialized, suspect, calls>>

Outside == UNCHANGED <<program, call, todo, ok, seen, cache, initialized,
                       disputed, suspect, calls>>

DeviceStep == Device /\ Outside
Ignored    == Pass /\ Outside
ServeIdle  == call = Idle /\ Serve /\ Outside

Progress == Request \/ Return \/ Ignored \/ TimeOut \/ WriteFails \/ Local
            \/ Finish

Next == Begin \/ Progress \/ DeviceStep \/ ServeIdle

(* The device works through its commands (it may lose an answer, never all  *)
(* of them); a program in a routine goes on, its deadline at the latest.    *)
Spec == /\ Init /\ [][Next]_vars
        /\ WF_vars(Execute /\ Outside) /\ WF_vars(Progress)

---------------------------------------------------------------------------
(* When a helper succeeds, the device is as its answer says: a CONTROL that *)
(* returned true is in the register (or the device has answered INTERIM for *)
(* it), a STATUS value is what the register holds.  Answers to commands     *)
(* that timed out, of this routine or of an earlier program, may arrive in  *)
(* between: comparing is enough as long as none of those commands, sent to  *)
(* the same register, asked for another value; what is not compared is      *)
(* promised only for a command sent with nothing outstanding.               *)
AnswersAreTrue ==
  [][\A r \in {wire[i] : i \in DOMAIN wire} :
       Return /\ r = Head(wire) /\ Accepts(active, r) /\ clean
       => \/ reg[active.block] = r.value
             /\ (active.type = "control" => r.value = active.value)
          \/ r.type = "interim" /\ dialect # "masked"]_vars

(* A routine that reports PASS leaves the rates it names: the engines'      *)
(* restore and fw1814init through their INPUT readback, rateprobe through   *)
(* both, headphoneprobe its selector, unless the last command for that      *)
(* register was disputed (AnswersAreTrue).                                  *)
Leaves(b, v) == b \in disputed \/ reg[b] = v

PassMeansRates ==
  [][(Finish /\ ok) =>
       /\ call.name \in {"kick", "restore", "rate"} =>
            \A b \in RatePlugs : Leaves(b, call.value)
       /\ call.name = "init" =>
            Leaves("in", IF call.value = 44 THEN 44 ELSE seen["in"])
       /\ call.name = "trial" => \A b \in RatePlugs : Leaves(b, seen[b])
       /\ call.name = "headphone" => Leaves("selector", seen["selector"])]_vars

(* The cached main mixer is what the device holds, partly written presets   *)
(* included, as long as no route write has failed since the last preset and *)
(* none was answered by the late response to another command.               *)
CacheIsHardware ==
  (initialized /\ ~suspect /\ call = Idle) =>
    \A c \in Cells : cache[c] = reg[c]

(* Every routine returns: no answer, lost or late, keeps a caller waiting.  *)
CallsReturn == (call # Idle) ~> (call = Idle)

(* The cached matrix is called trusted, the cache authoritative: a route    *)
(* request that was answered OK is in effect.                               *)
RouteSetHolds ==
  [][(Finish /\ ok /\ call.name = "route") => reg["cell1"] = call.value]_vars
=============================================================================
