--------------------------- MODULE DuplexSession ---------------------------
(***************************************************************************)
(* A duplex streaming session: one program (an engine, a probe, a tool)     *)
(* opens the FireWire device, claims what it needs one resource at a time,  *)
(* connects the device's two plugs, streams, and releases what it holds in  *)
(* its own order.  Any step of the way up may fail and sends the program    *)
(* to the start of its release code; meanwhile the bus may be reset, the    *)
(* other controllers on the bus connect free plugs, and the process dies.   *)
(*                                                                         *)
(* A program is DATA: the steps of its way up and of its release, in the    *)
(* order its source takes them (modules Engines1814, Probes1814 and         *)
(* Programs410).  What a step does is the same code for all of them, in     *)
(* duplex_lifecycle.h, full_duplex_lifecycle.h, cmp.cpp,                    *)
(* isoch_allocation.cpp and firewire_device.cpp, and is one action here.    *)
(***************************************************************************)
EXTENDS Integers, FiniteSets, SessionForm

CONSTANTS Program,      \* name -> [acquire, release : steps, ...]
          InitialRates, \* rates the device may be found at
          MaxGen, MaxSessions, MaxFaults    \* bounds

ASSUME BoundsAssumption ==
  MaxGen \in Nat /\ MaxSessions \in Nat /\ MaxFaults \in Nat

(* Every program is well formed: a condition on its text (SessionForm).      *)
ASSUME ProgramsAssumption ==
  DOMAIN Program # {} /\ \A p \in DOMAIN Program : WellFormed(Program[p])

Free  == 0     \* a plug without a connection
Other == -1    \* connected by another controller; n: by the n-th session

VARIABLES
  \* the running program
  prog, phase, pc,       \* "idle", "acquire", "release"; its next step
  held,                  \* what it has claimed and not yet released
  marks,                 \* flags it has set: rateAttempted, rateKicked, ...
  ok,                    \* its result so far
  myGen,                 \* FireWireDevice::generation_, read when it was found
  genOk,                 \* the result of its last generation check
  stop,                  \* gStopRequested
  audio,                 \* audio thread: "none", "running", "good", "bad"
  qualified,             \* captureQualified: the input side was clean
  exit,                  \* how the last program ended: "none", "good", "bad",
                         \* "refused" by the socket file, "crashed"
  \* the bus, the device and what outlives a process
  gen, plug, rate, socket,
  halActive,             \* ring()->active, 0 or the session that set it
  \* bounds, and a history variable: the program made or undid a connection
  \* and the reply was lost
  sessions, faults, lost

ids     == <<prog, myGen, genOk, exit>>
flow    == <<phase, pc, ok>>
threads == <<stop, audio, qualified>>
world   == <<gen, plug, rate, socket, halActive>>
history == <<sessions, faults, lost>>
vars    == <<ids, flow, held, marks, threads, world, history>>

(* The rates the device may run at.                                         *)
AllRates ==
  {"48000"} \cup InitialRates
  \cup UNION {Rates(Program[p]) : p \in DOMAIN Program}

TypeOK ==
  /\ prog \in DOMAIN Program /\ phase \in {"idle", "acquire", "release"}
  /\ pc \in Nat \ {0}
  /\ held \subseteq Claimable(Program[prog])
  /\ marks \subseteq Flags(Program[prog])
  /\ {ok, genOk, stop, qualified, socket, lost} \subseteq BOOLEAN
  /\ audio \in {"none", "running", "good", "bad"}
  /\ exit \in {"none", "good", "bad", "refused", "crashed"}
  /\ gen \in 0 .. MaxGen /\ myGen \in 0 .. MaxGen
  /\ plug \in [Plugs -> Other .. MaxSessions]
  /\ halActive \in 0 .. MaxSessions
  /\ rate \in [Directions -> AllRates]
  /\ sessions \in 0 .. MaxSessions /\ faults \in 0 .. MaxFaults

(* The first program may find what others left, one of these at a time: a   *)
(* connected plug, another rate, the socket file of a process that died.    *)
Init ==
  /\ prog = CHOOSE p \in DOMAIN Program : TRUE
  /\ phase = "idle" /\ pc = 1 /\ held = {} /\ marks = {}
  /\ ok = FALSE /\ myGen = 0 /\ genOk = FALSE /\ stop = FALSE
  /\ audio = "none" /\ qualified = FALSE /\ exit = "none"
  /\ gen = 0 /\ plug \in [Plugs -> {Free, Other}]
  /\ rate \in {[d \in Directions |-> r] : r \in InitialRates}
  /\ socket \in BOOLEAN /\ halActive = 0
  /\ sessions = 0 /\ faults = 0 /\ lost = FALSE
  /\ Cardinality({p \in Plugs : plug[p] = Other}) + (IF socket THEN 1 ELSE 0)
     + (IF rate["in"] = "48000" THEN 0 ELSE 1) <= 1

Code == IF phase = "acquire" THEN Program[prog].acquire
                             ELSE Program[prog].release
Now  == Code[pc]
At(o) == phase # "idle" /\ pc <= Len(Code) /\ Now.op = o

(* The step is done; after the last step of the way up comes the release.   *)
Advance ==
  IF phase = "acquire" /\ pc = Len(Code)
  THEN phase' = "release" /\ pc' = 1
  ELSE pc' = pc + 1 /\ UNCHANGED phase

(* Mutant: every failure goes to the last label.                            *)
LastLabel == Program[prog].label

(* A step of the way up failed: the goto to the label that is in scope.     *)
Cleanup == IF "block" \in marks THEN 1 ELSE Program[prog].label

GiveUp ==
  phase = "acquire" /\ phase' = "release" /\ pc' = Cleanup /\ ok' = FALSE

(* FireWireDevice's accesses: failOnReset with the generation_ it captured. *)
Reachable == gen = myGen

-----------------------------------------------------------------------------
(* main(): a program starts while no other has the device open.             *)
Launch ==
  /\ phase = "idle" /\ sessions < MaxSessions
  /\ prog' \in DOMAIN Program
  /\ phase' = "acquire" /\ pc' = 1 /\ held' = {} /\ ok' = TRUE
  /\ marks' \in {{}} \cup (IF Program[prog'].mayRunDry THEN {{"dryRun"}} ELSE {})
  /\ genOk' = TRUE /\ stop' = FALSE /\ audio' = "none" /\ qualified' = FALSE
  /\ exit' = "none" /\ sessions' = sessions + 1 /\ lost' = FALSE
  /\ UNCHANGED <<myGen, world, faults>>

(* access(kSocketPath): the high-rate engines and probes refuse to start    *)
(* beside a control socket.                                                 *)
SocketAbsent(s) ==
  /\ s.op = "socketAbsent" /\ (~socket \/ "dryRun" \in marks) /\ Advance
  /\ UNCHANGED <<ids, threads, held, marks, ok, world, history>>

SocketPresent(s) ==
  /\ s.op = "socketAbsent" /\ socket /\ "dryRun" \notin marks
  /\ phase' = "idle" /\ pc' = 1 /\ ok' = FALSE /\ exit' = "refused"
  /\ UNCHANGED <<threads, prog, held, marks, myGen, genOk, world, history>>

(* findByProductName() and open(): the bus address is read once.            *)
Open(s) ==
  /\ s.op = "open" /\ Advance
  /\ held' = held \cup {"device"} /\ myGen' = gen
  /\ UNCHANGED <<marks, threads, prog, ok, genOk, exit, world, history>>

(* A local resource, or a remote access with no lasting effect.             *)
Claim(s) ==
  /\ s.op = "get" \/ s.op = "try"
  /\ Advance /\ held' = held \cup {s.arg}
  /\ UNCHANGED <<ids, marks, threads, ok, world, history>>

(* The control socket of the FireWire 410 is opened where FCP is armed.      *)
ClaimWith(s) ==
  /\ s.op = "tryWith" /\ Advance
  /\ held' \in {held} \cup
       (IF s.arg[2] \in held THEN {held \cup {s.arg[1]}} ELSE {})
  /\ UNCHANGED <<ids, marks, threads, ok, world, history>>

(* Mutant: the result of a claim is not looked at.                          *)
DoneUnchecked(s) ==
  /\ s.op \in {"do", "try", "get"}
  /\ Advance
  /\ UNCHANGED <<ids, threads, held, marks, ok, world, history>>

Done(s) ==
  /\ s.op = "do" \/ s.op = "try"
  /\ Advance
  /\ UNCHANGED <<ids, threads, held, marks, ok, world, history>>

StepFails(s) ==
  /\ s.op \in {"open", "get", "do", "connect", "plugs", "rateIs", "command",
               "finite"}
  /\ GiveUp
  /\ UNCHANGED <<ids, threads, held, marks, world, history>>

(* if (!execute): a dry run has read what it wanted and ends well.          *)
RunDry(s) ==
  /\ s.op = "dry"
  /\ IF "dryRun" \in marks
     THEN phase' = "release" /\ pc' = Cleanup
     ELSE Advance
  /\ UNCHANGED <<ids, threads, held, marks, ok, world, history>>

(* readOpcr0, readIpcr0, cmp::ready: the plugs a program is to use are free.*)
PlugsReady(s) ==
  /\ s.op = "plugs" /\ Reachable /\ \A p \in s.arg : plug[p] = Free
  /\ Advance
  /\ UNCHANGED <<ids, threads, held, marks, ok, world, history>>

(* Mutant: the swap is done whatever the plug holds.                        *)
SwapUnconditionally(p) == Reachable

(* cmp::connectOpcr0 / connectIpcr0: a lock compare-swap against the value  *)
(* read by prepare().                                                       *)
SwapSucceeds(p) == Reachable /\ plug[p] = Free

Connect(s) ==
  /\ s.op = "connect" /\ SwapSucceeds(s.arg) /\ Advance
  /\ plug' = [plug EXCEPT ![s.arg] = sessions]
  /\ held' = held \cup {s.arg}
  /\ UNCHANGED <<ids, marks, threads, ok, gen, rate, socket, halActive,
                 history>>

(* The device took the swap, its answer never came: the flag stays false.   *)
ConnectLost(s) ==
  /\ s.op = "connect" /\ SwapSucceeds(s.arg) /\ faults < MaxFaults /\ GiveUp
  /\ plug' = [plug EXCEPT ![s.arg] = sessions]
  /\ lost' = TRUE /\ faults' = faults + 1
  /\ UNCHANGED <<ids, threads, held, marks, gen, rate, socket, halActive,
                 sessions>>

-----------------------------------------------------------------------------
(* FCP needs the callback dispatcher and an armed response handler.         *)
Answered == Reachable /\ {"callback", "fcp"} \subseteq held

(* readInputRate() and its comparison.                                      *)
RateMatches(s) ==
  /\ s.op = "rateIs" /\ Answered /\ rate["in"] = s.arg /\ Advance
  /\ UNCHANGED <<ids, threads, held, marks, ok, world, history>>

(* setSignalRate(rate, plug) on the way up.                                 *)
Command(s) ==
  /\ s.op = "command" /\ Answered /\ Advance
  /\ rate' = [rate EXCEPT ![s.arg.dir] = s.arg.rate]
  /\ UNCHANGED <<ids, threads, held, marks, ok, gen, plug, socket, halActive,
                 history>>

(* The command was carried out but its answer was lost or rejected.         *)
CommandUnanswered(s) ==
  /\ s.op = "command" /\ Reachable /\ GiveUp
  /\ rate' = [rate EXCEPT ![s.arg.dir] = s.arg.rate]
  /\ UNCHANGED <<ids, threads, held, marks, gen, plug, socket, halActive,
                 history>>

(* The rates a run of rateprobe can leave: either plug may be commanded.     *)
Recommanded(r) ==
  {[d \in Directions |-> IF d \in S THEN r ELSE rate[d]] :
     S \in SUBSET Directions}

(* rateprobe --execute --keep: a process of its own, which commands both     *)
(* plugs and reads both back.                                               *)
RateProbe(s) ==
  /\ s.op = "rateProbe"
  /\ \/ "dryRun" \in marks /\ Advance /\ UNCHANGED <<rate, ok>>
     \/ /\ "dryRun" \notin marks /\ Advance /\ UNCHANGED ok
        /\ rate' = [d \in Directions |-> s.arg]
     \/ "dryRun" \notin marks /\ GiveUp /\ rate' \in Recommanded(s.arg)
  /\ UNCHANGED <<ids, threads, held, marks, gen, plug, socket, halActive,
                 history>>

(* rateAttempted = true, and other marks that cannot fail.                  *)
Mark(s) ==
  /\ s.op = "mark" /\ Advance /\ marks' = marks \cup {s.arg}
  /\ UNCHANGED <<ids, threads, held, ok, world, history>>

StartAudio(s) ==
  /\ s.op = "audio" /\ Advance
  /\ audio' = "running"
  /\ UNCHANGED <<ids, ok, held, marks, stop, qualified, world, history>>

AudioFinished == audio \in {"good", "bad"}

(* A point that checks stop, the audio thread and the bus generation.       *)
Watch(s) ==
  /\ s.op = "watch"
  /\ IF stop \/ AudioFinished \/ (s.arg /\ ~Reachable)
     THEN GiveUp ELSE Advance /\ UNCHANGED ok
  /\ UNCHANGED <<ids, threads, held, marks, world, history>>

(* Fw1814ControlServer::start: an old socket file is unlinked first.        *)
StartControl(s) ==
  /\ s.op = "control" /\ Advance
  /\ \/ socket' = TRUE /\ held' = held \cup {"control"}
     \/ socket' = FALSE /\ UNCHANGED held
  /\ UNCHANGED <<ids, marks, threads, ok, gen, plug, rate, halActive,
                 history>>

(* The loops that wait for the supervisor's CONTROL READY and for a clean   *)
(* input: stop and the audio thread's end leave them early, a deadline only *)
(* where the program has one.                                               *)
Awaited(s) ==
  CASE s.arg.what = "restored"  -> "control" \in held
    [] s.arg.what = "qualified" -> qualified

Await(s) ==
  /\ s.op = "await"
  /\ \/ Awaited(s) /\ Advance /\ UNCHANGED ok
     \/ (stop \/ AudioFinished \/ s.arg.deadline) /\ GiveUp
  /\ UNCHANGED <<ids, held, marks, threads, world, history>>

(* playbackShared.ring()->active = 1.                                       *)
Activate(s) ==
  /\ s.op = "active" /\ Advance
  /\ halActive' = sessions /\ held' = held \cup {"active"}
  /\ UNCHANGED <<ids, marks, threads, ok, gen, plug, rate, socket, history>>

(* The main loop of an engine ends on a stop or with its audio thread; a    *)
(* finite run (a probe, a tool) ends by itself.                             *)
StreamEnds(s) ==
  /\ \/ s.op = "live" /\ (stop \/ AudioFinished)
     \/ s.op = "poll" /\ (stop \/ (s.arg /\ ~Reachable))
     \/ s.op = "finite"
  /\ Advance /\ ok' = (ok /\ (s.op = "poll" => stop))
  /\ UNCHANGED <<ids, threads, held, marks, world, history>>

(* A point of the release that sets gStopRequested.                         *)
Halt(s) ==
  /\ s.op = "halt" /\ Advance /\ stop' = (stop \/ audio # "none")
  /\ UNCHANGED <<ids, ok, held, marks, audio, qualified, world, history>>

(* Mutant: the release does not wait for the audio thread.                  *)
JoinDetached(s) ==
  /\ s.op = "join" /\ Advance
  /\ UNCHANGED <<ids, ok, held, marks, threads, world, history>>

(* audioThread.join(); ok = startupOk && audioOk.                           *)
Join(s) ==
  /\ s.op = "join" /\ audio # "running" /\ Advance
  /\ audio' = "none" /\ ok' = (ok /\ audio # "bad")
  /\ UNCHANGED <<ids, held, marks, stop, qualified, world, history>>

(* Each release is guarded by the flag its claim set.                       *)
Release(s) ==
  /\ s.op = "drop" /\ Advance /\ held' = held \ s.arg
  /\ UNCHANGED <<ids, ok, marks, threads, world, history>>

(* control.reset() unlinks the socket file, started or not: the server      *)
(* object exists once the device is open.                                   *)
StopControl(s) ==
  /\ s.op = "unlink" /\ Advance
  /\ socket' = (socket /\ "device" \notin held) /\ held' = held \ {"control"}
  /\ UNCHANGED <<ids, ok, marks, threads, gen, plug, rate, halActive,
                 history>>

(* if (playbackActive) ring()->active = 0.                                  *)
Deactivate(s) ==
  /\ s.op = "inactive" /\ Advance
  /\ halActive' = IF "active" \in held THEN 0 ELSE halActive
  /\ held' = held \ {"active"}
  /\ UNCHANGED <<ids, ok, marks, threads, gen, plug, rate, socket, history>>

(* generationStillValid() before the plugs are restored: a connected        *)
(* program whose generation has passed writes nothing and fails.            *)
CheckGeneration(s) ==
  /\ s.op = "check" /\ Advance
  /\ genOk' = Reachable /\ ok' = (ok /\ (Plugs \cap held = {} \/ Reachable))
  /\ UNCHANGED <<prog, myGen, exit, held, marks, threads, world, history>>

Restoring(p) == p \in held /\ genOk

(* cmp::restore: read the plug, swap it back to the value first read.  The  *)
(* flag is cleared and the result kept whether or not it worked; the tools  *)
(* of the FireWire 410 ("restoreQuiet") do not look at the result.          *)
Restore(s) ==
  LET p == s.arg IN
  /\ s.op = "restore" \/ s.op = "restoreQuiet"
  /\ Advance /\ held' = held \ {p}
  /\ \/ /\ Restoring(p) /\ Reachable
        /\ plug' = [plug EXCEPT ![p] = Free] /\ UNCHANGED <<ok, lost>>
     \/ /\ Restoring(p) /\ (Reachable => faults < MaxFaults)
        /\ lost' = (lost \/ Reachable) /\ UNCHANGED plug
        /\ ok' = (ok /\ s.op = "restoreQuiet")
     \/ /\ ~Restoring(p) /\ UNCHANGED <<ok, plug, lost>>
  /\ faults' = IF lost' = lost THEN faults ELSE faults + 1
  /\ UNCHANGED <<ids, marks, threads, gen, rate, socket, halActive, sessions>>

(* Mutant: the else-if that fails after a bus reset is missing.             *)
CheckRateQuietly(s) ==
  /\ s.op = "checkRate" /\ Advance /\ genOk' = Reachable
  /\ UNCHANGED <<prog, myGen, exit, ok, held, marks, threads, world, history>>

(* if (rateAttempted && generationStillValid()), and its else-if.           *)
CheckRate(s) ==
  /\ s.op = "checkRate" /\ Advance
  /\ genOk' = Reachable
  /\ ok' = (ok /\ ("rateAttempted" \in marks => Reachable))
  /\ UNCHANGED <<prog, myGen, exit, held, marks, threads, world, history>>

Rerating == "rateAttempted" \in marks /\ genOk

(* The baseline is commanded, its result kept.                              *)
Rerate(s) ==
  /\ s.op = "rerate" /\ Advance
  /\ \/ /\ Rerating /\ Answered
        /\ rate' = [rate EXCEPT ![s.arg] = "48000"] /\ UNCHANGED ok
     \/ /\ Rerating /\ ok' = FALSE
        /\ \/ UNCHANGED rate
           \/ Reachable /\ rate' = [rate EXCEPT ![s.arg] = "48000"]
     \/ ~Rerating /\ UNCHANGED <<ok, rate>>
  /\ marks' = IF Rerating THEN marks \cup {"rerated"} ELSE marks
  /\ UNCHANGED <<ids, held, threads, gen, plug, socket, halActive, history>>

(* The baseline is read back.                                               *)
ReadRate(s) ==
  /\ s.op = "readRate" /\ Advance
  /\ \/ ok' = (ok /\ (Rerating => Answered /\ rate["in"] = "48000"))
     \/ ok' = (ok /\ ~Rerating)
  /\ UNCHANGED <<ids, threads, held, marks, world, history>>

(* A probe's last look at plugs and rate: success needs both restored.      *)
Verify(s) ==
  /\ \/ /\ s.op = "verify"
        /\ ok' = (ok /\ Reachable /\ \A p \in s.arg : plug[p] = Free)
     \/ s.op = "verifyRate" /\ ok' = (ok /\ Answered /\ rate["in"] = "48000")
     \/ (s.op = "verify" \/ s.op = "verifyRate") /\ ok' = FALSE
  /\ Advance
  /\ UNCHANGED <<ids, held, marks, threads, world, history>>

(* What main() of a wrapped tool of the FireWire 410 does after run(): the   *)
(* rate back to 48 kHz, always or after a failure.                          *)
RateBack(s) ==
  /\ s.op = "rateBack" /\ Advance
  /\ IF "dryRun" \in marks \/ (s.arg = "failed" /\ ok)
     THEN UNCHANGED <<ok, rate>>
     ELSE \/ rate' = [d \in Directions |-> "48000"] /\ UNCHANGED ok
          \/ rate' \in Recommanded("48000") /\ ok' = FALSE
  /\ UNCHANGED <<ids, held, marks, threads, gen, plug, socket, halActive,
                 history>>

(* The diagnostics of resets at teardown end in "PASS" even when they could *)
(* not set up their transport.                                              *)
Passed(s) ==
  /\ s.op = "pass" /\ Advance /\ ok' = TRUE
  /\ UNCHANGED <<ids, held, marks, threads, world, history>>

(* return ok ? 0 : 1.                                                       *)
Exit ==
  /\ phase = "release" /\ pc > Len(Code)
  /\ phase' = "idle" /\ pc' = 1
  /\ exit' = (IF ok THEN "good" ELSE "bad")
  /\ UNCHANGED <<prog, myGen, genOk, ok, held, marks, threads, world,
                 history>>

-----------------------------------------------------------------------------
(* Mutant: no service loop looks at the bus generation.                     *)
NoGenerationWatch == FALSE

AudioWatchesGeneration == Program[prog].watchesBus

(* The audio thread: its loop ends well on a stop (or when a new service    *)
(* period cannot be applied), badly on a missed deadline, a failed          *)
(* qualification or the generation check it makes every 250 ms.             *)
AudioEnds ==
  /\ audio = "running"
  /\ audio' \in {"good", "bad"}
  /\ UNCHANGED <<ids, flow, held, marks, stop, qualified, world, history>>

AudioMustEnd ==
  audio = "running" /\ (stop \/ (~Reachable /\ AudioWatchesGeneration))

(* The quad-rate engines qualify the input after the rate commands.         *)
Qualify ==
  /\ audio = "running" /\ "rateKicked" \in marks
  /\ Program[prog].qualifies
  /\ ~qualified /\ qualified' = TRUE
  /\ UNCHANGED <<ids, flow, held, marks, stop, audio, world, history>>

(* SIGINT or SIGTERM to a program with a handler; the wrappers install it    *)
(* after the first rateprobe, and nothing reads the flag once the release    *)
(* has joined the audio thread.                                             *)
Signal ==
  /\ phase = "acquire" \/ audio = "running"
  /\ ~At("rateProbe")
  /\ Program[prog].catches /\ ~stop /\ stop' = TRUE
  /\ UNCHANGED <<ids, flow, held, marks, audio, qualified, world, history>>

(* The process dies: the kernel takes back what was local; plugs, rate, the *)
(* socket file and the shared ring's active word stay as they are.          *)
Crash ==
  /\ phase # "idle" /\ faults < MaxFaults /\ faults' = faults + 1
  /\ phase' = "idle" /\ pc' = 1 /\ ok' = FALSE /\ exit' = "crashed"
  /\ held' = {} /\ audio' = "none"
  /\ UNCHANGED <<prog, myGen, genOk, marks, stop, qualified, world, sessions,
                 lost>>

(* A bus reset: a new generation; the device drops connections (they are to *)
(* be re-established, IEC 61883-1) or keeps them (external).                *)
BusReset ==
  /\ gen < MaxGen /\ gen' = gen + 1
  /\ plug' \in {plug, [p \in Plugs |-> Free]}
  /\ UNCHANGED <<ids, flow, held, marks, threads, rate, socket, halActive,
                 history>>

(* Another controller connects a free plug, or breaks its connection.       *)
Foreign(p) ==
  /\ \/ plug[p] = Free /\ faults < MaxFaults /\ faults' = faults + 1
        /\ plug' = [plug EXCEPT ![p] = Other]
     \/ plug[p] = Other /\ plug' = [plug EXCEPT ![p] = Free]
        /\ UNCHANGED faults
  /\ UNCHANGED <<ids, flow, held, marks, threads, gen, rate, socket,
                 halActive, sessions, lost>>

(* The program takes its next step.                                         *)
WayUp ==
  /\ phase = "acquire"
  /\ \E s \in {Now} :
       \/ SocketAbsent(s) \/ SocketPresent(s) \/ Open(s) \/ Claim(s)
       \/ ClaimWith(s) \/ Done(s) \/ StepFails(s) \/ RunDry(s)
       \/ RateProbe(s) \/ PlugsReady(s) \/ Connect(s) \/ ConnectLost(s)
       \/ RateMatches(s) \/ Command(s) \/ CommandUnanswered(s) \/ Mark(s)
       \/ StartAudio(s) \/ Watch(s) \/ StartControl(s) \/ Await(s)
       \/ Activate(s) \/ StreamEnds(s) \/ Release(s)

WayDown ==
  /\ phase = "release" /\ pc <= Len(Code)
  /\ \E s \in {Now} :
       \/ Halt(s) \/ Join(s) \/ Release(s) \/ StopControl(s)
       \/ Deactivate(s) \/ CheckGeneration(s) \/ Restore(s)
       \/ CheckRate(s) \/ Rerate(s) \/ ReadRate(s) \/ Verify(s)
       \/ RateBack(s) \/ Passed(s)

Next ==
  \/ Launch \/ WayUp \/ WayDown \/ Exit \/ AudioEnds \/ Qualify \/ Signal
  \/ Crash \/ BusReset \/ \E p \in Plugs : Foreign(p)

(* The program runs; its audio thread leaves its loop when it must.         *)
Fairness ==
  WF_vars(WayUp \/ WayDown \/ Exit) /\ WF_vars(AudioMustEnd /\ AudioEnds)

Spec == Init /\ [][Next]_vars /\ Fairness
-----------------------------------------------------------------------------
(* A program that has ended holds nothing: whatever step failed, its release *)
(* code gives back every resource it had claimed.                           *)
EverythingReleased == phase = "idle" => held = {} /\ audio # "running"

(* A program that ends in an orderly way leaves neither plug connected by   *)
(* it, unless the bus was reset under it or an answer of the device was     *)
(* lost: cmp::restore from every point of failure, in the order and under   *)
(* the checks of each release code.                                         *)
NoPlugLeftConnected ==
  phase = "idle" /\ exit \in {"good", "bad"} /\ ~lost /\ gen = myGen
    => \A p \in Plugs : sessions # 0 => plug[p] # sessions

(* The end of a program, however it got there, leaves nothing of it behind   *)
(* on the host and, where it could still reach them, in the device's plugs.  *)
CleanExit == EverythingReleased /\ NoPlugLeftConnected

(* No step of a program connects or frees a plug that another controller    *)
(* holds: connections are swapped in against the value read, and accesses   *)
(* carry the generation the program started in.                             *)
OthersPlugsUntouched ==
  [][\A p \in Plugs :
       plug[p] = Other /\ plug'[p] # Other => UNCHANGED flow]_vars

(* A channel runs only while its plug is connected and its bandwidth held;  *)
(* the bandwidth is not given up before the connection it carries.          *)
StreamsAreConnected ==
  /\ "playback" \in held => "ipcr" \in held
  /\ "ipcr" \in held => "playbackBandwidth" \in held
  /\ "opcr" \in held => "captureBandwidth" \in held

(* The audio thread never outlives the rings and the packet stream it       *)
(* services, which are objects of run()'s block.                            *)
AudioThreadHasRings == audio = "running" => "rings" \in held

(* The HAL is told the transport is active only while both channels run and *)
(* the device has been commanded to the engine's rate on both of its plugs; *)
(* an orderly end takes it back.                                            *)
Commanded(d) ==
  LET path == Program[prog].acquire
  IN  {path[i].arg.rate : i \in {i \in 1 .. Len(path) :
         path[i].op = "command" /\ path[i].arg.dir = d}}

ActiveMeansStreaming ==
  /\ "active" \in held =>
       /\ {"playback", "capture"} \subseteq held
       /\ \A d \in Directions : rate[d] \in Commanded(d)
  /\ halActive = sessions /\ sessions # 0
       => "active" \in held \/ exit = "crashed"

(* Nothing runs without what it runs on: the release order of every program, *)
(* from every point of failure, takes users away before resources.           *)
NothingOutlivesItsSupport ==
  StreamsAreConnected /\ AudioThreadHasRings /\ ActiveMeansStreaming

(* A program that commands a rate and restores the baseline reports success *)
(* only if the device is back at 48 kHz on both plugs, whatever was lost.   *)
SuccessRestoresRate ==
  phase = "idle" /\ exit = "good" /\ "dryRun" \notin marks
    /\ Program[prog].rerates => \A d \in Directions : rate[d] = "48000"

(* What the probes' documentation promises of an execution ("restores the   *)
(* 48-kHz baseline"): once it has begun to command a rate and the bus has   *)
(* not been reset, a program that ends has commanded the baseline again,    *)
(* from whatever step it failed in.                                         *)
AttemptIsUndone ==
  phase = "idle" /\ exit \in {"good", "bad"} /\ gen = myGen
    /\ Program[prog].rerates /\ "rateAttempted" \in marks
    => "rerated" \in marks

(* Rate commands are sent, on the way up and in the release, only while     *)
(* their answers can be received: dispatcher attached, response space armed.*)
CommandsCanBeAnswered ==
  At("command") \/ (At("rerate") /\ Rerating)
    => {"device", "callback", "fcp"} \subseteq held

(* A stop or a bus reset, wherever it comes, ends the program: every wait    *)
(* that can last looks at the flag or at the audio thread, which does.  The  *)
(* exception is capturebridge48000, whose loop never looks at the bus.      *)
MustEnd ==
  stop \/ ("device" \in held /\ ~Reachable /\ ~Program[prog].ignoresResets)

StopOrResetEnds == phase # "idle" /\ MustEnd ~> phase = "idle"
=============================================================================
