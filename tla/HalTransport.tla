---------------------------- MODULE HalTransport ----------------------------
(***************************************************************************)
(* haltransport (tools/transport/haltransport/main.cpp), the FireWire 410's *)
(* supervisor: the loop that starts the native engine of the rate the HAL  *)
(* asks for, replays the saved controls when it is READY, restarts it when *)
(* the rate changes or it ends, cues a unit found in its bootloader, and   *)
(* publishes OFFLINE, RECOVERING or ONLINE to the HAL's I/O path.          *)
(*                                                                         *)
(* Everything that blocks (stopBridge, fw410state restore, fwboot) is a    *)
(* place of its own in the loop.  launchd keeps the supervisor alive and   *)
(* kills its process group when it dies.  The growing retry delays are one *)
(* timer that runs out some time later.                                    *)
(***************************************************************************)
EXTENDS Bridge410

VARIABLES
  pc,             \* where the loop is
  requestedRate,  \* the HAL's rate as read at the top of the iteration
  activeRate,     \* 0: no engine
  child,          \* the engine process the supervisor knows, or NoOne
  readyFd,        \* the read end of its READY pipe is open
  ready, stateRestoreAttempted,
  nextAction,     \* the earliest start of an engine: "past", "future", or
                  \* "over": it has passed, the loop has not looked yet
  gStopRequested,
  status          \* SharedStatus: state, requestedRate, activeRate

handle == <<activeRate, child, readyFd, ready, stateRestoreAttempted>>
loop   == <<requestedRate, nextAction, gStopRequested>>
bridge == <<world, engines, probes, strayed, bounds>>
vars   == <<bridge, pc, loop, handle, status>>

Status(s, r, a) == [state |-> s, requestedRate |-> r, activeRate |-> a]
Offline == Status("offline", 0, 0)

Init ==
  /\ BridgeInit
  /\ pc = "open" /\ requestedRate = 44100 /\ activeRate = 0
  /\ child = NoOne /\ readyFd = FALSE /\ ready = FALSE
  /\ stateRestoreAttempted = FALSE /\ nextAction = "past"
  /\ gStopRequested = FALSE /\ status = Offline

(* child = {}                                                               *)
Forget ==
  /\ child' = NoOne /\ activeRate' = 0 /\ readyFd' = FALSE
  /\ ready' = FALSE /\ stateRestoreAttempted' = FALSE

Reaped(e) == engines' = [engines EXCEPT ![e] = Idle]

-----------------------------------------------------------------------------
(* TransportStatusPublisher::open: the object stays, the state starts over. *)
Open ==
  /\ pc = "open" /\ pc' = "top" /\ status' = Offline
  /\ UNCHANGED <<bridge, loop, handle>>

(* The top of the loop: now, and the rate.  Another rate than the engine's  *)
(* stops the engine.                                                        *)
Top ==
  /\ pc = "top" /\ ~gStopRequested
  /\ requestedRate' = halRate
  /\ IF child # NoOne /\ halRate # activeRate
       THEN /\ Terminate(child) /\ pc' = "stopping"
            /\ nextAction' = "past" /\ readyFd' = FALSE
       ELSE /\ pc' = "poll"
            /\ nextAction' = IF nextAction = "over" THEN "past" ELSE nextAction
            /\ UNCHANGED <<engines, probes, readyFd>>
  /\ UNCHANGED <<world, strayed, bounds, gStopRequested, activeRate, child,
                 ready, stateRestoreAttempted, status>>

(* Mutant: the old engine is told to stop and not waited for.               *)
EngineStoppedUnawaited ==
  /\ pc = "stopping" /\ Forget /\ pc' = "poll"
  /\ UNCHANGED <<bridge, loop, status>>

EngineStopped ==
  /\ pc = "stopping" /\ engines[child].at = "exited"
  /\ Reaped(child) /\ Forget /\ pc' = "poll"
  /\ UNCHANGED <<world, probes, strayed, bounds, loop, status>>

(* Mutant: the end of the pipe is taken for the byte.                       *)
GotByteOrEnd == engines[child].signalled \/ engines[child].at = "exited"

(* What a read of the READY pipe returns: the byte, or the end of the file. *)
GotByte == engines[child].signalled

(* pollReady, and the replay of the saved controls on the first READY.      *)
PollReady ==
  /\ pc \in {"poll", "pollAgain"}
  /\ IF child # NoOne /\ readyFd /\ ~ready
       THEN /\ ready' = GotByte
            /\ readyFd' = ~(GotByte \/ engines[child].at = "exited")
       ELSE UNCHANGED <<ready, readyFd>>
  /\ IF ready' /\ ~stateRestoreAttempted
       THEN /\ stateRestoreAttempted' = TRUE
            /\ pc' = IF pc = "poll" THEN "restore" ELSE "restoreAgain"
       ELSE /\ UNCHANGED stateRestoreAttempted
            /\ pc' = IF pc = "poll" THEN "reap" ELSE "publish"
  /\ UNCHANGED <<bridge, loop, activeRate, child, status>>

(* fw410state restore has ended, well or not.                               *)
Restored ==
  /\ \/ pc = "restore" /\ pc' = "reap"
     \/ pc = "restoreAgain" /\ pc' = "publish"
  /\ UNCHANGED <<bridge, loop, handle, status>>

ChildExited == child # NoOne /\ engines[child].at = "exited"

StillRunning ==
  /\ pc = "reap" /\ ~ChildExited
  /\ pc' = "start"
  /\ UNCHANGED <<bridge, loop, handle, status>>

(* Mutant: an exit that falls into a rate change leaves the handle.         *)
EngineExitedKept ==
  /\ pc = "reap" /\ ChildExited
  /\ Reaped(child)
  /\ IF ~gStopRequested /\ halRate = activeRate
       THEN pc' = "boot" /\ Forget ELSE pc' = "start" /\ UNCHANGED handle
  /\ UNCHANGED <<world, probes, strayed, bounds, loop, status>>

(* Mutant: the rate of the engine outlives it.                              *)
EngineExitedRateKept ==
  /\ pc = "reap" /\ ChildExited
  /\ Reaped(child)
  /\ child' = NoOne /\ readyFd' = FALSE /\ ready' = FALSE
  /\ stateRestoreAttempted' = FALSE /\ UNCHANGED activeRate
  /\ pc' = IF ~gStopRequested /\ halRate = activeRate THEN "boot" ELSE "start"
  /\ UNCHANGED <<world, probes, strayed, bounds, loop, status>>

(* The engine ended by itself.  If its rate is still wanted, as read now,   *)
(* the unit may have rebooted.                                              *)
EngineExited ==
  /\ pc = "reap" /\ ChildExited
  /\ Reaped(child) /\ Forget
  /\ pc' = IF ~gStopRequested /\ halRate = activeRate THEN "boot" ELSE "start"
  /\ UNCHANGED <<world, probes, strayed, bounds, loop, status>>

(* fwboot --execute: the one-shot cue, or one of the results that only mean *)
(* another try later.                                                       *)
TryGuardedBoot ==
  /\ pc = "boot" /\ pc' = "start" /\ nextAction' = "future"
  /\ \/ device = "loader" /\ device' = "booting" /\ UNCHANGED bounds
     \/ Fails(device = "loader") /\ UNCHANGED device
  /\ UNCHANGED <<halRate, deviceRate, plugs, engines, probes, strayed,
                 requestedRate, gStopRequested, handle, status>>

FreeSlot == CHOOSE e \in Slots : engines[e].at = "none"

(* startBridge with the rate read at the top; a failing fork is retried.    *)
StartBridge ==
  /\ pc = "start" /\ child = NoOne /\ nextAction = "past"
  /\ \/ /\ engines' = [engines EXCEPT ![FreeSlot] =
                         [Idle EXCEPT !.at = "entry", !.rate = requestedRate]]
        /\ child' = FreeSlot /\ activeRate' = requestedRate /\ readyFd' = TRUE
        /\ UNCHANGED <<nextAction, bounds>>
     \/ /\ Fault /\ nextAction' = "future"
        /\ UNCHANGED <<engines, child, activeRate, readyFd>>
  /\ pc' = "pollAgain"
  /\ UNCHANGED <<world, probes, strayed, requestedRate, gStopRequested, ready,
                 stateRestoreAttempted, status>>

NoStart ==
  /\ pc = "start" /\ (child # NoOne \/ nextAction # "past")
  /\ pc' = "pollAgain"
  /\ UNCHANGED <<bridge, loop, handle, status>>

Publish ==
  /\ pc = "publish" /\ pc' = "top"
  /\ status' = Status(IF child # NoOne /\ ready THEN "online" ELSE "recovering",
                      requestedRate, activeRate)
  /\ UNCHANGED <<bridge, loop, handle>>

Stop ==
  /\ pc = "top" /\ gStopRequested /\ child # NoOne
  /\ Terminate(child) /\ pc' = "leaving"
  /\ UNCHANGED <<world, strayed, bounds, loop, handle, status>>

Leave ==
  /\ \/ /\ pc = "leaving" /\ engines[child].at = "exited" /\ Reaped(child)
     \/ pc = "top" /\ gStopRequested /\ child = NoOne /\ UNCHANGED engines
  /\ Forget /\ pc' = "gone" /\ status' = Status("offline", halRate, 0)
  /\ UNCHANGED <<world, probes, strayed, bounds, loop>>

Supervise ==
  \/ Open \/ Top \/ EngineStopped \/ PollReady \/ Restored \/ StillRunning
  \/ EngineExited \/ TryGuardedBoot \/ StartBridge \/ NoStart \/ Publish
  \/ Stop \/ Leave

-----------------------------------------------------------------------------
TimerExpires ==
  /\ nextAction = "future" /\ nextAction' = "over"
  /\ UNCHANGED <<bridge, pc, requestedRate, gStopRequested, handle, status>>

Sigterm ==
  /\ ~gStopRequested /\ pc \notin {"open", "gone"} /\ gStopRequested' = TRUE
  /\ UNCHANGED <<bridge, pc, requestedRate, nextAction, handle, status>>

(* launchd kills what is left of the group, which may end in its own cleanup *)
(* or not, and starts the supervisor again.                                 *)
SupervisorDies ==
  /\ pc \notin {"open", "gone"} /\ Fault
  /\ engines' = [e \in Slots |-> Idle] /\ probes' = [p \in Helpers |-> NoProbe]
  /\ Forget /\ pc' = "open" /\ nextAction' = "past" /\ gStopRequested' = FALSE
  /\ \/ plugs' = IF plugs = "held" THEN "free" ELSE plugs
     \/ /\ plugs' = "left"
        /\ plugs = "held" \/ \E e \in Slots : engines[e].at = "arming" /\ CanArm(e)
  /\ requestedRate' = 44100 /\ UNCHANGED <<unit, strayed, status>>

Supervisor410 == UNCHANGED <<pc, loop, handle, status>>

Next ==
  \/ Supervise \/ TimerExpires \/ Sigterm \/ SupervisorDies
  \/ /\ Supervisor410
     /\ \/ \E e \in Slots : Engine(e) \/ Crash(e)
        \/ \E p \in Helpers : Probe(p)
        \/ PerformDeviceConfigurationChange
        \/ BusReset \/ Unplug \/ Replug \/ Reenumerate

Spec == Init /\ [][Next]_vars

(* Each process runs, a timer runs out, a cued unit starts, and a unit that *)
(* was unplugged is plugged in again.                                       *)
FairSpec ==
  /\ Spec
  /\ WF_vars(Supervise) /\ WF_vars(TimerExpires)
  /\ \A e \in Slots : WF_vars(Supervisor410 /\ Engine(e))
  /\ \A p \in Helpers : WF_vars(Supervisor410 /\ Probe(p))
  /\ WF_vars(Supervisor410 /\ Replug) /\ WF_vars(Supervisor410 /\ Reenumerate)

-----------------------------------------------------------------------------
(* Every variable has its type, and the handle of the supervisor is one:    *)
(* a rate exactly while there is a child, and READY of a child only.        *)
TypeOK ==
  /\ halRate \in Rates /\ requestedRate \in Rates
  /\ device \in {"operational", "loader", "booting", "absent"}
  /\ deviceRate \in [{"out", "in"} -> Rates] /\ plugs \in Plugs
  /\ \A e \in Slots : engines[e].rate \in Rates /\ engines[e].bus \in Handles
  /\ \A p \in Helpers : /\ probes[p].parent \in Slots \cup {NoOne}
                        /\ probes[p].bus \in Handles
  /\ child \in Slots \cup {NoOne}
  /\ activeRate = IF child = NoOne THEN 0 ELSE engines[child].rate
  /\ child = NoOne => ~ready /\ ~readyFd /\ ~stateRestoreAttempted
  /\ nextAction \in {"past", "future", "over"}
  /\ status.state \in {"offline", "recovering", "online"}

(* Two engines never run at once: the next one starts when the one before   *)
(* has ended, whether it was stopped for another rate, ended by itself or   *)
(* went with a supervisor that died.  They would contend for the unit, the  *)
(* rings and the sockets.  And none runs once the supervisor has left.      *)
OneEngine ==
  /\ \A e, f \in Slots : Alive(e) /\ Alive(f) => e = f
  /\ pc = "gone" => \A e \in Slots : ~Alive(e)

(* ONLINE opens the HAL's audio path: it is published only for an engine    *)
(* that has reported READY, of the rate that is published, after its saved  *)
(* controls were replayed.                                                  *)
OnlineIsEarned ==
  [][status'.state = "online" /\ status.state # "online" =>
       /\ engines[child].signalled /\ stateRestoreAttempted
       /\ engines[child].rate = status'.activeRate
       /\ status'.requestedRate = status'.activeRate]_vars

(* An engine that streams with the unit in its hands finds both directions  *)
(* of the unit at its own rate (rateprobe's verification, and the           *)
(* reassertion at 44.1 kHz), whatever failed before; the one exception is a *)
(* rateprobe that outlived its entry and sets the rate of that entry after  *)
(* the next engine has checked.                                             *)
RateInForce ==
  \A e \in Slots : engines[e].at = "streaming" /\ engines[e].bus = "open"
                   /\ ~strayed => InForce(engines[e].rate)

(* Left alone, the supervisor ends with the engine of the HAL's rate        *)
(* ONLINE, or has been told to stop: no failure, reboot, bus reset, rate    *)
(* change or restart leaves it waiting.  The one exception is an engine     *)
(* that ended without disconnecting the unit: prepare() refuses connected   *)
(* registers and haltransport resets no bus, so every later engine fails    *)
(* until something else resets it.                                          *)
Converges ==
  <>[](\/ status = Status("online", halRate, halRate)
       \/ gStopRequested
       \/ plugs = "left")

(* Without the exception, the chain of recovery-validation.md ("fresh CMP / *)
(* ISO / DMA lifecycle", "supervisor publishes ONLINE"): not what the code  *)
(* does after an engine that crashed while it was connected.                *)
Recovers ==
  <>[](\/ status = Status("online", halRate, halRate)
       \/ gStopRequested)

(* A stop that is asked for ends with OFFLINE published and the supervisor  *)
(* gone, whatever the engine is doing when it is told to end, unless the    *)
(* supervisor dies on the way: its waitpid has no deadline.                 *)
StopCompletes ==
  gStopRequested ~> \/ pc = "gone" /\ status.state = "offline"
                    \/ ~gStopRequested

(* What entry.cpp says of 44.1 kHz: an engine that was stopped, and met     *)
(* nothing that failed, leaves the unit at its rate.                        *)
CleanStopKeepsRate ==
  [][\A e \in Slots :
       /\ engines[e].at = "closing" /\ engines[e].stop
       /\ engines[e].bus = "open" /\ faults = MaxFaults
       => engines'[e].at # "putback"]_vars
=============================================================================
