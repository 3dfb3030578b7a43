----------------------------- MODULE Supervisor -----------------------------
(***************************************************************************)
(* fw1814supervisor (supervisor_main.cpp): the process that brings the     *)
(* device up, starts the transport engine of the rate the HAL asks for,    *)
(* restarts it when the rate changes or the engine ends, and sends the     *)
(* device through a recovery after a failure.                               *)
(*                                                                         *)
(* Actors: the supervisor, its engine child, the HAL (the rate in the      *)
(* shared ring), the device, and launchd, which relaunches the supervisor. *)
(* The one-shot helpers (init, boot, bus reset, firmware reset, state      *)
(* restore) are a step of the supervisor each: they pass when the device   *)
(* is in the personality they need, and fail otherwise or by a fault.      *)
(* Sleeps and the retry back-off are left to the interleaving.  An engine  *)
(* that dies without its cleanup leaves its control socket's file in /tmp   *)
(* and the unit's plugs connected; both outlive it and stop its successors. *)
(***************************************************************************)
EXTENDS Integers

CONSTANTS Rates,          \* sample rates the HAL offers
          High,           \* 88.2 kHz and above: the engines that refuse to
                          \* run beside a control socket's file
          Quad,           \* isQuadRate: 176.4 and 192 kHz
          Clock44,        \* 44.1 kHz: initialised at 44100
          ForceRecovery,  \* MACFW_FW1814_FORCE_RECOVERY is set
          MaxFaults,      \* bound on the disturbances of a behaviour
          MaxChanges,     \* bound on the rate changes of a behaviour
          NoRate          \* the shared ring does not exist yet

ASSUME SupervisorAssumption ==
  /\ Rates # {} /\ High \cup Clock44 \subseteq Rates
  /\ Quad \subseteq High
  /\ ForceRecovery \in BOOLEAN
  /\ MaxFaults \in Nat /\ MaxChanges \in Nat
  /\ NoRate \notin Rates

VARIABLES
  requested,     \* sampleRate of the shared playback ring
  device,        \* which personality of the device is on the bus
  configured,    \* what init left in the device: "lost" by a disturbance,
                 \* "none" after a reset or boot the supervisor asked for
  left,          \* what a dead engine left: the "socket" file, the "plugs"
  \* the supervisor: where it is, requestedRate, its two flags and the
  \* enumeration deadline, runEngine's two flags, gStopRequested
  supPc, rate, deviceRecoveryRequired, operationalEnumerationPending,
  deadlineOver, rateChangeRequested, stateRestoreAttempted, gStopRequested,
  \* the engine child: its state, the byte in the READY pipe, its exit status
  engine, signalled, status,
  \* history: what followed the last engine failure; the bounds
  since, faults, changes

flags   == <<deviceRecoveryRequired, operationalEnumerationPending, deadlineOver>>
watched == <<rateChangeRequested, stateRestoreAttempted>>
child   == <<engine, signalled, status>>
bounds  == <<faults, changes>>
vars    == <<requested, device, configured, left, supPc, rate, flags, watched,
             gStopRequested, child, since, bounds>>

(* The rate init is run at: quad and double rates start from 48000.         *)
InitFor(r) == IF r \in Clock44 THEN "44100" ELSE "48000"

(* The engine process: with the unit open it starts, is "ready" once its     *)
(* READY byte is out and, at a quad rate, "qualified" once its capture is.   *)
Opened  == {"starting", "ready", "qualified"}
Running == {"launched"} \cup Opened

(* A disturbance: a helper or an engine that fails, a unit unplugged, a      *)
(* signal.  A step that was possible fails only by one of them.             *)
Fault == faults > 0 /\ faults' = faults - 1 /\ UNCHANGED changes

Fails(possible) == \/ ~possible /\ UNCHANGED bounds
                   \/ possible /\ Fault

Init ==
  /\ requested \in Rates \cup {NoRate}
  /\ device \in {"absent", "bootloader", "operational"} /\ configured = "lost"
  /\ left = {} /\ supPc = "select" /\ rate \in Rates
  /\ deviceRecoveryRequired = ForceRecovery
  /\ operationalEnumerationPending = FALSE /\ deadlineOver = FALSE
  /\ rateChangeRequested = FALSE /\ stateRestoreAttempted = FALSE
  /\ gStopRequested = FALSE
  /\ engine = "none" /\ signalled = FALSE /\ status = "ok"
  /\ since = IF ForceRecovery THEN "unrecovered" ELSE "clean"
  /\ faults = MaxFaults /\ changes = MaxChanges

-----------------------------------------------------------------------------
(* main(): rate selection, init, and the boot of a unit without firmware.   *)

SelectRate ==
  /\ supPc = "select" /\ ~gStopRequested /\ requested \in Rates
  /\ rate' = requested /\ supPc' = "init"
  /\ UNCHANGED <<requested, device, configured, left, flags, watched, gStopRequested,
                 child, since, bounds>>

InitPasses ==
  /\ supPc = "init" /\ ~gStopRequested /\ device = "operational"
  /\ configured' = InitFor(rate) /\ operationalEnumerationPending' = FALSE
  /\ supPc' = "recheck"
  /\ UNCHANGED <<requested, device, left, rate, deviceRecoveryRequired, deadlineOver,
                 watched, gStopRequested, child, since, bounds>>

InitFails ==
  /\ supPc = "init" /\ ~gStopRequested /\ ~operationalEnumerationPending
  /\ Fails(device = "operational")
  /\ supPc' = "boot"
  /\ UNCHANGED <<requested, device, configured, left, rate, flags, watched,
                 gStopRequested, child, since>>

(* After a firmware reboot a failing init only means: not back yet.         *)
StillEnumerating ==
  /\ supPc = "init" /\ ~gStopRequested
  /\ operationalEnumerationPending /\ ~deadlineOver
  /\ Fails(device = "operational")
  /\ supPc' = "select"
  /\ UNCHANGED <<requested, device, configured, left, rate, flags, watched,
                 gStopRequested, child, since>>

(* Mutant: the expired wait stays pending.                                  *)
EnumerationTimesOutPending ==
  /\ supPc = "init" /\ ~gStopRequested
  /\ operationalEnumerationPending /\ deadlineOver
  /\ Fails(device = "operational")
  /\ deviceRecoveryRequired' = TRUE /\ since' = "unrecovered"
  /\ supPc' = "select"
  /\ UNCHANGED <<requested, device, configured, left, rate, deadlineOver, watched,
                 operationalEnumerationPending, gStopRequested, child>>

EnumerationTimesOut ==
  /\ supPc = "init" /\ ~gStopRequested
  /\ operationalEnumerationPending /\ deadlineOver
  /\ Fails(device = "operational")
  /\ operationalEnumerationPending' = FALSE
  /\ deviceRecoveryRequired' = TRUE /\ since' = "unrecovered"
  /\ supPc' = "select"
  /\ UNCHANGED <<requested, device, configured, left, rate, deadlineOver, watched,
                 gStopRequested, child>>

BootCue ==
  /\ supPc = "boot" /\ device = "bootloader"
  /\ device' = "starting" /\ configured' = "none" /\ supPc' = "select"
  /\ UNCHANGED <<requested, left, rate, flags, watched, gStopRequested, child,
                 since, bounds>>

(* No bootloader, a refusing guard or a failing check: all go round again.  *)
BootDeclines ==
  /\ supPc = "boot" /\ Fails(device = "bootloader")
  /\ supPc' = "select"
  /\ UNCHANGED <<requested, device, configured, left, rate, flags, watched,
                 gStopRequested, child, since>>

(* The rate is read again after init, and after the quad-rate quiescence.   *)
RateMoved ==
  /\ supPc = "recheck" \/ (supPc = "quiesce" /\ ~gStopRequested)
  /\ requested # rate
  /\ supPc' = "select"
  /\ UNCHANGED <<requested, device, configured, left, rate, flags, watched,
                 gStopRequested, child, since, bounds>>

StartTransport ==
  /\ supPc = "recheck" /\ requested = rate /\ ~deviceRecoveryRequired
  /\ supPc' = IF rate \in Quad THEN "quiesce" ELSE "launch"
  /\ UNCHANGED <<requested, device, configured, left, rate, flags, watched,
                 gStopRequested, child, since, bounds>>

Settled ==
  /\ supPc = "quiesce" /\ ~gStopRequested /\ requested = rate
  /\ supPc' = "launch"
  /\ UNCHANGED <<requested, device, configured, left, rate, flags, watched,
                 gStopRequested, child, since, bounds>>

-----------------------------------------------------------------------------
(* Recovery: a firmware reboot before a quad rate, else a clean bus reset.  *)

StartRecovery ==
  /\ supPc = "recheck" /\ requested = rate /\ deviceRecoveryRequired
  /\ deviceRecoveryRequired' = FALSE
  /\ supPc' = IF rate \in Quad THEN "reboot" ELSE "busReset"
  /\ UNCHANGED <<requested, device, configured, left, rate, deadlineOver,
                 operationalEnumerationPending, watched, gStopRequested, child,
                 since, bounds>>

(* Mutant: the transport starts on the generation the reset opened.         *)
BusResetStraight ==
  /\ supPc = "busReset" /\ device = "operational"
  /\ configured' = "none" /\ left' = left \ {"plugs"}
  /\ since' = "reset" /\ supPc' = "launch"
  /\ UNCHANGED <<requested, device, rate, flags, watched, gStopRequested, child,
                 bounds>>

(* The settle time releases the plugs, whose owner is not there to connect   *)
(* them again.                                                              *)
BusReset ==
  /\ supPc = "busReset" /\ device = "operational"
  /\ configured' = "none" /\ left' = left \ {"plugs"}
  /\ since' = "reset" /\ supPc' = "select"
  /\ UNCHANGED <<requested, device, rate, flags, watched, gStopRequested, child,
                 bounds>>

(* fw1814firmwarereset refuses beside a socket's file and a connected plug.  *)
FirmwareReset ==
  /\ supPc = "reboot" /\ device = "operational" /\ left = {}
  /\ device' = "resetting" /\ configured' = "none"
  /\ supPc' = "awaitBootloader"
  /\ UNCHANGED <<requested, left, rate, flags, watched, gStopRequested, child,
                 since, bounds>>

RebootCue ==
  /\ supPc = "awaitBootloader" /\ device = "bootloader"
  /\ device' = "starting" /\ configured' = "none"
  /\ operationalEnumerationPending' = TRUE /\ deadlineOver' = FALSE
  /\ since' = "reboot" /\ supPc' = "select"
  /\ UNCHANGED <<requested, left, rate, deviceRecoveryRequired, watched,
                 gStopRequested, child, bounds>>

(* What the helper of the current recovery step needs of the device.        *)
Recoverable ==
  IF supPc = "awaitBootloader" THEN device \in {"resetting", "bootloader"}
  ELSE device = "operational" /\ (supPc = "reboot" => left = {})

(* Mutant: a recovery that failed is not asked for again.                   *)
RecoveryFailsForgotten ==
  /\ supPc \in {"busReset", "reboot", "awaitBootloader"} /\ Fails(Recoverable)
  /\ supPc' = "select"
  /\ UNCHANGED <<requested, device, configured, left, rate, flags, watched,
                 gStopRequested, child, since>>

RecoveryFails ==
  /\ supPc \in {"busReset", "reboot", "awaitBootloader"} /\ Fails(Recoverable)
  /\ deviceRecoveryRequired' = TRUE /\ supPc' = "select"
  /\ UNCHANGED <<requested, device, configured, left, rate, deadlineOver, watched,
                 operationalEnumerationPending, gStopRequested, child, since>>

-----------------------------------------------------------------------------
(* runEngine(): fork the engine, then poll in this order: the READY pipe,   *)
(* waitpid, the requested rate, the stop flag.                              *)

LaunchEngine ==
  /\ supPc = "launch"
  /\ engine' = "launched" /\ signalled' = FALSE
  /\ rateChangeRequested' = FALSE /\ stateRestoreAttempted' = FALSE
  /\ supPc' = "watch"
  /\ UNCHANGED <<requested, device, configured, left, rate, flags, gStopRequested,
                 status, since, bounds>>

ReadyPending == signalled /\ ~stateRestoreAttempted

(* READY: the saved controls are replayed, then readiness is published.     *)
(* Neither helper is polled against the engine or the requested rate.       *)
TakeReady ==
  /\ supPc = "watch" /\ ReadyPending
  /\ stateRestoreAttempted' = TRUE /\ supPc' = "restoring"
  /\ UNCHANGED <<requested, device, configured, left, rate, flags, gStopRequested,
                 rateChangeRequested, child, since, bounds>>

RestoreAndPublish ==
  /\ \/ supPc = "restoring" /\ supPc' = "publishing"
     \/ supPc = "publishing" /\ supPc' = "watch"
  /\ UNCHANGED <<requested, device, configured, left, rate, flags, watched,
                 gStopRequested, child, since, bounds>>

StillAlive ==
  /\ supPc = "watch" /\ ~ReadyPending /\ engine # "exited"
  /\ supPc' = "check"
  /\ UNCHANGED <<requested, device, configured, left, rate, flags, watched,
                 gStopRequested, child, since, bounds>>

(* Another rate is wanted: SIGTERM, then wait for the engine.               *)
HandOff ==
  /\ supPc = "check" /\ ~gStopRequested /\ requested # rate
  /\ rateChangeRequested' = TRUE /\ supPc' = "terminating"
  /\ UNCHANGED <<requested, device, configured, left, rate, flags, gStopRequested,
                 stateRestoreAttempted, child, since, bounds>>

(* Mutant: the supervisor leaves without waiting for its child.             *)
StopEngineUnreaped ==
  /\ supPc = "check" /\ gStopRequested
  /\ supPc' = "done"
  /\ UNCHANGED <<requested, device, configured, left, rate, flags, watched,
                 gStopRequested, child, since, bounds>>

StopEngine ==
  /\ supPc = "check" /\ gStopRequested
  /\ supPc' = "terminating"
  /\ UNCHANGED <<requested, device, configured, left, rate, flags, watched,
                 gStopRequested, child, since, bounds>>

(* Mutant: the poll goes on although a stop was requested.                  *)
KeepWatchingDeaf ==
  /\ supPc = "check" /\ requested = rate
  /\ supPc' = "watch"
  /\ UNCHANGED <<requested, device, configured, left, rate, flags, watched,
                 gStopRequested, child, since, bounds>>

KeepWatching ==
  /\ supPc = "check" /\ ~gStopRequested /\ requested = rate
  /\ supPc' = "watch"
  /\ UNCHANGED <<requested, device, configured, left, rate, flags, watched,
                 gStopRequested, child, since, bounds>>

(* The engine is reaped; main() decides whether a recovery is owed, unless  *)
(* it is stopping.                                                          *)
Reaped ==
  /\ engine = "exited"
  /\ supPc = "terminating" \/ (supPc = "watch" /\ ~ReadyPending)
  /\ engine' = "none"
  /\ UNCHANGED <<requested, device, configured, left, rate, deadlineOver, watched,
                 operationalEnumerationPending, gStopRequested, signalled,
                 status, bounds>>

StoppedExit ==
  /\ Reaped /\ gStopRequested
  /\ supPc' = "done"
  /\ since' = IF status = "failed" THEN "forgotten" ELSE since
  /\ UNCHANGED deviceRecoveryRequired

ControlledExit ==
  /\ Reaped /\ ~gStopRequested /\ rateChangeRequested
  /\ deviceRecoveryRequired' = FALSE /\ supPc' = "select"
  /\ since' = IF status = "failed" THEN "forgotten" ELSE "clean"

(* Mutant: a qualification that fails is recovered from like a failure.      *)
QualificationExitRecovers ==
  /\ Reaped /\ ~gStopRequested /\ ~rateChangeRequested /\ status = "retry"
  /\ deviceRecoveryRequired' = TRUE /\ supPc' = "select"
  /\ UNCHANGED since

QualificationExit ==
  /\ Reaped /\ ~gStopRequested /\ ~rateChangeRequested /\ status = "retry"
  /\ deviceRecoveryRequired' = FALSE /\ supPc' = "select"
  /\ UNCHANGED since

UnexpectedExit ==
  /\ Reaped /\ ~gStopRequested /\ ~rateChangeRequested /\ status # "retry"
  /\ deviceRecoveryRequired' = TRUE /\ supPc' = "select"
  /\ since' = "unrecovered"

(* Every wait ends when a stop is requested.                                *)
Quit ==
  /\ gStopRequested
  /\ supPc \in {"select", "init", "boot", "busReset", "reboot",
                "awaitBootloader", "quiesce"}
  /\ supPc' = "done"
  /\ UNCHANGED <<requested, device, configured, left, rate, flags, watched,
                 gStopRequested, child, since, bounds>>

-----------------------------------------------------------------------------
(* The engine process, as far as the supervisor can tell.                   *)

Fits == /\ requested = rate /\ device = "operational"
        /\ rate \in High => "socket" \notin left

(* The engine's first act: at the high rates no socket's file may be there,  *)
(* the ring must have its rate, the unit be there.                           *)
EngineOpens ==
  /\ engine = "launched"
  /\ \/ Fits /\ engine' = "starting" /\ UNCHANGED status
     \/ ~Fits /\ engine' = "exited" /\ status' = "failed"
  /\ UNCHANGED <<requested, device, configured, left, supPc, rate, flags,
                 watched, gStopRequested, signalled, since, bounds>>

(* prepare() finds the plugs free; the control server replaces the file.     *)
EngineReady ==
  /\ engine = "starting" /\ "plugs" \notin left
  /\ engine' = "ready" /\ signalled' = TRUE /\ left' = {}
  /\ UNCHANGED <<requested, device, configured, supPc, rate, flags, watched,
                 gStopRequested, status, since, bounds>>

(* captureQualified, which the quad engines wait for after READY.           *)
EngineQualifies ==
  /\ engine = "ready" /\ rate \in Quad
  /\ engine' = "qualified"
  /\ UNCHANGED <<requested, device, configured, left, supPc, rate, flags,
                 watched, gStopRequested, signalled, status, since, bounds>>

(* The cleanup of an engine that has opened the unit removes the file.       *)
Tidied == IF engine \in Opened \cup {"lost"} THEN left \ {"socket"} ELSE left

(* kQualificationRetry: a start schedule missed at 44.1 kHz, or a capture    *)
(* that does not qualify at a quad rate, before READY or after it.           *)
Requalifies == \/ rate \in Clock44 /\ engine = "starting"
               \/ rate \in Quad /\ engine \in {"starting", "ready"}

(* It fails by itself and may find a plug it cannot restore.                 *)
EngineFails ==
  /\ engine \in Running /\ Fault
  /\ engine' = "exited"
  /\ status' \in {"failed"} \cup IF Requalifies THEN {"retry"} ELSE {}
  /\ left' \in {Tidied} \cup
       IF engine \in Opened THEN {Tidied \cup {"plugs"}} ELSE {}
  /\ UNCHANGED <<requested, device, configured, supPc, rate, flags, watched,
                 gStopRequested, signalled, since>>

(* It ends because the bus generation it began with is gone, or because      *)
(* prepare() finds a plug connected.                                         *)
EngineGivesUp ==
  /\ engine = "lost" \/ (engine = "starting" /\ "plugs" \in left)
  /\ engine' = "exited" /\ status' = "failed" /\ left' = Tidied
  /\ UNCHANGED <<requested, device, configured, supPc, rate, flags, watched,
                 gStopRequested, signalled, since, bounds>>

(* What an engine that dies without its cleanup may leave.                   *)
Leavings == {left} \cup
  (IF engine \in Opened
     THEN {left \cup {"plugs"}, left \cup {"plugs", "socket"}} ELSE {}) \cup
  (IF engine = "lost" THEN {left \cup {"socket"}} ELSE {})

EngineDies ==
  /\ engine \in Opened \cup {"lost"} /\ Fault
  /\ engine' = "exited" /\ status' = "failed" /\ left' \in Leavings
  /\ UNCHANGED <<requested, device, configured, supPc, rate, flags, watched,
                 gStopRequested, signalled, since>>

(* SIGTERM: an orderly end, or death before the handler is installed.       *)
EngineTerminates ==
  /\ supPc = "terminating" /\ engine \in Running
  /\ engine' = "exited" /\ status' = "ok" /\ left' = Tidied
  /\ UNCHANGED <<requested, device, configured, supPc, rate, flags, watched,
                 gStopRequested, signalled, since, bounds>>

-----------------------------------------------------------------------------
(* The surroundings.                                                        *)

(* The HAL creates the ring, or publishes another rate in it.               *)
HalRequests(r) ==
  /\ requested # r
  /\ \/ requested = NoRate /\ UNCHANGED bounds
     \/ requested # NoRate /\ changes > 0 /\ changes' = changes - 1
        /\ UNCHANGED faults
  /\ requested' = r
  /\ UNCHANGED <<device, configured, left, supPc, rate, flags, watched,
                 gStopRequested, child, since>>

Unplug ==
  /\ device # "absent" /\ Fault
  /\ device' = "absent" /\ configured' = "lost" /\ left' = left \ {"plugs"}
  /\ engine' = IF engine \in Opened THEN "lost" ELSE engine
  /\ UNCHANGED <<requested, supPc, rate, flags, watched, gStopRequested,
                 signalled, status, since>>

(* A unit that lost power comes back as a bootloader.                       *)
DeviceMoves ==
  /\ \/ device = "absent" /\ device' \in {"bootloader", "operational"}
     \/ device = "resetting" /\ device' = "bootloader"
     \/ device = "starting" /\ device' = "operational"
  /\ UNCHANGED <<requested, configured, left, supPc, rate, flags, watched,
                 gStopRequested, child, since, bounds>>

(* Ten seconds since the boot cue; a unit on its way needs about four.      *)
DeadlinePasses ==
  /\ operationalEnumerationPending /\ ~deadlineOver
  /\ Fails(device \in {"starting", "operational"})
  /\ deadlineOver' = TRUE
  /\ UNCHANGED <<requested, device, configured, left, supPc, rate, watched,
                 deviceRecoveryRequired, operationalEnumerationPending,
                 gStopRequested, child, since>>

Signal ==
  /\ ~gStopRequested /\ supPc # "done" /\ Fault
  /\ gStopRequested' = TRUE
  /\ UNCHANGED <<requested, device, configured, left, supPc, rate, flags, watched,
                 child, since>>

(* The supervisor dies; launchd ends what is left of its process group,     *)
(* with or without a cleanup.                                               *)
Crash ==
  /\ supPc # "done" /\ Fault
  /\ supPc' = "done" /\ engine' = "none" /\ left' \in Leavings \cup {Tidied}
  /\ UNCHANGED <<requested, device, configured, rate, flags, watched,
                 gStopRequested, signalled, status, since>>

(* KeepAlive: a new process, which remembers nothing of the old one.        *)
Relaunch ==
  /\ supPc = "done"
  /\ supPc' = "select" /\ gStopRequested' = FALSE
  /\ deviceRecoveryRequired' = ForceRecovery
  /\ operationalEnumerationPending' = FALSE /\ deadlineOver' = FALSE
  /\ since' = IF ForceRecovery THEN "unrecovered"
              ELSE IF since = "unrecovered" THEN "forgotten" ELSE since
  /\ UNCHANGED <<requested, device, configured, left, rate, watched, child, bounds>>

-----------------------------------------------------------------------------
Selection == \/ SelectRate \/ InitPasses \/ InitFails \/ StillEnumerating
             \/ EnumerationTimesOut \/ BootCue \/ BootDeclines
             \/ RateMoved \/ StartTransport \/ Settled

Recovery == \/ StartRecovery \/ BusReset \/ FirmwareReset \/ RebootCue
            \/ RecoveryFails

Watch == \/ LaunchEngine \/ TakeReady \/ RestoreAndPublish \/ StillAlive
         \/ HandOff \/ StopEngine \/ KeepWatching
         \/ StoppedExit \/ ControlledExit \/ QualificationExit
         \/ UnexpectedExit

SupervisorStep == Selection \/ Recovery \/ Watch \/ Quit

EngineStep == \/ EngineOpens \/ EngineReady \/ EngineQualifies \/ EngineFails
              \/ EngineGivesUp \/ EngineDies \/ EngineTerminates

Next == \/ SupervisorStep \/ EngineStep \/ \E r \in Rates : HalRequests(r)
        \/ Unplug \/ DeviceMoves \/ DeadlinePasses \/ Signal \/ Crash \/ Relaunch

Spec == Init /\ [][Next]_vars

(* The supervisor's loop and the engine's run on, a HAL starts and creates  *)
(* the ring, a unit comes back and boots, time passes, launchd keeps its    *)
(* job alive.  A disturbance is never owed.                                 *)
Undisturbed == faults' = faults

FairSpec == /\ Spec
            /\ WF_vars(SupervisorStep /\ Undisturbed)
            /\ WF_vars(EngineStep /\ Undisturbed)
            /\ WF_vars(requested = NoRate /\ \E r \in Rates : HalRequests(r))
            /\ WF_vars(DeviceMoves) /\ WF_vars(DeadlinePasses /\ Undisturbed)
            /\ WF_vars(Relaunch)

-----------------------------------------------------------------------------
PlacesOK ==
  /\ requested \in Rates \cup {NoRate} /\ rate \in Rates
  /\ device \in {"absent", "bootloader", "starting", "operational", "resetting"}
  /\ configured \in {"none", "lost", "44100", "48000"}
  /\ left \in SUBSET {"socket", "plugs"}
  /\ supPc \in {"select", "init", "boot", "recheck", "quiesce", "busReset",
                "reboot", "awaitBootloader", "launch", "watch", "check",
                "restoring", "publishing", "terminating", "done"}
  /\ engine \in Running \cup {"none", "lost", "exited"}
  /\ status \in {"ok", "retry", "failed"}
  /\ since \in {"clean", "unrecovered", "forgotten", "reset", "reboot"}

FlagsOK ==
  /\ deviceRecoveryRequired \in BOOLEAN
  /\ operationalEnumerationPending \in BOOLEAN /\ deadlineOver \in BOOLEAN
  /\ rateChangeRequested \in BOOLEAN /\ stateRestoreAttempted \in BOOLEAN
  /\ gStopRequested \in BOOLEAN /\ signalled \in BOOLEAN

BoundsOK == faults \in 0 .. MaxFaults /\ changes \in 0 .. MaxChanges

TypeOK == PlacesOK /\ FlagsOK /\ BoundsOK

(* An engine starts only on a device that was initialised for its rate      *)
(* after the last boot or reset the supervisor asked for, whatever rate     *)
(* changes came in between.                                                 *)
FreshInit ==
  [][LaunchEngine => configured \in {InitFor(rate), "lost"}]_vars

(* No transport starts while a recovery this process knows it owes is       *)
(* outstanding, also when recoveries fail or the reboot never ends.         *)
RecoveryDone == [][LaunchEngine => since # "unrecovered"]_vars

(* A recovery is issued only for a failure no recovery has followed yet:    *)
(* neither a reset the supervisor caused itself nor an engine that asks to   *)
(* be tried again, before READY or after it, schedules one.                  *)
RecoveryOwed ==
  [][BusReset \/ FirmwareReset => since = "unrecovered"]_vars

(* A supervisor that has gone leaves no engine on the bus for the next one  *)
(* to collide with.                                                         *)
NoOrphan == supPc = "done" => engine = "none"

Up == /\ rate = requested
      /\ engine = IF rate \in Quad THEN "qualified" ELSE "ready"

(* What a dead engine left that no recovery of the requested rate removes:  *)
(* its socket's file, which every further engine of a high rate refuses,    *)
(* and before a quad rate also a connected plug, which the firmware reboot   *)
(* refuses.                                                                 *)
Blocked == \/ requested \in High /\ "socket" \in left
           \/ requested \in Quad /\ "plugs" \in left

(* When the disturbances and rate changes end, an engine of the requested   *)
(* rate is up for good: no loop of resets, boots or handoffs goes on.  Only *)
(* an engine that died without its cleanup, or could not restore a plug,    *)
(* can prevent it, and only by what it left (Blocked).                      *)
Converges == <>[](Up \/ Blocked)

(* single-speed-low-latency-handover.md: "an engine failure stops safely    *)
(* and the supervisor recovers without a reboot loop."                      *)
Recovers == <>[]Up

(* A stop request ends the supervisor wherever it is.                       *)
StopCompletes == gStopRequested ~> supPc = "done"

(* supervisor_main.cpp: "Any unexpected engine exit means the next transport *)
(* start must pass through the rate-appropriate recovery again."             *)
Appropriate ==
  [][LaunchEngine =>
       since \in {"clean", "reboot"} \cup IF rate \in Quad THEN {} ELSE {"reset"}]_vars

(* supervisor_main.cpp: "Do not reboot or bus-reset the device as part of   *)
(* ordinary startup": without a fault there is nothing to recover from.     *)
NoRoutineReset ==
  [][BusReset \/ FirmwareReset => faults < MaxFaults \/ ForceRecovery]_vars
=============================================================================
