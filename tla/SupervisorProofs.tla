-------------------------- MODULE SupervisorProofs --------------------------
(***************************************************************************)
(* The supervisor's safety properties hold for every set of rates, every   *)
(* number of disturbances and rate changes, with and without routine       *)
(* recovery.  FreshInit, RecoveryDone, RecoveryOwed and NoOrphan are not    *)
(* inductive: what they say of one program point is carried there by a     *)
(* statement about every program point before it (the parts of Inv).       *)
(***************************************************************************)
EXTENDS Supervisor, TLAPS

(* From init to the launch the device is as init left it, or was disturbed. *)
ConfiguredOK ==
  supPc \in {"recheck", "quiesce", "launch"} =>
    configured \in {InitFor(rate), "lost"}

(* Before the recovery the flag says whether one is owed; during it one is; *)
(* after it none is, and the flag is down.                                  *)
Before == {"select", "init", "boot", "recheck"}
During == {"busReset", "reboot", "awaitBootloader"}
After  == {"quiesce", "launch", "watch", "check", "restoring", "publishing",
           "terminating"}

RecoveryOK ==
  /\ supPc \in Before => (deviceRecoveryRequired <=> since = "unrecovered")
  /\ supPc \in During => ~deviceRecoveryRequired /\ since = "unrecovered"
  /\ supPc \in After  => ~deviceRecoveryRequired /\ since # "unrecovered"

(* The engine exists only while runEngine runs.                             *)
ChildOK ==
  engine # "none" =>
    supPc \in {"watch", "check", "restoring", "publishing", "terminating"}

Inv == TypeOK /\ ConfiguredOK /\ RecoveryOK /\ ChildOK

LEMMA InitInv == Init => Inv
<1> SUFFICES ASSUME Init PROVE Inv
  OBVIOUS
<1>1. PlacesOK
  BY DEF Init, PlacesOK, Running, Opened
<1>2. FlagsOK
  BY SupervisorAssumption DEF Init, FlagsOK
<1>3. BoundsOK
  BY SupervisorAssumption DEF Init, BoundsOK
<1>4. ConfiguredOK /\ ChildOK
  BY DEF Init, ConfiguredOK, ChildOK
<1>5. RecoveryOK
  BY SupervisorAssumption DEF Init, RecoveryOK, Before, During, After
<1> QED
  BY <1>1, <1>2, <1>3, <1>4, <1>5 DEF Inv, TypeOK

(* Every variable keeps its type: the program points and states ...         *)
LEMMA StepPlaces == PlacesOK /\ [Next]_vars => PlacesOK'
<1> SUFFICES ASSUME PlacesOK, [Next]_vars PROVE PlacesOK'
  OBVIOUS
<1> USE DEF PlacesOK, Running, Opened, flags, watched, child, bounds
<1>1. CASE Selection
  <2>1. CASE SelectRate
    BY <2>1 DEF SelectRate
  <2>2. CASE InitPasses
    BY <2>2 DEF InitPasses, InitFor
  <2>3. CASE InitFails
    BY <2>3 DEF InitFails, Fails, Fault
  <2>4. CASE StillEnumerating
    BY <2>4 DEF StillEnumerating, Fails, Fault
  <2>5. CASE EnumerationTimesOut
    BY <2>5 DEF EnumerationTimesOut, Fails, Fault
  <2>6. CASE BootCue
    BY <2>6 DEF BootCue
  <2>7. CASE BootDeclines
    BY <2>7 DEF BootDeclines, Fails, Fault
  <2>8. CASE RateMoved
    BY <2>8 DEF RateMoved
  <2>9. CASE StartTransport
    BY <2>9 DEF StartTransport
  <2>10. CASE Settled
    BY <2>10 DEF Settled
  <2> QED
    BY <1>1, <2>1, <2>2, <2>3, <2>4, <2>5, <2>6, <2>7, <2>8, <2>9, <2>10 DEF Selection
<1>2. CASE Recovery
  <2>1. CASE StartRecovery
    BY <2>1 DEF StartRecovery
  <2>2. CASE BusReset
    BY <2>2 DEF BusReset
  <2>3. CASE FirmwareReset
    BY <2>3 DEF FirmwareReset
  <2>4. CASE RebootCue
    BY <2>4 DEF RebootCue
  <2>5. CASE RecoveryFails
    BY <2>5 DEF RecoveryFails, Fails, Fault, Recoverable
  <2> QED
    BY <1>2, <2>1, <2>2, <2>3, <2>4, <2>5 DEF Recovery
<1>3. CASE Watch
  <2>1. CASE LaunchEngine
    BY <2>1 DEF LaunchEngine
  <2>2. CASE TakeReady
    BY <2>2 DEF TakeReady
  <2>3. CASE RestoreAndPublish
    BY <2>3 DEF RestoreAndPublish
  <2>4. CASE StillAlive
    BY <2>4 DEF StillAlive
  <2>5. CASE HandOff
    BY <2>5 DEF HandOff
  <2>6. CASE StopEngine
    BY <2>6 DEF StopEngine
  <2>7. CASE KeepWatching
    BY <2>7 DEF KeepWatching
  <2>8. CASE StoppedExit
    BY <2>8 DEF StoppedExit, Reaped
  <2>9. CASE ControlledExit
    BY <2>9 DEF ControlledExit, Reaped
  <2>10. CASE QualificationExit
    BY <2>10 DEF QualificationExit, Reaped
  <2>11. CASE UnexpectedExit
    BY <2>11 DEF UnexpectedExit, Reaped
  <2> QED
    BY <1>3, <2>1, <2>2, <2>3, <2>4, <2>5, <2>6, <2>7, <2>8, <2>9, <2>10, <2>11 DEF Watch
<1>4. CASE EngineStep
  <2>1. CASE EngineOpens
    BY <2>1 DEF EngineOpens, Running, Opened
  <2>2. CASE EngineReady
    BY <2>2 DEF EngineReady
  <2>3. CASE EngineQualifies
    BY <2>3 DEF EngineQualifies
  <2>4. CASE EngineFails
    BY <2>4 DEF EngineFails, Fault, Running, Opened, Tidied
  <2>5. CASE EngineGivesUp
    BY <2>5 DEF EngineGivesUp, Running, Opened, Tidied
  <2>6. CASE EngineDies
    BY <2>6 DEF EngineDies, Fault, Running, Opened, Leavings
  <2>7. CASE EngineTerminates
    BY <2>7 DEF EngineTerminates, Running, Opened, Tidied
  <2> QED
    BY <1>4, <2>1, <2>2, <2>3, <2>4, <2>5, <2>6, <2>7 DEF EngineStep
<1>5. CASE Unplug
  BY <1>5 DEF Unplug, Fault
<1>6. CASE DeviceMoves
  BY <1>6 DEF DeviceMoves
<1>7. CASE DeadlinePasses
  BY <1>7 DEF DeadlinePasses, Fails, Fault
<1>8. CASE Signal
  BY <1>8 DEF Signal, Fault
<1>9. CASE Crash
  BY <1>9 DEF Crash, Fault, Leavings, Tidied, Opened
<1>10. CASE Relaunch
  BY <1>10 DEF Relaunch
<1>11. CASE \E r \in Rates : HalRequests(r)
  BY <1>11 DEF HalRequests
<1>12. CASE Quit
  BY <1>12 DEF Quit
<1>13. CASE UNCHANGED vars
  BY <1>13 DEF vars
<1> QED
  BY <1>1, <1>2, <1>3, <1>4, <1>5, <1>6, <1>7, <1>8, <1>9, <1>10, <1>11, <1>12, <1>13 DEF Next, SupervisorStep

(* ... the flags ...                                                        *)
LEMMA StepFlags == FlagsOK /\ [Next]_vars => FlagsOK'
<1> SUFFICES ASSUME FlagsOK, [Next]_vars PROVE FlagsOK'
  OBVIOUS
<1> USE DEF FlagsOK, flags, watched, child
<1>1. CASE Selection
  BY <1>1
  DEF Selection, SelectRate, InitPasses, InitFails, Fails, Fault,
     StillEnumerating, EnumerationTimesOut, BootCue, BootDeclines,
     RateMoved, StartTransport, Settled
<1>2. CASE Recovery
  BY <1>2
  DEF Recovery, StartRecovery, BusReset, FirmwareReset, RebootCue,
     RecoveryFails, Fails, Fault, Recoverable
<1>3. CASE Watch
  BY <1>3
  DEF Watch, LaunchEngine, Running, TakeReady, RestoreAndPublish,
     StillAlive, HandOff, StopEngine, KeepWatching, StoppedExit,
     Reaped, ControlledExit, QualificationExit, UnexpectedExit
<1>4. CASE EngineStep
  BY <1>4
  DEF EngineStep, EngineOpens, EngineReady, EngineQualifies, EngineFails, Fault,
     EngineGivesUp, EngineDies, EngineTerminates
<1>5. CASE Unplug \/ DeviceMoves \/ DeadlinePasses
  BY <1>5
  DEF Unplug, Fault, Running, DeviceMoves, DeadlinePasses, Fails
<1>6. CASE Signal
  BY <1>6
  DEF Signal, Fault
<1>7. CASE Crash
  BY <1>7
  DEF Crash, Fault
<1>8. CASE Relaunch
  BY <1>8, SupervisorAssumption
  DEF Relaunch
<1>9. CASE Quit
  BY <1>9
  DEF Quit
<1>10. CASE \E r \in Rates : HalRequests(r)
  BY <1>10
  DEF HalRequests
<1>11. CASE UNCHANGED vars
  BY <1>11
  DEF vars
<1> QED
  BY <1>1, <1>2, <1>3, <1>4, <1>5, <1>6, <1>7, <1>8, <1>9, <1>10, <1>11
  DEF Next, SupervisorStep

(* ... and the bounds, which only fall.                                     *)
LEMMA StepBounds == BoundsOK /\ [Next]_vars => BoundsOK'
<1> SUFFICES ASSUME BoundsOK, [Next]_vars PROVE BoundsOK'
  OBVIOUS
<1> DEFINE Spent == \/ UNCHANGED bounds \/ Fault
                    \/ /\ changes > 0 /\ changes' = changes - 1
                       /\ UNCHANGED faults
<1>0. SUFFICES Spent
  BY SupervisorAssumption DEF BoundsOK, bounds, Fault
<1> USE DEF bounds
<1>1. CASE Selection
  BY <1>1
  DEF Selection, SelectRate, InitPasses, InitFails, Fails,
     StillEnumerating, EnumerationTimesOut, BootCue, BootDeclines,
     RateMoved, StartTransport, Settled
<1>2. CASE Recovery
  BY <1>2
  DEF Recovery, StartRecovery, BusReset, FirmwareReset, RebootCue,
     RecoveryFails, Fails, Recoverable
<1>3. CASE Watch
  BY <1>3
  DEF Watch, LaunchEngine, Running, TakeReady, RestoreAndPublish,
     StillAlive, HandOff, StopEngine, KeepWatching, StoppedExit,
     Reaped, ControlledExit, QualificationExit, UnexpectedExit
<1>4. CASE EngineStep
  BY <1>4
  DEF EngineStep, EngineOpens, EngineReady, EngineQualifies, EngineFails,
     EngineGivesUp, EngineDies, EngineTerminates
<1>5. CASE Unplug \/ DeviceMoves \/ DeadlinePasses
  BY <1>5
  DEF Unplug, Running, DeviceMoves, DeadlinePasses, Fails
<1>6. CASE Signal
  BY <1>6
  DEF Signal
<1>7. CASE Crash
  BY <1>7
  DEF Crash
<1>8. CASE Relaunch
  BY <1>8
  DEF Relaunch
<1>9. CASE Quit
  BY <1>9
  DEF Quit
<1>10. CASE \E r \in Rates : HalRequests(r)
  BY <1>10
  DEF HalRequests
<1>11. CASE UNCHANGED vars
  BY <1>11
  DEF vars
<1> QED
  BY <1>1, <1>2, <1>3, <1>4, <1>5, <1>6, <1>7, <1>8, <1>9, <1>10, <1>11
  DEF Next, SupervisorStep

(* Only init brings the supervisor to recheck, and nothing but a reset      *)
(* leads away with the device unconfigured.                                 *)
LEMMA StepConfigured == ConfiguredOK /\ [Next]_vars => ConfiguredOK'
<1> SUFFICES ASSUME ConfiguredOK, [Next]_vars PROVE ConfiguredOK'
  OBVIOUS
<1> USE DEF ConfiguredOK, flags, watched, child, bounds
<1>1. CASE Selection
  <2>1. CASE SelectRate
    BY <2>1 DEF SelectRate
  <2>2. CASE InitPasses
    BY <2>2 DEF InitPasses
  <2>3. CASE InitFails
    BY <2>3 DEF InitFails, Fails, Fault
  <2>4. CASE StillEnumerating
    BY <2>4 DEF StillEnumerating, Fails, Fault
  <2>5. CASE EnumerationTimesOut
    BY <2>5 DEF EnumerationTimesOut, Fails, Fault
  <2>6. CASE BootCue
    BY <2>6 DEF BootCue
  <2>7. CASE BootDeclines
    BY <2>7 DEF BootDeclines, Fails, Fault
  <2>8. CASE RateMoved
    BY <2>8 DEF RateMoved
  <2>9. CASE StartTransport
    BY <2>9 DEF StartTransport
  <2>10. CASE Settled
    BY <2>10 DEF Settled
  <2> QED
    BY <1>1, <2>1, <2>2, <2>3, <2>4, <2>5, <2>6, <2>7, <2>8, <2>9, <2>10 DEF Selection
<1>2. CASE Recovery
  <2>1. CASE StartRecovery
    BY <2>1 DEF StartRecovery
  <2>2. CASE BusReset
    BY <2>2 DEF BusReset
  <2>3. CASE FirmwareReset
    BY <2>3 DEF FirmwareReset
  <2>4. CASE RebootCue
    BY <2>4 DEF RebootCue
  <2>5. CASE RecoveryFails
    BY <2>5 DEF RecoveryFails, Fails, Fault, Recoverable
  <2> QED
    BY <1>2, <2>1, <2>2, <2>3, <2>4, <2>5 DEF Recovery
<1>3. CASE Watch
  <2>1. CASE LaunchEngine
    BY <2>1 DEF LaunchEngine, Running
  <2>2. CASE TakeReady
    BY <2>2 DEF TakeReady
  <2>3. CASE RestoreAndPublish
    BY <2>3 DEF RestoreAndPublish
  <2>4. CASE StillAlive
    BY <2>4 DEF StillAlive
  <2>5. CASE HandOff
    BY <2>5 DEF HandOff
  <2>6. CASE StopEngine
    BY <2>6 DEF StopEngine
  <2>7. CASE KeepWatching
    BY <2>7 DEF KeepWatching
  <2>8. CASE StoppedExit
    BY <2>8 DEF StoppedExit, Reaped
  <2>9. CASE ControlledExit
    BY <2>9 DEF ControlledExit, Reaped
  <2>10. CASE QualificationExit
    BY <2>10 DEF QualificationExit, Reaped
  <2>11. CASE UnexpectedExit
    BY <2>11 DEF UnexpectedExit, Reaped
  <2> QED
    BY <1>3, <2>1, <2>2, <2>3, <2>4, <2>5, <2>6, <2>7, <2>8, <2>9, <2>10, <2>11 DEF Watch
<1>4. CASE EngineStep
  <2>1. CASE EngineOpens
    BY <2>1 DEF EngineOpens, Running, Opened
  <2>2. CASE EngineReady
    BY <2>2 DEF EngineReady
  <2>3. CASE EngineQualifies
    BY <2>3 DEF EngineQualifies
  <2>4. CASE EngineFails
    BY <2>4 DEF EngineFails, Fault, Running, Opened, Tidied
  <2>5. CASE EngineGivesUp
    BY <2>5 DEF EngineGivesUp, Running, Opened, Tidied
  <2>6. CASE EngineDies
    BY <2>6 DEF EngineDies, Fault, Running, Opened, Leavings
  <2>7. CASE EngineTerminates
    BY <2>7 DEF EngineTerminates, Running, Opened, Tidied
  <2> QED
    BY <1>4, <2>1, <2>2, <2>3, <2>4, <2>5, <2>6, <2>7 DEF EngineStep
<1>5. CASE Unplug
  BY <1>5 DEF Unplug, Fault, Running, Opened
<1>6. CASE DeviceMoves
  BY <1>6 DEF DeviceMoves
<1>7. CASE DeadlinePasses
  BY <1>7 DEF DeadlinePasses, Fails, Fault
<1>8. CASE Signal
  BY <1>8 DEF Signal, Fault
<1>9. CASE Crash
  BY <1>9 DEF Crash, Fault, Leavings, Tidied, Opened
<1>10. CASE Relaunch
  BY <1>10 DEF Relaunch
<1>11. CASE \E r \in Rates : HalRequests(r)
  BY <1>11 DEF HalRequests
<1>12. CASE Quit
  BY <1>12 DEF Quit
<1>13. CASE UNCHANGED vars
  BY <1>13 DEF vars
<1> QED
  BY <1>1, <1>2, <1>3, <1>4, <1>5, <1>6, <1>7, <1>8, <1>9, <1>10, <1>11, <1>12, <1>13 DEF Next, SupervisorStep

(* The flag and the history of failures stay together.                      *)
LEMMA StepRecovery == FlagsOK /\ RecoveryOK /\ [Next]_vars => RecoveryOK'
<1> SUFFICES ASSUME FlagsOK /\ RecoveryOK, [Next]_vars PROVE RecoveryOK'
  OBVIOUS
<1> USE DEF FlagsOK, RecoveryOK, Before, During, After, flags, watched, child, bounds
<1>1. CASE Selection
  <2>1. CASE SelectRate
    BY <2>1 DEF SelectRate
  <2>2. CASE InitPasses
    BY <2>2 DEF InitPasses
  <2>3. CASE InitFails
    BY <2>3 DEF InitFails, Fails, Fault
  <2>4. CASE StillEnumerating
    BY <2>4 DEF StillEnumerating, Fails, Fault
  <2>5. CASE EnumerationTimesOut
    BY <2>5 DEF EnumerationTimesOut, Fails, Fault
  <2>6. CASE BootCue
    BY <2>6 DEF BootCue
  <2>7. CASE BootDeclines
    BY <2>7 DEF BootDeclines, Fails, Fault
  <2>8. CASE RateMoved
    BY <2>8 DEF RateMoved
  <2>9. CASE StartTransport
    BY <2>9 DEF StartTransport
  <2>10. CASE Settled
    BY <2>10 DEF Settled
  <2> QED
    BY <1>1, <2>1, <2>2, <2>3, <2>4, <2>5, <2>6, <2>7, <2>8, <2>9, <2>10 DEF Selection
<1>2. CASE Recovery
  <2>1. CASE StartRecovery
    BY <2>1 DEF StartRecovery
  <2>2. CASE BusReset
    BY <2>2 DEF BusReset
  <2>3. CASE FirmwareReset
    BY <2>3 DEF FirmwareReset
  <2>4. CASE RebootCue
    BY <2>4 DEF RebootCue
  <2>5. CASE RecoveryFails
    BY <2>5 DEF RecoveryFails, Fails, Fault, Recoverable
  <2> QED
    BY <1>2, <2>1, <2>2, <2>3, <2>4, <2>5 DEF Recovery
<1>3. CASE Watch
  <2>1. CASE LaunchEngine
    BY <2>1 DEF LaunchEngine, Running
  <2>2. CASE TakeReady
    BY <2>2 DEF TakeReady
  <2>3. CASE RestoreAndPublish
    BY <2>3 DEF RestoreAndPublish
  <2>4. CASE StillAlive
    BY <2>4 DEF StillAlive
  <2>5. CASE HandOff
    BY <2>5 DEF HandOff
  <2>6. CASE StopEngine
    BY <2>6 DEF StopEngine
  <2>7. CASE KeepWatching
    BY <2>7 DEF KeepWatching
  <2>8. CASE StoppedExit
    BY <2>8 DEF StoppedExit, Reaped
  <2>9. CASE ControlledExit
    BY <2>9 DEF ControlledExit, Reaped
  <2>10. CASE QualificationExit
    BY <2>10 DEF QualificationExit, Reaped
  <2>11. CASE UnexpectedExit
    BY <2>11 DEF UnexpectedExit, Reaped
  <2> QED
    BY <1>3, <2>1, <2>2, <2>3, <2>4, <2>5, <2>6, <2>7, <2>8, <2>9, <2>10, <2>11 DEF Watch
<1>4. CASE EngineStep
  <2>1. CASE EngineOpens
    BY <2>1 DEF EngineOpens, Running, Opened
  <2>2. CASE EngineReady
    BY <2>2 DEF EngineReady
  <2>3. CASE EngineQualifies
    BY <2>3 DEF EngineQualifies
  <2>4. CASE EngineFails
    BY <2>4 DEF EngineFails, Fault, Running, Opened, Tidied
  <2>5. CASE EngineGivesUp
    BY <2>5 DEF EngineGivesUp, Running, Opened, Tidied
  <2>6. CASE EngineDies
    BY <2>6 DEF EngineDies, Fault, Running, Opened, Leavings
  <2>7. CASE EngineTerminates
    BY <2>7 DEF EngineTerminates, Running, Opened, Tidied
  <2> QED
    BY <1>4, <2>1, <2>2, <2>3, <2>4, <2>5, <2>6, <2>7 DEF EngineStep
<1>5. CASE Unplug
  BY <1>5 DEF Unplug, Fault, Running, Opened
<1>6. CASE DeviceMoves
  BY <1>6 DEF DeviceMoves
<1>7. CASE DeadlinePasses
  BY <1>7 DEF DeadlinePasses, Fails, Fault
<1>8. CASE Signal
  BY <1>8 DEF Signal, Fault
<1>9. CASE Crash
  BY <1>9 DEF Crash, Fault, Leavings, Tidied, Opened
<1>10. CASE Relaunch
  BY <1>10 DEF Relaunch
<1>11. CASE \E r \in Rates : HalRequests(r)
  BY <1>11 DEF HalRequests
<1>12. CASE Quit
  BY <1>12 DEF Quit
<1>13. CASE UNCHANGED vars
  BY <1>13 DEF vars
<1> QED
  BY <1>1, <1>2, <1>3, <1>4, <1>5, <1>6, <1>7, <1>8, <1>9, <1>10, <1>11, <1>12, <1>13 DEF Next, SupervisorStep

(* An engine is launched into the poll loop, which is left by reaping it.   *)
LEMMA StepChild == ChildOK /\ [Next]_vars => ChildOK'
<1> SUFFICES ASSUME ChildOK, [Next]_vars PROVE ChildOK'
  OBVIOUS
<1> USE DEF ChildOK, flags, watched, child, bounds
<1>1. CASE Selection
  <2>1. CASE SelectRate
    BY <2>1 DEF SelectRate
  <2>2. CASE InitPasses
    BY <2>2 DEF InitPasses
  <2>3. CASE InitFails
    BY <2>3 DEF InitFails, Fails, Fault
  <2>4. CASE StillEnumerating
    BY <2>4 DEF StillEnumerating, Fails, Fault
  <2>5. CASE EnumerationTimesOut
    BY <2>5 DEF EnumerationTimesOut, Fails, Fault
  <2>6. CASE BootCue
    BY <2>6 DEF BootCue
  <2>7. CASE BootDeclines
    BY <2>7 DEF BootDeclines, Fails, Fault
  <2>8. CASE RateMoved
    BY <2>8 DEF RateMoved
  <2>9. CASE StartTransport
    BY <2>9 DEF StartTransport
  <2>10. CASE Settled
    BY <2>10 DEF Settled
  <2> QED
    BY <1>1, <2>1, <2>2, <2>3, <2>4, <2>5, <2>6, <2>7, <2>8, <2>9, <2>10 DEF Selection
<1>2. CASE Recovery
  <2>1. CASE StartRecovery
    BY <2>1 DEF StartRecovery
  <2>2. CASE BusReset
    BY <2>2 DEF BusReset
  <2>3. CASE FirmwareReset
    BY <2>3 DEF FirmwareReset
  <2>4. CASE RebootCue
    BY <2>4 DEF RebootCue
  <2>5. CASE RecoveryFails
    BY <2>5 DEF RecoveryFails, Fails, Fault, Recoverable
  <2> QED
    BY <1>2, <2>1, <2>2, <2>3, <2>4, <2>5 DEF Recovery
<1>3. CASE Watch
  <2>1. CASE LaunchEngine
    BY <2>1 DEF LaunchEngine, Running
  <2>2. CASE TakeReady
    BY <2>2 DEF TakeReady
  <2>3. CASE RestoreAndPublish
    BY <2>3 DEF RestoreAndPublish
  <2>4. CASE StillAlive
    BY <2>4 DEF StillAlive
  <2>5. CASE HandOff
    BY <2>5 DEF HandOff
  <2>6. CASE StopEngine
    BY <2>6 DEF StopEngine
  <2>7. CASE KeepWatching
    BY <2>7 DEF KeepWatching
  <2>8. CASE StoppedExit
    BY <2>8 DEF StoppedExit, Reaped
  <2>9. CASE ControlledExit
    BY <2>9 DEF ControlledExit, Reaped
  <2>10. CASE QualificationExit
    BY <2>10 DEF QualificationExit, Reaped
  <2>11. CASE UnexpectedExit
    BY <2>11 DEF UnexpectedExit, Reaped
  <2> QED
    BY <1>3, <2>1, <2>2, <2>3, <2>4, <2>5, <2>6, <2>7, <2>8, <2>9, <2>10, <2>11 DEF Watch
<1>4. CASE EngineStep
  <2>1. CASE EngineOpens
    BY <2>1 DEF EngineOpens, Running, Opened
  <2>2. CASE EngineReady
    BY <2>2 DEF EngineReady
  <2>3. CASE EngineQualifies
    BY <2>3 DEF EngineQualifies
  <2>4. CASE EngineFails
    BY <2>4 DEF EngineFails, Fault, Running, Opened, Tidied
  <2>5. CASE EngineGivesUp
    BY <2>5 DEF EngineGivesUp, Running, Opened, Tidied
  <2>6. CASE EngineDies
    BY <2>6 DEF EngineDies, Fault, Running, Opened, Leavings
  <2>7. CASE EngineTerminates
    BY <2>7 DEF EngineTerminates, Running, Opened, Tidied
  <2> QED
    BY <1>4, <2>1, <2>2, <2>3, <2>4, <2>5, <2>6, <2>7 DEF EngineStep
<1>5. CASE Unplug
  BY <1>5 DEF Unplug, Fault, Running, Opened
<1>6. CASE DeviceMoves
  BY <1>6 DEF DeviceMoves
<1>7. CASE DeadlinePasses
  BY <1>7 DEF DeadlinePasses, Fails, Fault
<1>8. CASE Signal
  BY <1>8 DEF Signal, Fault
<1>9. CASE Crash
  BY <1>9 DEF Crash, Fault, Leavings, Tidied, Opened
<1>10. CASE Relaunch
  BY <1>10 DEF Relaunch
<1>11. CASE \E r \in Rates : HalRequests(r)
  BY <1>11 DEF HalRequests
<1>12. CASE Quit
  BY <1>12 DEF Quit
<1>13. CASE UNCHANGED vars
  BY <1>13 DEF vars
<1> QED
  BY <1>1, <1>2, <1>3, <1>4, <1>5, <1>6, <1>7, <1>8, <1>9, <1>10, <1>11, <1>12, <1>13 DEF Next, SupervisorStep

LEMMA StepInv == Inv /\ [Next]_vars => Inv'
  BY StepPlaces, StepFlags, StepBounds, StepConfigured, StepRecovery, StepChild
  DEF Inv, TypeOK

-----------------------------------------------------------------------------
(* The inductive invariant holds in every reachable state.                  *)
THEOREM Invariance == Spec => []Inv
<1>1. Init => Inv
  BY InitInv
<1>2. Inv /\ [Next]_vars => Inv'
  BY StepInv
<1> QED
  BY <1>1, <1>2, PTL DEF Spec

(* A supervisor that has gone leaves no engine behind.                      *)
THEOREM NoOrphanAlways == Spec => [](TypeOK /\ NoOrphan)
<1>1. Inv => TypeOK /\ NoOrphan
  BY DEF Inv, ChildOK, NoOrphan
<1> QED
  BY <1>1, Invariance, PTL

(* Every engine starts on a device initialised for its rate.                *)
THEOREM FreshInitAlways == Spec => FreshInit
<1>1. Inv /\ [Next]_vars =>
        [LaunchEngine => configured \in {InitFor(rate), "lost"}]_vars
  BY DEF Inv, ConfiguredOK, LaunchEngine
<1> QED
  BY <1>1, Invariance, PTL DEF Spec, FreshInit

(* No engine starts while this process owes a recovery.                     *)
THEOREM RecoveryDoneAlways == Spec => RecoveryDone
<1>1. Inv /\ [Next]_vars => [LaunchEngine => since # "unrecovered"]_vars
  BY DEF Inv, RecoveryOK, After, LaunchEngine
<1> QED
  BY <1>1, Invariance, PTL DEF Spec, RecoveryDone

(* No recovery is issued that no failure asked for.                         *)
THEOREM RecoveryOwedAlways == Spec => RecoveryOwed
<1>1. Inv /\ [Next]_vars =>
        [BusReset \/ FirmwareReset => since = "unrecovered"]_vars
  BY DEF Inv, RecoveryOK, During, BusReset, FirmwareReset
<1> QED
  BY <1>1, Invariance, PTL DEF Spec, RecoveryOwed
=============================================================================
