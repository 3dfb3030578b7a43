------------------------- MODULE HalTransportProofs -------------------------
(***************************************************************************)
(* The FireWire 410's supervisor, for any number of disturbances and rate   *)
(* changes: one engine at a time (OneEngine), a handle that is the engine's *)
(* (TypeOK), ONLINE only for an engine that reported READY, at the rate     *)
(* that is published, after the replay of its controls (OnlineIsEarned),    *)
(* and a streaming engine's rate in force on the unit (RateInForce).        *)
(*                                                                         *)
(* None is inductive: two engines are kept apart by the supervisor's handle *)
(* being the only process there is (Owned), and what is published is true   *)
(* because of what the handle held at every place of the loop (Handle).     *)
(* The steps of the engines, the probes and the bus are all alike to the    *)
(* supervisor: they create no engine and take no READY back (Kept).  The    *)
(* rate needs an account of the helpers: whose each one is, what it may     *)
(* still do, and that the unit is not booted behind an engine (Rated).      *)
(***************************************************************************)
EXTENDS HalTransport, TLAPS

EnginePlaces == {"none", "entry", "asking", "setting", "setup", "arming", "lead",
                 "ready", "streaming", "closing", "putback", "exited"}
Engines == [at : EnginePlaces, rate : Rates, bus : Handles, stop : BOOLEAN,
            failed : BOOLEAN, signalled : BOOLEAN]
ProbePlaces == {"none", "start", "read", "out", "in", "verify", "passed",
                "failed"}
Probes == [at : ProbePlaces, target : Rates, sets : BOOLEAN, ok : BOOLEAN,
           bus : Handles, parent : Slots \cup {NoOne}]

(* The processes and the unit.                                              *)
BridgeTyped ==
  /\ halRate \in Rates
  /\ device \in {"operational", "loader", "booting", "absent"}
  /\ deviceRate \in [{"out", "in"} -> Rates]
  /\ plugs \in Plugs
  /\ engines \in [Slots -> Engines]
  /\ probes \in [Helpers -> Probes]

(* The supervisor's own variables.                                          *)
LoopTyped ==
  /\ requestedRate \in Rates
  /\ child \in Slots \cup {NoOne}
  /\ nextAction \in {"past", "future", "over"}
  /\ status.state \in {"offline", "recovering", "online"}

(* The engine of the handle is the only process, and a handle is one.       *)
Owned ==
  /\ \A e \in Slots : engines[e].at # "none" => e = child
  /\ child # NoOne => engines[child].at # "none"
  /\ pc \in {"stopping", "leaving"} => child # NoOne
  /\ pc \in {"open", "gone"} => child = NoOne

(* What the handle says of that engine; the rate read at the top is the     *)
(* engine's, except while it is being stopped for another.                  *)
Handle ==
  /\ activeRate = IF child = NoOne THEN 0 ELSE engines[child].rate
  /\ child = NoOne => ~ready /\ ~readyFd /\ ~stateRestoreAttempted
  /\ ready => engines[child].signalled /\ stateRestoreAttempted
  /\ child # NoOne /\ pc # "stopping" => requestedRate = activeRate

Inv == BridgeTyped /\ LoopTyped /\ Owned /\ Handle

(* What every step of the processes and the bus leaves alone.               *)
Kept ==
  \A e \in Slots :
    /\ engines'[e].at = "none" <=> engines[e].at = "none"
    /\ engines'[e].rate = engines[e].rate
    /\ engines[e].signalled => engines'[e].signalled

LEMMA NoOneIsNoSlot == NoOne \notin Slots
  BY BridgeAssumption DEF BridgeAssumption, NoOne

LEMMA InitInv == Init => Inv
<1> SUFFICES ASSUME Init PROVE Inv
  OBVIOUS
<1> USE NoOneIsNoSlot DEF Init, BridgeInit
<1>1. Idle \in Engines /\ Idle.at = "none" /\ Idle.rate \in Rates
  BY DEF Idle, Engines, EnginePlaces, Rates, Handles
<1>2. NoProbe \in Probes
  BY DEF NoProbe, Probes, ProbePlaces, Rates, Handles
<1>3. deviceRate \in [{"out", "in"} -> Rates]
  BY DEF NoFormat, Both, Rates
<1>4. BridgeTyped
  BY <1>1, <1>2, <1>3 DEF BridgeTyped, Plugs
<1>5. LoopTyped
  <2>1. status.state = "offline"
    BY DEF Offline, Status
  <2>2. requestedRate \in Rates
    BY DEF Rates
  <2>3. child \in Slots \cup {NoOne} /\ nextAction \in {"past", "future", "over"}
    OBVIOUS
  <2> QED
    BY <2>1, <2>2, <2>3 DEF LoopTyped
<1>6. Owned
  BY <1>1 DEF Owned
<1>7. Handle
  BY DEF Handle
<1> QED
  BY <1>4, <1>5, <1>6, <1>7 DEF Inv

LEMMA InvImplies == Inv => TypeOK /\ OneEngine
<1> SUFFICES ASSUME Inv PROVE TypeOK /\ OneEngine
  OBVIOUS
<1>1. TypeOK
  <2>1. \A e \in Slots : engines[e].rate \in Rates /\ engines[e].bus \in Handles
    BY DEF Inv, BridgeTyped, Engines
  <2>2. \A p \in Helpers : /\ probes[p].parent \in Slots \cup {NoOne}
                           /\ probes[p].bus \in Handles
    BY DEF Inv, BridgeTyped, Probes
  <2> QED
    BY <2>1, <2>2 DEF Inv, BridgeTyped, LoopTyped, Handle, TypeOK
<1>2. OneEngine
  BY NoOneIsNoSlot DEF Inv, Owned, OneEngine, Alive
<1> QED
  BY <1>1, <1>2

-----------------------------------------------------------------------------
(* The processes: what an engine, a probe and the bus may do.               *)

LEMMA IdleTyped == Idle \in Engines /\ NoProbe \in Probes /\ Idle.at = "none"
  BY DEF Idle, NoProbe, Engines, Probes, EnginePlaces, ProbePlaces, Rates,
         Handles

LEMMA FinishTyped ==
  ASSUME BridgeTyped, NEW p \in Helpers, NEW passed, Finish(p, passed)
  PROVE  probes' \in [Helpers -> Probes]
<1>1. probes[p] \in Probes
  BY DEF BridgeTyped
<1>2. \A result \in {"passed", "failed"} :
        [NoProbe EXCEPT !.at = result, !.parent = probes[p].parent] \in Probes
  BY <1>1, IdleTyped DEF Probes, ProbePlaces
<1>4. (IF passed THEN "passed" ELSE "failed") \in {"passed", "failed"}
  OBVIOUS
<1>3. NoProbe \in Probes
  BY IdleTyped
<1> QED
  BY <1>2, <1>3, <1>4 DEF Finish, BridgeTyped

LEMMA ProbeStep ==
  ASSUME BridgeTyped, NEW p \in Helpers, Probe(p)
  PROVE  BridgeTyped' /\ Kept
<1> USE DEF world, Fails, Fault, bounds
<1>1. probes[p] \in Probes
  BY DEF BridgeTyped
<1>2. UNCHANGED <<halRate, device, plugs, engines>>
  BY DEF Probe, ProbeOpens, ProbeReads, ProbeSets, ProbeVerifies
<1>3. deviceRate' \in [{"out", "in"} -> Rates]
  <2>1. CASE ProbeSets(p)
    BY <2>1, <1>1 DEF ProbeSets, BridgeTyped, Probes
  <2> QED
    BY <2>1 DEF Probe, ProbeOpens, ProbeReads, ProbeVerifies, BridgeTyped
<1>4. probes' \in [Helpers -> Probes]
  <2>1. CASE ProbeOpens(p)
    <3>1. [probes[p] EXCEPT !.at = "read", !.bus = "open"] \in Probes
      BY <1>1 DEF Probes, ProbePlaces, Handles
    <3> QED
      BY <2>1, <3>1, FinishTyped DEF ProbeOpens, BridgeTyped
  <2>2. CASE ProbeReads(p)
    <3>1. /\ [probes[p] EXCEPT !.at = "out"] \in Probes
          /\ [probes[p] EXCEPT !.at = "out", !.ok = FALSE] \in Probes
      BY <1>1 DEF Probes, ProbePlaces
    <3> QED
      BY <2>2, <3>1, FinishTyped DEF ProbeReads, BridgeTyped
  <2>3. CASE ProbeSets(p)
    <3>1. /\ [probes[p] EXCEPT !.at = "in"] \in Probes
          /\ [probes[p] EXCEPT !.at = "verify"] \in Probes
      BY <1>1 DEF Probes, ProbePlaces
    <3> QED
      BY <2>3, <3>1 DEF ProbeSets, BridgeTyped
  <2>4. CASE ProbeVerifies(p)
    BY <2>4, FinishTyped DEF ProbeVerifies
  <2> QED
    BY <2>1, <2>2, <2>3, <2>4 DEF Probe
<1> QED
  BY <1>2, <1>3, <1>4 DEF BridgeTyped, Kept

(* An engine moves on: what its steps may write into its record.            *)
Moves(e) ==
  \/ \E x \in EnginePlaces \ {"none"} :
       \/ engines' = [engines EXCEPT ![e].at = x]
       \/ \E b \in Handles : engines' = [engines EXCEPT ![e].at = x, ![e].bus = b]
       \/ \E f \in BOOLEAN : engines' = [engines EXCEPT ![e].at = x,
                                                       ![e].failed = f]
       \/ engines' = [engines EXCEPT ![e].at = x, ![e].signalled = TRUE]
  \/ engines' = [engines EXCEPT ![e].stop = TRUE]
  \/ engines' = Exited(e)

LEMMA MovesKeep ==
  ASSUME BridgeTyped, NEW e \in Slots, engines[e].at # "none", Moves(e)
  PROVE  engines' \in [Slots -> Engines] /\ Kept
<1>1. engines[e] \in Engines
  BY DEF BridgeTyped
<1>2. ASSUME NEW r \in Engines, engines' = [engines EXCEPT ![e] = r],
             r.at # "none", r.rate = engines[e].rate,
             engines[e].signalled => r.signalled
      PROVE  engines' \in [Slots -> Engines] /\ Kept
  BY <1>2 DEF BridgeTyped, Kept
<1>3. CASE \E x \in EnginePlaces \ {"none"} :
             engines' = [engines EXCEPT ![e].at = x]
  <2>1. PICK x \in EnginePlaces \ {"none"} :
          engines' = [engines EXCEPT ![e].at = x]
    BY <1>3
  <2>2. [engines[e] EXCEPT !.at = x] \in Engines
    BY <1>1 DEF Engines
  <2> QED
    BY <1>1, <1>2, <2>1, <2>2 DEF BridgeTyped, Engines
<1>4. CASE \E x \in EnginePlaces \ {"none"}, b \in Handles :
             engines' = [engines EXCEPT ![e].at = x, ![e].bus = b]
  <2>1. PICK x \in EnginePlaces \ {"none"}, b \in Handles :
          engines' = [engines EXCEPT ![e].at = x, ![e].bus = b]
    BY <1>4
  <2>2. [engines[e] EXCEPT !.at = x, !.bus = b] \in Engines
    BY <1>1 DEF Engines
  <2> QED
    BY <1>1, <1>2, <2>1, <2>2 DEF BridgeTyped, Engines
<1>5. CASE \E x \in EnginePlaces \ {"none"}, f \in BOOLEAN :
             engines' = [engines EXCEPT ![e].at = x, ![e].failed = f]
  <2>1. PICK x \in EnginePlaces \ {"none"}, f \in BOOLEAN :
          engines' = [engines EXCEPT ![e].at = x, ![e].failed = f]
    BY <1>5
  <2>2. [engines[e] EXCEPT !.at = x, !.failed = f] \in Engines
    BY <1>1 DEF Engines
  <2> QED
    BY <1>1, <1>2, <2>1, <2>2 DEF BridgeTyped, Engines
<1>6. CASE \E x \in EnginePlaces \ {"none"} :
             engines' = [engines EXCEPT ![e].at = x, ![e].signalled = TRUE]
  <2>1. PICK x \in EnginePlaces \ {"none"} :
          engines' = [engines EXCEPT ![e].at = x, ![e].signalled = TRUE]
    BY <1>6
  <2>2. [engines[e] EXCEPT !.at = x, !.signalled = TRUE] \in Engines
    BY <1>1 DEF Engines
  <2> QED
    BY <1>1, <1>2, <2>1, <2>2 DEF BridgeTyped, Engines
<1>7. CASE engines' = [engines EXCEPT ![e].stop = TRUE]
  <2>1. [engines[e] EXCEPT !.stop = TRUE] \in Engines
    BY <1>1 DEF Engines
  <2> QED
    BY <1>1, <1>2, <1>7, <2>1 DEF BridgeTyped, Engines
<1>8. CASE engines' = Exited(e)
  <2>1. [Idle EXCEPT !.at = "exited", !.rate = engines[e].rate,
                     !.signalled = engines[e].signalled] \in Engines
    BY <1>1, IdleTyped DEF Engines, EnginePlaces
  <2> DEFINE r == [Idle EXCEPT !.at = "exited", !.rate = engines[e].rate,
                               !.signalled = engines[e].signalled]
  <2>2. r.at # "none" /\ r.rate = engines[e].rate
        /\ r.signalled = engines[e].signalled
    BY DEF Idle
  <2>3. engines' = [engines EXCEPT ![e] = r]
    BY <1>8 DEF Exited
  <2> HIDE DEF r
  <2> QED
    BY <1>2, <2>1, <2>2, <2>3 DEF r
<1> QED
  BY <1>3, <1>4, <1>5, <1>6, <1>7, <1>8 DEF Moves

LEMMA ProbesAfter ==
  ASSUME BridgeTyped, NEW e \in Slots
  PROVE  /\ Collected(e) \in [Helpers -> Probes]
         /\ Orphaned(e) \in [Helpers -> Probes]
         /\ \A r \in Rates, sets \in BOOLEAN :
              [probes EXCEPT ![FreeHelper] =
                 [NoProbe EXCEPT !.at = "start", !.parent = e, !.target = r,
                                 !.sets = sets]] \in [Helpers -> Probes]
<1>1. \A p \in Helpers : probes[p] \in Probes
  BY DEF BridgeTyped
<1>2. ASSUME NEW r \in Rates, NEW sets \in BOOLEAN
      PROVE  [probes EXCEPT ![FreeHelper] =
                [NoProbe EXCEPT !.at = "start", !.parent = e, !.target = r,
                                !.sets = sets]] \in [Helpers -> Probes]
  <2>1. [NoProbe EXCEPT !.at = "start", !.parent = e, !.target = r,
                        !.sets = sets] \in Probes
    BY IdleTyped DEF Probes, ProbePlaces
  <2> QED
    BY <2>1 DEF BridgeTyped
<1>3. Collected(e) \in [Helpers -> Probes]
  BY <1>1, IdleTyped DEF Collected
<1>4. Orphaned(e) \in [Helpers -> Probes]
  <2>1. \A p \in Helpers : [probes[p] EXCEPT !.parent = NoOne] \in Probes
    BY DEF BridgeTyped, Probes
  <2> QED
    BY <1>1, <2>1, IdleTyped DEF Orphaned
<1> QED
  BY <1>2, <1>3, <1>4

LEMMA EngineStep ==
  ASSUME BridgeTyped, NEW e \in Slots, Engine(e)
  PROVE  BridgeTyped' /\ Kept
<1> USE DEF unit, world, Fails, Fault, bounds
<1>1. engines[e] \in Engines
  BY DEF BridgeTyped
<1>2. engines[e].at # "none" /\ Moves(e)
  <2>1. CASE EntryStarts(e)
    <3> DEFINE x == IF engines[e].rate = 44100 THEN "setting" ELSE "asking"
    <3>1. engines[e].at = "entry" /\ engines' = [engines EXCEPT ![e].at = x]
      BY <2>1 DEF EntryStarts
    <3>2. x \in EnginePlaces \ {"none"}
      BY DEF EnginePlaces
    <3> HIDE DEF x
    <3> QED
      BY <3>1, <3>2 DEF Moves
  <2>2. CASE EntryMustSet(e)
    BY <2>2 DEF EntryMustSet, Moves, EnginePlaces, Handles
  <2>3. CASE EntryPasses(e)
    BY <2>3 DEF EntryPasses, Moves, EnginePlaces, Handles
  <2>4. CASE EntryFails(e)
    BY <2>4 DEF EntryFails, Moves, EnginePlaces, Handles
  <2>5. CASE Setup(e)
    BY <2>5 DEF Setup, Moves, EnginePlaces, Handles
  <2>6. CASE Arm(e)
    <3>1. CASE engines[e].rate = 44100
      BY <2>6, <3>1 DEF Arm, Moves, EnginePlaces
    <3>2. CASE engines[e].rate # 44100
      BY <2>6, <3>2 DEF Arm, Moves, EnginePlaces
    <3> QED
      BY <3>1, <3>2
  <2>7. CASE StopInLead(e)
    BY <2>7 DEF StopInLead, Moves, EnginePlaces, Handles
  <2>8. CASE Reassert(e)
    BY <2>8 DEF Reassert, Moves, EnginePlaces, Handles
  <2>9. CASE SignalReady(e)
    BY <2>9 DEF SignalReady, Moves, EnginePlaces, Handles
  <2>10. CASE StreamEnds(e)
    BY <2>10 DEF StreamEnds, Moves, EnginePlaces, Handles
  <2>11. CASE CleanUp(e)
    <3>1. CASE engines[e].rate = 44100 /\ engines[e].failed
      <4>1. engines[e].at = "closing"
            /\ engines' = [engines EXCEPT ![e].at = "putback",
                                          ![e].bus = "closed"]
        BY <2>11, <3>1 DEF CleanUp
      <4>2. "putback" \in EnginePlaces \ {"none"} /\ "closed" \in Handles
        BY DEF EnginePlaces, Handles
      <4> QED
        BY <4>1, <4>2 DEF Moves
    <3>2. CASE ~(engines[e].rate = 44100 /\ engines[e].failed)
      <4>1. engines[e].at = "closing" /\ engines' = Exited(e)
        BY <2>11, <3>2 DEF CleanUp, WithProbe
      <4> QED
        BY <4>1 DEF Moves
    <3> QED
      BY <3>1, <3>2
  <2>12. CASE PutBack(e)
    BY <2>12 DEF PutBack, Moves, EnginePlaces, Handles
  <2> QED
    BY <2>1, <2>2, <2>3, <2>4, <2>5, <2>6, <2>7, <2>8, <2>9, <2>10, <2>11, <2>12 DEF Engine
<1>3. probes' \in [Helpers -> Probes]
  <2>1. CASE EntryStarts(e)
    <3> DEFINE sets == engines[e].rate = 44100
    <3>1. probes' = [probes EXCEPT ![FreeHelper] =
                       [NoProbe EXCEPT !.at = "start", !.parent = e,
                          !.target = engines[e].rate, !.sets = sets]]
      BY <2>1 DEF EntryStarts, WithProbe
    <3>2. engines[e].rate \in Rates /\ sets \in BOOLEAN
      BY <1>1 DEF Engines
    <3> HIDE DEF sets
    <3> QED
      BY <3>1, <3>2, ProbesAfter
  <2>2. CASE EntryMustSet(e)
    <3>1. [NoProbe EXCEPT !.at = "start", !.parent = e,
                          !.target = engines[e].rate, !.sets = TRUE] \in Probes
      BY <1>1, IdleTyped DEF Probes, ProbePlaces, Engines
    <3> QED
      BY <2>2, <3>1 DEF EntryMustSet, BridgeTyped
  <2>3. CASE EntryPasses(e) \/ EntryFails(e) \/ PutBack(e)
    <3>1. probes' = Collected(e)
      BY <2>3 DEF EntryPasses, EntryFails, PutBack
    <3> QED
      BY <3>1, ProbesAfter
  <2>4. CASE CleanUp(e)
    <3> DEFINE r == 48000
               sets == TRUE
    <3>1. \/ probes' = probes
          \/ probes' = [probes EXCEPT ![FreeHelper] =
                          [NoProbe EXCEPT !.at = "start", !.parent = e,
                             !.target = r, !.sets = sets]]
      BY <2>4 DEF CleanUp, WithProbe
    <3>2. r \in Rates /\ sets \in BOOLEAN
      BY DEF Rates
    <3> HIDE DEF r, sets
    <3>3. [probes EXCEPT ![FreeHelper] =
             [NoProbe EXCEPT !.at = "start", !.parent = e, !.target = r,
                             !.sets = sets]] \in [Helpers -> Probes]
      BY <3>2, ProbesAfter
    <3>4. probes \in [Helpers -> Probes]
      BY DEF BridgeTyped
    <3> QED
      BY <3>1, <3>3, <3>4
  <2>5. CASE \/ Setup(e) \/ Arm(e) \/ StopInLead(e) \/ Reassert(e)
             \/ SignalReady(e) \/ StreamEnds(e)
    BY <2>5 DEF Setup, Arm, StopInLead, Reassert, SignalReady, StreamEnds,
                BridgeTyped
  <2> QED
    BY <2>1, <2>2, <2>3, <2>4, <2>5 DEF Engine
<1>4. UNCHANGED halRate /\ UNCHANGED device
  <2>1. CASE Reassert(e)
    BY <2>1 DEF Reassert
  <2>2. CASE \/ EntryStarts(e) \/ EntryMustSet(e) \/ EntryPasses(e)
             \/ EntryFails(e) \/ Setup(e) \/ Arm(e)
    BY <2>2 DEF EntryStarts, EntryMustSet, EntryPasses, EntryFails, Setup, Arm
  <2>3. CASE \/ StopInLead(e) \/ SignalReady(e) \/ StreamEnds(e) \/ CleanUp(e)
             \/ PutBack(e)
    BY <2>3 DEF StopInLead, SignalReady, StreamEnds, CleanUp, PutBack, WithProbe
  <2> QED
    BY <2>1, <2>2, <2>3 DEF Engine
<1>5. deviceRate' \in [{"out", "in"} -> Rates]
  <2>1. CASE Reassert(e)
    <3>1. Both(44100) \in [{"out", "in"} -> Rates]
      BY DEF Both, Rates
    <3> QED
      BY <2>1, <3>1 DEF Reassert, BridgeTyped
  <2>2. CASE \/ EntryStarts(e) \/ EntryMustSet(e) \/ EntryPasses(e)
             \/ EntryFails(e) \/ Setup(e) \/ Arm(e)
    BY <2>2 DEF EntryStarts, EntryMustSet, EntryPasses, EntryFails, Setup, Arm,
                BridgeTyped
  <2>3. CASE \/ StopInLead(e) \/ SignalReady(e) \/ StreamEnds(e) \/ CleanUp(e)
             \/ PutBack(e)
    BY <2>3 DEF StopInLead, SignalReady, StreamEnds, CleanUp, PutBack,
                WithProbe, BridgeTyped
  <2> QED
    BY <2>1, <2>2, <2>3 DEF Engine
<1>6. plugs' \in Plugs
  <2>1. plugs \in Plugs
    BY DEF BridgeTyped
  <2>2. CASE Arm(e)
    BY <2>1, <2>2 DEF Arm, Plugs
  <2>3. CASE CleanUp(e)
    BY <2>1, <2>3 DEF CleanUp, Plugs
  <2>4. CASE \/ EntryStarts(e) \/ EntryMustSet(e) \/ EntryPasses(e)
             \/ EntryFails(e) \/ Setup(e) \/ Reassert(e)
    BY <2>1, <2>4 DEF EntryStarts, EntryMustSet, EntryPasses, EntryFails, Setup,
                      Reassert
  <2>5. CASE StopInLead(e) \/ SignalReady(e) \/ StreamEnds(e) \/ PutBack(e)
    BY <2>1, <2>5 DEF StopInLead, SignalReady, StreamEnds, PutBack
  <2> QED
    BY <2>2, <2>3, <2>4, <2>5 DEF Engine
<1> QED
  BY <1>2, <1>3, <1>4, <1>5, <1>6, MovesKeep DEF BridgeTyped

LEMMA DieStep ==
  ASSUME BridgeTyped, NEW e \in Slots, engines[e].at # "none", Die(e)
  PROVE  /\ engines' \in [Slots -> Engines] /\ probes' \in [Helpers -> Probes]
         /\ Kept
<1>1. Moves(e)
  BY DEF Die, Moves
<1>2. probes' \in [Helpers -> Probes]
  BY ProbesAfter DEF Die
<1> QED
  BY <1>1, <1>2, MovesKeep

LEMMA TerminateStep ==
  ASSUME BridgeTyped, NEW e \in Slots, engines[e].at # "none", Terminate(e),
         UNCHANGED world
  PROVE  BridgeTyped' /\ Kept
<1>1. /\ engines' \in [Slots -> Engines] /\ probes' \in [Helpers -> Probes]
      /\ Kept
  <2>1. CASE engines[e].at \in {"entry", "asking", "setting"}
    BY <2>1, DieStep DEF Terminate
  <2>2. CASE engines[e].at \notin {"entry", "asking", "setting"}
    <3>1. Moves(e) /\ UNCHANGED probes
      BY <2>2 DEF Terminate, Moves
    <3> QED
      BY <3>1, MovesKeep DEF BridgeTyped
  <2> QED
    BY <2>1, <2>2
<1> QED
  BY <1>1 DEF BridgeTyped, world

LEMMA CrashStep ==
  ASSUME BridgeTyped, NEW e \in Slots, Crash(e)
  PROVE  BridgeTyped' /\ Kept
<1>1. engines[e].at # "none" /\ Die(e) /\ UNCHANGED unit
  BY DEF Crash, Alive
<1>2. plugs' \in Plugs
  BY DEF Crash, BridgeTyped, Plugs
<1> QED
  BY <1>1, <1>2, DieStep DEF BridgeTyped, unit

LEMMA DisturbStep ==
  ASSUME BridgeTyped, NEW from, NEW to \in Handles, Disturb(from, to)
  PROVE  /\ engines' \in [Slots -> Engines] /\ probes' \in [Helpers -> Probes]
         /\ Kept /\ UNCHANGED halRate /\ plugs' \in Plugs
<1>1. \A e \in Slots : /\ engines[e] \in Engines
                        /\ [engines[e] EXCEPT !.bus = to] \in Engines
                        /\ [engines[e] EXCEPT !.bus = to].at = engines[e].at
                        /\ [engines[e] EXCEPT !.bus = to].rate = engines[e].rate
                        /\ [engines[e] EXCEPT !.bus = to].signalled
                              = engines[e].signalled
  BY DEF BridgeTyped, Engines
<1>2. \A p \in Helpers : /\ probes[p] \in Probes
                          /\ [probes[p] EXCEPT !.bus = to] \in Probes
  BY DEF BridgeTyped, Probes
<1>3. probes' \in [Helpers -> Probes]
  BY <1>2 DEF Disturb
<1>4. \A e \in Slots : engines'[e] = IF engines[e].bus \in from
                                     THEN [engines[e] EXCEPT !.bus = to]
                                     ELSE engines[e]
  BY DEF Disturb
<1>5. engines' \in [Slots -> Engines]
  BY <1>1 DEF Disturb
<1>6. Kept
  BY <1>1, <1>4 DEF Kept
<1> QED
  BY <1>3, <1>5, <1>6 DEF Disturb, Plugs

LEMMA WorldStep ==
  ASSUME BridgeTyped,
         \/ PerformDeviceConfigurationChange
         \/ BusReset \/ Unplug \/ Replug \/ Reenumerate
  PROVE  BridgeTyped' /\ Kept
<1>1. CASE PerformDeviceConfigurationChange
  BY <1>1 DEF PerformDeviceConfigurationChange, BridgeTyped, Kept
<1>2. CASE BusReset
  <2>1. "stale" \in Handles
    BY DEF Handles
  <2> QED
    BY <1>2, <2>1, DisturbStep DEF BusReset, BridgeTyped
<1>3. CASE Unplug
  <2>1. "gone" \in Handles /\ NoFormat \in [{"out", "in"} -> Rates]
    BY DEF Handles, NoFormat, Both, Rates
  <2>2. device' = "absent" /\ deviceRate' = NoFormat
        /\ Disturb({"open", "stale"}, "gone")
    BY <1>3 DEF Unplug
  <2> QED
    BY <2>1, <2>2, DisturbStep DEF BridgeTyped
<1>4. CASE Replug
  BY <1>4 DEF Replug, BridgeTyped, Kept
<1>5. CASE Reenumerate
  <2>1. \A r \in Rates : Both(r) \in [{"out", "in"} -> Rates]
    BY DEF Both
  <2> QED
    BY <1>5, <2>1 DEF Reenumerate, BridgeTyped, Kept
<1> QED
  BY <1>1, <1>2, <1>3, <1>4, <1>5

(* To the supervisor they are all alike.                                    *)
LEMMA SupervisorUntouched ==
  ASSUME Inv, BridgeTyped', Kept, Supervisor410
  PROVE  Inv'
<1>1. UNCHANGED <<pc, requestedRate, nextAction, gStopRequested, activeRate, child,
                  readyFd, ready, stateRestoreAttempted, status>>
  BY DEF Supervisor410, loop, handle
<1>2. LoopTyped'
  BY <1>1 DEF Inv, LoopTyped
<1>3. Owned'
  BY <1>1 DEF Inv, LoopTyped, Owned, Kept
<1>4. Handle'
  BY <1>1 DEF Inv, LoopTyped, Handle, Kept
<1> QED
  BY <1>2, <1>3, <1>4 DEF Inv

-----------------------------------------------------------------------------
(* The supervisor.                                                          *)

(* After Forget there is no engine, if the one of the handle is reaped.     *)
LEMMA ForgetStep ==
  ASSUME Inv, Forget, \A e \in Slots : engines'[e].at = "none",
         pc' \notin {"stopping", "leaving"}
  PROVE  Owned' /\ Handle'
<1>1. child' = NoOne /\ activeRate' = 0 /\ ~ready' /\ ~readyFd'
      /\ ~stateRestoreAttempted'
  BY DEF Forget
<1> QED
  BY <1>1, NoOneIsNoSlot DEF Owned, Handle

LEMMA ReapedStep ==
  ASSUME Inv, child # NoOne, Reaped(child), UNCHANGED <<world, probes>>
  PROVE  BridgeTyped' /\ \A e \in Slots : engines'[e].at = "none"
<1>1. child \in Slots /\ engines \in [Slots -> Engines]
  BY DEF Inv, LoopTyped, BridgeTyped
<1>2. engines' \in [Slots -> Engines]
  BY <1>1, IdleTyped DEF Reaped
<1>3. \A e \in Slots : engines'[e].at = "none"
  BY <1>1, IdleTyped DEF Inv, Owned, Reaped
<1> QED
  BY <1>2, <1>3 DEF Inv, BridgeTyped, world

LEMMA SuperviseStep == Inv /\ Supervise => Inv'
<1> SUFFICES ASSUME Inv, Supervise PROVE Inv'
  OBVIOUS
<1> USE DEF bridge, world, bounds, loop, handle
<1>0. /\ BridgeTyped /\ LoopTyped /\ Owned /\ Handle
      /\ child # NoOne => child \in Slots /\ engines[child].at # "none"
  BY DEF Inv, LoopTyped, Owned
<1>1. CASE Open
  <2>1. BridgeTyped'
    BY <1>0, <1>1 DEF Open, BridgeTyped
  <2>2. LoopTyped'
    BY <1>0, <1>1 DEF Open, LoopTyped, Offline, Status
  <2>3. Owned' /\ Handle'
    BY <1>0, <1>1 DEF Open, Owned, Handle
  <2> QED
    BY <2>1, <2>2, <2>3 DEF Inv
<1>2. CASE Top
  <2>1. CASE child # NoOne /\ halRate # activeRate
    <3>1. /\ Terminate(child) /\ UNCHANGED world /\ pc' = "stopping"
          /\ requestedRate' = halRate /\ nextAction' = "past" /\ readyFd' = FALSE
          /\ UNCHANGED <<activeRate, child, ready, stateRestoreAttempted, status>>
      BY <1>2, <2>1 DEF Top
    <3>2. BridgeTyped' /\ Kept
      BY <1>0, <2>1, <3>1, TerminateStep
    <3>3. LoopTyped'
      BY <1>0, <3>1 DEF LoopTyped, BridgeTyped
    <3>4. Owned'
      BY <1>0, <2>1, <3>1, <3>2 DEF Owned, Kept
    <3>5. Handle'
      BY <1>0, <2>1, <3>1, <3>2 DEF Handle, Kept
    <3> QED
      BY <3>2, <3>3, <3>4, <3>5 DEF Inv
  <2>2. CASE ~(child # NoOne /\ halRate # activeRate)
    <3>1. /\ pc' = "poll" /\ requestedRate' = halRate
          /\ nextAction' = IF nextAction = "over" THEN "past" ELSE nextAction
          /\ UNCHANGED <<bridge, activeRate, child, readyFd, ready,
                         stateRestoreAttempted, status>>
      BY <1>2, <2>2 DEF Top
    <3>2. BridgeTyped'
      BY <1>0, <3>1 DEF BridgeTyped
    <3>3. LoopTyped'
      BY <1>0, <3>1 DEF LoopTyped, BridgeTyped
    <3>4. Owned'
      BY <1>0, <3>1 DEF Owned
    <3>5. Handle'
      BY <1>0, <2>2, <3>1 DEF Handle
    <3> QED
      BY <3>2, <3>3, <3>4, <3>5 DEF Inv
  <2> QED
    BY <2>1, <2>2
<1>3. CASE EngineStopped
  <2>1. child # NoOne /\ Reaped(child) /\ Forget /\ pc' = "poll"
        /\ UNCHANGED <<world, probes, loop, status>>
    BY <1>0, <1>3 DEF EngineStopped, Owned
  <2>2. BridgeTyped' /\ \A e \in Slots : engines'[e].at = "none"
    BY <2>1, ReapedStep
  <2>3. Owned' /\ Handle'
    BY <2>1, <2>2, ForgetStep
  <2>4. LoopTyped'
    BY <1>0, <2>1 DEF LoopTyped, Forget
  <2> QED
    BY <2>2, <2>3, <2>4 DEF Inv
<1>4. CASE PollReady
  <2>1. BridgeTyped' /\ LoopTyped'
    BY <1>0, <1>4 DEF PollReady, BridgeTyped, LoopTyped
  <2>2. Owned'
    BY <1>0, <1>4 DEF PollReady, Owned
  <2>3. Handle'
    <3>1. UNCHANGED <<engines, child, activeRate, requestedRate>>
          /\ pc \in {"poll", "pollAgain"}
      BY <1>4 DEF PollReady
    <3>2. child = NoOne => ~ready' /\ ~readyFd' /\ ~stateRestoreAttempted'
      BY <1>0, <1>4 DEF PollReady, Handle
    <3>3. ready' => engines[child].signalled
      BY <1>0, <1>4 DEF PollReady, Handle, GotByte
    <3>4. ready' => stateRestoreAttempted'
      BY <1>0, <1>4 DEF PollReady, Handle
    <3> QED
      BY <1>0, <3>1, <3>2, <3>3, <3>4 DEF Handle
  <2> QED
    BY <2>1, <2>2, <2>3 DEF Inv
<1>5. CASE Restored \/ StillRunning \/ NoStart
  <2>1. /\ pc' \notin {"stopping", "leaving", "open", "gone"} /\ pc # "stopping"
        /\ UNCHANGED <<bridge, loop, handle, status>>
    BY <1>5 DEF Restored, StillRunning, NoStart
  <2>2. BridgeTyped' /\ LoopTyped'
    BY <1>0, <2>1 DEF BridgeTyped, LoopTyped
  <2>3. Owned' /\ Handle'
    BY <1>0, <2>1 DEF Owned, Handle
  <2> QED
    BY <2>2, <2>3 DEF Inv
<1>6. CASE EngineExited
  <2>1. child # NoOne /\ Reaped(child) /\ Forget /\ pc' \in {"boot", "start"}
        /\ UNCHANGED <<world, probes, loop, status>>
    BY <1>6 DEF EngineExited, ChildExited
  <2>2. BridgeTyped' /\ \A e \in Slots : engines'[e].at = "none"
    BY <2>1, ReapedStep
  <2>3. Owned' /\ Handle'
    BY <2>1, <2>2, ForgetStep
  <2>4. LoopTyped'
    BY <1>0, <2>1 DEF LoopTyped, Forget
  <2> QED
    BY <2>2, <2>3, <2>4 DEF Inv
<1>7. CASE TryGuardedBoot
  <2>1. /\ pc = "boot" /\ pc' = "start" /\ nextAction' = "future"
        /\ device' \in {device, "booting"}
        /\ UNCHANGED <<halRate, deviceRate, plugs, engines, probes,
                       requestedRate, handle, status>>
    BY <1>7 DEF TryGuardedBoot
  <2>2. BridgeTyped' /\ LoopTyped'
    BY <1>0, <2>1 DEF BridgeTyped, LoopTyped
  <2>3. Owned' /\ Handle'
    BY <1>0, <2>1 DEF Owned, Handle
  <2> QED
    BY <2>2, <2>3 DEF Inv
<1>8. CASE StartBridge
  <2>1. /\ pc = "start" /\ child = NoOne /\ pc' = "pollAgain"
        /\ UNCHANGED <<world, probes, requestedRate, ready, stateRestoreAttempted,
                       status>>
    BY <1>8 DEF StartBridge
  <2>2. \A e \in Slots : engines[e].at = "none"
    BY <1>0, <2>1, NoOneIsNoSlot DEF Owned
  <2>3. FreeSlot \in Slots /\ FreeSlot # NoOne
    BY <2>2, NoOneIsNoSlot, BridgeAssumption DEF FreeSlot, BridgeAssumption
  <2>4. CASE /\ engines' = [engines EXCEPT ![FreeSlot] =
                              [Idle EXCEPT !.at = "entry", !.rate = requestedRate]]
             /\ child' = FreeSlot /\ activeRate' = requestedRate
             /\ UNCHANGED nextAction
    <3> DEFINE r == [Idle EXCEPT !.at = "entry", !.rate = requestedRate]
    <3>1. r \in Engines /\ r.at = "entry" /\ r.rate = requestedRate
      <4>1. r \in Engines
        BY <1>0, IdleTyped DEF LoopTyped, Engines, EnginePlaces
      <4>2. r.at = "entry" /\ r.rate = requestedRate
        BY DEF Idle
      <4> QED
        BY <4>1, <4>2
    <3>2. engines' = [engines EXCEPT ![FreeSlot] = r]
      BY <2>4
    <3> HIDE DEF r
    <3>3. BridgeTyped'
      BY <1>0, <2>1, <3>1, <3>2 DEF BridgeTyped
    <3>4. /\ engines'[child'].at = "entry" /\ engines'[child'].rate = requestedRate
          /\ \A e \in Slots : e # child' => engines'[e].at = "none"
      BY <1>0, <2>2, <2>3, <2>4, <3>1, <3>2 DEF BridgeTyped
    <3>5. LoopTyped'
      BY <1>0, <2>1, <2>3, <2>4 DEF LoopTyped
    <3>6. Owned'
      BY <2>1, <2>3, <2>4, <3>4 DEF Owned
    <3>7. Handle'
      BY <1>0, <2>1, <2>3, <2>4, <3>4 DEF Handle
    <3> QED
      BY <3>3, <3>5, <3>6, <3>7 DEF Inv
  <2>5. CASE nextAction' = "future" /\ UNCHANGED <<engines, child, activeRate, readyFd>>
    <3>1. BridgeTyped' /\ LoopTyped'
      BY <1>0, <2>1, <2>5 DEF BridgeTyped, LoopTyped
    <3>2. Owned' /\ Handle'
      BY <1>0, <2>1, <2>5 DEF Owned, Handle
    <3> QED
      BY <3>1, <3>2 DEF Inv
  <2> QED
    BY <1>8, <2>4, <2>5 DEF StartBridge
<1>9. CASE Publish
  <2>1. /\ pc = "publish" /\ pc' = "top"
        /\ UNCHANGED <<bridge, loop, handle>>
        /\ status'.state \in {"online", "recovering"}
    BY <1>9 DEF Publish, Status
  <2>2. BridgeTyped' /\ LoopTyped'
    BY <1>0, <2>1 DEF BridgeTyped, LoopTyped
  <2>3. Owned' /\ Handle'
    BY <1>0, <2>1 DEF Owned, Handle
  <2> QED
    BY <2>2, <2>3 DEF Inv
<1>10. CASE Stop
  <2>1. /\ pc = "top" /\ pc' = "leaving" /\ child # NoOne /\ Terminate(child)
        /\ UNCHANGED <<world, loop, handle, status>>
    BY <1>10 DEF Stop
  <2>2. BridgeTyped' /\ Kept
    BY <1>0, <2>1, TerminateStep
  <2>3. LoopTyped'
    BY <1>0, <2>1 DEF LoopTyped
  <2>4. Owned'
    BY <1>0, <2>1, <2>2 DEF Owned, Kept
  <2>5. Handle'
    BY <1>0, <2>1, <2>2 DEF Handle, Kept
  <2> QED
    BY <2>2, <2>3, <2>4, <2>5 DEF Inv
<1>11. CASE Leave
  <2>1. /\ Forget /\ pc' = "gone" /\ status'.state = "offline"
        /\ UNCHANGED <<world, probes, loop>>
        /\ \/ child # NoOne /\ Reaped(child)
           \/ child = NoOne /\ UNCHANGED engines
    BY <1>0, <1>11 DEF Leave, Status, Owned
  <2>2. BridgeTyped' /\ \A e \in Slots : engines'[e].at = "none"
    <3>1. CASE child # NoOne /\ Reaped(child)
      BY <2>1, <3>1, ReapedStep
    <3>2. CASE child = NoOne /\ UNCHANGED engines
      BY <1>0, <2>1, <3>2, NoOneIsNoSlot DEF BridgeTyped, Owned
    <3> QED
      BY <2>1, <3>1, <3>2
  <2>3. Owned' /\ Handle'
    BY <2>1, <2>2, ForgetStep
  <2>4. LoopTyped'
    BY <1>0, <2>1 DEF LoopTyped, Forget
  <2> QED
    BY <2>2, <2>3, <2>4 DEF Inv
<1> QED
  BY <1>1, <1>2, <1>3, <1>4, <1>5, <1>6, <1>7, <1>8, <1>9, <1>10, <1>11
  DEF Supervise

LEMMA InvStep == Inv /\ [Next]_vars => Inv'
<1> SUFFICES ASSUME Inv, [Next]_vars PROVE Inv'
  OBVIOUS
<1> USE DEF bridge, world, bounds, loop, handle
<1>1. CASE Supervise
  BY <1>1, SuperviseStep
<1>2. CASE TimerExpires \/ Sigterm
  <2>1. /\ UNCHANGED <<bridge, pc, requestedRate, handle, status>>
        /\ nextAction' \in {nextAction, "over"}
    BY <1>2 DEF TimerExpires, Sigterm
  <2>2. BridgeTyped' /\ LoopTyped'
    BY <2>1 DEF Inv, BridgeTyped, LoopTyped
  <2>3. Owned' /\ Handle'
    BY <2>1 DEF Inv, Owned, Handle
  <2> QED
    BY <2>2, <2>3 DEF Inv
<1>3. CASE SupervisorDies
  <2>1. /\ engines' = [e \in Slots |-> Idle] /\ probes' = [p \in Helpers |-> NoProbe]
        /\ Forget /\ pc' = "open" /\ nextAction' = "past"
        /\ requestedRate' = 44100 /\ UNCHANGED <<unit, status>>
        /\ plugs' \in {plugs, "free", "left"}
    BY <1>3 DEF SupervisorDies
  <2>2. BridgeTyped' /\ \A e \in Slots : engines'[e].at = "none"
    BY <2>1, IdleTyped DEF Inv, BridgeTyped, Plugs, unit
  <2>3. Owned' /\ Handle'
    BY <2>1, <2>2, ForgetStep
  <2>4. LoopTyped'
    BY <2>1 DEF Inv, LoopTyped, Forget, Rates
  <2> QED
    BY <2>2, <2>3, <2>4 DEF Inv
<1>4. ASSUME NEW e \in Slots, Supervisor410, Engine(e) \/ Crash(e) PROVE Inv'
  BY <1>4, EngineStep, CrashStep, SupervisorUntouched DEF Inv
<1>5. ASSUME NEW p \in Helpers, Supervisor410, Probe(p) PROVE Inv'
  BY <1>5, ProbeStep, SupervisorUntouched DEF Inv
<1>6. CASE /\ Supervisor410
           /\ \/ PerformDeviceConfigurationChange
              \/ BusReset \/ Unplug \/ Replug \/ Reenumerate
  BY <1>6, WorldStep, SupervisorUntouched DEF Inv
<1>7. CASE UNCHANGED vars
  BY <1>7 DEF vars, Inv, BridgeTyped, LoopTyped, Owned, Handle
<1> QED
  BY <1>1, <1>2, <1>3, <1>4, <1>5, <1>6, <1>7 DEF Next

(* In every state of every behaviour the engine of the supervisor's handle  *)
(* is the only process there is, and the handle says of it what is true     *)
(* (child, activeRate, ready and stateRestoreAttempted in haltransport).    *)
THEOREM Invariance == Spec => []Inv
  BY InitInv, InvStep, PTL DEF Spec

(* For any number of disturbances, rate changes and processes every         *)
(* variable of the supervisor has its type: its handle, with the rate and   *)
(* the READY flags, is that of a process it started (child and activeRate   *)
(* in haltransport).                                                        *)
THEOREM TypeCorrect == Spec => []TypeOK
  BY Invariance, InvImplies, PTL

(* Two engines never run at once, through every rate change, failure and    *)
(* restart of the supervisor, and none runs when it has left (stopBridge    *)
(* and the reaping in haltransport's loop).                                 *)
THEOREM OneEngineAlways == Spec => []OneEngine
  BY Invariance, InvImplies, PTL

LEMMA OnlineStep ==
  Inv /\ [Next]_vars =>
    [status'.state = "online" /\ status.state # "online" =>
       /\ engines[child].signalled /\ stateRestoreAttempted
       /\ engines[child].rate = status'.activeRate
       /\ status'.requestedRate = status'.activeRate]_vars
<1> SUFFICES ASSUME Inv, [Next]_vars, status'.state = "online",
                    status.state # "online"
             PROVE  /\ engines[child].signalled /\ stateRestoreAttempted
                    /\ engines[child].rate = status'.activeRate
                    /\ status'.requestedRate = status'.activeRate
  BY DEF vars
<1>1. Publish
  <2>1. status' # status
    OBVIOUS
  <2>2. ~Open /\ ~Leave
    BY DEF Open, Leave, Offline, Status
  <2>3. Supervise
    BY <2>1 DEF Next, TimerExpires, Sigterm, SupervisorDies, Supervisor410, vars
  <2> QED
    BY <2>1, <2>2, <2>3 DEF Supervise, Top, EngineStopped, PollReady, Restored,
      StillRunning, EngineExited, TryGuardedBoot, StartBridge, NoStart, Stop
<1>2. child # NoOne /\ ready /\ pc = "publish"
      /\ status'.requestedRate = requestedRate /\ status'.activeRate = activeRate
  BY <1>1 DEF Publish, Status
<1> QED
  BY <1>2 DEF Inv, Handle

(* ONLINE, which opens the HAL's audio path, is published only for an       *)
(* engine that has reported READY, of the rate that is published, once its  *)
(* saved controls were replayed (TransportStatusPublisher in haltransport). *)
THEOREM OnlineIsEarnedAlways == Spec => OnlineIsEarned
  BY Invariance, OnlineStep, PTL DEF Spec, OnlineIsEarned

-----------------------------------------------------------------------------
(* RateInForce.  What rateprobe verified stays in force because nobody is   *)
(* left to change it: the engine's probe has ended, an orphaned one has     *)
(* strayed, and the unit cannot have been booted again behind the engine's  *)
(* back, because fwboot is run only when there is no engine.                *)

Asks == {"asking", "setting"}
CheckedPlaces == {"setup", "arming", "lead", "ready", "streaming"}

(* The rate of e was found in force: by a probe that has just ended, or     *)
(* before e went on to its streams.                                         *)
Checked(e) ==
  \/ engines[e].at \in CheckedPlaces
  \/ engines[e].at \in Asks /\ Ended(e, "passed")

(* A handle that works is one on a unit that is there.                      *)
Holds ==
  /\ \A e \in Slots : engines[e].bus \in {"open", "stale"} => device = "operational"
  /\ \A p \in Helpers : probes[p].bus \in {"open", "stale"} => device = "operational"
  /\ \A e \in Slots : engines[e].at = "lead" => engines[e].rate = 44100
  /\ pc = "boot" => child = NoOne

(* Only the engine that waits for a probe has one, one at a time, and while *)
(* it runs that probe has the engine's rate and leave to set it.            *)
Helped ==
  /\ \A p \in Helpers :
       /\ probes[p].at \in {"out", "in"} => probes[p].sets
       /\ probes[p].parent # NoOne =>
            /\ probes[p].parent = child /\ probes[p].at # "none"
            /\ engines[child].at \in Asks \cup {"putback"}
            /\ engines[child].at = "asking" => ~probes[p].sets
            /\ engines[child].at \in Asks
                 /\ probes[p].at \notin {"passed", "failed"}
                 => probes[p].target = engines[child].rate
  /\ \A p, q \in Helpers :
       probes[p].parent # NoOne /\ probes[q].parent # NoOne => p = q

Verified ==
  \A e \in Slots : Checked(e) =>
    /\ device # "booting"
    /\ (device = "operational" /\ ~strayed) => InForce(engines[e].rate)

Rated == Holds /\ Helped /\ Verified

LEMMA InitRated == Init => Rated
<1> SUFFICES ASSUME Init PROVE Rated
  OBVIOUS
<1>1. /\ \A e \in Slots : engines[e].at = "none" /\ engines[e].bus = "closed"
      /\ \A p \in Helpers : /\ probes[p].at = "none" /\ probes[p].parent = NoOne
                            /\ probes[p].bus = "closed"
      /\ pc = "open"
  BY DEF Init, BridgeInit, Idle, NoProbe
<1> QED
  BY <1>1 DEF Rated, Holds, Helped, Verified, Checked, Asks, CheckedPlaces

LEMMA RatedImplies == Rated => RateInForce
  BY DEF Rated, Holds, Verified, Checked, CheckedPlaces, RateInForce

(* A step that touches neither the processes nor the unit.                  *)
LEMMA RatedQuiet ==
  ASSUME Rated, UNCHANGED <<device, deviceRate, engines, probes, strayed, child>>,
         pc' = "boot" => child = NoOne
  PROVE  Rated'
<1>1. Holds'
  BY DEF Rated, Holds
<1>2. Helped'
  BY DEF Rated, Helped
<1>3. Verified'
  BY DEF Rated, Verified, Checked, Ended, InForce
<1> QED
  BY <1>1, <1>2, <1>3 DEF Rated

(* A step after which there is no engine and no probe has a parent.         *)
LEMMA RatedAlone ==
  ASSUME Rated, child' = NoOne \/ pc' # "boot",
         \A e \in Slots :
           /\ engines'[e].at \in {"none", "exited"}
           /\ engines'[e].bus \in {"open", "stale"} => device' = "operational",
         \A p \in Helpers :
           /\ probes'[p].parent = NoOne
           /\ probes'[p].at \in {"out", "in"} => probes'[p].sets
           /\ probes'[p].bus \in {"open", "stale"} => device' = "operational"
  PROVE  Rated'
<1>1. Holds'
  BY DEF Holds
<1>2. Helped'
  BY DEF Helped
<1>3. Verified'
  BY DEF Verified, Checked, Asks, CheckedPlaces
<1> QED
  BY <1>1, <1>2, <1>3 DEF Rated

-----------------------------------------------------------------------------
(* The engines.                                                             *)

(* What every step of an engine may use.                                    *)
LEMMA OnlyChild ==
  ASSUME Inv, NEW e \in Slots, engines[e].at # "none"
  PROVE  /\ e = child /\ child # NoOne
         /\ \A f \in Slots : f # e => engines[f].at = "none"
         /\ engines[e] \in Engines
  BY NoOneIsNoSlot DEF Inv, Owned, BridgeTyped

(* An engine that has checked the rate goes on.                             *)
LEMMA RatedMove ==
  ASSUME Inv, Rated, NEW e \in Slots,
         engines[e].at \in CheckedPlaces,
         engines'[e].at \in CheckedPlaces \cup {"closing"},
         engines'[e].rate = engines[e].rate,
         engines'[e].at = "lead" => engines[e].rate = 44100,
         engines'[e].bus = engines[e].bus \/ device = "operational",
         \A f \in Slots : f # e => engines'[f] = engines[f],
         device' = device, deviceRate' = deviceRate, probes' = probes,
         strayed' = strayed, pc' = pc, child' = child
  PROVE  Rated'
<1>1. e = child /\ child # NoOne
  BY OnlyChild DEF CheckedPlaces
<1>2. Holds'
  BY <1>1 DEF Rated, Holds
<1>3. \A p \in Helpers : probes[p].parent = NoOne
  BY <1>1 DEF Rated, Helped, Asks, CheckedPlaces
<1>4. Helped'
  BY <1>3 DEF Rated, Helped
<1>5. Verified'
  <2> SUFFICES ASSUME NEW f \in Slots, Checked(f)'
               PROVE  /\ device # "booting"
                      /\ (device = "operational" /\ ~strayed)
                            => InForce(engines'[f].rate)
    BY DEF Verified, InForce
  <2>1. Checked(f) /\ engines'[f].rate = engines[f].rate
    <3>1. CASE f = e
      BY <1>1, <3>1 DEF Checked
    <3>2. CASE f # e
      BY <1>1, <3>2 DEF Checked, Ended
    <3> QED
      BY <3>1, <3>2
  <2> QED
    BY <2>1 DEF Rated, Verified
<1> QED
  BY <1>2, <1>4, <1>5 DEF Rated

(* An engine starts a probe and waits for it.                               *)
LEMMA RatedAsk ==
  ASSUME Inv, Rated, NEW e \in Slots, engines[e].at # "none",
         engines'[e].at \in Asks \cup {"putback"},
         engines'[e].rate = engines[e].rate,
         engines'[e].bus \in {engines[e].bus, "closed"},
         \A f \in Slots : f # e => engines'[f] = engines[f],
         NEW h \in Helpers, \A p \in Helpers : p # h => probes[p].parent = NoOne,
         \A p \in Helpers : p # h => probes'[p] = probes[p],
         probes'[h].at = "start", probes'[h].parent = e,
         probes'[h].bus = "closed",
         engines'[e].at \in Asks => probes'[h].target = engines[e].rate,
         engines'[e].at = "asking" => ~probes'[h].sets,
         device' = device, deviceRate' = deviceRate,
         strayed' = strayed, pc' = pc, child' = child
  PROVE  Rated'
<1>1. /\ e = child /\ child # NoOne
      /\ \A f \in Slots : f # e => engines[f].at = "none"
  BY OnlyChild
<1>3. Holds'
  <2>1. \A f \in Slots : engines'[f].bus \in {engines[f].bus, "closed"}
    OBVIOUS
  <2>2. \A p \in Helpers : probes'[p].bus \in {probes[p].bus, "closed"}
    OBVIOUS
  <2>3. \A f \in Slots : engines'[f].at # "lead"
    BY <1>1 DEF Asks
  <2> QED
    BY <1>1, <2>1, <2>2, <2>3 DEF Rated, Holds
<1>4. Helped'
  BY <1>1 DEF Rated, Helped
<1>5. ~Checked(e)' /\ \A f \in Slots : f # e => ~Checked(f)'
  BY <1>1, NoOneIsNoSlot DEF Checked, Ended, Asks, CheckedPlaces
<1>6. Verified'
  BY <1>5 DEF Verified
<1> QED
  BY <1>3, <1>4, <1>6 DEF Rated

(* A probe that has just been started.                                      *)
Started(e, r, s) ==
  [NoProbe EXCEPT !.at = "start", !.parent = e, !.target = r, !.sets = s]

(* What is left of the probes when their engine ends, and when a probe is   *)
(* collected.                                                               *)
LEMMA NoParents ==
  ASSUME Inv, Rated, NEW e \in Slots, engines[e].at # "none",
         NEW ps, \/ ps = Collected(e) \/ ps = Orphaned(e)
                 \/ ps = probes /\ engines[e].at \notin Asks \cup {"putback"}
  PROVE  \A p \in Helpers :
           /\ ps[p].parent = NoOne
           /\ ps[p].at \in {"out", "in"} => ps[p].sets
           /\ ps[p].bus \in {"open", "stale"} => device = "operational"
<1>1. /\ e = child /\ probes \in [Helpers -> Probes]
      /\ \A p \in Helpers : /\ probes[p].parent \in {NoOne, e}
                            /\ probes[p].at \in {"out", "in"} => probes[p].sets
                            /\ probes[p].bus \in {"open", "stale"}
                                 => device = "operational"
  BY OnlyChild DEF Rated, Helped, Holds, Inv, BridgeTyped
<1>2. /\ NoProbe.parent = NoOne /\ NoProbe.at = "none" /\ NoProbe.bus = "closed"
      /\ e # NoOne
  BY NoOneIsNoSlot DEF NoProbe
<1>3. CASE ps = Collected(e)
  BY <1>1, <1>2, <1>3 DEF Collected
<1>4. CASE ps = Orphaned(e)
  <2>1. \A p \in Helpers :
          /\ probes[p] \in Probes
          /\ [probes[p] EXCEPT !.parent = NoOne].parent = NoOne
          /\ [probes[p] EXCEPT !.parent = NoOne].at = probes[p].at
          /\ [probes[p] EXCEPT !.parent = NoOne].sets = probes[p].sets
          /\ [probes[p] EXCEPT !.parent = NoOne].bus = probes[p].bus
    BY <1>1 DEF Probes
  <2> QED
    BY <1>1, <1>2, <1>4, <2>1 DEF Orphaned
<1>5. CASE ps = probes /\ engines[e].at \notin Asks \cup {"putback"}
  BY <1>1, <1>5 DEF Rated, Helped
<1> QED
  BY <1>3, <1>4, <1>5

LEMMA RatedExit ==
  ASSUME Inv, Rated, NEW e \in Slots, engines[e].at # "none",
         engines' = Exited(e), UNCHANGED device,
         \/ probes' = Collected(e) \/ probes' = Orphaned(e)
         \/ probes' = probes /\ engines[e].at \notin Asks \cup {"putback"},
         pc' \in {pc, "stopping", "leaving"}, UNCHANGED child
  PROVE  Rated'
<1>1. \A f \in Slots :
        /\ engines'[f].at \in {"none", "exited"}
        /\ engines'[f].bus \in {"open", "stale"} => device' = "operational"
  <2>1. \A f \in Slots : f # e => engines[f].at = "none" /\ engines'[f] = engines[f]
    BY OnlyChild DEF Exited, Inv, BridgeTyped
  <2>2. engines'[e].at = "exited" /\ engines'[e].bus = "closed"
    BY DEF Exited, Idle, Inv, BridgeTyped
  <2> QED
    BY <2>1, <2>2 DEF Rated, Holds
<1>2. \A p \in Helpers :
        /\ probes'[p].parent = NoOne
        /\ probes'[p].at \in {"out", "in"} => probes'[p].sets
        /\ probes'[p].bus \in {"open", "stale"} => device' = "operational"
  BY NoParents
<1>3. child' = NoOne \/ pc' # "boot"
  BY OnlyChild DEF Rated, Holds
<1> QED
  BY <1>1, <1>2, <1>3, RatedAlone

LEMMA RatedEngine ==
  ASSUME Inv, Rated, NEW e \in Slots, Engine(e), Supervisor410
  PROVE  Rated'
<1>0. /\ engines \in [Slots -> Engines] /\ engines[e] \in Engines
      /\ probes \in [Helpers -> Probes]
      /\ pc' = pc /\ child' = child
  BY DEF Inv, BridgeTyped, Supervisor410, handle
<1>1. CASE EntryStarts(e)
  <2> DEFINE a == IF engines[e].rate = 44100 THEN "setting" ELSE "asking"
             b == engines[e].rate = 44100
             q == Started(e, engines[e].rate, b)
  <2>1. /\ engines[e].at = "entry" /\ Room
        /\ probes' = [probes EXCEPT ![FreeHelper] = q]
        /\ engines' = [engines EXCEPT ![e].at = a]
        /\ device' = device /\ deviceRate' = deviceRate /\ strayed' = strayed
    BY <1>1 DEF EntryStarts, WithProbe, world, Started
  <2>2. FreeHelper \in Helpers
    BY <2>1 DEF Room, FreeHelper
  <2>3. /\ q.at = "start" /\ q.parent = e /\ q.bus = "closed"
        /\ q.target = engines[e].rate
        /\ a = "asking" => ~q.sets
    <3>1. /\ q.at = "start" /\ q.parent = e /\ q.bus = "closed"
          /\ q.target = engines[e].rate
      BY DEF Started, NoProbe
    <3>2. a = "asking" => ~b
      OBVIOUS
    <3> HIDE DEF b
    <3>3. q.sets = b
      BY DEF Started, NoProbe
    <3> HIDE DEF a, q
    <3> QED
      BY <3>1, <3>2, <3>3
  <2>4. a \in Asks \cup {"putback"}
    BY DEF Asks
  <2>5. \A p \in Helpers : probes[p].parent = NoOne
    BY <2>1, NoParents DEF Asks
  <2>6. /\ engines'[e].at = a /\ engines'[e].rate = engines[e].rate
        /\ engines'[e].bus = engines[e].bus
        /\ \A f \in Slots : f # e => engines'[f] = engines[f]
    BY <1>0, <2>1 DEF Engines
  <2> HIDE DEF a, q
  <2>7. /\ probes'[FreeHelper] = q
        /\ \A p \in Helpers : p # FreeHelper => probes'[p] = probes[p]
    BY <1>0, <2>1, <2>2
  <2> QED
    BY <1>0, <2>1, <2>2, <2>3, <2>4, <2>5, <2>6, <2>7, RatedAsk
<1>2. CASE EntryMustSet(e)
  <2> DEFINE q == Started(e, engines[e].rate, TRUE)
             h == ProbeOf(e)
  <2>1. /\ engines[e].at = "asking" /\ Ended(e, "failed")
        /\ probes' = [probes EXCEPT ![h] = q]
        /\ engines' = [engines EXCEPT ![e].at = "setting"]
        /\ device' = device /\ deviceRate' = deviceRate /\ strayed' = strayed
    BY <1>2 DEF EntryMustSet, world, Started
  <2>2. h \in Helpers /\ probes[h].parent = e
    BY <2>1 DEF Ended, ProbeOf
  <2>3. /\ q.at = "start" /\ q.parent = e /\ q.bus = "closed"
        /\ q.target = engines[e].rate
    BY DEF Started, NoProbe
  <2> HIDE DEF q, h
  <2>4. "setting" \in Asks \cup {"putback"}
    BY DEF Asks
  <2>5. \A p \in Helpers : p # h => probes[p].parent = NoOne
    BY <2>2, NoOneIsNoSlot DEF Rated, Helped
  <2>6. /\ engines'[e].at = "setting" /\ engines'[e].rate = engines[e].rate
        /\ engines'[e].bus = engines[e].bus
        /\ \A f \in Slots : f # e => engines'[f] = engines[f]
    BY <1>0, <2>1 DEF Engines
  <2>7. probes'[h] = q /\ \A p \in Helpers : p # h => probes'[p] = probes[p]
    BY <1>0, <2>1, <2>2
  <2> QED
    BY <1>0, <2>1, <2>2, <2>3, <2>4, <2>5, <2>6, <2>7, RatedAsk
<1>3. CASE EntryPasses(e)
  <2>1. /\ engines[e].at \in Asks /\ Ended(e, "passed")
        /\ probes' = Collected(e)
        /\ engines' = [engines EXCEPT ![e].at = "setup"]
        /\ UNCHANGED <<device, deviceRate, strayed>>
    BY <1>3 DEF EntryPasses, world, Asks
  <2>2. engines[e].at # "none" /\ Checked(e)
    BY <2>1 DEF Checked, Asks
  <2>3. /\ \A f \in Slots : f # e => engines[f].at = "none" /\ engines'[f] = engines[f]
        /\ engines'[e].at = "setup" /\ engines'[e].rate = engines[e].rate
        /\ engines'[e].bus = engines[e].bus
    BY <1>0, <2>1, <2>2, OnlyChild DEF Engines
  <2>4. \A p \in Helpers :
          /\ probes'[p].parent = NoOne
          /\ probes'[p].at \in {"out", "in"} => probes'[p].sets
          /\ probes'[p].bus \in {"open", "stale"} => device = "operational"
    BY <2>1, <2>2, NoParents
  <2>5. Holds'
    <3>1. \A f \in Slots : /\ engines'[f].at = "lead" => engines'[f].rate = 44100
                           /\ engines'[f].bus = engines[f].bus
      BY <2>3
    <3> QED
      BY <1>0, <2>1, <2>4, <3>1 DEF Rated, Holds
  <2>6. Helped'
    BY <2>4 DEF Helped
  <2>7. Verified'
    BY <2>1, <2>2, <2>3
    DEF Rated, Verified, Checked, Asks, CheckedPlaces, InForce
  <2> QED
    BY <2>5, <2>6, <2>7 DEF Rated
<1>4. CASE EntryFails(e) \/ PutBack(e)
  <2>1. /\ engines[e].at # "none" /\ engines' = Exited(e)
        /\ probes' = Collected(e) /\ UNCHANGED device
    BY <1>4 DEF EntryFails, PutBack, world
  <2> QED
    BY <1>0, <2>1, RatedExit
<1>5. CASE Setup(e)
  <2>1. /\ engines[e].at = "setup"
        /\ device' = device /\ deviceRate' = deviceRate /\ probes' = probes
        /\ strayed' = strayed
        /\ \/ /\ device = "operational"
              /\ engines' = [engines EXCEPT ![e].at = "arming", ![e].bus = "open"]
           \/ engines' = [engines EXCEPT ![e].at = "closing", ![e].failed = TRUE]
    BY <1>5 DEF Setup, world, Available
  <2>2. /\ engines'[e].at \in {"arming", "closing"}
        /\ engines'[e].rate = engines[e].rate
        /\ engines'[e].bus = engines[e].bus \/ device = "operational"
        /\ \A f \in Slots : f # e => engines'[f] = engines[f]
    BY <1>0, <2>1 DEF Engines
  <2> QED
    BY <1>0, <2>1, <2>2, RatedMove DEF CheckedPlaces
<1>6. CASE Arm(e) \/ StopInLead(e) \/ SignalReady(e) \/ StreamEnds(e)
  <2>1. /\ engines[e].at \in CheckedPlaces
        /\ device' = device /\ deviceRate' = deviceRate /\ probes' = probes
        /\ strayed' = strayed
    BY <1>6 DEF Arm, StopInLead, SignalReady, StreamEnds, unit, world,
                CheckedPlaces
  <2>2. \/ engines' = [engines EXCEPT ![e].at = "closing", ![e].failed = TRUE]
        \/ engines' = [engines EXCEPT ![e].at = "closing", ![e].failed = FALSE]
        \/ engines' = [engines EXCEPT ![e].at = "streaming", ![e].signalled = TRUE]
        \/ engines' = [engines EXCEPT ![e].at = "ready"]
        \/ /\ engines[e].rate = 44100
           /\ engines' = [engines EXCEPT ![e].at = "lead"]
    <3>1. CASE Arm(e)
      <4>1. CASE engines[e].rate = 44100
        BY <3>1, <4>1 DEF Arm
      <4>2. CASE engines[e].rate # 44100
        BY <3>1, <4>2 DEF Arm
      <4> QED
        BY <4>1, <4>2
    <3>2. CASE StopInLead(e) \/ SignalReady(e) \/ StreamEnds(e)
      BY <3>2 DEF StopInLead, SignalReady, StreamEnds
    <3> QED
      BY <1>6, <3>1, <3>2
  <2>3. /\ engines'[e].at \in CheckedPlaces \cup {"closing"}
        /\ engines'[e].rate = engines[e].rate /\ engines'[e].bus = engines[e].bus
        /\ engines'[e].at = "lead" => engines[e].rate = 44100
        /\ \A f \in Slots : f # e => engines'[f] = engines[f]
    BY <1>0, <2>2 DEF Engines, CheckedPlaces
  <2> QED
    BY <1>0, <2>1, <2>3, RatedMove
<1>7. CASE Reassert(e)
  <2>1. /\ engines[e].at = "lead" /\ UNCHANGED <<device, probes, strayed>>
        /\ \/ /\ deviceRate' = Both(44100)
              /\ engines' = [engines EXCEPT ![e].at = "ready"]
           \/ /\ UNCHANGED deviceRate
              /\ engines' = [engines EXCEPT ![e].at = "closing", ![e].failed = TRUE]
    BY <1>7 DEF Reassert
  <2>2. CASE UNCHANGED deviceRate
             /\ engines' = [engines EXCEPT ![e].at = "closing", ![e].failed = TRUE]
    <3>1. /\ engines'[e].at = "closing" /\ engines'[e].rate = engines[e].rate
          /\ engines'[e].bus = engines[e].bus
          /\ \A f \in Slots : f # e => engines'[f] = engines[f]
      BY <1>0, <2>2 DEF Engines
    <3> QED
      BY <1>0, <2>1, <2>2, <3>1, RatedMove DEF CheckedPlaces
  <2>3. CASE deviceRate' = Both(44100) /\ engines' = [engines EXCEPT ![e].at = "ready"]
    <3>1. /\ \A f \in Slots : f # e => engines[f].at = "none" /\ engines'[f] = engines[f]
          /\ e = child
      BY <2>1, <2>3, OnlyChild
    <3>2. /\ engines'[e].at = "ready" /\ engines'[e].rate = engines[e].rate
          /\ engines'[e].bus = engines[e].bus /\ engines[e].rate = 44100
      BY <1>0, <2>1, <2>3 DEF Engines, Rated, Holds
    <3>3. Checked(e)
      BY <2>1 DEF Checked, CheckedPlaces
    <3>4. Holds'
      <4>1. \A f \in Slots : /\ engines'[f].at = "lead" => engines'[f].rate = 44100
                             /\ engines'[f].bus = engines[f].bus
        BY <3>1, <3>2
      <4> QED
        BY <1>0, <2>1, <4>1 DEF Rated, Holds
    <3>5. Helped'
      <4>1. \A p \in Helpers : probes[p].parent = NoOne
        BY <2>1, NoParents DEF Asks
      <4> QED
        BY <2>1, <4>1 DEF Rated, Helped
    <3>6. Verified'
      BY <2>1, <2>3, <3>1, <3>2, <3>3
      DEF Rated, Verified, Checked, Asks, CheckedPlaces, InForce
    <3> QED
      BY <3>4, <3>5, <3>6 DEF Rated
  <2> QED
    BY <2>1, <2>2, <2>3
<1>8. CASE CleanUp(e)
  <2>1. engines[e].at = "closing" /\ Room /\ UNCHANGED <<device, deviceRate, strayed>>
    BY <1>8 DEF CleanUp, unit
  <2>2. CASE engines[e].rate = 44100 /\ engines[e].failed
    <3> DEFINE q == Started(e, 48000, TRUE)
    <3>1. /\ probes' = [probes EXCEPT ![FreeHelper] = q]
          /\ engines' = [engines EXCEPT ![e].at = "putback", ![e].bus = "closed"]
      BY <1>8, <2>2 DEF CleanUp, WithProbe, Started
    <3>2. FreeHelper \in Helpers
      BY <2>1 DEF Room, FreeHelper
    <3>3. q.at = "start" /\ q.parent = e /\ q.bus = "closed"
      BY DEF Started, NoProbe
    <3>4. "putback" \in Asks \cup {"putback"} /\ "putback" \notin Asks
      BY DEF Asks
    <3>5. \A p \in Helpers : probes[p].parent = NoOne
      BY <2>1, NoParents DEF Asks
    <3>6. /\ engines'[e].at = "putback" /\ engines'[e].rate = engines[e].rate
          /\ engines'[e].bus = "closed"
          /\ \A f \in Slots : f # e => engines'[f] = engines[f]
      BY <1>0, <3>1 DEF Engines
    <3> HIDE DEF q
    <3>7. /\ probes'[FreeHelper] = q
          /\ \A p \in Helpers : p # FreeHelper => probes'[p] = probes[p]
      BY <1>0, <3>1, <3>2
    <3> QED
      BY <1>0, <2>1, <3>2, <3>3, <3>4, <3>5, <3>6, <3>7, RatedAsk
  <2>3. CASE ~(engines[e].rate = 44100 /\ engines[e].failed)
    <3>1. engines' = Exited(e) /\ probes' = probes
      BY <1>8, <2>3 DEF CleanUp, WithProbe
    <3> QED
      BY <1>0, <2>1, <3>1, RatedExit DEF Asks
  <2> QED
    BY <2>2, <2>3
<1> QED
  BY <1>1, <1>2, <1>3, <1>4, <1>5, <1>6, <1>7, <1>8 DEF Engine

(* SIGTERM and a crash.                                                     *)
LEMMA RatedTerminate ==
  ASSUME Inv, Rated, NEW e \in Slots, engines[e].at # "none", Terminate(e),
         device' = device, deviceRate' = deviceRate, strayed' = strayed,
         pc' \in {pc, "stopping", "leaving"}, child' = child
  PROVE  Rated'
<1>1. CASE engines[e].at \in {"entry", "asking", "setting"}
  BY <1>1, RatedExit DEF Terminate, Die
<1>2. CASE engines[e].at \notin {"entry", "asking", "setting"}
  <2>1. engines' = [engines EXCEPT ![e].stop = TRUE] /\ probes' = probes
    BY <1>2 DEF Terminate
  <2>2. \A f \in Slots : /\ engines'[f].at = engines[f].at
                         /\ engines'[f].rate = engines[f].rate
                         /\ engines'[f].bus = engines[f].bus
    BY <2>1 DEF Inv, BridgeTyped, Engines
  <2>3. child # NoOne /\ child \in Slots
    BY OnlyChild
  <2>4. Holds'
    BY <2>1, <2>2, <2>3 DEF Rated, Holds
  <2>5. Helped'
    BY <2>1, <2>2, <2>3 DEF Rated, Helped
  <2>6. Verified'
    BY <2>1, <2>2 DEF Rated, Verified, Checked, Ended, InForce
  <2> QED
    BY <2>4, <2>5, <2>6 DEF Rated
<1> QED
  BY <1>1, <1>2

LEMMA RatedCrash ==
  ASSUME Inv, Rated, NEW e \in Slots, Crash(e), Supervisor410
  PROVE  Rated'
<1>1. /\ engines[e].at # "none" /\ engines' = Exited(e) /\ probes' = Orphaned(e)
      /\ device' = device /\ pc' = pc /\ child' = child
  BY DEF Crash, Alive, Die, unit, Supervisor410, handle
<1> QED
  BY <1>1, RatedExit

-----------------------------------------------------------------------------
(* The probes.                                                              *)

(* The end of a probe: one that passes has found its target in force.       *)
LEMMA RatedFinish ==
  ASSUME Inv, Rated, NEW p \in Helpers, NEW passed \in BOOLEAN,
         Finish(p, passed),
         passed => device = "operational" /\ InForce(probes[p].target),
         probes[p].at \notin {"none", "passed", "failed"},
         device' = device, deviceRate' = deviceRate, engines' = engines,
         pc' = pc, child' = child
  PROVE  Rated'
<1>1. /\ \A q \in Helpers : q # p => probes'[q] = probes[q]
      /\ probes'[p].parent = probes[p].parent /\ probes'[p].bus = "closed"
      /\ probes[p].parent = NoOne => probes'[p].at = "none"
      /\ probes[p].parent # NoOne =>
           probes'[p].at = IF passed THEN "passed" ELSE "failed"
      /\ ~probes'[p].sets
  <2>1. probes \in [Helpers -> Probes]
    BY DEF Inv, BridgeTyped
  <2>2. CASE probes[p].parent = NoOne
    BY <2>1, <2>2 DEF Finish, NoProbe
  <2>3. CASE probes[p].parent # NoOne
    <3>1. CASE passed
      BY <2>1, <2>3, <3>1 DEF Finish, NoProbe
    <3>2. CASE ~passed
      BY <2>1, <2>3, <3>2 DEF Finish, NoProbe
    <3> QED
      BY <3>1, <3>2
  <2> QED
    BY <2>2, <2>3
<1>2. strayed' \/ (passed /\ probes[p].parent # NoOne) \/ ~strayed
  BY DEF Finish
<1>3. Holds'
  BY <1>1 DEF Rated, Holds
<1>4. Helped'
  <2>1. \A q \in Helpers :
          /\ probes'[q].parent = probes[q].parent
          /\ probes'[q].at \in {"out", "in"} => probes[q] = probes'[q]
    BY <1>1
  <2>2. \A q \in Helpers : probes'[q].parent # NoOne =>
          /\ probes'[q].at # "none"
          /\ engines[child].at = "asking" => ~probes'[q].sets
          /\ probes'[q].at \notin {"passed", "failed"}
                => probes'[q].target = probes[q].target
                   /\ probes[q].at = probes'[q].at
    BY <1>1 DEF Rated, Helped
  <2> QED
    BY <2>1, <2>2 DEF Rated, Helped
<1>5. Verified'
  <2> SUFFICES ASSUME NEW e \in Slots, Checked(e)'
               PROVE  /\ device # "booting"
                      /\ (device = "operational" /\ ~strayed')
                            => InForce(engines[e].rate)
    BY DEF Verified, InForce
  <2>1. CASE passed /\ probes[p].parent # NoOne
    <3>1. probes[p].parent = child /\ e = child /\ engines[child].at \in Asks
      <4>1. engines[e].at # "none"
        BY DEF Checked, CheckedPlaces, Asks
      <4>2. e = child
        BY <4>1, OnlyChild
      <4> QED
        BY <2>1, <4>2 DEF Rated, Helped, Checked, CheckedPlaces, Asks
    <3>2. probes[p].target = engines[e].rate
      BY <2>1, <3>1 DEF Rated, Helped
    <3> QED
      BY <2>1, <3>2
  <2>2. CASE ~(passed /\ probes[p].parent # NoOne)
    <3>1. Checked(e)
      <4>1. CASE engines[e].at \in CheckedPlaces
        BY <4>1 DEF Checked
      <4>2. CASE engines[e].at \in Asks /\ Ended(e, "passed")'
        <5>1. PICK q \in Helpers : probes'[q].parent = e /\ probes'[q].at = "passed"
          BY <4>2 DEF Ended
        <5>2. q # p
          BY <1>1, <2>2, <5>1, NoOneIsNoSlot
        <5> QED
          BY <1>1, <4>2, <5>1, <5>2 DEF Checked, Ended
      <4> QED
        BY <4>1, <4>2 DEF Checked
    <3> QED
      BY <1>2, <2>2, <3>1 DEF Rated, Verified
  <2> QED
    BY <2>1, <2>2
<1> QED
  BY <1>3, <1>4, <1>5 DEF Rated

(* A probe that goes on, without setting anything.                          *)
LEMMA RatedProbeMove ==
  ASSUME Inv, Rated, NEW p \in Helpers,
         \A q \in Helpers : q # p => probes'[q] = probes[q],
         probes'[p].parent = probes[p].parent,
         probes'[p].sets = probes[p].sets,
         probes'[p].target = probes[p].target,
         probes'[p].bus = probes[p].bus \/ device = "operational",
         probes[p].at \notin {"none", "passed", "failed"},
         probes'[p].at \notin {"none", "passed", "failed"},
         probes'[p].at \in {"out", "in"} => probes[p].sets,
         strayed' = strayed, device' = device, deviceRate' = deviceRate,
         engines' = engines, pc' = pc, child' = child
  PROVE  Rated'
<1>1. Holds'
  BY DEF Rated, Holds
<1>2. Helped'
  <2>1. \A q \in Helpers :
          /\ probes'[q].parent = probes[q].parent
          /\ probes'[q].at \in {"out", "in"} => probes[q].sets
          /\ probes'[q].target = probes[q].target
          /\ probes'[q].sets = probes[q].sets
          /\ probes'[q].at = "none" <=> probes[q].at = "none"
          /\ probes'[q].at \in {"passed", "failed"}
                <=> probes[q].at \in {"passed", "failed"}
    BY DEF Rated, Helped
  <2> QED
    BY <2>1 DEF Rated, Helped
<1>3. Verified'
  <2>1. \A e \in Slots : Checked(e)' => Checked(e)
    BY DEF Checked, Ended
  <2> QED
    BY <2>1 DEF Rated, Verified, InForce
<1> QED
  BY <1>1, <1>2, <1>3 DEF Rated

LEMMA RatedProbe ==
  ASSUME Inv, Rated, NEW p \in Helpers, Probe(p), Supervisor410
  PROVE  Rated'
<1>0. /\ probes \in [Helpers -> Probes] /\ probes[p] \in Probes
      /\ pc' = pc /\ child' = child
  BY DEF Inv, BridgeTyped, Supervisor410, handle
<1>1. CASE ProbeOpens(p)
  <2>1. /\ probes[p].at = "start" /\ engines' = engines
        /\ device' = device /\ deviceRate' = deviceRate
        /\ \/ /\ device = "operational" /\ strayed' = strayed
              /\ probes' = [probes EXCEPT ![p].at = "read", ![p].bus = "open"]
           \/ Finish(p, FALSE)
    BY <1>1 DEF ProbeOpens, world, Available
  <2>2. CASE /\ device = "operational" /\ strayed' = strayed
             /\ probes' = [probes EXCEPT ![p].at = "read", ![p].bus = "open"]
    <3>1. /\ \A q \in Helpers : q # p => probes'[q] = probes[q]
          /\ probes'[p].parent = probes[p].parent /\ probes'[p].at = "read"
          /\ probes'[p].sets = probes[p].sets
          /\ probes'[p].target = probes[p].target
      BY <1>0, <2>2 DEF Probes
    <3> QED
      BY <1>0, <2>1, <2>2, <3>1, RatedProbeMove
  <2>3. CASE Finish(p, FALSE)
    BY <1>0, <2>1, <2>3, RatedFinish
  <2> QED
    BY <2>1, <2>2, <2>3
<1>2. CASE ProbeReads(p)
  <2>1. /\ probes[p].at = "read" /\ engines' = engines
        /\ device' = device /\ deviceRate' = deviceRate
    BY <1>2 DEF ProbeReads, world
  <2>2. \/ /\ probes[p].bus = "open"
           /\ Finish(p, InForce(probes[p].target))
        \/ Finish(p, FALSE)
        \/ /\ probes[p].sets /\ strayed' = strayed
           /\ \/ probes' = [probes EXCEPT ![p].at = "out"]
              \/ probes' = [probes EXCEPT ![p].at = "out", ![p].ok = FALSE]
    BY <1>2 DEF ProbeReads
  <2>3. CASE probes[p].bus = "open" /\ Finish(p, InForce(probes[p].target))
    <3>1. InForce(probes[p].target) \in BOOLEAN
      BY DEF InForce
    <3>2. device = "operational"
      BY <2>3 DEF Rated, Holds
    <3> DEFINE passed == InForce(probes[p].target)
    <3>3. /\ passed \in BOOLEAN /\ Finish(p, passed)
          /\ passed => device = "operational" /\ InForce(probes[p].target)
      BY <2>3, <3>1, <3>2
    <3> HIDE DEF passed
    <3> QED
      BY <1>0, <2>1, <3>3, RatedFinish
  <2>4. CASE Finish(p, FALSE)
    BY <1>0, <2>1, <2>4, RatedFinish
  <2>5. CASE /\ probes[p].sets /\ strayed' = strayed
             /\ \/ probes' = [probes EXCEPT ![p].at = "out"]
                \/ probes' = [probes EXCEPT ![p].at = "out", ![p].ok = FALSE]
    <3>1. /\ \A q \in Helpers : q # p => probes'[q] = probes[q]
          /\ probes'[p].parent = probes[p].parent /\ probes'[p].at = "out"
          /\ probes'[p].sets = probes[p].sets
          /\ probes'[p].target = probes[p].target
          /\ probes'[p].bus = probes[p].bus
      <4>1. CASE probes' = [probes EXCEPT ![p].at = "out"]
        BY <1>0, <4>1 DEF Probes
      <4>2. CASE probes' = [probes EXCEPT ![p].at = "out", ![p].ok = FALSE]
        BY <1>0, <4>2 DEF Probes
      <4> QED
        BY <2>5, <4>1, <4>2
    <3> QED
      BY <1>0, <2>1, <2>5, <3>1, RatedProbeMove
  <2> QED
    BY <2>2, <2>3, <2>4, <2>5
<1>3. CASE ProbeSets(p)
  <2>1. /\ probes[p].at \in {"out", "in"} /\ engines' = engines
        /\ device' = device
        /\ \/ probes' = [probes EXCEPT ![p].at = "in"]
           \/ probes' = [probes EXCEPT ![p].at = "verify"]
        /\ \/ strayed' = (strayed \/ probes[p].parent = NoOne)
           \/ deviceRate' = deviceRate /\ strayed' = strayed
    BY <1>3 DEF ProbeSets
  <2>2. /\ \A q \in Helpers : q # p => probes'[q] = probes[q]
        /\ probes'[p].parent = probes[p].parent
        /\ probes'[p].at \in {"in", "verify"}
        /\ probes'[p].sets = probes[p].sets
        /\ probes'[p].target = probes[p].target
        /\ probes'[p].bus = probes[p].bus
    BY <1>0, <2>1 DEF Probes
  <2>3. probes[p].sets
    BY <2>1 DEF Rated, Helped
  <2>4. CASE deviceRate' = deviceRate /\ strayed' = strayed
    BY <1>0, <2>1, <2>2, <2>3, <2>4, RatedProbeMove
  <2>5. CASE strayed' = (strayed \/ probes[p].parent = NoOne)
    <3>1. Holds'
      BY <1>0, <2>1, <2>2 DEF Rated, Holds
    <3>2. Helped'
      <4>1. \A q \in Helpers :
              /\ probes'[q].parent = probes[q].parent
              /\ probes'[q].at \in {"out", "in"} => probes[q].sets
              /\ probes'[q].target = probes[q].target
              /\ probes'[q].sets = probes[q].sets
              /\ probes'[q].at = "none" <=> probes[q].at = "none"
              /\ probes'[q].at \in {"passed", "failed"}
                    <=> probes[q].at \in {"passed", "failed"}
        BY <2>1, <2>2, <2>3 DEF Rated, Helped
      <4> QED
        BY <1>0, <2>1, <4>1 DEF Rated, Helped
    <3>3. \A e \in Slots : Checked(e)' => Checked(e)
      BY <2>1, <2>2 DEF Checked, Ended
    <3>4. probes[p].parent # NoOne => \A e \in Slots : ~Checked(e)
      <4> SUFFICES ASSUME probes[p].parent # NoOne, NEW e \in Slots, Checked(e)
                   PROVE  FALSE
        OBVIOUS
      <4>1. e = child
        BY OnlyChild DEF Checked, CheckedPlaces, Asks
      <4>2. /\ engines[e].at \in Asks \cup {"putback"}
            /\ \A q \in Helpers : probes[q].parent # NoOne => q = p
        BY <4>1 DEF Rated, Helped
      <4>3. ~Ended(e, "passed")
        BY <2>1, <4>2, NoOneIsNoSlot DEF Ended
      <4> QED
        BY <4>2, <4>3 DEF Checked, CheckedPlaces, Asks
    <3>5. Verified'
      BY <2>1, <2>5, <3>3, <3>4 DEF Rated, Verified
    <3> QED
      BY <3>1, <3>2, <3>5 DEF Rated
  <2> QED
    BY <2>1, <2>4, <2>5
<1>4. CASE ProbeVerifies(p)
  <2> DEFINE passed == /\ probes[p].bus = "open" /\ probes[p].ok
                       /\ InForce(probes[p].target)
  <2>1. /\ probes[p].at = "verify" /\ engines' = engines
        /\ device' = device /\ deviceRate' = deviceRate
        /\ Finish(p, passed) \/ Finish(p, FALSE)
    BY <1>4 DEF ProbeVerifies, world
  <2>2. passed => device = "operational" /\ InForce(probes[p].target)
    BY DEF Rated, Holds
  <2>3. passed \in BOOLEAN
    BY DEF InForce
  <2> HIDE DEF passed
  <2> QED
    BY <1>0, <2>1, <2>2, <2>3, RatedFinish
<1> QED
  BY <1>1, <1>2, <1>3, <1>4 DEF Probe

-----------------------------------------------------------------------------
(* The bus and the supervisor.                                              *)

LEMMA RatedDisturb ==
  ASSUME Inv, Rated, NEW from, NEW to \in {"stale", "gone"}, Disturb(from, to),
         pc' = pc, child' = child,
         \/ device' = device /\ deviceRate' = deviceRate
         \/ device' = "absent" /\ {"open", "stale"} \subseteq from /\ to = "gone",
         to = "stale" => device = "operational"
  PROVE  Rated'
<1>1. \A e \in Slots :
        /\ engines'[e].at = engines[e].at /\ engines'[e].rate = engines[e].rate
        /\ engines'[e].bus = IF engines[e].bus \in from THEN to ELSE engines[e].bus
  BY DEF Disturb, Inv, BridgeTyped, Engines
<1>2. \A p \in Helpers :
        /\ probes'[p].at = probes[p].at /\ probes'[p].parent = probes[p].parent
        /\ probes'[p].sets = probes[p].sets
        /\ probes'[p].target = probes[p].target
        /\ probes'[p].bus = IF probes[p].bus \in from THEN to ELSE probes[p].bus
  BY DEF Disturb, Inv, BridgeTyped, Probes
<1>3. strayed' = strayed /\ (child = NoOne \/ child \in Slots)
  BY DEF Disturb, Inv, LoopTyped
<1>4. Holds'
  <2>1. \A e \in Slots : engines'[e].bus \in {"open", "stale"}
                          => device' = "operational"
    BY <1>1 DEF Rated, Holds
  <2>2. \A p \in Helpers : probes'[p].bus \in {"open", "stale"}
                            => device' = "operational"
    BY <1>2 DEF Rated, Holds
  <2> QED
    BY <1>1, <2>1, <2>2 DEF Rated, Holds
<1>5. Helped'
  <2>1. \A p \in Helpers : probes[p].parent # NoOne => child \in Slots
    BY <1>3 DEF Rated, Helped
  <2> QED
    BY <1>1, <1>2, <2>1 DEF Rated, Helped
<1>6. Verified'
  <2>1. \A e \in Slots : Checked(e)' => Checked(e)
    BY <1>1, <1>2 DEF Checked, Ended
  <2> QED
    BY <1>1, <1>3, <2>1 DEF Rated, Verified, InForce
<1> QED
  BY <1>4, <1>5, <1>6 DEF Rated

LEMMA RatedWorld ==
  ASSUME Inv, Rated, Supervisor410,
         \/ PerformDeviceConfigurationChange
         \/ BusReset \/ Unplug \/ Replug \/ Reenumerate
  PROVE  Rated'
<1>0. pc' = pc /\ child' = child
  BY DEF Supervisor410, handle
<1>1. CASE PerformDeviceConfigurationChange
  BY <1>0, <1>1, RatedQuiet DEF PerformDeviceConfigurationChange, Rated, Holds
<1>2. CASE BusReset
  BY <1>0, <1>2, RatedDisturb DEF BusReset
<1>3. CASE Unplug
  BY <1>0, <1>3, RatedDisturb DEF Unplug
<1>4. CASE Replug \/ Reenumerate
  <2>1. /\ engines' = engines /\ probes' = probes /\ strayed' = strayed
        /\ \/ device = "absent" /\ device' = "loader"
           \/ device = "booting" /\ device' = "operational"
    BY <1>4 DEF Replug, Reenumerate
  <2>2. Holds'
    BY <1>0, <2>1 DEF Rated, Holds
  <2>3. Helped'
    BY <1>0, <2>1 DEF Rated, Helped
  <2>4. \A e \in Slots : Checked(e)' => Checked(e)
    BY <2>1 DEF Checked, Ended
  <2>5. Verified'
    BY <2>1, <2>4 DEF Rated, Verified
  <2> QED
    BY <2>2, <2>3, <2>5 DEF Rated
<1> QED
  BY <1>1, <1>2, <1>3, <1>4

LEMMA RatedReaped ==
  ASSUME Inv, Rated, child # NoOne, engines[child].at = "exited",
         Reaped(child), child' = NoOne, device' = device, probes' = probes
  PROVE  Rated'
<1>1. child \in Slots /\ engines \in [Slots -> Engines]
  BY DEF Inv, LoopTyped, BridgeTyped
<1>2. \A e \in Slots :
        /\ engines'[e].at \in {"none", "exited"}
        /\ engines'[e].bus \in {"open", "stale"} => device' = "operational"
  <2>1. \A e \in Slots : e # child => engines[e].at = "none"
                                     /\ engines'[e] = engines[e]
    BY <1>1 DEF Reaped, Inv, Owned
  <2>2. engines'[child] = Idle
    BY <1>1 DEF Reaped
  <2>3. Idle.at = "none" /\ Idle.bus = "closed"
    BY DEF Idle
  <2> QED
    BY <2>1, <2>2, <2>3 DEF Rated, Holds
<1>3. \A p \in Helpers :
        /\ probes'[p].parent = NoOne
        /\ probes'[p].at \in {"out", "in"} => probes'[p].sets
        /\ probes'[p].bus \in {"open", "stale"} => device' = "operational"
  BY <1>1, NoParents DEF Asks
<1> QED
  BY <1>2, <1>3, RatedAlone

LEMMA RatedSupervise == Inv /\ Rated /\ Supervise => Rated'
<1> SUFFICES ASSUME Inv, Rated, Supervise PROVE Rated'
  OBVIOUS
<1>0. child # NoOne => child \in Slots /\ engines[child].at # "none"
  BY DEF Inv, LoopTyped, Owned
<1>1. CASE \/ Open \/ PollReady \/ Restored \/ StillRunning \/ NoStart \/ Publish
           \/ Top /\ ~(child # NoOne /\ halRate # activeRate)
  <2>1. /\ UNCHANGED <<device, deviceRate, engines, probes, strayed, child>>
        /\ pc' # "boot"
    BY <1>1 DEF Open, PollReady, Restored, StillRunning, NoStart, Publish, Top,
                bridge, world, handle
  <2> QED
    BY <2>1, RatedQuiet
<1>2. CASE (Top /\ child # NoOne /\ halRate # activeRate) \/ Stop
  <2>1. /\ child # NoOne /\ Terminate(child)
        /\ device' = device /\ deviceRate' = deviceRate /\ strayed' = strayed
        /\ pc' \in {"stopping", "leaving"} /\ child' = child
    BY <1>2 DEF Top, Stop, world, handle
  <2> QED
    BY <1>0, <2>1, RatedTerminate
<1>3. CASE EngineStopped \/ EngineExited \/ (Leave /\ child # NoOne)
  <2>1. /\ child # NoOne /\ engines[child].at = "exited" /\ Reaped(child)
        /\ child' = NoOne /\ device' = device /\ probes' = probes
    BY <1>3 DEF EngineStopped, EngineExited, ChildExited, Leave, Forget, Inv,
                Owned, world
  <2> QED
    BY <2>1, RatedReaped
<1>4. CASE Leave /\ child = NoOne
  <2>1. /\ child' = child /\ pc' = "gone"
        /\ UNCHANGED <<device, deviceRate, probes, strayed, engines>>
    BY <1>4 DEF Leave, Forget, Inv, Owned, world
  <2> QED
    BY <2>1, RatedQuiet
<1>5. CASE TryGuardedBoot
  <2>1. /\ pc = "boot" /\ pc' = "start" /\ child' = child
        /\ engines' = engines /\ probes' = probes
        /\ device' = device \/ device = "loader"
    BY <1>5 DEF TryGuardedBoot, handle
  <2>2. child = NoOne /\ \A e \in Slots : engines[e].at = "none"
    BY <2>1, NoOneIsNoSlot DEF Rated, Holds, Inv, Owned
  <2>3. Holds'
    BY <2>1 DEF Rated, Holds
  <2>4. Helped'
    BY <2>1 DEF Rated, Helped
  <2>5. Verified'
    BY <2>1, <2>2 DEF Verified, Checked, Asks, CheckedPlaces
  <2> QED
    BY <2>3, <2>4, <2>5 DEF Rated
<1>6. CASE StartBridge
  <2>1. /\ pc = "start" /\ child = NoOne /\ pc' = "pollAgain"
        /\ device' = device /\ deviceRate' = deviceRate /\ probes' = probes
        /\ strayed' = strayed
        /\ \/ engines' = [engines EXCEPT ![FreeSlot] =
                         [Idle EXCEPT !.at = "entry", !.rate = requestedRate]]
           \/ engines' = engines /\ child' = child
    BY <1>6 DEF StartBridge, world
  <2>2. \A e \in Slots : engines[e].at = "none"
    BY <2>1, NoOneIsNoSlot DEF Inv, Owned
  <2>3. \A p \in Helpers : probes[p].parent = NoOne
    <3>1. NoOne \notin Slots
      BY NoOneIsNoSlot
    <3>2. \A p \in Helpers : probes[p].parent = child \/ probes[p].parent = NoOne
      BY DEF Rated, Helped
    <3> QED
      BY <2>1, <3>2
  <2>4. \A e \in Slots :
          /\ engines'[e].at \in {"none", "entry"}
          /\ engines'[e].bus \in {engines[e].bus, "closed"}
    <3> DEFINE r == [Idle EXCEPT !.at = "entry", !.rate = requestedRate]
    <3>1. r.at = "entry" /\ r.bus = "closed"
      BY DEF Idle
    <3>2. engines' = [engines EXCEPT ![FreeSlot] = r] \/ engines' = engines
      BY <2>1
    <3> HIDE DEF r
    <3> QED
      BY <2>2, <3>1, <3>2 DEF Inv, BridgeTyped
  <2>5. Holds'
    <3>1. \A e \in Slots : /\ engines'[e].bus \in {"open", "stale"}
                                => device' = "operational"
                           /\ engines'[e].at # "lead"
      BY <2>1, <2>4 DEF Rated, Holds
    <3> QED
      BY <2>1, <3>1 DEF Rated, Holds
  <2>6. Helped'
    BY <2>1, <2>3 DEF Rated, Helped
  <2>7. Verified'
    BY <2>4 DEF Verified, Checked, Asks, CheckedPlaces
  <2> QED
    BY <2>5, <2>6, <2>7 DEF Rated
<1> QED
  BY <1>1, <1>2, <1>3, <1>4, <1>5, <1>6 DEF Supervise

LEMMA RatedStep == Inv /\ Rated /\ [Next]_vars => Rated'
<1> SUFFICES ASSUME Inv, Rated, [Next]_vars PROVE Rated'
  OBVIOUS
<1>1. CASE Supervise
  BY <1>1, RatedSupervise
<1>2. CASE TimerExpires \/ Sigterm \/ UNCHANGED vars
  <2>1. UNCHANGED <<device, deviceRate, engines, probes, strayed, child>> /\ pc' = pc
    BY <1>2 DEF TimerExpires, Sigterm, vars, bridge, world, handle
  <2> QED
    BY <2>1, RatedQuiet DEF Rated, Holds
<1>3. CASE SupervisorDies
  <2>1. /\ engines' = [e \in Slots |-> Idle] /\ probes' = [p \in Helpers |-> NoProbe]
        /\ child' = NoOne
    BY <1>3 DEF SupervisorDies, Forget
  <2>2. /\ Idle.at = "none" /\ Idle.bus = "closed" /\ NoProbe.at = "none"
        /\ NoProbe.bus = "closed" /\ NoProbe.parent = NoOne
    BY DEF Idle, NoProbe
  <2> QED
    BY <2>1, <2>2, RatedAlone
<1>4. ASSUME NEW e \in Slots, Supervisor410, Engine(e) \/ Crash(e) PROVE Rated'
  BY <1>4, RatedEngine, RatedCrash
<1>5. ASSUME NEW p \in Helpers, Supervisor410, Probe(p) PROVE Rated'
  BY <1>5, RatedProbe
<1>6. CASE /\ Supervisor410
           /\ \/ PerformDeviceConfigurationChange
              \/ BusReset \/ Unplug \/ Replug \/ Reenumerate
  BY <1>6, RatedWorld
<1> QED
  BY <1>1, <1>2, <1>3, <1>4, <1>5, <1>6 DEF Next

(* An engine that streams with the unit in its hands finds both directions  *)
(* of the unit at its own rate, whatever failed before it, for any number   *)
(* of disturbances, rate changes and helpers; a rateprobe that outlived its *)
(* entry is the one thing that can take it away (entry.cpp of both native   *)
(* engines, the verification at the end of rateprobe, and the guarded boot  *)
(* of haltransport, which never starts a unit behind a live engine).        *)
THEOREM RateInForceAlways == Spec => []RateInForce
<1>1. Init => Inv /\ Rated
  BY InitInv, InitRated
<1>2. Inv /\ Rated /\ [Next]_vars => Inv' /\ Rated'
  BY InvStep, RatedStep
<1> QED
  BY <1>1, <1>2, RatedImplies, PTL DEF Spec
=============================================================================
