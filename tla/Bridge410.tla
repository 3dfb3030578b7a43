------------------------------ MODULE Bridge410 ------------------------------
(***************************************************************************)
(* The processes of the FireWire 410 that use the bus: the two native      *)
(* engines (halbridge44100 and halbridge48000, entry.cpp and main.cpp) and *)
(* the rateprobe helpers they start (tools/control/rateprobe).             *)
(*                                                                         *)
(* An engine is first an entry that has the rate of the device checked and *)
(* set by rateprobe; only then does it install signal handlers, open the   *)
(* unit, start the streams, report READY and stream.  A SIGTERM that comes *)
(* earlier kills the entry and leaves its rateprobe running without a      *)
(* parent.  Sessions, FCP transactions and audio have modules of their own *)
(* and are one step each here; delays are left to the interleaving.        *)
(***************************************************************************)
EXTENDS Naturals

CONSTANTS Slots,       \* room for the engine processes
          Helpers,     \* room for the rateprobe processes
          MaxFaults,   \* bound on the disturbances of a behaviour
          MaxChanges   \* bound on the rate changes of a behaviour

ASSUME BridgeAssumption ==
  /\ Slots \subseteq Nat \ {0} /\ Slots # {} /\ Helpers # {}
  /\ MaxFaults \in Nat /\ MaxChanges \in Nat

Rates == {44100, 48000}
NoOne == 0

VARIABLES
  halRate,     \* sampleRate of the shared ring: the rate CoreAudio asked for
  device,      \* the personality of the unit that is on the bus
  deviceRate,  \* signal format of its OUTPUT and of its INPUT plug: when the
               \* unit is not operational, the value of NoFormat
  plugs,       \* the connection registers oPCR0 and iPCR0 of the unit: "free",
               \* "held" by the engine that runs, or "left" connected by one
               \* that ended without disconnecting them
  engines,     \* the engine processes
  probes,      \* the rateprobe processes
  strayed,     \* history: a rateprobe without a parent has set a rate since
               \* the last one with a parent found its rate in force
  faults, changes

unit   == <<halRate, device, deviceRate>>
world  == <<halRate, device, deviceRate, plugs>>
bounds == <<faults, changes>>

(* bus: "open" holds the unit, "stale" holds it across a bus reset, "gone"  *)
(* is a handle on a unit that left the bus.                                 *)
Handles == {"closed", "open", "stale", "gone"}
Idle    == [at |-> "none", rate |-> 44100, bus |-> "closed", stop |-> FALSE,
            failed |-> FALSE, signalled |-> FALSE]
NoProbe == [at |-> "none", target |-> 44100, sets |-> FALSE, ok |-> TRUE,
            bus |-> "closed", parent |-> NoOne]

Plugs == {"free", "held", "left"}

Both(r) == [out |-> r, in |-> r]
NoFormat == Both(48000)

(* Open() is exclusive: one process at a time has the unit.                 *)
Held == \/ \E e \in Slots : engines[e].bus \in {"open", "stale"}
        \/ \E p \in Helpers : probes[p].bus \in {"open", "stale"}
Available == device = "operational" /\ ~Held

Fault == faults > 0 /\ faults' = faults - 1 /\ UNCHANGED changes
Fails(possible) == \/ ~possible /\ UNCHANGED bounds
                   \/ possible /\ Fault

BridgeInit ==
  /\ halRate \in Rates /\ device \in {"operational", "loader"}
  /\ IF device = "loader" THEN deviceRate = NoFormat
     ELSE deviceRate \in {Both(r) : r \in Rates}
  /\ plugs = "free"
  /\ engines = [e \in Slots |-> Idle] /\ probes = [p \in Helpers |-> NoProbe]
  /\ strayed = FALSE /\ faults = MaxFaults /\ changes = MaxChanges

-----------------------------------------------------------------------------
(* rateprobe: open, read both plugs, set both unless they already match,    *)
(* and believe the final reading only.                                      *)

(* A start waits for room among the Helpers, a bound of the model.          *)
Room == \E p \in Helpers : probes[p].at = "none"
FreeHelper == CHOOSE p \in Helpers : probes[p].at = "none"

(* The processes after e has started a probe.                               *)
WithProbe(e, target, sets) ==
  [probes EXCEPT ![FreeHelper] = [NoProbe EXCEPT !.at = "start", !.parent = e,
                                    !.target = target, !.sets = sets]]

(* Of an engine that has ended the READY byte may still be in the pipe.     *)
Exited(e) ==
  [engines EXCEPT ![e] = [Idle EXCEPT !.at = "exited", !.rate = engines[e].rate,
                                      !.signalled = engines[e].signalled]]

(* A probe without a parent is gone as soon as it ends.                     *)
Finish(p, passed) ==
  probes' = [probes EXCEPT ![p] =
               IF probes[p].parent = NoOne THEN NoProbe
               ELSE [NoProbe EXCEPT !.at = IF passed THEN "passed" ELSE "failed",
                                    !.parent = probes[p].parent]]
  /\ strayed' = (strayed /\ (passed => probes[p].parent = NoOne))

InForce(r) == deviceRate = Both(r)

ProbeOpens(p) ==
  /\ probes[p].at = "start"
  /\ \/ /\ Available /\ UNCHANGED bounds
        /\ probes' = [probes EXCEPT ![p].at = "read", ![p].bus = "open"]
        /\ UNCHANGED strayed
     \/ Fails(Available) /\ Finish(p, FALSE)
  /\ UNCHANGED <<world, engines>>

(* A reading that is lost does not keep the rates from being set, but the   *)
(* probe fails in the end.                                                  *)
ProbeReads(p) ==
  /\ probes[p].at = "read"
  /\ \/ /\ probes[p].bus = "open" /\ UNCHANGED bounds
        /\ IF InForce(probes[p].target) \/ ~probes[p].sets
             THEN Finish(p, InForce(probes[p].target))
             ELSE /\ probes' = [probes EXCEPT ![p].at = "out"]
                  /\ UNCHANGED strayed
     \/ /\ Fails(probes[p].bus = "open")
        /\ IF probes[p].sets
             THEN /\ probes' = [probes EXCEPT ![p].at = "out",
                                               ![p].ok = FALSE]
                  /\ UNCHANGED strayed
             ELSE Finish(p, FALSE)
  /\ UNCHANGED <<world, engines>>

(* The CONTROL of one plug; a lost one, or one sent to a past generation,   *)
(* changes nothing.                                                         *)
ProbeSets(p) ==
  \E plug \in {"out", "in"} :
    /\ probes[p].at = plug
    /\ \/ /\ probes[p].bus = "open" /\ UNCHANGED bounds
          /\ deviceRate' = [deviceRate EXCEPT ![plug] = probes[p].target]
          /\ strayed' = (strayed \/ probes[p].parent = NoOne)
       \/ Fails(probes[p].bus = "open") /\ UNCHANGED <<deviceRate, strayed>>
    /\ probes' = [probes EXCEPT ![p].at = IF plug = "out" THEN "in"
                                                          ELSE "verify"]
    /\ UNCHANGED <<halRate, device, plugs, engines>>

(* Mutant: only the last plug that was set is read again.                   *)
ProbeVerifiesInput(p) ==
  /\ probes[p].at = "verify"
  /\ \/ /\ UNCHANGED bounds
        /\ Finish(p, /\ probes[p].bus = "open" /\ probes[p].ok
                     /\ deviceRate.in = probes[p].target)
     \/ Fault /\ Finish(p, FALSE)
  /\ UNCHANGED <<world, engines>>

ProbeVerifies(p) ==
  /\ probes[p].at = "verify"
  /\ \/ /\ UNCHANGED bounds
        /\ Finish(p, /\ probes[p].bus = "open" /\ probes[p].ok
                     /\ InForce(probes[p].target))
     \/ Fault /\ Finish(p, FALSE)
  /\ UNCHANGED <<world, engines>>

Probe(p) == ProbeOpens(p) \/ ProbeReads(p) \/ ProbeSets(p) \/ ProbeVerifies(p)

-----------------------------------------------------------------------------
(* entry.cpp: the rate first.  48 kHz asks before it sets.                  *)

ProbeOf(e) == CHOOSE p \in Helpers : probes[p].parent = e
Ended(e, result) ==
  \E p \in Helpers : probes[p].parent = e /\ probes[p].at = result
Collected(e) == [p \in Helpers |-> IF probes[p].parent = e THEN NoProbe
                                                           ELSE probes[p]]

EntryStarts(e) ==
  /\ engines[e].at = "entry" /\ Room
  /\ probes' = WithProbe(e, engines[e].rate, engines[e].rate = 44100)
  /\ engines' = [engines EXCEPT ![e].at = IF engines[e].rate = 44100
                                          THEN "setting" ELSE "asking"]
  /\ UNCHANGED <<world, strayed, bounds>>

(* Another rate, or no answer: rateprobe is started again, to set it.       *)
EntryMustSet(e) ==
  /\ engines[e].at = "asking" /\ Ended(e, "failed")
  /\ probes' = [probes EXCEPT ![ProbeOf(e)] =
                  [NoProbe EXCEPT !.at = "start", !.parent = e,
                                  !.target = engines[e].rate, !.sets = TRUE]]
  /\ engines' = [engines EXCEPT ![e].at = "setting"]
  /\ UNCHANGED <<world, strayed, bounds>>

EntryPasses(e) ==
  /\ engines[e].at \in {"asking", "setting"} /\ Ended(e, "passed")
  /\ probes' = Collected(e)
  /\ engines' = [engines EXCEPT ![e].at = "setup"]
  /\ UNCHANGED <<world, strayed, bounds>>

EntryFails(e) ==
  /\ engines[e].at = "setting" /\ Ended(e, "failed")
  /\ probes' = Collected(e)
  /\ engines' = Exited(e)
  /\ UNCHANGED <<world, strayed, bounds>>

-----------------------------------------------------------------------------
(* run(): set up, start the streams, report READY, stream, clean up.        *)

(* The ring has this engine's rate, and the unit is there and free.         *)
Setup(e) ==
  /\ engines[e].at = "setup"
  /\ \/ /\ halRate = engines[e].rate /\ Available /\ UNCHANGED bounds
        /\ engines' = [engines EXCEPT ![e].at = "arming", ![e].bus = "open"]
     \/ /\ Fails(halRate = engines[e].rate /\ Available)
        /\ engines' = [engines EXCEPT ![e].at = "closing", ![e].failed = TRUE]
  /\ UNCHANGED <<world, probes, strayed>>

(* The streams start on registers that nobody has connected; an engine that *)
(* finds them connected gives up, and one that fails may have got as far as *)
(* connecting them.                                                         *)
CanArm(e) == engines[e].bus = "open" /\ plugs = "free"

Arm(e) ==
  /\ engines[e].at = "arming"
  /\ \/ /\ CanArm(e) /\ UNCHANGED bounds /\ plugs' = "held"
        /\ engines' = [engines EXCEPT ![e].at = IF engines[e].rate = 44100
                                                THEN "lead" ELSE "ready"]
     \/ /\ Fails(CanArm(e))
        /\ plugs' \in IF CanArm(e) THEN {"free", "held"} ELSE {plugs}
        /\ engines' = [engines EXCEPT ![e].at = "closing", ![e].failed = TRUE]
  /\ UNCHANGED <<unit, probes, strayed>>

(* 44.1 kHz only: a stop during the start lead goes to the cleanup with     *)
(* `ok' still false.                                                        *)
StopInLead(e) ==
  /\ engines[e].at = "lead" /\ engines[e].stop
  /\ engines' = [engines EXCEPT ![e].at = "closing", ![e].failed = TRUE]
  /\ UNCHANGED <<world, probes, strayed, bounds>>

Reassert(e) ==
  /\ engines[e].at = "lead" /\ ~engines[e].stop
  /\ \/ /\ engines[e].bus = "open" /\ UNCHANGED bounds
        /\ deviceRate' = Both(44100)
        /\ engines' = [engines EXCEPT ![e].at = "ready"]
     \/ /\ Fails(engines[e].bus = "open") /\ UNCHANGED deviceRate
        /\ engines' = [engines EXCEPT ![e].at = "closing", ![e].failed = TRUE]
  /\ UNCHANGED <<halRate, device, plugs, probes, strayed>>

SignalReady(e) ==
  /\ engines[e].at = "ready"
  /\ engines' = [engines EXCEPT ![e].at = "streaming", ![e].signalled = TRUE]
  /\ UNCHANGED <<world, probes, strayed, bounds>>

(* Mutant: the service loop looks at the bus only.                          *)
StreamEndsOnReset(e) ==
  /\ engines[e].at = "streaming" /\ engines[e].bus # "open"
  /\ engines' = [engines EXCEPT ![e].at = "closing", ![e].failed = TRUE]
  /\ UNCHANGED <<world, probes, strayed, bounds>>

(* The service loop ends well on a stop and badly on a new generation.      *)
StreamEnds(e) ==
  /\ engines[e].at = "streaming"
  /\ \E failed \in BOOLEAN :
       /\ IF failed THEN engines[e].bus # "open" ELSE engines[e].stop
       /\ engines' = [engines EXCEPT ![e].at = "closing", ![e].failed = failed]
  /\ UNCHANGED <<world, probes, strayed, bounds>>

(* The engine disconnects the registers it connected and looks at no result *)
(* of it.  The unit is closed with the end of run(); a failed 44.1 kHz      *)
(* engine then has rateprobe put 48 kHz back.                               *)
CleanUp(e) ==
  /\ engines[e].at = "closing" /\ Room
  /\ \/ plugs # "held" /\ UNCHANGED <<plugs, bounds>>
     \/ plugs = "held" /\ plugs' = "free" /\ UNCHANGED bounds
     \/ plugs = "held" /\ plugs' = "left" /\ Fault
  /\ IF engines[e].rate = 44100 /\ engines[e].failed
       THEN /\ probes' = WithProbe(e, 48000, TRUE)
            /\ engines' = [engines EXCEPT ![e].at = "putback",
                                          ![e].bus = "closed"]
       ELSE /\ engines' = Exited(e)
            /\ UNCHANGED probes
  /\ UNCHANGED <<unit, strayed>>

PutBack(e) ==
  /\ engines[e].at = "putback" /\ (Ended(e, "passed") \/ Ended(e, "failed"))
  /\ probes' = Collected(e)
  /\ engines' = Exited(e)
  /\ UNCHANGED <<world, strayed, bounds>>

Engine(e) ==
  \/ EntryStarts(e) \/ EntryMustSet(e) \/ EntryPasses(e) \/ EntryFails(e)
  \/ Setup(e) \/ Arm(e) \/ StopInLead(e) \/ Reassert(e) \/ SignalReady(e)
  \/ StreamEnds(e) \/ CleanUp(e) \/ PutBack(e)

-----------------------------------------------------------------------------
(* How a process ends early.  Its unit is closed, its probe goes on alone.  *)

Alive(e) == engines[e].at \notin {"none", "exited"}

Orphaned(e) == [p \in Helpers |->
                  IF probes[p].parent # e THEN probes[p]
                  ELSE IF probes[p].at \in {"passed", "failed"} THEN NoProbe
                  ELSE [probes[p] EXCEPT !.parent = NoOne]]

Die(e) ==
  /\ engines' = Exited(e)
  /\ probes' = Orphaned(e)

(* SIGTERM: inner_main installs the handler, the entry has none.            *)
Terminate(e) ==
  IF engines[e].at \in {"entry", "asking", "setting"}
    THEN Die(e)
    ELSE /\ engines' = [engines EXCEPT ![e].stop = TRUE]
         /\ UNCHANGED probes

(* No cleanup: what is connected stays connected until the bus is reset.    *)
Crash(e) ==
  /\ Alive(e) /\ Fault /\ Die(e)
  /\ \/ plugs' = IF plugs = "held" THEN "left" ELSE plugs
     \/ engines[e].at = "arming" /\ CanArm(e) /\ plugs' = "left"
  /\ UNCHANGED <<unit, strayed>>

-----------------------------------------------------------------------------
(* CoreAudio and the bus.                                                   *)

PerformDeviceConfigurationChange ==
  /\ changes > 0 /\ changes' = changes - 1
  /\ halRate' \in Rates \ {halRate}
  /\ UNCHANGED <<device, deviceRate, plugs, engines, probes, strayed, faults>>

(* Every handle that is open learns of it, and the unit drops connections.  *)
Disturb(from, to) ==
  /\ plugs' = "free"
  /\ engines' = [e \in Slots |-> IF engines[e].bus \in from
                                 THEN [engines[e] EXCEPT !.bus = to]
                                 ELSE engines[e]]
  /\ probes' = [p \in Helpers |-> IF probes[p].bus \in from
                                  THEN [probes[p] EXCEPT !.bus = to]
                                  ELSE probes[p]]
  /\ UNCHANGED <<halRate, strayed>>

BusReset ==
  /\ device = "operational" /\ Held /\ Fault
  /\ Disturb({"open"}, "stale")
  /\ UNCHANGED <<device, deviceRate>>

Unplug ==
  /\ device = "operational" /\ Fault /\ device' = "absent"
  /\ Disturb({"open", "stale"}, "gone") /\ deviceRate' = NoFormat

(* It comes back as a bootloader that waits for its cue.                    *)
Replug ==
  /\ device = "absent" /\ device' = "loader"
  /\ UNCHANGED <<halRate, deviceRate, plugs, engines, probes, strayed, bounds>>

(* The firmware starts at a rate of its own.                                *)
Reenumerate ==
  /\ device = "booting" /\ device' = "operational"
  /\ deviceRate' \in {Both(r) : r \in Rates}
  /\ UNCHANGED <<halRate, plugs, engines, probes, strayed, bounds>>
=============================================================================
