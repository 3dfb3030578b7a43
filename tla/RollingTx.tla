----------------------------- MODULE RollingTx -----------------------------
(***************************************************************************)
(* Playback into the transmit program (pcm_stream48.h).  The FireWire       *)
(* controller walks a ring of packet slots, one slot per bus cycle, and     *)
(* never waits for software; the engine's audio thread reads the cycle      *)
(* timer, a counter that wraps every second, works out where the controller *)
(* must be and refills the slots a short lead ahead of it.  In rolling mode *)
(* it stops the engine once the next slot to fill is closer than a guard;   *)
(* in the older mode it refills the half of the ring just sent.             *)
(*                                                                         *)
(* Time is counted in bus cycles since the engine read initialCycle.  The   *)
(* controller is external: it starts at firstCycle, sends packet p in the   *)
(* p-th cycle after it, and reads a slot Fetch cycles before it sends it.    *)
(***************************************************************************)
EXTENDS Integers

CONSTANTS Cycles,          \* kCyclesPerSecond
          InitialCycle,    \* observedCycleBeforeStart
          CycleLead,       \* kCycleLead, from initialCycle to firstCycle
          HalfPackets,     \* kTxHalfPackets
          Lead, Guard,     \* rollingLeadPackets_, rollingGuardPackets_
          Fetch,           \* how far ahead of the wire the controller reads
          MaxGap,          \* cycles between two reads of the timer, at most
          MaxRefill,       \* cycles from a read to the end of its refill
          MaxTime          \* bound on the modelled time

Slots == 2 * HalfPackets

ASSUME RollingAssumption ==
  /\ Cycles \in Nat \ {0} /\ InitialCycle \in 0 .. Cycles - 1
  /\ CycleLead \in Nat /\ HalfPackets \in Nat \ {0}
  /\ Guard \in Nat \ {0} /\ Lead \in Nat /\ Guard < Lead /\ Lead < Slots
  /\ Fetch \in Nat /\ MaxGap \in Nat /\ MaxTime \in Nat
  /\ MaxRefill \in Nat /\ MaxRefill <= MaxGap

VARIABLES
  now,             \* cycles since initialCycle was read
  holds,           \* the packet each slot was last filled for, -1 when primed
  \* BlockingPcmStream48k: rollingEnabled_, lastCycle_, cyclesObserved_,
  \* streamReached_, rollingInitialized_, rollingHealthy_; next packet to fill
  \* (rollingNextPacket_, or the next half's) and the end of this refill
  rolling, lastCycle, cyclesObserved, streamReached, initialized, healthy,
  next, targetExclusive,
  engPc,           \* "service" between two services, "refill", "stopped"
  \* history: when the timer was last read, the first packet software filled,
  \* and whether a later one was not in its slot when it was Due
  sampledAt, live, missed

stream == <<lastCycle, cyclesObserved, streamReached, initialized, healthy>>
vars   == <<now, holds, rolling, stream, next, targetExclusive, engPc,
            sampledAt, live, missed>>

SlotOf(p) == p % Slots

(* The packet the controller sends in cycle t, and the one it reads.        *)
OnWire(t)  == t - CycleLead
Fetched(t) == OnWire(t) + Fetch

(* The packet whose slot the guard wants filled in cycle t: a refill that    *)
(* the guard lets begin ends no later than this.                            *)
Due(t) == OnWire(t) + Guard - MaxRefill - 1

(* Both halves are primed before the program starts.                        *)
Init ==
  /\ now = 0 /\ holds = [s \in 0 .. Slots - 1 |-> -1]
  /\ rolling \in BOOLEAN
  /\ lastCycle = InitialCycle /\ cyclesObserved = 0
  /\ streamReached = FALSE /\ initialized = FALSE /\ healthy = TRUE
  /\ next = Slots /\ targetExclusive = Slots
  /\ engPc = "service" /\ sampledAt = 0 /\ live = Slots /\ missed = FALSE

-----------------------------------------------------------------------------
(* A bus cycle passes: the controller moves on by one slot, and one more     *)
(* packet is due.                                                           *)
Tick ==
  /\ now < MaxTime /\ engPc # "stopped"
  /\ now + 1 - sampledAt <= IF engPc = "refill" THEN MaxRefill ELSE MaxGap
  /\ now' = now + 1
  /\ LET p == Due(now + 1) IN
     missed' = \/ missed
               \/ rolling /\ initialized /\ p >= live /\ holds[SlotOf(p)] < p
  /\ UNCHANGED <<holds, rolling, stream, next, targetExclusive, engPc,
                 sampledAt, live>>

(* Mutant: the wrap of the cycle timer is not undone.                       *)
CycleDeltaNoWrap(newer, older) == IF newer < older THEN 0 ELSE newer - older

(* cycleDelta: the timer's wrap is undone, whole seconds are lost.           *)
CycleDelta(newer, older) == (newer + Cycles - older) % Cycles

Timer == (InitialCycle + now) % Cycles

Observed == cyclesObserved + CycleDelta(Timer, lastCycle)

(* sinceStart: where service() believes the controller is.                  *)
SinceStart == Observed - CycleLead

(* The head of service(): the timer is read and the cycle count advanced.   *)
Observe ==
  /\ engPc = "service"
  /\ lastCycle' = Timer /\ cyclesObserved' = Observed /\ sampledAt' = now
  /\ UNCHANGED <<now, holds, rolling, missed>>

(* The stream has not reached its first packet.                             *)
ServiceEarly ==
  /\ Observe /\ ~streamReached /\ Observed < CycleLead
  /\ UNCHANGED <<streamReached, initialized, healthy, next, targetExclusive,
                 engPc, live>>

Reached == streamReached \/ Observed >= CycleLead

(* serviceRolling: the first live packet is Lead ahead of the controller.   *)
NextPacket == IF initialized THEN next ELSE SinceStart + Lead

(* Mutant: a missed deadline is skipped over.                               *)
ServiceMissedSkipped ==
  /\ Observe /\ Reached /\ rolling
  /\ NextPacket < SinceStart + Guard
  /\ streamReached' = TRUE /\ initialized' = TRUE /\ next' = SinceStart + Lead
  /\ live' = IF initialized THEN live ELSE NextPacket
  /\ UNCHANGED <<healthy, targetExclusive, engPc>>

(* The next slot is closer than the guard: the engine stops.                *)
ServiceMissed ==
  /\ Observe /\ Reached /\ rolling
  /\ NextPacket < SinceStart + Guard
  /\ streamReached' = TRUE /\ initialized' = TRUE /\ next' = NextPacket
  /\ live' = IF initialized THEN live ELSE NextPacket
  /\ healthy' = FALSE /\ engPc' = "stopped"
  /\ UNCHANGED targetExclusive

(* Mutant: the guard is not checked.                                        *)
ServiceRollingUnguarded ==
  /\ Observe /\ Reached /\ rolling
  /\ streamReached' = TRUE /\ initialized' = TRUE /\ next' = NextPacket
  /\ live' = IF initialized THEN live ELSE NextPacket
  /\ \/ /\ NextPacket < SinceStart + Lead + 1
        /\ targetExclusive' = SinceStart + Lead + 1 /\ engPc' = "refill"
     \/ /\ NextPacket >= SinceStart + Lead + 1
        /\ UNCHANGED <<targetExclusive, engPc>>
  /\ UNCHANGED healthy

(* The filled horizon is extended, if the controller has moved.             *)
ServiceRolling ==
  /\ Observe /\ Reached /\ rolling
  /\ NextPacket >= SinceStart + Guard
  /\ streamReached' = TRUE /\ initialized' = TRUE /\ next' = NextPacket
  /\ live' = IF initialized THEN live ELSE NextPacket
  /\ \/ /\ NextPacket < SinceStart + Lead + 1
        /\ targetExclusive' = SinceStart + Lead + 1 /\ engPc' = "refill"
     \/ /\ NextPacket >= SinceStart + Lead + 1
        /\ UNCHANGED <<targetExclusive, engPc>>
  /\ UNCHANGED healthy

(* Mutant: the half the controller is in counts as sent.                    *)
ServiceHalvesEarly ==
  /\ Observe /\ Reached /\ ~rolling
  /\ streamReached' = TRUE
  /\ LET half == SinceStart \div HalfPackets + 1 IN
     \/ /\ next < half * HalfPackets + Slots
        /\ targetExclusive' = half * HalfPackets + Slots /\ engPc' = "refill"
     \/ /\ next >= half * HalfPackets + Slots
        /\ UNCHANGED <<targetExclusive, engPc>>
  /\ UNCHANGED <<initialized, healthy, next, live>>

(* Without rolling: every half the controller has left since the last       *)
(* service is refilled for the next lap, whatever time has passed.          *)
ServiceHalves ==
  /\ Observe /\ Reached /\ ~rolling
  /\ streamReached' = TRUE
  /\ LET half == SinceStart \div HalfPackets IN
     \/ /\ next < half * HalfPackets + Slots
        /\ targetExclusive' = half * HalfPackets + Slots /\ engPc' = "refill"
     \/ /\ next >= half * HalfPackets + Slots
        /\ UNCHANGED <<targetExclusive, engPc>>
  /\ UNCHANGED <<initialized, healthy, next, live>>

(* refill(): one packet's slot is overwritten.                              *)
RefillPacket ==
  /\ engPc = "refill" /\ next < targetExclusive
  /\ holds' = [holds EXCEPT ![SlotOf(next)] = next]
  /\ next' = next + 1
  /\ UNCHANGED <<now, rolling, stream, targetExclusive, engPc, sampledAt, live,
                 missed>>

RefillDone ==
  /\ engPc = "refill" /\ next = targetExclusive
  /\ engPc' = "service"
  /\ UNCHANGED <<now, holds, rolling, stream, next, targetExclusive, sampledAt,
                 live, missed>>

(* SIGTERM, a changed bus generation: the audio loop ends.                  *)
StopEngine ==
  /\ engPc = "service" /\ engPc' = "stopped"
  /\ UNCHANGED <<now, holds, rolling, stream, next, targetExclusive, sampledAt,
                 live, missed>>

Next == \/ Tick \/ ServiceEarly \/ ServiceMissed \/ ServiceRolling
        \/ ServiceHalves \/ RefillPacket \/ RefillDone \/ StopEngine

Spec == Init /\ [][Next]_vars

-----------------------------------------------------------------------------
(* Types of every variable.                                                 *)
TypeOK ==
  /\ now \in Nat /\ holds \in [0 .. Slots - 1 -> Int]
  /\ rolling \in BOOLEAN /\ lastCycle \in 0 .. Cycles - 1
  /\ cyclesObserved \in Nat /\ streamReached \in BOOLEAN
  /\ initialized \in BOOLEAN /\ healthy \in BOOLEAN
  /\ next \in Int /\ targetExclusive \in Int
  /\ engPc \in {"service", "refill", "stopped"}
  /\ sampledAt \in Nat /\ live \in Int /\ missed \in BOOLEAN

(* The cycle count that service() rebuilds from a timer that wraps every    *)
(* second never loses or gains a cycle: where it believes the controller is *)
(* is where the controller was when the timer was read.                     *)
ClockFollows == cyclesObserved = sampledAt

(* The packet in a slot that is overwritten has already left, in either     *)
(* mode: software never runs a lap ahead of the controller.                 *)
NotAhead == [][RefillPacket => next - Slots < OnWire(now)]_vars

(* analog48_main.cpp: "stopping before unsafe slot reuse".  A rolling       *)
(* refill never writes a slot the controller has already read for this lap. *)
(* It holds where the guard exceeds the controller's read-ahead and the     *)
(* time of a refill, and not with a longer read-ahead: RefillDeadline says   *)
(* what is left there.                                                      *)
NoUnsafeReuse == [][rolling /\ RefillPacket => Fetched(now) < next]_vars

(* A rolling refill writes a packet at least Guard - MaxRefill cycles        *)
(* before it is sent, whatever the read-ahead, however long the audio thread *)
(* was kept from running and wherever the timer wrapped.  A controller that  *)
(* reads Fetch cycles ahead repeats at most the packets it reads in the      *)
(* Fetch - Guard + MaxRefill cycles before their refill.                     *)
RefillDeadline ==
  [][rolling /\ RefillPacket => OnWire(now) + Guard <= next + MaxRefill]_vars

(* An engine that falls behind notices: once a packet of a rolling engine   *)
(* was not in its slot when it was Due, the engine stops at its next         *)
(* service.  Where Fetch < Guard - MaxRefill this holds of every packet the  *)
(* controller repeats; with a longer read-ahead it also repeats packets that *)
(* were on time for the guard, and nothing notices those.                    *)
LatenessStops ==
  [][rolling /\ missed /\ sampledAt' # sampledAt => engPc' = "stopped"]_vars
=============================================================================
