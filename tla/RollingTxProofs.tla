-------------------------- MODULE RollingTxProofs --------------------------
(***************************************************************************)
(* Proofs about RollingTx for every ring, lead, guard, read-ahead and       *)
(* length of a second.  They rest on one condition on the environment: the  *)
(* cycle timer is read at least once a second (Timely).  Only the corollary *)
(* at the end also asks that a refill, together with the controller's        *)
(* read-ahead, is over within the guard (Prompt).                            *)
(***************************************************************************)
EXTENDS RollingTx, TLAPS

(* Facts about remainders: the ring indexes its slots modulo a constant.    *)
LEMMA MultipleTooLarge == \A c \in Nat \ {0}, k \in Int : k >= 1 => c * k >= c
  BY SMT

(* What div and % are.                                                      *)
LEMMA Division ==
  \A c \in Nat \ {0}, x \in Int : /\ x \div c \in Int /\ x % c \in 0 .. c - 1
                                  /\ x = c * (x \div c) + (x % c)
  BY SMT

(* A remainder is determined by being one.                                  *)
LEMMA RemainderUnique ==
  ASSUME NEW c \in Nat \ {0}, NEW m \in Int, NEW d \in 0 .. c - 1
  PROVE  (c * m + d) % c = d
<1> DEFINE x == c * m + d
<1>1. x \in Int BY SMT
<1>2. x \div c \in Int /\ x % c \in 0 .. c - 1 /\ x = c * (x \div c) + (x % c)
  BY <1>1, Division
<1> DEFINE k == m - (x \div c)
           j == (x \div c) - m
<1>3. k \in Int /\ j \in Int BY <1>2, SMT
<1>4. c * k = (x % c) - d BY <1>2, SMT
<1>5. c * j = d - (x % c) BY <1>2, SMT
<1>6. ~(k >= 1) BY <1>2, <1>3, <1>4, MultipleTooLarge, SMT
<1>7. ~(j >= 1) BY <1>2, <1>3, <1>5, MultipleTooLarge, SMT
<1>8. k = 0 BY <1>2, <1>3, <1>6, <1>7, SMT
<1> QED BY <1>2, <1>4, <1>8, SMT

(* The distance between two readings of a wrapped counter is the distance   *)
(* between the counts, as long as that is less than one turn.                *)
LEMMA WrappedDistance ==
  ASSUME NEW c \in Nat \ {0}, NEW a \in Nat, NEW b \in Nat, a <= b, b - a < c
  PROVE  ((b % c) + c - (a % c)) % c = b - a
<1>1. /\ a \div c \in Int /\ a % c \in 0 .. c - 1
      /\ a = c * (a \div c) + (a % c) BY Division
<1>2. /\ b \div c \in Int /\ b % c \in 0 .. c - 1
      /\ b = c * (b \div c) + (b % c) BY Division
<1> DEFINE m == 1 - ((b \div c) - (a \div c))
<1>3. m \in Int BY <1>1, <1>2, SMT
<1>4. (b % c) + c - (a % c) = c * m + (b - a) BY <1>1, <1>2, SMT
<1>5. b - a \in 0 .. c - 1 BY SMT
<1>6. (c * m + (b - a)) % c = b - a BY <1>3, <1>5, RemainderUnique
<1> QED BY <1>4, <1>6

Timely == MaxGap < Cycles
Prompt == Fetch + MaxRefill < Guard

-----------------------------------------------------------------------------
(* The inductive invariant, in named parts.                                 *)

ClockOK == /\ cyclesObserved = sampledAt
           /\ sampledAt <= now /\ now - sampledAt <= MaxGap
           /\ lastCycle = (InitialCycle + sampledAt) % Cycles

StartOK == /\ initialized => streamReached
           /\ streamReached => CycleLead <= sampledAt

(* What is filled, or about to be, is less than a lap ahead; what a rolling *)
(* refill has still to fill is beyond the guard.                             *)
HorizonOK ==
  /\ engPc = "refill" =>
       /\ now - sampledAt <= MaxRefill /\ next <= targetExclusive
       /\ targetExclusive - Slots <= OnWire(sampledAt)
       /\ rolling => /\ initialized /\ OnWire(sampledAt) + Guard <= next
                     /\ targetExclusive = OnWire(sampledAt) + Lead + 1
  /\ rolling /\ initialized => next <= OnWire(sampledAt) + Lead + 1

(* No filled packet's slot holds an earlier packet.                          *)
FilledOK == \A p \in live .. next - 1 : holds[SlotOf(p)] >= p

(* A packet was not in its slot when due only if the horizon has been        *)
(* caught up with.                                                          *)
MissedOK == rolling /\ missed => initialized /\ next <= Due(now)

Inv == TypeOK /\ ClockOK /\ StartOK /\ HorizonOK /\ (rolling => FilledOK)
              /\ (engPc # "stopped" => MissedOK)

-----------------------------------------------------------------------------
LEMMA SlotsNat == Slots \in Nat \ {0} /\ Lead + 1 <= Slots
  BY RollingAssumption, SMT DEF Slots

LEMMA SlotType == \A p \in Int : SlotOf(p) \in 0 .. Slots - 1
  BY SlotsNat, Division DEF SlotOf

(* A timer read less than a second after the last one advances the count to *)
(* the true time.                                                            *)
LEMMA TimerRead ==
  ASSUME Timely, TypeOK, ClockOK
  PROVE  Observed = now /\ Timer \in 0 .. Cycles - 1
<1> USE RollingAssumption
<1> DEFINE a == InitialCycle + sampledAt
           b == InitialCycle + now
<1>1. a \in Nat /\ b \in Nat /\ a <= b /\ b - a < Cycles
  BY SMT DEF Timely, TypeOK, ClockOK
<1>2. ((b % Cycles) + Cycles - (a % Cycles)) % Cycles = b - a
  BY <1>1, WrappedDistance
<1>3. CycleDelta(Timer, lastCycle) = b - a
  BY <1>2 DEF CycleDelta, Timer, ClockOK
<1>4. Observed = now BY <1>3, SMT DEF Observed, ClockOK, TypeOK
<1>5. Timer \in 0 .. Cycles - 1
  <2>1. b \in Int /\ Cycles \in Nat \ {0} BY <1>1, SMT
  <2> QED BY <2>1, Division DEF Timer
<1> QED BY <1>4, <1>5

LEMMA InitInv == Init => Inv
<1> SUFFICES ASSUME Init PROVE Inv OBVIOUS
<1> USE RollingAssumption, SlotsNat
<1>1. TypeOK
  <2>1. /\ rolling \in BOOLEAN /\ streamReached \in BOOLEAN
        /\ initialized \in BOOLEAN /\ healthy \in BOOLEAN /\ missed \in BOOLEAN
    BY Zenon DEF Init
  <2>2. holds \in [0 .. Slots - 1 -> Int] BY SMT DEF Init
  <2>3. next \in Int /\ targetExclusive \in Int /\ live \in Int
    BY SMT DEF Init
  <2> QED BY <2>1, <2>2, <2>3, SMT DEF Init, TypeOK
<1>2. ClockOK
  <2>1. InitialCycle % Cycles = InitialCycle
    <3>1. Cycles * 0 + InitialCycle = InitialCycle BY SMT
    <3> QED BY <3>1, RemainderUnique
  <2> QED BY <2>1, SMT DEF Init, ClockOK
<1>3. StartOK /\ HorizonOK /\ MissedOK
  BY SMT DEF Init, StartOK, HorizonOK, MissedOK
<1>4. FilledOK BY SMT DEF Init, FilledOK
<1> QED BY <1>1, <1>2, <1>3, <1>4 DEF Inv

-----------------------------------------------------------------------------
(* What every service does to the clock.                                    *)
LEMMA ServiceClock ==
  ASSUME Timely, TypeOK, ClockOK, Observe
  PROVE  /\ cyclesObserved' = now /\ sampledAt' = now /\ now' = now
         /\ SinceStart = OnWire(now) /\ lastCycle' \in 0 .. Cycles - 1
         /\ ClockOK'
<1> USE RollingAssumption
<1>1. Observed = now /\ Timer \in 0 .. Cycles - 1 BY TimerRead
<1>2. /\ cyclesObserved' = now /\ sampledAt' = now /\ now' = now
      /\ lastCycle' = Timer
  BY <1>1 DEF Observe
<1>3. ClockOK' BY <1>2, SMT DEF ClockOK, Timer, TypeOK
<1> QED BY <1>1, <1>2, <1>3 DEF SinceStart, OnWire

LEMMA StepType == Timely /\ TypeOK /\ ClockOK /\ [Next]_vars => TypeOK'
<1> SUFFICES ASSUME Timely, TypeOK, ClockOK, [Next]_vars PROVE TypeOK' OBVIOUS
<1> USE RollingAssumption DEF stream
<1>1. CASE Tick
  <2>1. missed' \in BOOLEAN BY <1>1 DEF Tick
  <2> QED BY <1>1, <2>1, SMT DEF TypeOK, Tick
<1>2. ASSUME Observe PROVE /\ lastCycle' \in 0 .. Cycles - 1
                           /\ cyclesObserved' \in Nat /\ sampledAt' \in Nat
                           /\ now' \in Nat /\ SinceStart \in Int
                           /\ NextPacket \in Int
                           /\ holds' = holds /\ rolling' = rolling /\ missed' = missed
  BY <1>2, ServiceClock, SMT DEF TypeOK, Observe, OnWire, NextPacket
<1>3. CASE ServiceEarly BY <1>2, <1>3 DEF TypeOK, ServiceEarly
<1>4. CASE ServiceMissed
  <2>1. Observe /\ next' \in Int /\ live' \in Int
    BY <1>2, <1>4 DEF ServiceMissed, TypeOK
  <2> QED BY <1>2, <1>4, <2>1 DEF TypeOK, ServiceMissed
<1>5. CASE ServiceRolling
  <2>1. Observe /\ next' \in Int /\ live' \in Int
    BY <1>2, <1>5 DEF ServiceRolling, TypeOK
  <2>2. targetExclusive' \in Int /\ engPc' \in {"service", "refill", "stopped"}
    BY <1>2, <1>5, <2>1, SMT DEF ServiceRolling, TypeOK
  <2> QED BY <1>2, <1>5, <2>1, <2>2 DEF TypeOK, ServiceRolling
<1>6. CASE ServiceHalves
  <2>1. SinceStart \div HalfPackets \in Int
    BY <1>2, <1>6, Division DEF ServiceHalves
  <2>2. targetExclusive' \in Int /\ engPc' \in {"service", "refill", "stopped"}
    BY <1>6, <2>1, SlotsNat, SMT DEF ServiceHalves, TypeOK
  <2> QED BY <1>2, <1>6, <2>2 DEF TypeOK, ServiceHalves
<1>7. CASE RefillPacket
  <2>1. holds' = [holds EXCEPT ![SlotOf(next)] = next] BY <1>7 DEF RefillPacket
  <2>2. holds' \in [0 .. Slots - 1 -> Int] BY <2>1, SlotType DEF TypeOK
  <2>3. next' \in Int BY <1>7, SMT DEF TypeOK, RefillPacket
  <2> QED BY <1>7, <2>2, <2>3 DEF TypeOK, RefillPacket
<1>8. CASE RefillDone BY <1>8 DEF TypeOK, RefillDone
<1>9. CASE StopEngine BY <1>9 DEF TypeOK, StopEngine
<1>10. CASE UNCHANGED vars BY <1>10 DEF TypeOK, vars
<1> QED BY <1>1, <1>3, <1>4, <1>5, <1>6, <1>7, <1>8, <1>9, <1>10 DEF Next

(* The rebuilt count is exact.                                               *)
LEMMA StepClock == Timely /\ TypeOK /\ ClockOK /\ StartOK /\ [Next]_vars
                     => ClockOK' /\ StartOK'
<1> SUFFICES ASSUME Timely, TypeOK, ClockOK, StartOK, [Next]_vars
             PROVE  ClockOK' /\ StartOK'
  OBVIOUS
<1> USE RollingAssumption DEF stream
<1>1. CASE Tick BY <1>1, SMT DEF Tick, ClockOK, StartOK, TypeOK
<1>2. CASE ServiceEarly
  <2>1. ClockOK' BY <1>2, ServiceClock DEF ServiceEarly
  <2> QED BY <1>2, <2>1 DEF ServiceEarly, StartOK
<1>3. CASE ServiceMissed \/ ServiceRolling \/ ServiceHalves
  <2>1. Observe /\ Reached /\ streamReached'
    BY <1>3 DEF ServiceMissed, ServiceRolling, ServiceHalves
  <2>2. ClockOK' /\ sampledAt' = now BY <2>1, ServiceClock
  <2>3. CycleLead <= now
    BY <2>1, TimerRead, SMT DEF Reached, StartOK, ClockOK, TypeOK
  <2> QED BY <2>1, <2>2, <2>3 DEF StartOK
<1>4. CASE RefillPacket \/ RefillDone \/ StopEngine \/ UNCHANGED vars
  BY <1>4 DEF RefillPacket, RefillDone, StopEngine, vars, ClockOK, StartOK
<1> QED BY <1>1, <1>2, <1>3, <1>4 DEF Next

(* What is to be filled stays between the guard and the lead.               *)
LEMMA StepHorizon ==
  Timely /\ TypeOK /\ ClockOK /\ StartOK /\ HorizonOK /\ [Next]_vars => HorizonOK'
<1> SUFFICES ASSUME Timely, TypeOK, ClockOK, StartOK, HorizonOK, [Next]_vars
             PROVE  HorizonOK'
  OBVIOUS
<1> USE RollingAssumption, SlotsNat DEF stream, OnWire
<1>1. CASE Tick BY <1>1, SMT DEF Tick, HorizonOK, TypeOK
<1>2. CASE ServiceEarly
  <2>1. sampledAt' = now /\ engPc' = "service" BY <1>2, ServiceClock DEF ServiceEarly, Observe
  <2>2. sampledAt <= now BY DEF ClockOK
  <2> QED BY <1>2, <2>1, <2>2, SMT DEF ServiceEarly, Observe, HorizonOK, TypeOK
<1>3. CASE ServiceMissed
  <2>1. /\ sampledAt' = now /\ SinceStart = OnWire(now) /\ engPc' = "stopped"
        /\ next' < OnWire(now) + Guard
    BY <1>3, ServiceClock DEF ServiceMissed
  <2>2. next' \in Int /\ now \in Nat BY <1>3, StepType DEF TypeOK, Next
  <2> QED BY <2>1, <2>2, SMT DEF HorizonOK
<1>4. CASE ServiceRolling
  <2>1. /\ sampledAt' = now /\ now' = now /\ SinceStart = OnWire(now)
        /\ Observe /\ rolling' = rolling
    BY <1>4, ServiceClock DEF ServiceRolling, Observe
  <2>2. sampledAt <= now BY DEF ClockOK
  <2>3. next' = NextPacket /\ NextPacket \in Int
    BY <1>4, <2>1, SMT DEF ServiceRolling, NextPacket, TypeOK
  <2>4. NextPacket <= OnWire(now) + Lead + 1
    BY <1>4, <2>1, <2>2, SMT DEF ServiceRolling, NextPacket, HorizonOK, TypeOK
  <2>5. engPc' = "refill" =>
          /\ targetExclusive' = OnWire(now) + Lead + 1 /\ next' <= targetExclusive'
          /\ OnWire(now) + Guard <= next'
    BY <1>4, <2>1, <2>3, SMT DEF ServiceRolling, Observe, TypeOK
  <2>6. initialized' BY <1>4 DEF ServiceRolling
  <2> QED BY <2>1, <2>3, <2>4, <2>5, <2>6, SMT DEF HorizonOK, TypeOK
<1>5. CASE ServiceHalves
  <2>1. /\ sampledAt' = now /\ now' = now /\ SinceStart = OnWire(now)
        /\ ~rolling' /\ Observe
    BY <1>5, ServiceClock DEF ServiceHalves, Observe
  <2> DEFINE half == SinceStart \div HalfPackets
  <2>2. SinceStart \in Int BY <2>1, SMT DEF TypeOK
  <2>3. half \in Int /\ half * HalfPackets <= SinceStart
    BY <2>2, Division, SMT
  <2>4. engPc' = "refill" => /\ targetExclusive' = half * HalfPackets + Slots
                             /\ next' < targetExclusive'
    BY <1>5, <2>1 DEF ServiceHalves, Observe
  <2>5. next' = next BY <1>5 DEF ServiceHalves
  <2>6. engPc' = "refill" => targetExclusive' - Slots <= OnWire(now)
    BY <2>1, <2>2, <2>3, <2>4, SMT
  <2>7. engPc' = "refill" => next' <= targetExclusive'
    BY <2>2, <2>3, <2>4, <2>5, SMT DEF TypeOK
  <2> QED BY <2>1, <2>6, <2>7, SMT DEF HorizonOK, TypeOK
<1>6. CASE RefillPacket BY <1>6, SMT DEF RefillPacket, HorizonOK, TypeOK
<1>7. CASE RefillDone \/ StopEngine
  BY <1>7, SMT DEF RefillDone, StopEngine, HorizonOK
<1>8. CASE UNCHANGED vars BY <1>8 DEF vars, HorizonOK
<1> QED BY <1>1, <1>2, <1>3, <1>4, <1>5, <1>6, <1>7, <1>8 DEF Next

(* A refill puts a later packet into one slot and leaves the others.        *)
LEMMA StepFilled == TypeOK /\ rolling /\ FilledOK /\ [Next]_vars => FilledOK'
<1> SUFFICES ASSUME TypeOK, rolling, FilledOK, [Next]_vars
             PROVE  FilledOK'
  OBVIOUS
<1>1. CASE RefillPacket
  <2>1. holds' = [holds EXCEPT ![SlotOf(next)] = next] /\ next' = next + 1 /\ live' = live
    BY <1>1 DEF RefillPacket
  <2> SUFFICES ASSUME NEW p \in live .. next PROVE holds'[SlotOf(p)] >= p
    BY <2>1, SMT DEF FilledOK, TypeOK
  <2>2. p \in Int /\ next \in Int /\ live \in Int /\ p <= next BY SMT DEF TypeOK
  <2>3. SlotOf(p) \in 0 .. Slots - 1 BY <2>2, SlotType
  <2>4. CASE SlotOf(p) = SlotOf(next)
    <3>1. holds'[SlotOf(p)] = next BY <2>1, <2>3, <2>4 DEF TypeOK
    <3> QED BY <2>2, <3>1, SMT
  <2>5. CASE SlotOf(p) # SlotOf(next)
    <3>1. p # next BY <2>5
    <3>2. p \in live .. next - 1 BY <2>2, <3>1, SMT
    <3>3. holds'[SlotOf(p)] = holds[SlotOf(p)] BY <2>1, <2>3, <2>5 DEF TypeOK
    <3> QED BY <3>2, <3>3 DEF FilledOK
  <2> QED BY <2>4, <2>5
<1>2. CASE ServiceMissed \/ ServiceRolling
  <2>1. holds' = holds BY <1>2 DEF ServiceMissed, ServiceRolling, Observe
  <2>2. CASE initialized
    BY <1>2, <2>1, <2>2 DEF ServiceMissed, ServiceRolling, NextPacket, FilledOK
  <2>3. CASE ~initialized
    <3>1. live' = next' /\ next' = SinceStart + Lead
      BY <1>2, <2>3 DEF ServiceMissed, ServiceRolling, NextPacket
    <3>2. SinceStart + Lead \in Int
      BY RollingAssumption, SMT DEF SinceStart, Observed, CycleDelta, Timer, TypeOK
    <3> QED BY <3>1, <3>2, SMT DEF FilledOK
  <2> QED BY <2>2, <2>3
<1>3. CASE Tick \/ ServiceEarly \/ RefillDone \/ StopEngine \/ UNCHANGED vars
  BY <1>3 DEF Tick, ServiceEarly, Observe, RefillDone, StopEngine, vars, FilledOK
<1>4. ~ServiceHalves BY DEF ServiceHalves
<1> QED BY <1>1, <1>2, <1>3, <1>4 DEF Next

(* A late packet lies beyond the horizon, and no refill that the guard       *)
(* allows reaches it.                                                        *)
LEMMA StepMissed ==
  /\ Timely /\ TypeOK /\ ClockOK /\ HorizonOK /\ (rolling => FilledOK)
  /\ (engPc # "stopped" => MissedOK)
  /\ [Next]_vars
  => (engPc' # "stopped" => MissedOK')
<1> SUFFICES ASSUME Timely, TypeOK, ClockOK, HorizonOK, rolling => FilledOK,
                    engPc # "stopped" => MissedOK, [Next]_vars, engPc' # "stopped",
                    rolling', missed'
             PROVE  initialized' /\ next' <= Due(now)'
  BY DEF MissedOK
<1> USE RollingAssumption, SlotsNat DEF OnWire, Due, stream
<1>1. CASE Tick
  <2> DEFINE p == Due(now + 1)
  <2>1. rolling /\ engPc # "stopped" /\ MissedOK /\ FilledOK
    BY <1>1 DEF Tick
  <2>2. CASE missed BY <1>1, <2>1, <2>2, SMT DEF Tick, MissedOK, TypeOK
  <2>3. CASE ~missed
    <3>1. initialized /\ live <= p /\ holds[SlotOf(p)] < p
      BY <1>1, <2>1, <2>3 DEF Tick
    <3>2. p \in Int /\ live \in Int /\ next \in Int BY SMT DEF TypeOK
    <3>3. holds[SlotOf(p)] \in Int BY <3>2, SlotType DEF TypeOK
    <3>4. ~(p <= next - 1)
      <4>1. SUFFICES ASSUME p <= next - 1 PROVE FALSE OBVIOUS
      <4>2. p \in live .. next - 1 BY <3>1, <3>2, <4>1, SMT
      <4>3. holds[SlotOf(p)] >= p BY <2>1, <4>2 DEF FilledOK
      <4> QED BY <3>1, <3>2, <3>3, <4>3, SMT
    <3>5. next <= p BY <3>2, <3>4, SMT
    <3> QED BY <1>1, <3>1, <3>5 DEF Tick
  <2> QED BY <2>2, <2>3
<1>2. CASE ServiceEarly
  BY <1>2 DEF ServiceEarly, Observe, MissedOK
<1>3. CASE ServiceRolling
  <2>1. /\ missed /\ rolling /\ engPc = "service" /\ MissedOK
        /\ SinceStart = OnWire(now) /\ initialized
    BY <1>3, ServiceClock DEF ServiceRolling, Observe, MissedOK
  <2>2. /\ next <= now - CycleLead + Guard - MaxRefill - 1
        /\ now - CycleLead + Guard <= next
    BY <1>3, <2>1 DEF ServiceRolling, NextPacket, MissedOK
  <2> QED BY <2>2, SMT DEF TypeOK
<1>4. CASE RefillPacket
  <2>1. /\ missed /\ rolling /\ engPc = "refill" /\ MissedOK
    BY <1>4 DEF RefillPacket
  <2>2. /\ next <= now - CycleLead + Guard - MaxRefill - 1
        /\ sampledAt - CycleLead + Guard <= next
        /\ now - sampledAt <= MaxRefill
    BY <2>1 DEF HorizonOK, MissedOK
  <2> QED BY <2>2, SMT DEF TypeOK
<1>5. CASE RefillDone \/ UNCHANGED vars
  BY <1>5 DEF RefillDone, MissedOK, vars
<1>6. ~ServiceMissed /\ ~StopEngine /\ ~ServiceHalves
  BY DEF ServiceMissed, StopEngine, ServiceHalves, Observe
<1> QED BY <1>1, <1>2, <1>3, <1>4, <1>5, <1>6 DEF Next

LEMMA StepInv == Timely /\ Inv /\ [Next]_vars => Inv'
<1> SUFFICES ASSUME Timely, Inv, [Next]_vars PROVE Inv' OBVIOUS
<1>1. TypeOK' BY StepType DEF Inv
<1>2. ClockOK' /\ StartOK' BY StepClock DEF Inv
<1>3. HorizonOK' BY StepHorizon DEF Inv
<1>4. rolling' = rolling
  BY DEF Next, vars, Tick, ServiceEarly, ServiceMissed, ServiceRolling,
    ServiceHalves, Observe, RefillPacket, RefillDone, StopEngine
<1>5. (rolling => FilledOK)' BY <1>4, StepFilled DEF Inv
<1>6. (engPc # "stopped" => MissedOK)' BY StepMissed DEF Inv
<1> QED BY <1>1, <1>2, <1>3, <1>5, <1>6 DEF Inv

-----------------------------------------------------------------------------
(* The inductive invariant holds in every reachable state.                  *)
THEOREM Invariance == ASSUME Timely PROVE Spec => []Inv
<1>1. Init => Inv BY InitInv
<1>2. Inv /\ [Next]_vars => Inv' BY StepInv
<1> QED BY <1>1, <1>2, PTL DEF Spec

(* A timer read once a second is enough for an exact cycle count, whatever  *)
(* the ring, the lead and the time between two services.                     *)
THEOREM ClockAlways == ASSUME Timely PROVE Spec => [](TypeOK /\ ClockFollows)
<1> DEFINE I == TypeOK /\ ClockOK /\ StartOK
<1>1. Init => I BY InitInv DEF Inv
<1>2. I /\ [Next]_vars => I' BY StepType, StepClock
<1>3. I => TypeOK /\ ClockFollows BY DEF ClockOK, ClockFollows
<1> HIDE DEF I
<1> QED BY <1>1, <1>2, <1>3, PTL DEF Spec

(* Software never overwrites a packet that is still to be sent.             *)
THEOREM NotAheadAlways == ASSUME Timely PROVE Spec => NotAhead
<1> DEFINE I == TypeOK /\ ClockOK /\ StartOK /\ HorizonOK
<1>1. Init => I BY InitInv DEF Inv
<1>2. I /\ [Next]_vars => I' BY StepType, StepClock, StepHorizon
<1>3. I => [RefillPacket => next - Slots < OnWire(now)]_vars
  <2> SUFFICES ASSUME I, RefillPacket PROVE next - Slots < OnWire(now) OBVIOUS
  <2> QED BY RollingAssumption, SlotsNat, SMT
    DEF RefillPacket, TypeOK, ClockOK, HorizonOK, OnWire
<1> HIDE DEF I
<1> QED BY <1>1, <1>2, <1>3, PTL DEF Spec, NotAhead

(* A rolling refill is at least the guard, less the time of a refill, ahead *)
(* of the wire, whatever the controller's read-ahead.                        *)
THEOREM RefillDeadlineAlways == ASSUME Timely PROVE Spec => RefillDeadline
<1> DEFINE I == TypeOK /\ ClockOK /\ StartOK /\ HorizonOK
<1>1. Init => I BY InitInv DEF Inv
<1>2. I /\ [Next]_vars => I' BY StepType, StepClock, StepHorizon
<1>3. I => [rolling /\ RefillPacket => OnWire(now) + Guard <= next + MaxRefill]_vars
  <2> SUFFICES ASSUME I, rolling, RefillPacket
               PROVE  OnWire(now) + Guard <= next + MaxRefill
    OBVIOUS
  <2> QED BY RollingAssumption, SMT
    DEF RefillPacket, TypeOK, ClockOK, HorizonOK, OnWire
<1> HIDE DEF I
<1> QED BY <1>1, <1>2, <1>3, PTL DEF Spec, RefillDeadline

(* A rolling engine stops at the first service after a packet was late,     *)
(* whatever the controller's read-ahead.                                     *)
THEOREM LatenessStopsAlways == ASSUME Timely PROVE Spec => LatenessStops
<1>1. Inv /\ [Next]_vars =>
        [rolling /\ missed /\ sampledAt' # sampledAt => engPc' = "stopped"]_vars
  <2> SUFFICES ASSUME Inv, Next, rolling, missed, sampledAt' # sampledAt
               PROVE  engPc' = "stopped"
    BY DEF vars
  <2>1. Observe /\ (ServiceEarly \/ ServiceMissed \/ ServiceRolling)
    BY DEF Next, Tick, ServiceEarly, ServiceMissed, ServiceRolling, ServiceHalves,
      RefillPacket, RefillDone, StopEngine
  <2>2. /\ SinceStart = OnWire(now) /\ initialized /\ streamReached
        /\ next <= OnWire(now) + Guard - MaxRefill - 1
    BY <2>1, ServiceClock DEF Inv, MissedOK, StartOK, Observe, Due
  <2>3. ~ServiceEarly BY <2>2 DEF ServiceEarly
  <2>4. ~ServiceRolling
    BY <2>2, RollingAssumption, SMT
    DEF ServiceRolling, NextPacket, OnWire, Inv, TypeOK
  <2> QED BY <2>1, <2>3, <2>4 DEF ServiceMissed
<1> QED BY <1>1, Invariance, PTL DEF Spec, LatenessStops

(* With a guard above the read-ahead and the time of a refill, the deadline *)
(* keeps every rolling refill clear of the slots the controller has already  *)
(* read.  The shipped guard of 48 packets does so for read-aheads below 48.  *)
COROLLARY NoUnsafeReuseWithin == ASSUME Timely, Prompt PROVE Spec => NoUnsafeReuse
<1>1. Inv => [rolling /\ RefillPacket => Fetched(now) < next]_vars
  <2> SUFFICES ASSUME Inv, rolling, RefillPacket PROVE Fetched(now) < next OBVIOUS
  <2> QED BY RollingAssumption, SMT
    DEF RefillPacket, Inv, TypeOK, ClockOK, HorizonOK, OnWire, Fetched, Prompt
<1> QED BY <1>1, Invariance, PTL DEF Spec, NoUnsafeReuse
=============================================================================
