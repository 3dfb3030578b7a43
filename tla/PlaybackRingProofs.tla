------------------------- MODULE PlaybackRingProofs -------------------------
(***************************************************************************)
(* Proofs about PlaybackRing for every ring size, every set of rates and   *)
(* every number of clients and frames.                                     *)
(*                                                                         *)
(* The heart is ReaderOK.  While the engine holds a loaded index, a rate   *)
(* change may move readFrame past it, and the engine's store then moves    *)
(* readFrame back.  That is harmless only because the HAL cannot write     *)
(* between the two: the change runs with IO stopped, clears active before  *)
(* IO restarts, and only a new engine sets active again (Quiet).           *)
(***************************************************************************)
EXTENDS PlaybackRing, SequenceTheorems, TLAPS

(* Facts about remainders: the ring indexes its slots modulo a constant.    *)
LEMMA MultipleTooLarge == \A c \in Nat \ {0}, k \in Int : k >= 1 => c * k >= c
  BY SMT

(* What div and % are.                                                      *)
LEMMA Division ==
  \A c \in Nat \ {0}, x \in Int : /\ x \div c \in Int /\ x % c \in 0 .. c - 1
                                  /\ x = c * (x \div c) + (x % c)
  BY SMT

(* Numbers less than the modulus apart have different remainders.           *)
LEMMA RemaindersDistinct ==
  ASSUME NEW c \in Nat \ {0}, NEW p \in Int, NEW q \in Int, p < q, q - p < c
  PROVE  p % c # q % c
<1>1. p = c * (p \div c) + (p % c) BY Division
<1>2. q = c * (q \div c) + (q % c) BY Division
<1>3. SUFFICES ASSUME p % c = q % c PROVE FALSE OBVIOUS
<1> DEFINE k == (q \div c) - (p \div c)
<1>4. k \in Int BY Division, SMT
<1>5. q - p = c * k BY <1>1, <1>2, <1>3, SMT
<1>6. k >= 1 BY <1>4, <1>5, SMT
<1> QED BY <1>4, <1>5, <1>6, MultipleTooLarge, SMT

-----------------------------------------------------------------------------
(* The inductive invariant, in named parts.                                 *)

(* Every frame from position lo on that was published is still in its slot. *)
Held(lo) == \A p \in lo .. writeFrame - 1 : slots[SlotOf(p)] = Frame(p, sent[p + 1])

(* CoreAudio changes the configuration only with IO stopped.                *)
ContractOK == /\ clients > 0 => cfgPc = "idle"
              /\ clients = 0 => ioPc = "idle"

RingOK == /\ readFrame <= writeFrame /\ writeFrame - readFrame <= Capacity
          /\ Len(sent) = writeFrame
          /\ Held(readFrame)

(* What the HAL has reserved fits above the reader, and what it has copied  *)
(* is in its slots.                                                         *)
WriterOK ==
  ioPc = "copy" =>
    /\ writeFrame <= ioNext /\ ioNext <= ioEnd
    /\ ioEnd - readFrame <= Capacity
    /\ \A p \in writeFrame .. ioNext - 1 : slots[SlotOf(p)] = Frame(p, halRate)

(* The HAL neither writes nor can start to before a new engine goes online. *)
Quiet == ioPc = "idle" /\ (active = 0 \/ cfgPc = "clear")

ReaderOK ==
  Busy => /\ engNext <= engEnd /\ engEnd <= writeFrame
          /\ writeFrame - engNext <= Capacity
          /\ Held(engNext)
          /\ readFrame <= engNext \/ (readFrame = writeFrame /\ Quiet)

(* What was delivered, and the discard mark, lie below everything the       *)
(* engine can still deliver.                                                *)
OrderOK ==
  /\ taken.pos < writeFrame /\ mark <= writeFrame
  /\ engPc \in {"startup", "armed", "pump"} =>
       taken.pos < readFrame /\ mark <= readFrame
  /\ Busy => taken.pos < engNext /\ mark <= engNext

(* Until an engine has gone online late, the HAL writes only while the      *)
(* engine that will read has the HAL's rate, and what that engine can still *)
(* deliver was rendered for it.                                             *)
RateOK ==
  /\ cfgPc = "idle" => halRate = sampleRate
  /\ late \/
     /\ cfgPc = "publish" => active = 0
     /\ engPc \notin {"none", "open"} /\ engRate # sampleRate =>
          active = 0 /\ ioPc = "idle"
     /\ engPc \in {"startup", "armed", "pump"} =>
          \A p \in readFrame .. writeFrame - 1 : sent[p + 1] = engRate
     /\ Busy => \A p \in engNext .. writeFrame - 1 : sent[p + 1] = engRate

Inv == TypeOK /\ ContractOK /\ RingOK /\ WriterOK /\ ReaderOK /\ OrderOK
-----------------------------------------------------------------------------
(* Frames less than Capacity apart are in different slots.                  *)
LEMMA SlotsDistinct ==
  ASSUME NEW p \in Nat, NEW q \in Nat, p < q, q - p < Capacity
  PROVE  SlotOf(p) # SlotOf(q)
<1>1. Capacity \in Nat \ {0} /\ p \in Int /\ q \in Int
  BY PlaybackAssumption, SMT
<1> QED BY <1>1, RemaindersDistinct DEF SlotOf

(* Every position has a slot.                                               *)
LEMMA SlotType == \A p \in Nat : SlotOf(p) \in 0 .. Capacity - 1
  BY PlaybackAssumption, SMT DEF SlotOf

(* What the history of published rates becomes when the HAL publishes.      *)
LEMMA Extended ==
  ASSUME sent \in Seq(Rates), halRate \in Rates, NEW n \in Nat
  PROVE  LET t == sent \o [i \in 1 .. n |-> halRate] IN
           /\ t \in Seq(Rates)
           /\ Len(t) = Len(sent) + n
           /\ \A i \in 1 .. Len(sent) : t[i] = sent[i]
           /\ \A i \in Len(sent) + 1 .. Len(sent) + n : t[i] = halRate
<1> DEFINE e == [i \in 1 .. n |-> halRate]
<1>1. e \in [1 .. n -> Rates] OBVIOUS
<1>2. e \in Seq(Rates) BY <1>1, SeqDef
<1>3. Len(e) = n BY <1>1, <1>2, LenProperties, SMT
<1>4. Len(sent) \in Nat BY LenProperties
<1>5. /\ sent \o e \in Seq(Rates)
      /\ Len(sent \o e) = Len(sent) + Len(e)
      /\ \A i \in 1 .. Len(sent) + Len(e) :
           (sent \o e)[i] = IF i <= Len(sent) THEN sent[i] ELSE e[i - Len(sent)]
  BY <1>2, ConcatProperties
<1> HIDE DEF e
<1>6. \A j \in 1 .. n : e[j] = halRate BY DEF e
<1>7. \A i \in 1 .. Len(sent) : (sent \o e)[i] = sent[i]
  BY <1>3, <1>4, <1>5, SMT
<1>8. \A i \in Len(sent) + 1 .. Len(sent) + n : (sent \o e)[i] = halRate
  BY <1>3, <1>4, <1>5, <1>6, SMT
<1> QED BY <1>3, <1>5, <1>7, <1>8 DEF e
-----------------------------------------------------------------------------
(* The types hold initially and every step preserves them.                  *)
LEMMA InitType == Init => TypeOK
<1> SUFFICES ASSUME Init PROVE TypeOK OBVIOUS
<1> USE PlaybackAssumption
<1>1. sent \in Seq(Rates) BY EmptySeq DEF Init
<1>2. Frame(-1, sampleRate) \in [pos : Int, rate : Rates]
  BY SMT DEF Init, Frame
<1>3. slots \in [0 .. Capacity - 1 -> [pos : Int, rate : Rates]]
  BY <1>2, SMT DEF Init
<1>4. taken \in [pos : Int, rate : Rates] BY <1>2 DEF Init
<1>5. late \in BOOLEAN BY DEF Init
<1> QED BY <1>1, <1>3, <1>4, <1>5, SMT DEF Init, TypeOK

LEMMA StepType ==
  TypeOK /\ ContractOK /\ RingOK /\ WriterOK /\ ReaderOK /\ [Next]_vars => TypeOK'
<1> SUFFICES ASSUME TypeOK, ContractOK, RingOK, WriterOK, ReaderOK, [Next]_vars PROVE TypeOK'
  OBVIOUS
<1> USE PlaybackAssumption DEF ringVars, ioVars, halVars, engVars
<1>1. CASE StartIO BY <1>1, SMT DEF TypeOK, StartIO
<1>2. CASE StopIO BY <1>2, SMT DEF TypeOK, StopIO
<1>3. CASE WriteMix BY <1>3, SMT DEF TypeOK, WriteMix
<1>4. CASE WriteReserve
  BY <1>4, SMT DEF TypeOK, WriteReserve, RingOK, Free, Queued, Minimum
<1>5. CASE WriteCopy
  <2>1. SlotOf(ioNext) \in 0 .. Capacity - 1 BY SlotType DEF TypeOK
  <2>2. Frame(ioNext, halRate) \in [pos : Int, rate : Rates]
    BY SMT DEF TypeOK, Frame
  <2> QED BY <1>5, <2>1, <2>2, SMT DEF TypeOK, WriteCopy
<1>6. CASE WritePublish
  <2>1. ioEnd - writeFrame \in Nat BY <1>6, SMT DEF TypeOK, WriterOK, WritePublish
  <2>2. sent' \in Seq(Rates) BY <1>6, <2>1, Extended DEF TypeOK, WritePublish
  <2> QED BY <1>6, <2>2, SMT DEF TypeOK, WritePublish
<1>7. CASE \E r \in Rates : ChangeRate(r) BY <1>7, SMT DEF TypeOK, ChangeRate
<1>8. CASE ChangeFlush BY <1>8, SMT DEF TypeOK, ChangeFlush
<1>9. CASE ChangeClear BY <1>9, SMT DEF TypeOK, ChangeClear
<1>10. CASE ChangePublish BY <1>10, SMT DEF TypeOK, ChangePublish
<1>11. CASE HalRestart BY <1>11, SMT DEF TypeOK, HalRestart
<1>12. CASE LaunchEngine BY <1>12, SMT DEF TypeOK, LaunchEngine
<1>13. CASE OpenPlayback BY <1>13, SMT DEF TypeOK, OpenPlayback
<1>14. CASE DiscardLoad BY <1>14, SMT DEF TypeOK, DiscardLoad
<1>15. CASE DiscardStore BY <1>15, SMT DEF TypeOK, DiscardStore
<1>16. CASE GoOnline BY <1>16, SMT DEF TypeOK, GoOnline
<1>17. CASE ReadReserve
  BY <1>17, SMT DEF TypeOK, ReadReserve, RingOK, Queued, Minimum
<1>18. CASE ReadCopy
  <2>1. SlotOf(engNext) \in 0 .. Capacity - 1 BY SlotType DEF TypeOK
  <2> QED BY <1>18, <2>1, SMT DEF TypeOK, ReadCopy
<1>19. CASE ReadCommit BY <1>19, SMT DEF TypeOK, ReadCommit
<1>20. CASE FailStartup BY <1>20, SMT DEF TypeOK, FailStartup
<1>21. CASE StopEngine BY <1>21, SMT DEF TypeOK, StopEngine
<1>22. CASE CrashEngine BY <1>22, SMT DEF TypeOK, CrashEngine
<1>23. CASE UNCHANGED vars BY <1>23, SMT DEF TypeOK, vars
<1> QED
  BY <1>1, <1>2, <1>3, <1>4, <1>5, <1>6, <1>7, <1>8, <1>9, <1>10, <1>11, <1>12,
     <1>13, <1>14, <1>15, <1>16, <1>17, <1>18, <1>19, <1>20, <1>21, <1>22, <1>23
  DEF Next, HalStep, EngineStep
-----------------------------------------------------------------------------
(* The invariant holds initially, and every step preserves each part.       *)
LEMMA InitInv == Init => Inv
<1> SUFFICES ASSUME Init PROVE Inv OBVIOUS
<1>1. TypeOK BY InitType
<1>2. ContractOK BY SMT DEF Init, ContractOK
<1>3. RingOK BY PlaybackAssumption, EmptySeq, SMT DEF Init, RingOK, Held
<1>4. WriterOK BY SMT DEF Init, WriterOK
<1>5. ReaderOK BY SMT DEF Init, ReaderOK, Busy
<1>6. OrderOK BY SMT DEF Init, OrderOK, Busy, Frame
<1> QED BY <1>1, <1>2, <1>3, <1>4, <1>5, <1>6 DEF Inv

(* Every step keeps CoreAudio's contract.                                   *)
LEMMA StepContract == TypeOK /\ ContractOK /\ [Next]_vars => ContractOK'
<1> SUFFICES ASSUME TypeOK, ContractOK, [Next]_vars PROVE ContractOK'
  OBVIOUS
<1> QED
  BY SMT DEF TypeOK, ContractOK, Next, HalStep, EngineStep, vars, ringVars, ioVars,
    halVars, engVars, StartIO, StopIO, WriteMix, WriteReserve, WriteCopy,
    WritePublish, ChangeRate, ChangeFlush, ChangeClear, ChangePublish, HalRestart,
    LaunchEngine, OpenPlayback, DiscardLoad, DiscardStore, GoOnline, ReadReserve,
    ReadCopy, ReadCommit, FailStartup, StopEngine, CrashEngine

(* One step of the ring keeps what is in the slots, what the HAL reserved,  *)
(* what the engine holds and the order of delivery.                         *)
LEMMA StepRing == Inv /\ [Next]_vars => RingOK' /\ WriterOK' /\ ReaderOK' /\ OrderOK'
<1> SUFFICES ASSUME Inv, [Next]_vars
             PROVE  RingOK' /\ WriterOK' /\ ReaderOK' /\ OrderOK'
  OBVIOUS
<1>a. TypeOK /\ ContractOK /\ RingOK /\ WriterOK /\ ReaderOK /\ OrderOK BY DEF Inv
<1> USE PlaybackAssumption, <1>a
<1> USE DEF ringVars, ioVars, halVars, engVars
<1>1. CASE StartIO
  BY <1>1, SMT DEF TypeOK, ContractOK, RingOK, WriterOK, ReaderOK, OrderOK, Held, Busy, Quiet,
    StartIO
<1>2. CASE StopIO
  BY <1>2, SMT DEF TypeOK, ContractOK, RingOK, WriterOK, ReaderOK, OrderOK, Held, Busy, Quiet,
    StopIO
<1>3. CASE WriteMix
  BY <1>3, SMT DEF TypeOK, ContractOK, RingOK, WriterOK, ReaderOK, OrderOK, Held, Busy, Quiet,
    WriteMix
<1>4. CASE ChangeFlush
  BY <1>4, SMT DEF TypeOK, ContractOK, RingOK, WriterOK, ReaderOK, OrderOK, Held, Busy, Quiet,
    ChangeFlush
<1>5. CASE ChangeClear
  BY <1>5, SMT DEF TypeOK, ContractOK, RingOK, WriterOK, ReaderOK, OrderOK, Held, Busy, Quiet,
    ChangeClear
<1>6. CASE ChangePublish
  BY <1>6, SMT DEF TypeOK, ContractOK, RingOK, WriterOK, ReaderOK, OrderOK, Held, Busy, Quiet,
    ChangePublish
<1>7. CASE HalRestart
  BY <1>7, SMT DEF TypeOK, ContractOK, RingOK, WriterOK, ReaderOK, OrderOK, Held, Busy, Quiet,
    HalRestart
<1>8. CASE LaunchEngine
  BY <1>8, SMT DEF TypeOK, ContractOK, RingOK, WriterOK, ReaderOK, OrderOK, Held, Busy, Quiet,
    LaunchEngine
<1>9. CASE OpenPlayback
  BY <1>9, SMT DEF TypeOK, ContractOK, RingOK, WriterOK, ReaderOK, OrderOK, Held, Busy, Quiet,
    OpenPlayback
<1>10. CASE DiscardLoad
  BY <1>10, SMT DEF TypeOK, ContractOK, RingOK, WriterOK, ReaderOK, OrderOK, Held, Busy, Quiet,
    DiscardLoad
<1>11. CASE DiscardStore
  BY <1>11, SMT DEF TypeOK, ContractOK, RingOK, WriterOK, ReaderOK, OrderOK, Held, Busy, Quiet,
    DiscardStore
<1>12. CASE GoOnline
  BY <1>12, SMT DEF TypeOK, ContractOK, RingOK, WriterOK, ReaderOK, OrderOK, Held, Busy, Quiet,
    GoOnline
<1>13. CASE ReadReserve
  BY <1>13, SMT DEF TypeOK, ContractOK, RingOK, WriterOK, ReaderOK, OrderOK, Held, Busy, Quiet,
    ReadReserve, Queued, Minimum, Free
<1>14. CASE ReadCommit
  BY <1>14, SMT DEF TypeOK, ContractOK, RingOK, WriterOK, ReaderOK, OrderOK, Held, Busy, Quiet,
    ReadCommit
<1>15. CASE FailStartup
  BY <1>15, SMT DEF TypeOK, ContractOK, RingOK, WriterOK, ReaderOK, OrderOK, Held, Busy, Quiet,
    FailStartup
<1>16. CASE StopEngine
  BY <1>16, SMT DEF TypeOK, ContractOK, RingOK, WriterOK, ReaderOK, OrderOK, Held, Busy, Quiet,
    StopEngine
<1>17. CASE CrashEngine
  BY <1>17, SMT DEF TypeOK, ContractOK, RingOK, WriterOK, ReaderOK, OrderOK, Held, Busy, Quiet,
    CrashEngine
<1>18. CASE WriteReserve
  BY <1>18, SMT DEF TypeOK, ContractOK, RingOK, WriterOK, ReaderOK, OrderOK, Held, Busy, Quiet,
    WriteReserve, Queued, Minimum, Free
<1>19. CASE WriteCopy
  <2>1. ioPc = "copy" /\ ioNext < ioEnd /\ clients > 0 /\ cfgPc = "idle" /\ ~Quiet
    BY <1>19, SMT DEF WriteCopy, ContractOK, TypeOK, Quiet
  <2>2. writeFrame <= ioNext /\ ioNext - readFrame < Capacity
    BY <2>1, SMT DEF WriterOK, TypeOK
  <2>3. Busy => ioNext - engNext < Capacity
    BY <2>1, <2>2, SMT DEF ReaderOK, TypeOK
  <2>4. \A p \in Nat : p < ioNext /\ ioNext - p < Capacity => slots'[SlotOf(p)] = slots[SlotOf(p)]
    <3> TAKE p \in Nat
    <3> HAVE p < ioNext /\ ioNext - p < Capacity
    <3>1. SlotOf(p) # SlotOf(ioNext) BY SlotsDistinct DEF TypeOK
    <3>2. SlotOf(p) \in 0 .. Capacity - 1 BY SlotType
    <3> QED BY <1>19, <3>1, <3>2, SMT DEF WriteCopy, TypeOK
  <2>5. slots'[SlotOf(ioNext)] = Frame(ioNext, halRate)
    BY <1>19, SlotType, SMT DEF WriteCopy, TypeOK
  <2>6. UNCHANGED <<writeFrame, readFrame, sent, engVars, taken, halRate, ioPc, ioEnd,
                    active, cfgPc, clients>> /\ ioNext' = ioNext + 1
    BY <1>19 DEF WriteCopy
  <2>7. RingOK' BY <2>2, <2>4, <2>6, SMT DEF RingOK, Held, TypeOK
  <2>8. WriterOK'
    <3>1. /\ \A p \in writeFrame .. ioNext - 1 : slots[SlotOf(p)] = Frame(p, halRate)
          /\ ioEnd - readFrame <= Capacity /\ ioNext + 1 <= ioEnd
          /\ writeFrame <= ioNext + 1
      BY <2>1, <2>2, SMT DEF WriterOK, TypeOK
    <3>2. ASSUME NEW p \in writeFrame .. ioNext
          PROVE  slots'[SlotOf(p)] = Frame(p, halRate)
      <4>1. CASE p = ioNext BY <2>5, <4>1
      <4>2. CASE p < ioNext
        <5>1. p \in Nat /\ ioNext - p < Capacity
          BY <2>2, SMT DEF TypeOK, RingOK
        <5> QED BY <2>4, <3>1, <4>2, <5>1, SMT DEF TypeOK
      <4> QED BY <4>1, <4>2, SMT DEF TypeOK
    <3>3. /\ writeFrame' = writeFrame /\ readFrame' = readFrame /\ halRate' = halRate
          /\ ioEnd' = ioEnd /\ ioNext' = ioNext + 1
      BY <2>6
    <3>4. writeFrame' .. ioNext' - 1 = writeFrame .. ioNext
      BY <3>3, SMT DEF TypeOK
    <3>5. writeFrame' <= ioNext' /\ ioNext' <= ioEnd' /\ ioEnd' - readFrame' <= Capacity
      BY <3>1, <3>3
    <3> QED BY <3>2, <3>3, <3>4, <3>5 DEF WriterOK
  <2>9. ReaderOK'
    BY <2>1, <2>2, <2>3, <2>4, <2>6, SMT DEF ReaderOK, Held, Busy, Quiet, TypeOK
  <2>10. OrderOK' BY <2>6, SMT DEF OrderOK, Busy
  <2> QED BY <2>7, <2>8, <2>9, <2>10
<1>20. CASE WritePublish
  <2> DEFINE n == ioEnd - writeFrame
  <2>1. n \in Nat BY <1>20, SMT DEF TypeOK, WriterOK, WritePublish
  <2>2. /\ Len(sent') = writeFrame + n
        /\ \A i \in 1 .. writeFrame : sent'[i] = sent[i]
        /\ \A i \in writeFrame + 1 .. writeFrame + n : sent'[i] = halRate
    BY <1>20, <2>1, Extended DEF TypeOK, WritePublish, RingOK
  <2>3. ioPc = "copy" /\ clients > 0 /\ cfgPc = "idle" /\ ~Quiet
    BY <1>20, SMT DEF WritePublish, ContractOK, TypeOK, Quiet
  <2>4. UNCHANGED <<readFrame, slots, engVars, taken, halRate, active, cfgPc, clients,
                    ioNext, ioEnd>>
        /\ writeFrame' = ioEnd /\ ioPc' = "idle" /\ ioNext = ioEnd
    BY <1>20 DEF WritePublish
  <2>5. ASSUME NEW lo \in Nat, Held(lo), NEW p \in lo .. ioEnd - 1
        PROVE  slots'[SlotOf(p)] = Frame(p, sent'[p + 1])
    <3>1. CASE p < writeFrame
      BY <2>2, <2>4, <2>5, <3>1, SMT DEF Held, TypeOK
    <3>2. CASE p >= writeFrame
      <4>1. p \in writeFrame .. ioNext - 1 /\ p + 1 \in writeFrame + 1 .. writeFrame + n
        BY <2>1, <2>4, <3>2, SMT DEF TypeOK
      <4> QED BY <2>2, <2>3, <2>4, <4>1 DEF WriterOK
    <3> QED BY <3>1, <3>2, SMT DEF TypeOK
  <2>6. RingOK'
    <3>1. Held(readFrame)' BY <2>4, <2>5 DEF Held, RingOK, TypeOK
    <3>2. readFrame <= ioEnd /\ ioEnd - readFrame <= Capacity /\ writeFrame + n = ioEnd
      BY <2>1, <2>3, SMT DEF RingOK, WriterOK, TypeOK
    <3> QED BY <2>2, <2>4, <3>1, <3>2 DEF RingOK
  <2>7. WriterOK' BY <2>4, SMT DEF WriterOK
  <2>8. ReaderOK'
    <3>1. ASSUME Busy PROVE engEnd <= ioEnd /\ ioEnd - engNext <= Capacity
                            /\ Held(engNext) /\ readFrame <= engNext
      BY <2>1, <2>3, <3>1, SMT DEF ReaderOK, WriterOK, TypeOK
    <3>2. Busy => Held(engNext)'
      BY <2>4, <2>5, <3>1 DEF Held, TypeOK
    <3> QED BY <2>4, <3>1, <3>2, SMT DEF ReaderOK, Busy, Quiet, TypeOK
  <2>9. OrderOK' BY <2>1, <2>4, SMT DEF OrderOK, Busy, TypeOK
  <2> QED BY <2>6, <2>7, <2>8, <2>9
<1>21. CASE ReadCopy
  <2>1. Busy /\ engNext < engEnd BY <1>21 DEF ReadCopy, Busy
  <2>2. slots[SlotOf(engNext)] = Frame(engNext, sent[engNext + 1])
    BY <2>1, SMT DEF ReaderOK, Held, TypeOK
  <2>3. taken'.pos = engNext BY <1>21, <2>2, SMT DEF ReadCopy, Frame
  <2> QED
    BY <1>21, <2>3, SMT DEF TypeOK, ContractOK, RingOK, WriterOK, ReaderOK, OrderOK, Held,
      Busy, Quiet, ReadCopy
<1>22. CASE \E r \in Rates : ChangeRate(r)
  BY <1>22, SMT DEF TypeOK, ContractOK, RingOK, WriterOK, ReaderOK, OrderOK, Held, Busy,
    Quiet, ChangeRate
<1>23. CASE UNCHANGED vars
  BY <1>23, SMT DEF TypeOK, ContractOK, RingOK, WriterOK, ReaderOK, OrderOK, Held, Busy,
    Quiet, vars
<1> QED
  BY <1>1, <1>2, <1>3, <1>4, <1>5, <1>6, <1>7, <1>8, <1>9, <1>10, <1>11, <1>12,
     <1>13, <1>14, <1>15, <1>16, <1>17, <1>18, <1>19, <1>20, <1>21, <1>22, <1>23
  DEF Next, HalStep, EngineStep

(* Every step preserves the inductive invariant.                            *)
LEMMA StepInv == Inv /\ [Next]_vars => Inv'
  BY StepType, StepContract, StepRing DEF Inv

-----------------------------------------------------------------------------
(* The inductive invariant holds in every reachable state.                  *)
THEOREM Invariance == Spec => []Inv
<1>1. Init => Inv BY InitInv
<1>2. Inv /\ [Next]_vars => Inv' BY StepInv
<1> QED BY <1>1, <1>2, PTL DEF Spec

(* The types of TypeOK hold in every reachable state, for every ring size   *)
(* and rate set: what the loads of open, pump and write() may rely on.      *)
THEOREM TypeCorrect == Spec => []TypeOK
<1>1. Inv => TypeOK BY DEF Inv
<1> QED BY <1>1, Invariance, PTL

(* The unsigned w - r of read(), write() and availableFrames() never wraps. *)
THEOREM BoundedAlways == Spec => []Bounded
<1>1. Inv => Bounded BY SMT DEF Inv, TypeOK, RingOK, Bounded, Queued
<1> QED BY <1>1, Invariance, PTL

(* The HAL and the engine are never at the same slot.                       *)
THEOREM NoSlotRaceAlways == Spec => []NoSlotRace
<1>1. Inv => NoSlotRace
  <2> SUFFICES ASSUME Inv, ioPc = "copy", ioNext < ioEnd, engPc = "copy", engNext < engEnd
               PROVE  SlotOf(ioNext) # SlotOf(engNext)
    BY DEF NoSlotRace
  <2>1. TypeOK /\ WriterOK /\ ReaderOK /\ Busy BY DEF Inv, Busy
  <2>2. readFrame <= engNext BY <2>1, SMT DEF ReaderOK, Quiet, TypeOK
  <2>3. engNext < ioNext /\ ioNext - engNext < Capacity
    BY <2>1, <2>2, PlaybackAssumption, SMT DEF ReaderOK, WriterOK, TypeOK
  <2> QED BY <2>1, <2>3, SlotsDistinct DEF TypeOK
<1> QED BY <1>1, Invariance, PTL

(* Every frame the engine is about to copy is the one the HAL published.    *)
THEOREM CopyIntactAlways == Spec => []CopyIntact
<1>1. Inv => CopyIntact
  BY SMT DEF Inv, TypeOK, ReaderOK, Held, Busy, CopyIntact
<1> QED BY <1>1, Invariance, PTL

(* One step keeps the rates apart.                                          *)
LEMMA StepRate == Inv /\ RateOK /\ [Next]_vars => RateOK'
<1> SUFFICES ASSUME Inv, RateOK, [Next]_vars PROVE RateOK' OBVIOUS
<1>a. TypeOK /\ ContractOK /\ RingOK /\ WriterOK /\ ReaderOK BY DEF Inv
<1> USE PlaybackAssumption, <1>a
<1> USE DEF ringVars, ioVars, halVars, engVars
<1>1. CASE WritePublish
  <2> DEFINE n == ioEnd - writeFrame
  <2>1. n \in Nat BY <1>1, SMT DEF TypeOK, WriterOK, WritePublish
  <2>2. /\ \A i \in 1 .. writeFrame : sent'[i] = sent[i]
        /\ \A i \in writeFrame + 1 .. writeFrame + n : sent'[i] = halRate
    BY <1>1, <2>1, Extended DEF TypeOK, WritePublish, RingOK
  <2>3. ioPc = "copy" /\ cfgPc = "idle" /\ ~Quiet
    BY <1>1, SMT DEF WritePublish, ContractOK, TypeOK, Quiet
  <2>4. UNCHANGED <<readFrame, engVars, halRate, active, cfgPc, sampleRate>>
        /\ writeFrame' = ioEnd /\ ioPc' = "idle"
    BY <1>1 DEF WritePublish
  <2> QED BY <2>1, <2>2, <2>3, <2>4, SMT DEF RateOK, TypeOK, RingOK, ReaderOK, Busy
<1>2. CASE StartIO
  BY <1>2, SMT DEF TypeOK, ContractOK, RingOK, ReaderOK, RateOK, Busy, Quiet, StartIO
<1>3. CASE StopIO
  BY <1>3, SMT DEF TypeOK, ContractOK, RingOK, ReaderOK, RateOK, Busy, Quiet, StopIO
<1>4. CASE WriteMix
  BY <1>4, SMT DEF TypeOK, ContractOK, RingOK, ReaderOK, RateOK, Busy, Quiet, WriteMix
<1>5. CASE WriteReserve
  BY <1>5, SMT DEF TypeOK, ContractOK, RingOK, ReaderOK, RateOK, Busy, Quiet, WriteReserve
<1>6. CASE WriteCopy
  BY <1>6, SMT DEF TypeOK, ContractOK, RingOK, ReaderOK, RateOK, Busy, Quiet, WriteCopy
<1>7. CASE \E r \in Rates : ChangeRate(r)
  BY <1>7, SMT DEF TypeOK, ContractOK, RingOK, ReaderOK, RateOK, Busy, Quiet, ChangeRate
<1>8. CASE ChangeFlush
  BY <1>8, SMT DEF TypeOK, ContractOK, RingOK, ReaderOK, RateOK, Busy, Quiet, ChangeFlush
<1>9. CASE ChangeClear
  BY <1>9, SMT DEF TypeOK, ContractOK, RingOK, ReaderOK, RateOK, Busy, Quiet, ChangeClear
<1>10. CASE ChangePublish
  BY <1>10, SMT DEF TypeOK, ContractOK, RingOK, ReaderOK, RateOK, Busy, Quiet, ChangePublish
<1>11. CASE HalRestart
  BY <1>11, SMT DEF TypeOK, ContractOK, RingOK, ReaderOK, RateOK, Busy, Quiet, HalRestart
<1>12. CASE LaunchEngine
  BY <1>12, SMT DEF TypeOK, ContractOK, RingOK, ReaderOK, RateOK, Busy, Quiet, LaunchEngine
<1>13. CASE OpenPlayback
  BY <1>13, SMT DEF TypeOK, ContractOK, RingOK, ReaderOK, RateOK, Busy, Quiet, OpenPlayback
<1>14. CASE DiscardLoad
  BY <1>14, SMT DEF TypeOK, ContractOK, RingOK, ReaderOK, RateOK, Busy, Quiet, DiscardLoad
<1>15. CASE DiscardStore
  BY <1>15, SMT DEF TypeOK, ContractOK, RingOK, ReaderOK, RateOK, Busy, Quiet, DiscardStore
<1>16. CASE GoOnline
  <2>1. UNCHANGED <<cfgPc, halRate, sampleRate, writeFrame, readFrame, sent, engRate>>
        /\ engPc = "startup" /\ engPc' \in {"armed", "pump"}
    BY <1>16 DEF GoOnline
  <2>2. CASE late' BY <2>1, <2>2 DEF RateOK
  <2>3. CASE ~late'
    <3>1. ~late /\ engRate = sampleRate /\ cfgPc # "publish"
      BY <1>16, <2>3 DEF GoOnline
    <3>2. \A p \in readFrame .. writeFrame - 1 : sent[p + 1] = engRate
      BY <2>1, <3>1 DEF RateOK
    <3>3. cfgPc = "idle" => halRate = sampleRate BY DEF RateOK
    <3> QED BY <2>1, <3>1, <3>2, <3>3, SMT DEF RateOK, Busy
  <2> QED BY <2>2, <2>3
<1>17. CASE ReadReserve
  BY <1>17, SMT DEF TypeOK, ContractOK, RingOK, ReaderOK, RateOK, Busy, Quiet, ReadReserve, Queued, Minimum
<1>18. CASE ReadCopy
  BY <1>18, SMT DEF TypeOK, ContractOK, RingOK, ReaderOK, RateOK, Busy, Quiet, ReadCopy
<1>19. CASE ReadCommit
  BY <1>19, SMT DEF TypeOK, ContractOK, RingOK, ReaderOK, RateOK, Busy, Quiet, ReadCommit
<1>20. CASE FailStartup
  BY <1>20, SMT DEF TypeOK, ContractOK, RingOK, ReaderOK, RateOK, Busy, Quiet, FailStartup
<1>21. CASE StopEngine
  BY <1>21, SMT DEF TypeOK, ContractOK, RingOK, ReaderOK, RateOK, Busy, Quiet, StopEngine
<1>22. CASE CrashEngine
  BY <1>22, SMT DEF TypeOK, ContractOK, RingOK, ReaderOK, RateOK, Busy, Quiet, CrashEngine
<1>23. CASE UNCHANGED vars
  BY <1>23, SMT DEF RateOK, vars, Busy
<1> QED
  BY <1>1, <1>2, <1>3, <1>4, <1>5, <1>6, <1>7, <1>8, <1>9, <1>10, <1>11, <1>12,
     <1>13, <1>14, <1>15, <1>16, <1>17, <1>18, <1>19, <1>20, <1>21, <1>22,
     <1>23
  DEF Next, HalStep, EngineStep

(* Only the engine's copy delivers a frame: the one published at engNext.   *)
LEMMA Delivered ==
  Inv /\ Next /\ taken' # taken =>
    /\ ReadCopy /\ Busy /\ engNext < writeFrame
    /\ taken' = Frame(engNext, sent[engNext + 1])
<1> SUFFICES ASSUME Inv, Next, taken' # taken
             PROVE  /\ ReadCopy /\ Busy /\ engNext < writeFrame
                    /\ taken' = Frame(engNext, sent[engNext + 1])
  OBVIOUS
<1>1. ReadCopy
  BY DEF Next, HalStep, EngineStep, StartIO, StopIO, WriteMix, WriteReserve, WriteCopy,
    WritePublish, ChangeRate, ChangeFlush, ChangeClear, ChangePublish, HalRestart,
    LaunchEngine, OpenPlayback, DiscardLoad, DiscardStore, GoOnline, ReadReserve,
    ReadCommit, FailStartup, StopEngine, CrashEngine
<1>2. Busy BY <1>1 DEF ReadCopy, Busy
<1>3. engNext < writeFrame
  BY <1>1, <1>2, SMT DEF Inv, ReadCopy, ReaderOK, TypeOK
<1>4. taken' = Frame(engNext, sent[engNext + 1])
  BY <1>1, <1>2, <1>3, SMT DEF Inv, ReadCopy, ReaderOK, Held, TypeOK
<1> QED BY <1>1, <1>2, <1>3, <1>4

(* No engine delivers a frame older than its own last discard.              *)
THEOREM FreshAlways == Spec => FreshAfterDiscard
<1>1. Inv /\ [Next]_vars => [taken' # taken => taken'.pos >= mark]_vars
  <2> SUFFICES ASSUME Inv, Next, taken' # taken PROVE taken'.pos >= mark
    BY DEF vars
  <2>1. Busy /\ taken'.pos = engNext BY Delivered DEF Frame
  <2> QED BY <2>1, SMT DEF Inv, OrderOK, TypeOK
<1> QED BY <1>1, Invariance, PTL DEF Spec, FreshAfterDiscard

(* Frames rendered for another rate reach an engine only after some engine  *)
(* has gone online late.                                                    *)
THEOREM HandoffAlways == Spec => HandoffIsolation
<1>1. Init => RateOK BY PlaybackAssumption, SMT DEF Init, RateOK, Busy
<1>2. Inv /\ RateOK /\ [Next]_vars => RateOK' BY StepRate
<1>3. Inv /\ RateOK /\ [Next]_vars
        => [taken' # taken /\ taken'.rate # engRate => late]_vars
  <2> SUFFICES ASSUME Inv, RateOK, Next, taken' # taken, ~late
               PROVE  taken'.rate = engRate
    BY DEF vars
  <2>1. Busy /\ engNext < writeFrame /\ taken'.rate = sent[engNext + 1]
    BY Delivered DEF Frame
  <2> QED BY <2>1, SMT DEF RateOK, Inv, TypeOK
<1> QED BY <1>1, <1>2, <1>3, Invariance, PTL DEF Spec, HandoffIsolation

(* The ring implements the in-order, at-most-once stream of LossyFifo.      *)
THEOREM Refinement == Spec => FifoSpec
<1>1. Init => Fifo!Init
  BY PlaybackAssumption, SMT DEF Init, Fifo!Init, Fifo!Nothing, Frame
<1>2. Inv /\ [Next]_vars => [Fifo!Next]_(Fifo!vars)
  <2> SUFFICES ASSUME Inv, [Next]_vars PROVE [Fifo!Next]_(Fifo!vars) OBVIOUS
  <2>1. CASE taken' # taken
    <3>1. Next BY <2>1 DEF vars
    <3>2. /\ ReadCopy /\ Busy /\ engNext < writeFrame
          /\ taken' = Frame(engNext, sent[engNext + 1])
      BY <2>1, <3>1, Delivered
    <3>3. sent' = sent BY <3>2 DEF ReadCopy
    <3>4. engNext + 1 \in taken.pos + 1 + 1 .. Len(sent)
      BY <3>2, SMT DEF Inv, TypeOK, OrderOK, RingOK
    <3>5. [pos |-> taken'.pos + 1, tag |-> taken'.rate]
            = [pos |-> engNext + 1, tag |-> sent[engNext + 1]]
      BY <3>2 DEF Frame
    <3> QED BY <3>3, <3>4, <3>5 DEF Fifo!Next, Fifo!Deliver
  <2>2. CASE taken' = taken /\ sent' # sent
    <3>1. WritePublish
      BY <2>2 DEF Next, HalStep, EngineStep, StartIO, StopIO, WriteMix, WriteReserve,
        WriteCopy, ChangeRate, ChangeFlush, ChangeClear, ChangePublish, HalRestart,
        LaunchEngine, OpenPlayback, DiscardLoad, DiscardStore, GoOnline, ReadReserve,
        ReadCopy, ReadCommit, FailStartup, StopEngine, CrashEngine, vars
    <3> DEFINE n == ioEnd - writeFrame
    <3>2. n \in Nat BY <3>1, SMT DEF Inv, TypeOK, WriterOK, WritePublish
    <3>3. /\ sent' \in Seq(Rates) /\ Len(sent') = Len(sent) + n
          /\ \A i \in 1 .. Len(sent) : sent'[i] = sent[i]
      BY <3>1, <3>2, Extended DEF Inv, TypeOK, WritePublish
    <3>4. Len(sent) \in Nat BY DEF Inv, TypeOK, RingOK
    <3>5. n # 0
      <4> SUFFICES ASSUME n = 0 PROVE sent' = sent BY <2>2
      <4>1. Len(sent') = Len(sent) BY <3>3, <3>4, SMT
      <4> QED BY <3>3, <4>1, SeqEqual DEF Inv, TypeOK
    <3>6. Len(sent') > Len(sent) BY <3>2, <3>3, <3>4, <3>5, SMT
    <3> QED BY <2>2, <3>3, <3>6 DEF Fifo!Next, Fifo!Publish
  <2>3. CASE taken' = taken /\ sent' = sent
    BY <2>3 DEF Fifo!vars
  <2> QED BY <2>1, <2>2, <2>3
<1> QED BY <1>1, <1>2, Invariance, PTL DEF Spec, FifoSpec, Fifo!Spec
=============================================================================
