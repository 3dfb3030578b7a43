---------------------------- MODULE CaptureRing ----------------------------
(***************************************************************************)
(* The FW1814 capture path: the transport engine's audio thread decodes    *)
(* frames into a shared ring (capture_shm.h, shared_io.h), and CoreAudio   *)
(* reads them in the HAL's ReadInput callback.  Unlike the playback ring,  *)
(* both sides move readFrame and both sides store active: the HAL suspends *)
(* and discards, the engine activates once a consumer shows and a prefill  *)
(* is queued, and a restarted engine initializes the ring under the HAL.   *)
(*                                                                         *)
(* Frame indices are unsigned words: arithmetic is modulo Word, as the     *)
(* 64-bit counters of the code are, so a readFrame beyond writeFrame shows *)
(* as an enormous queue.  A slot records how many frames were decoded      *)
(* since it was written (capped) and the rate it was captured at.          *)
(***************************************************************************)
EXTENDS Integers

CONSTANTS Capacity,     \* kCapacityFrames
          Word,         \* 2^64: a multiple of Capacity
          Limit,        \* the stale threshold, 4096
          MaxLive,      \* k48MaxLiveQueuedFrames
          Prefill,      \* kCapturePrefillFrames, also the trim's target
          MaxPacket,    \* frames of one decoded packet, at most
          MaxRead,      \* frames of one ReadInput callback, at most
          Rates,        \* sample rates an engine exists for
          Trimming,     \* rates the HAL trims and discards for: 48 kHz
          Flushing,     \* rates activateForConsumer flushes for: 96 kHz
          Qualifying,   \* rates whose engine qualifies capture first
          HalStalls,    \* whether a packet may arrive while the HAL is
                        \* between two accesses of one operation
          InitOverlaps, \* whether a callback may overlap initialize()
          HalMayRestart \* whether coreaudiod may die and be relaunched

ASSUME CaptureAssumption ==
  /\ Capacity \in Nat \ {0} /\ Word \in Nat /\ Word % Capacity = 0
  /\ Word > 2 * Capacity
  /\ Limit \in Nat /\ MaxLive \in Nat /\ Prefill \in Nat
  /\ 0 < Prefill /\ Prefill <= MaxLive /\ MaxLive <= Limit /\ Limit < Capacity
  /\ MaxPacket \in Nat \ {0} /\ Limit + MaxPacket <= Capacity
  /\ MaxRead \in Nat \ {0}
  /\ Trimming \cup Flushing \cup Qualifying \subseteq Rates
  /\ HalStalls \in BOOLEAN /\ InitOverlaps \in BOOLEAN
  /\ HalMayRestart \in BOOLEAN

VARIABLES                \* (an index is 0 while its operation is not running)
  \* SharedCaptureRing; demand is halReadCalls # 0
  writeFrame, readFrame, sampleRate, active, demand, slots,
  \* the HAL: gSampleRate, whether a client runs IO, the IO thread inside
  \* ReadInput, the control thread inside StartIO or a configuration change
  halRate, running, ioPc, ioNext, ioEnd, ctlPc, ctlFrame,
  \* the engine: where its audio thread is, its rate, whether capture is
  \* qualified, the indices it holds
  engPc, engRate, qualified, engNext, engEnd

ringVars == <<writeFrame, readFrame, sampleRate, active, demand, slots>>
ioVars   == <<ioPc, ioNext, ioEnd>>
ctlVars  == <<ctlPc, ctlFrame>>
halVars  == <<halRate, running, ioVars, ctlVars>>
engVars  == <<engPc, engRate, qualified, engNext, engEnd>>
vars     == <<ringVars, halVars, engVars>>

SlotOf(p) == p % Capacity

Plus(p, n) == (p + n) % Word
Used(w, r) == (w - r) % Word
Queued == Used(writeFrame, readFrame)
Minimum(a, b) == IF a < b THEN a ELSE b

(* Mutant: one slot too many counts as free.                                *)
FreeInOffByOne(used) == IF used > Capacity THEN 0 ELSE Capacity + 1 - used

FreeIn(used) == IF used >= Capacity THEN 0 ELSE Capacity - used

MaxAge == Limit + MaxPacket
Aged(n) ==
  [i \in 0 .. Capacity - 1 |->
     [slots[i] EXCEPT !.age = Minimum(@ + n, MaxAge)]]

Init ==
  /\ writeFrame = 0 /\ readFrame = 0 /\ active = 0 /\ demand = FALSE
  /\ sampleRate \in Rates /\ halRate = sampleRate /\ engRate = sampleRate
  /\ slots = [i \in 0 .. Capacity - 1 |-> [age |-> MaxAge, rate |-> sampleRate]]
  /\ running = FALSE
  /\ ioPc = "idle" /\ ioNext = 0 /\ ioEnd = 0
  /\ ctlPc = "idle" /\ ctlFrame = 0
  /\ engPc = "none" /\ qualified = FALSE /\ engNext = 0 /\ engEnd = 0

-----------------------------------------------------------------------------
(* The HAL's control thread.  The first client's StartIO discards at 48 kHz *)
(* (discardForClientStart): clear active, load writeFrame, store it.        *)
StartIO ==
  /\ ~running /\ ctlPc = "idle"
  /\ IF halRate \in Trimming
       THEN active' = 0 /\ ctlPc' = "startLoad" /\ UNCHANGED running
       ELSE running' = TRUE /\ UNCHANGED <<active, ctlPc>>
  /\ UNCHANGED <<writeFrame, readFrame, sampleRate, demand, slots, halRate,
                 ioVars, ctlFrame, engVars>>

StopIO ==
  /\ running /\ ioPc = "idle"
  /\ running' = FALSE
  /\ UNCHANGED <<ringVars, halRate, ioVars, ctlVars, engVars>>

(* PerformDeviceConfigurationChange, its capture half: the rate, then       *)
(* readFrame, then active.                                                  *)
ChangeRate(r) ==
  /\ ~running /\ ctlPc = "idle" /\ r # halRate
  /\ halRate' = r /\ ctlPc' = "changeLoad"
  /\ UNCHANGED <<ringVars, running, ioVars, ctlFrame, engVars>>

ControlLoad ==
  /\ \/ ctlPc = "startLoad" /\ ctlPc' = "startStore"
     \/ ctlPc = "changeLoad" /\ ctlPc' = "changeStore"
  /\ ctlFrame' = writeFrame
  /\ UNCHANGED <<ringVars, halRate, running, ioVars, engVars>>

ControlStore ==
  /\ \/ ctlPc = "startStore" /\ ctlPc' = "idle" /\ running' = TRUE
     \/ ctlPc = "changeStore" /\ ctlPc' = "changeClear" /\ UNCHANGED running
  /\ readFrame' = ctlFrame /\ ctlFrame' = 0
  /\ UNCHANGED <<writeFrame, sampleRate, active, demand, slots, halRate,
                 ioVars, engVars>>

ChangeClear ==
  /\ ctlPc = "changeClear"
  /\ active' = 0 /\ ctlPc' = "idle"
  /\ UNCHANGED <<writeFrame, readFrame, sampleRate, demand, slots, halRate,
                 running, ioVars, ctlFrame, engVars>>

(* coreaudiod dies between two steps and is relaunched; the ring stays.     *)
HalRestart ==
  /\ HalMayRestart
  /\ running' = FALSE
  /\ ioPc' = "idle" /\ ioNext' = 0 /\ ioEnd' = 0
  /\ ctlPc' = "idle" /\ ctlFrame' = 0
  /\ UNCHANGED <<ringVars, halRate, engVars>>

-----------------------------------------------------------------------------
(* ReadInput.  It announces demand whether or not the ring is active.       *)
ReadAnnounce ==
  /\ running /\ ioPc = "idle"
  /\ demand' = TRUE /\ ioPc' = "admit"
  /\ UNCHANGED <<writeFrame, readFrame, sampleRate, active, slots, halRate,
                 running, ioNext, ioEnd, ctlVars, engVars>>

(* Mutant: the ring's rate is not compared with the HAL's.                  *)
ReadAdmitAnyRate ==
  /\ ioPc = "admit"
  /\ ioPc' = IF active = 1 THEN "check" ELSE "idle"
  /\ UNCHANGED <<ringVars, halRate, running, ioNext, ioEnd, ctlVars, engVars>>

(* Inactive, or at another rate: the callback is filled with zeros.         *)
ReadAdmit ==
  /\ ioPc = "admit"
  /\ ioPc' = IF active = 1 /\ sampleRate = halRate THEN "check" ELSE "idle"
  /\ UNCHANGED <<ringVars, halRate, running, ioNext, ioEnd, ctlVars, engVars>>

(* suspendStaleCapture: measure the queue; if it is stale, clear active and *)
(* then flush up to the writeFrame that was measured.                       *)
CheckStale ==
  /\ ioPc = "check"
  /\ IF Queued > Limit
       THEN ioPc' = "suspend" /\ ioEnd' = writeFrame
       ELSE /\ ioPc' = IF halRate \in Trimming THEN "trim" ELSE "load"
            /\ UNCHANGED ioEnd
  /\ UNCHANGED <<ringVars, halRate, running, ioNext, ctlVars, engVars>>

SuspendClear ==
  /\ ioPc = "suspend"
  /\ active' = 0 /\ ioPc' = "flush"
  /\ UNCHANGED <<writeFrame, readFrame, sampleRate, demand, slots, halRate,
                 running, ioNext, ioEnd, ctlVars, engVars>>

SuspendFlush ==
  /\ ioPc = "flush"
  /\ readFrame' = ioEnd /\ ioPc' = "idle" /\ ioEnd' = 0
  /\ UNCHANGED <<writeFrame, sampleRate, active, demand, slots, halRate,
                 running, ioNext, ctlVars, engVars>>

(* trimLiveCapture: keep the newest Prefill frames of a queue too long.     *)
TrimLoad ==
  /\ ioPc = "trim"
  /\ IF Queued <= MaxLive \/ Prefill >= Queued
       THEN ioPc' = "load" /\ UNCHANGED ioEnd
       ELSE ioPc' = "trimStore" /\ ioEnd' = (writeFrame - Prefill) % Word
  /\ UNCHANGED <<ringVars, halRate, running, ioNext, ctlVars, engVars>>

TrimStore ==
  /\ ioPc = "trimStore"
  /\ readFrame' = ioEnd /\ ioPc' = "load" /\ ioEnd' = 0
  /\ UNCHANGED <<writeFrame, sampleRate, active, demand, slots, halRate,
                 running, ioNext, ctlVars, engVars>>

(* read(): load readFrame, load writeFrame, copy frame by frame, store.     *)
ReadLoad ==
  /\ ioPc = "load"
  /\ ioNext' = readFrame /\ ioPc' = "reserve"
  /\ UNCHANGED <<ringVars, halRate, running, ioEnd, ctlVars, engVars>>

ReadReserve ==
  /\ ioPc = "reserve"
  /\ \E frames \in 1 .. MaxRead :
       ioEnd' = Plus(ioNext, Minimum(frames, Used(writeFrame, ioNext)))
  /\ ioPc' = "copy"
  /\ UNCHANGED <<ringVars, halRate, running, ioNext, ctlVars, engVars>>

ReadCopy ==
  /\ ioPc = "copy" /\ ioNext # ioEnd
  /\ ioNext' = Plus(ioNext, 1)
  /\ UNCHANGED <<ringVars, halRate, running, ioPc, ioEnd, ctlVars, engVars>>

ReadCommit ==
  /\ ioPc = "copy" /\ ioNext = ioEnd
  /\ readFrame' = ioEnd /\ ioPc' = "idle" /\ ioNext' = 0 /\ ioEnd' = 0
  /\ UNCHANGED <<writeFrame, sampleRate, active, demand, slots, halRate,
                 running, ctlVars, engVars>>

-----------------------------------------------------------------------------
(* The engine.  open() initializes the ring store by store.  The supervisor *)
(* picks the rate.  A new engine starts while writeFrame is far from the    *)
(* end of the word (the code's word never ends), so that a stale readFrame  *)
(* is beyond writeFrame and not accidentally near it.                        *)
LaunchEngine ==
  /\ engPc = "none"
  /\ readFrame <= writeFrame /\ writeFrame < Word - Capacity
  /\ ~InitOverlaps => ioPc \in {"idle", "admit"} /\ ctlPc = "idle"
  /\ engRate' \in Rates /\ engPc' = "initRead"
  /\ writeFrame' = 0 /\ slots' = Aged(MaxAge)
  /\ UNCHANGED <<readFrame, sampleRate, active, demand, halVars, qualified,
                 engNext, engEnd>>

InitRead ==
  /\ engPc = "initRead"
  /\ readFrame' = 0 /\ engPc' = "initRate"
  /\ UNCHANGED <<writeFrame, sampleRate, active, demand, slots, halVars,
                 engRate, qualified, engNext, engEnd>>

InitRate ==
  /\ engPc = "initRate"
  /\ sampleRate' = engRate /\ engPc' = "initActive"
  /\ UNCHANGED <<writeFrame, readFrame, active, demand, slots, halVars,
                 engRate, qualified, engNext, engEnd>>

InitActive ==
  /\ engPc = "initActive"
  /\ active' = 0 /\ engPc' = "initDemand"
  /\ UNCHANGED <<writeFrame, readFrame, sampleRate, demand, slots, halVars,
                 engRate, qualified, engNext, engEnd>>

InitDemand ==
  /\ engPc = "initDemand"
  /\ demand' = FALSE /\ engPc' = "startup"
  /\ UNCHANGED <<writeFrame, readFrame, sampleRate, active, slots, halVars,
                 engRate, qualified, engNext, engEnd>>

(* FCP, CMP and ISO start-up take seconds, a HAL callback microseconds: one  *)
(* that overlapped initialize() has ended before the first packet arrives.   *)
StartCapture ==
  /\ engPc = "startup" /\ ioPc \in {"idle", "admit"} /\ ctlPc = "idle"
  /\ qualified' = (engRate \notin Qualifying)
  /\ engPc' = "run"
  /\ UNCHANGED <<ringVars, halVars, engRate, engNext, engEnd>>

(* The HAL is inside an operation on the queue.                             *)
HalInside == ioPc \notin {"idle", "admit"} \/ ctlPc # "idle"

(* One decoded packet: write() sizes it, copies it, publishes it.           *)
PacketReserve ==
  /\ engPc = "run" /\ (HalInside => HalStalls)
  /\ \E frames \in 1 .. MaxPacket :
       /\ slots' = Aged(frames)
       /\ engNext' = writeFrame
       /\ engEnd' = Plus(writeFrame, Minimum(frames, FreeIn(Queued)))
  /\ engPc' = "copy"
  /\ UNCHANGED <<writeFrame, readFrame, sampleRate, active, demand, halVars,
                 engRate, qualified>>

PacketCopy ==
  /\ engPc = "copy" /\ engNext # engEnd
  /\ slots' = [slots EXCEPT ![SlotOf(engNext)] = [age |-> 0, rate |-> engRate]]
  /\ engNext' = Plus(engNext, 1)
  /\ UNCHANGED <<writeFrame, readFrame, sampleRate, active, demand, halVars,
                 engPc, engRate, qualified, engEnd>>

PacketPublish ==
  /\ engPc = "copy" /\ engNext = engEnd
  /\ writeFrame' = engEnd /\ engPc' = "try" /\ engNext' = 0 /\ engEnd' = 0
  /\ UNCHANGED <<readFrame, sampleRate, active, demand, slots, halVars,
                 engRate, qualified>>

(* 176.4 and 192 kHz: only what follows a quiet second may be captured.     *)
Qualify ==
  /\ engPc = "run" /\ ~qualified
  /\ qualified' = TRUE /\ readFrame' = writeFrame
  /\ UNCHANGED <<writeFrame, sampleRate, active, demand, slots, halVars,
                 engPc, engRate, engNext, engEnd>>

(* activateForConsumer, tried in every iteration of the audio loop while    *)
(* active is seen cleared: wait for a consumer and a prefill; then move      *)
(* readFrame to the prefill and store active.                                *)
MayActivate == active = 0 /\ demand /\ qualified

(* Mutant: no engine starts a fresh prefill.                                *)
TryActivateUnflushed ==
  /\ engPc = "try"
  /\ \/ /\ MayActivate /\ Queued >= Prefill
        /\ engEnd' = (writeFrame - Prefill) % Word /\ engPc' = "rewind"
     \/ /\ ~MayActivate \/ Queued < Prefill
        /\ engPc' = "run" /\ UNCHANGED engEnd
  /\ UNCHANGED <<ringVars, halVars, engRate, qualified, engNext>>

(* Mutant: a queue of more than the prefill does not count as prefilled.    *)
TryActivateExact ==
  /\ engPc = "try"
  /\ \/ /\ MayActivate /\ engRate \in Flushing /\ Queued > Limit
        /\ engEnd' = writeFrame /\ engPc' = "flush"
     \/ /\ MayActivate /\ Queued = Prefill
        /\ engEnd' = (writeFrame - Prefill) % Word /\ engPc' = "rewind"
     \/ /\ ~(MayActivate /\ engRate \in Flushing /\ Queued > Limit)
        /\ ~MayActivate \/ Queued # Prefill
        /\ engPc' = "run" /\ UNCHANGED engEnd
  /\ UNCHANGED <<ringVars, halVars, engRate, qualified, engNext>>

TryActivate ==
  /\ engPc = "try"
  /\ \/ /\ MayActivate /\ engRate \in Flushing /\ Queued > Limit
        /\ engEnd' = writeFrame /\ engPc' = "flush"
     \/ /\ MayActivate /\ ~(engRate \in Flushing /\ Queued > Limit)
        /\ Queued >= Prefill
        /\ engEnd' = (writeFrame - Prefill) % Word /\ engPc' = "rewind"
     \/ /\ ~MayActivate \/ Queued < Prefill
        /\ engPc' = "run" /\ UNCHANGED engEnd
  /\ UNCHANGED <<ringVars, halVars, engRate, qualified, engNext>>

ActivateStore ==
  /\ \/ engPc = "flush" /\ engPc' = "run"
     \/ engPc = "rewind" /\ engPc' = "activate"
  /\ readFrame' = engEnd /\ engEnd' = 0
  /\ UNCHANGED <<writeFrame, sampleRate, active, demand, slots, halVars,
                 engRate, qualified, engNext>>

ActivateSet ==
  /\ engPc = "activate"
  /\ active' = 1 /\ engPc' = "run"
  /\ UNCHANGED <<writeFrame, readFrame, sampleRate, demand, slots, halVars,
                 engRate, qualified, engNext, engEnd>>

(* run() returns: the writer's destructor clears active.                    *)
StopEngine ==
  /\ engPc \in {"startup", "run"}
  /\ active' = 0 /\ engPc' = "none"
  /\ UNCHANGED <<writeFrame, readFrame, sampleRate, demand, slots, halVars,
                 engRate, qualified, engNext, engEnd>>

(* The engine dies where it stands and active stays as it was.              *)
CrashEngine ==
  /\ engPc # "none"
  /\ engPc' = "none" /\ engNext' = 0 /\ engEnd' = 0
  /\ UNCHANGED <<ringVars, halVars, engRate, qualified>>

ReadInput == \/ ReadAnnounce \/ ReadAdmit \/ CheckStale \/ SuspendClear
             \/ SuspendFlush \/ TrimLoad \/ TrimStore \/ ReadLoad
             \/ ReadReserve \/ ReadCopy \/ ReadCommit

Control == \/ StartIO \/ StopIO \/ \E r \in Rates : ChangeRate(r)
           \/ ControlLoad \/ ControlStore \/ ChangeClear \/ HalRestart

Packet == PacketReserve \/ PacketCopy \/ PacketPublish

Activation == TryActivate \/ ActivateStore \/ ActivateSet

Startup == \/ LaunchEngine \/ InitRead \/ InitRate \/ InitActive \/ InitDemand
           \/ StartCapture \/ Qualify

Next == \/ ReadInput \/ Control \/ Packet \/ Activation \/ Startup
        \/ StopEngine \/ CrashEngine

Spec == Init /\ [][Next]_vars

(* CoreAudio calls ReadInput for as long as a client runs IO; packets keep  *)
(* arriving and the audio thread keeps iterating; qualification ends.        *)
FairSpec == Spec /\ WF_vars(ReadInput) /\ WF_vars(Packet \/ Activation)
                 /\ SF_vars(Qualify)

-----------------------------------------------------------------------------
(* Types of every variable: every stored index is a word.                   *)
TypeOK ==
  /\ writeFrame \in 0 .. Word - 1 /\ readFrame \in 0 .. Word - 1
  /\ sampleRate \in Rates /\ active \in {0, 1} /\ demand \in BOOLEAN
  /\ slots \in [0 .. Capacity - 1 -> [age : 0 .. MaxAge, rate : Rates]]
  /\ halRate \in Rates /\ running \in BOOLEAN
  /\ ioPc \in {"idle", "admit", "check", "suspend", "flush", "trim",
               "trimStore", "load", "reserve", "copy"}
  /\ ioNext \in 0 .. Word - 1 /\ ioEnd \in 0 .. Word - 1
  /\ ctlPc \in {"idle", "startLoad", "startStore", "changeLoad",
                "changeStore", "changeClear"}
  /\ ctlFrame \in 0 .. Word - 1
  /\ engPc \in {"none", "initRead", "initRate", "initActive", "initDemand",
                "startup", "run", "copy", "try", "flush", "rewind", "activate"}
  /\ engRate \in Rates /\ qualified \in BOOLEAN
  /\ engNext \in 0 .. Word - 1 /\ engEnd \in 0 .. Word - 1

(* The positions from p on, up to and without q.                            *)
From(p, q) == {Plus(p, k) : k \in 0 .. Used(q, p) - 1}

(* The slots the HAL has still to read and those the engine has still to    *)
(* write are different slots: no sample is overwritten while it is read.     *)
NoSlotRace ==
  ioPc = "copy" /\ engPc = "copy" =>
    \A p \in From(ioNext, ioEnd), q \in From(engNext, engEnd) :
      SlotOf(p) # SlotOf(q)

(* ReadInput delivers only frames captured at the rate the HAL runs at,     *)
(* although it checks the rate once and copies later, and a restarted       *)
(* engine puts its own rate on a ring that still holds older frames.        *)
NoForeignCapture ==
  [][ReadCopy => slots[SlotOf(ioNext)].rate = halRate]_vars

(* A queue within the stale threshold holds nothing older than the threshold *)
(* and the packet under way.  The code measures the queue's length for its   *)
(* age: the two agree only while the producer has dropped nothing behind it. *)
Fresh == \A p \in From(readFrame, writeFrame) : slots[SlotOf(p)].age < MaxAge
Passes == ioPc = "check" /\ ioPc' \in {"trim", "load"}
(* FW1814HAL.cpp: "Never replay a stale backlog larger than the bounded      *)
(* live-capture threshold": what a callback goes on to read is fresh.        *)
CaptureFresh == [][Passes => Fresh]_vars

(* The same where activateForConsumer starts a fresh prefill when it finds   *)
(* a long queue (96 kHz): there the queue's length does stand for its age.   *)
FreshWhenFlushing == [][Passes /\ halRate \in Flushing => Fresh]_vars

(* capture_shm.h: "The producer will activate the ring again after a fresh   *)
(* 512-frame prefill": a discard leaves the ring suspended.                  *)
FlushSuspends == 
  [][SuspendFlush \/ (ControlStore /\ ctlPc = "startStore") => active' = 0]_vars

(* The HAL and a running engine agree on the rate and nobody restarts.       *)
Calm == /\ running /\ ctlPc = "idle" /\ sampleRate = halRate
        /\ engPc \in {"run", "copy", "try", "flush", "rewind", "activate"}

(* Capture never stays silent: whatever suspends, discards, crashes and      *)
(* overlapping initializations went before, callbacks are admitted again.    *)
ReadsResume == <>[]Calm => []<>(ioPc = "check")
=============================================================================
