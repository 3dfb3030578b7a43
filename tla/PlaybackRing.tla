---------------------------- MODULE PlaybackRing ----------------------------
(***************************************************************************)
(* The FW1814 playback path between two processes that share one memory    *)
(* object (hal_shm.h): the CoreAudio HAL plug-in writes frames, the        *)
(* transport engine of the current sample rate reads them.  Modelled at    *)
(* the granularity of the accesses to the shared words: every store of an  *)
(* atomic, and every copied frame, is a step of its own; loads are merged  *)
(* with a neighbouring access only where no other actor can tell.          *)
(*                                                                         *)
(* Actors: the HAL's IO thread (write), its configuration-change callback  *)
(* (PerformDeviceConfigurationChange), the engine (open, discard, go       *)
(* online, pump, stop, crash), and the supervisor, here only the choice of *)
(* the next engine's rate.                                                 *)
(***************************************************************************)
EXTENDS Integers, Sequences

CONSTANTS Capacity,        \* kCapacityFrames
          Rates,           \* sample rates an engine exists for
          Prearming,       \* rates whose engine discards again before going online
          Rearming,        \* rates whose engine discards again after going online
          MaxCallback,     \* frames of one WriteMix callback, at most
          MaxRead,         \* frames of one pumpPlayback read, at most
          MaxClients,      \* CoreAudio clients running IO, at most
          MaxFrames,       \* bound on writeFrame (a 64-bit counter in the code)
          HalMayRestart    \* whether coreaudiod may die and be relaunched

ASSUME PlaybackAssumption ==
  /\ Capacity \in Nat \ {0}
  /\ Rates # {}
  /\ Prearming \subseteq Rates
  /\ Rearming \subseteq Rates
  /\ MaxCallback \in Nat \ {0}
  /\ MaxRead \in Nat \ {0}
  /\ MaxClients \in Nat
  /\ MaxFrames \in Nat
  /\ HalMayRestart \in BOOLEAN

VARIABLES
  \* SharedPlaybackRing
  writeFrame, readFrame, sampleRate, active, slots,
  \* the HAL process: gSampleRate, gRunningClients, the IO thread inside
  \* write() and the control thread inside PerformDeviceConfigurationChange
  halRate, clients, ioPc, ioNext, ioEnd, cfgPc,
  \* the engine process: where it is, its kRate, the frame index it copies
  \* next and the value it is about to store in readFrame
  engPc, engRate, engNext, engEnd,
  \* history: the rate of every published frame, the last frame handed to the
  \* PCM FIFO, the position the engine's last discard loaded, and whether some
  \* engine has gone online for a rate the HAL had already given up
  sent, taken, mark, late

ringVars == <<writeFrame, readFrame, sampleRate, active, slots>>
ioVars   == <<ioPc, ioNext, ioEnd>>
halVars  == <<halRate, clients, ioPc, ioNext, ioEnd, cfgPc>>
engVars  == <<engPc, engRate, engNext, engEnd, mark, late>>
vars     == <<ringVars, halVars, engVars, sent, taken>>

(* A frame is identified by its position in the stream and carries the     *)
(* nominal rate CoreAudio rendered it at.                                   *)
Frame(p, r) == [pos |-> p, rate |-> r]

SlotOf(p) == p % Capacity

(* availableFrames: w - r.  The code subtracts unsigned words; Bounded says *)
(* that the difference is never negative.                                   *)
Queued == writeFrame - readFrame

Minimum(a, b) == IF a < b THEN a ELSE b

(* The free space write() computes, and the engine's program points at     *)
(* which it holds a loaded index it has still to store.                     *)
Free == IF Queued >= Capacity THEN 0 ELSE Capacity - Queued

Busy == engPc \in {"discarding", "rearming", "copy"}

Init ==
  /\ writeFrame = 0 /\ readFrame = 0 /\ active = 0
  /\ sampleRate \in Rates
  /\ slots = [i \in 0 .. Capacity - 1 |-> Frame(-1, sampleRate)]
  /\ halRate = sampleRate /\ clients = 0
  /\ ioPc = "idle" /\ ioNext = 0 /\ ioEnd = 0 /\ cfgPc = "idle"
  /\ engPc = "none" /\ engRate = sampleRate /\ engNext = 0 /\ engEnd = 0
  /\ sent = <<>> /\ taken = Frame(-1, sampleRate)
  /\ mark = 0 /\ late = FALSE

-----------------------------------------------------------------------------
(* The HAL: CoreAudio starts and stops IO per client, and asks for a       *)
(* configuration change only while no client runs IO.                       *)

StartIO ==
  /\ clients < MaxClients /\ cfgPc = "idle"
  /\ clients' = clients + 1
  /\ sampleRate' = IF clients = 0 THEN halRate ELSE sampleRate
  /\ UNCHANGED <<writeFrame, readFrame, active, slots, halRate, ioVars, cfgPc,
                 engVars, sent, taken>>

StopIO ==
  /\ clients > 0
  /\ clients = 1 => ioPc = "idle"
  /\ clients' = clients - 1
  /\ UNCHANGED <<ringVars, halRate, ioVars, cfgPc, engVars, sent, taken>>

(* Mutant: frames are accepted whether or not an engine is online.          *)
WriteMixAlways ==
  /\ clients > 0 /\ ioPc = "idle" /\ sampleRate = halRate
  /\ ioPc' = "admitted"
  /\ UNCHANGED <<ringVars, halRate, clients, ioNext, ioEnd, cfgPc, engVars,
                 sent, taken>>

(* DoIOOperation, WriteMix: frames are accepted only while the engine is   *)
(* online and the ring has the device's rate; otherwise they are dropped.   *)
WriteMix ==
  /\ clients > 0 /\ ioPc = "idle"
  /\ active = 1 /\ sampleRate = halRate
  /\ ioPc' = "admitted"
  /\ UNCHANGED <<ringVars, halRate, clients, ioNext, ioEnd, cfgPc, engVars,
                 sent, taken>>

(* Mutant: the write is not limited to the free space.                      *)
WriteReserveUnclamped ==
  /\ ioPc = "admitted"
  /\ \E n \in 1 .. MaxCallback :
       /\ writeFrame + n <= MaxFrames
       /\ ioNext' = writeFrame /\ ioEnd' = writeFrame + n
  /\ ioPc' = "copy"
  /\ UNCHANGED <<ringVars, halRate, clients, cfgPc, engVars, sent, taken>>

(* write(): load both indices, size the write, copy frame by frame, publish *)
WriteReserve ==
  /\ ioPc = "admitted"
  /\ \E frames \in 1 .. MaxCallback :
       LET n == Minimum(frames, Free) IN
       /\ writeFrame + n <= MaxFrames
       /\ ioNext' = writeFrame /\ ioEnd' = writeFrame + n
  /\ ioPc' = "copy"
  /\ UNCHANGED <<ringVars, halRate, clients, cfgPc, engVars, sent, taken>>

WriteCopy ==
  /\ ioPc = "copy" /\ ioNext < ioEnd
  /\ slots' = [slots EXCEPT ![SlotOf(ioNext)] = Frame(ioNext, halRate)]
  /\ ioNext' = ioNext + 1
  /\ UNCHANGED <<writeFrame, readFrame, sampleRate, active, halRate, clients,
                 ioPc, ioEnd, cfgPc, engVars, sent, taken>>

WritePublish ==
  /\ ioPc = "copy" /\ ioNext = ioEnd
  /\ writeFrame' = ioEnd
  /\ sent' = sent \o [i \in 1 .. ioEnd - writeFrame |-> halRate]
  /\ ioPc' = "idle"
  /\ UNCHANGED <<readFrame, sampleRate, active, slots, halRate, clients,
                 ioNext, ioEnd, cfgPc, engVars, taken>>

(* PerformDeviceConfigurationChange stores gSampleRate, then readFrame,     *)
(* active and, last, the ring's rate, the supervisor's handoff trigger.     *)
ChangeRate(r) ==
  /\ cfgPc = "idle" /\ clients = 0 /\ r # halRate
  /\ halRate' = r /\ cfgPc' = "flush"
  /\ UNCHANGED <<ringVars, clients, ioVars, engVars, sent, taken>>

ChangeFlush ==
  /\ cfgPc = "flush"
  /\ readFrame' = writeFrame /\ cfgPc' = "clear"
  /\ UNCHANGED <<writeFrame, sampleRate, active, slots, halRate, clients,
                 ioVars, engVars, sent, taken>>

ChangeClear ==
  /\ cfgPc = "clear"
  /\ active' = 0 /\ cfgPc' = "publish"
  /\ UNCHANGED <<writeFrame, readFrame, sampleRate, slots, halRate, clients,
                 ioVars, engVars, sent, taken>>

ChangePublish ==
  /\ cfgPc = "publish"
  /\ sampleRate' = halRate /\ cfgPc' = "idle"
  /\ UNCHANGED <<writeFrame, readFrame, active, slots, halRate, clients,
                 ioVars, engVars, sent, taken>>

(* coreaudiod dies and is relaunched: the ring survives, MapPlaybackRing    *)
(* adopts the persisted rate, a half-done write or change is lost.  The     *)
(* relaunch takes longer than the engine's current copy or discard.         *)
HalRestart ==
  /\ HalMayRestart /\ ~Busy
  /\ halRate' = sampleRate /\ clients' = 0
  /\ ioPc' = "idle" /\ cfgPc' = "idle"
  /\ UNCHANGED <<ringVars, ioNext, ioEnd, engVars, sent, taken>>

-----------------------------------------------------------------------------
(* The engine process.  The supervisor reads the requested rate, applies    *)
(* init and launches that rate's engine, one engine at a time.              *)

LaunchEngine ==
  /\ engPc = "none"
  /\ engPc' = "open" /\ engRate' = sampleRate
  /\ UNCHANGED <<ringVars, halVars, engNext, engEnd, mark, late, sent, taken>>

(* SharedPlaybackReader::open and the rate check; a mismatch ends run().    *)
OpenPlayback ==
  /\ engPc = "open"
  /\ engPc' = IF sampleRate = engRate THEN "discard" ELSE "none"
  /\ UNCHANGED <<ringVars, halVars, engRate, engNext, engEnd, mark, late, sent,
                 taken>>

(* discardBacklog(): load writeFrame, store it in readFrame.  Every engine  *)
(* discards on opening, some again before or after they go online.          *)
DiscardLoad ==
  /\ \/ engPc = "discard" /\ engPc' = "discarding"
     \/ engPc = "startup" /\ engRate \in Prearming /\ engPc' = "discarding"
     \/ engPc = "armed" /\ engPc' = "rearming"
  /\ engNext' = writeFrame /\ engEnd' = writeFrame /\ mark' = writeFrame
  /\ UNCHANGED <<ringVars, halVars, engRate, late, sent, taken>>

(* Mutant: the backlog is measured but not discarded.                       *)
DiscardStoreForgotten ==
  /\ \/ engPc = "discarding" /\ engPc' = "startup"
     \/ engPc = "rearming" /\ engPc' \in {"armed", "pump"}
  /\ UNCHANGED <<ringVars, halVars, engRate, engNext, engEnd, mark, late, sent,
                 taken>>

DiscardStore ==
  /\ \/ engPc = "discarding" /\ engPc' = "startup"
     \/ engPc = "rearming" /\ engPc' \in {"armed", "pump"}
  /\ readFrame' = engEnd
  /\ UNCHANGED <<writeFrame, sampleRate, active, slots, halVars, engRate,
                 engNext, engEnd, mark, late, sent, taken>>

(* After ISO start, rate kick and READY the engine marks itself online.     *)
(* late records a store of active that undoes the one of a rate change.     *)
GoOnline ==
  /\ engPc = "startup"
  /\ active' = 1
  /\ engPc' = IF engRate \in Rearming THEN "armed" ELSE "pump"
  /\ late' = (late \/ engRate # sampleRate \/ cfgPc = "publish")
  /\ UNCHANGED <<writeFrame, readFrame, sampleRate, slots, halVars, engRate,
                 engNext, engEnd, mark, sent, taken>>

(* pumpPlayback / read(): size the read, copy frame by frame into the PCM   *)
(* FIFO's staging buffer, store the new readFrame.                          *)
ReadReserve ==
  /\ engPc = "pump" /\ Queued # 0
  /\ \E frames \in 1 .. MaxRead :
       /\ engNext' = readFrame
       /\ engEnd' = readFrame + Minimum(frames, Queued)
  /\ engPc' = "copy"
  /\ UNCHANGED <<ringVars, halVars, engRate, mark, late, sent, taken>>

ReadCopy ==
  /\ engPc = "copy" /\ engNext < engEnd
  /\ taken' = slots[SlotOf(engNext)]
  /\ engNext' = engNext + 1
  /\ UNCHANGED <<ringVars, halVars, engPc, engRate, engEnd, mark, late, sent>>

(* Mutant: the frames are copied but stay in the ring.                      *)
ReadCommitForgotten ==
  /\ engPc = "copy" /\ engNext = engEnd
  /\ engPc' = "pump"
  /\ UNCHANGED <<ringVars, halVars, engRate, engNext, engEnd, mark, late, sent,
                 taken>>

ReadCommit ==
  /\ engPc = "copy" /\ engNext = engEnd
  /\ readFrame' = engEnd /\ engPc' = "pump"
  /\ UNCHANGED <<writeFrame, sampleRate, active, slots, halVars, engRate,
                 engNext, engEnd, mark, late, sent, taken>>

(* Leaving run(): a startup step failed before the engine was online, or    *)
(* the audio loop ended (SIGTERM, missed TX deadline, bus generation        *)
(* changed) and cleanup clears active.                                      *)
FailStartup ==
  /\ engPc \in {"discard", "startup"}
  /\ engPc' = "none"
  /\ UNCHANGED <<ringVars, halVars, engRate, engNext, engEnd, mark, late, sent,
                 taken>>

StopEngine ==
  /\ engPc \in {"armed", "pump"}
  /\ active' = 0 /\ engPc' = "none"
  /\ UNCHANGED <<writeFrame, readFrame, sampleRate, slots, halVars, engRate,
                 engNext, engEnd, mark, late, sent, taken>>

(* The engine dies where it stands: cleanup does not run, active stays.     *)
CrashEngine ==
  /\ engPc # "none"
  /\ engPc' = "none"
  /\ UNCHANGED <<ringVars, halVars, engRate, engNext, engEnd, mark, late, sent,
                 taken>>

HalStep == \/ StartIO \/ StopIO \/ WriteMix \/ WriteReserve \/ WriteCopy
           \/ WritePublish \/ \E r \in Rates : ChangeRate(r)
           \/ ChangeFlush \/ ChangeClear \/ ChangePublish \/ HalRestart

EngineStep == \/ LaunchEngine \/ OpenPlayback \/ DiscardLoad \/ DiscardStore
              \/ GoOnline \/ ReadReserve \/ ReadCopy \/ ReadCommit
              \/ FailStartup \/ StopEngine \/ CrashEngine

Next == HalStep \/ EngineStep

Spec == Init /\ [][Next]_vars

-----------------------------------------------------------------------------
(* Types of every variable.                                                 *)
TypeOK ==
  /\ writeFrame \in Nat /\ readFrame \in Nat
  /\ sampleRate \in Rates /\ active \in {0, 1}
  /\ slots \in [0 .. Capacity - 1 -> [pos : Int, rate : Rates]]
  /\ halRate \in Rates /\ clients \in 0 .. MaxClients
  /\ ioPc \in {"idle", "admitted", "copy"} /\ ioNext \in Nat /\ ioEnd \in Nat
  /\ cfgPc \in {"idle", "flush", "clear", "publish"}
  /\ engPc \in {"none", "open", "discard", "discarding", "startup", "armed",
                "rearming", "pump", "copy"}
  /\ engRate \in Rates /\ engNext \in Nat /\ engEnd \in Nat
  /\ sent \in Seq(Rates) /\ taken \in [pos : Int, rate : Rates]
  /\ mark \in Nat /\ late \in BOOLEAN

(* The ring never holds more frames than it has slots and the reader never  *)
(* passes the writer, although three parties store readFrame: the unsigned  *)
(* w - r of read(), write() and availableFrames() never wraps.              *)
Bounded == 0 <= Queued /\ Queued <= Capacity

(* The HAL's copy and the engine's copy are never at the same slot, whatever *)
(* flush, discard, crash or restart ran in between: no float is read while  *)
(* it is written.                                                           *)
NoSlotRace ==
  (ioPc = "copy" /\ ioNext < ioEnd /\ engPc = "copy" /\ engNext < engEnd)
     => SlotOf(ioNext) # SlotOf(engNext)

(* Every frame the engine is about to copy is still in its slot, as the HAL *)
(* published it.                                                            *)
CopyIntact ==
  engPc = "copy" =>
    \A p \in engNext .. engEnd - 1 : slots[SlotOf(p)] = Frame(p, sent[p + 1])

(* An engine delivers no frame older than its own last discard: a backlog   *)
(* left by a previous engine or by the muted start-up is never played.      *)
FreshAfterDiscard == [][taken' # taken => taken'.pos >= mark]_vars

(* Frames rendered for another rate reach an engine only once some engine   *)
(* has gone online after a configuration change had taken it offline.       *)
HandoffIsolation ==
  [][taken' # taken /\ taken'.rate # engRate => late]_vars

(* dynamic-rate-switching-success.md: "This keeps new-rate PCM out of the   *)
(* old-rate transport during the restart window."                           *)
NoForeignRate == [][taken' # taken => taken'.rate = engRate]_vars

(* dynamic-rate-switching-success.md: "During a handoff the HAL drops       *)
(* output until the new engine marks itself online": with no change under   *)
(* way and the engine of the HAL's rate online, the HAL does not drop.      *)
OnlineAccepts ==
  (engPc \in {"pump", "copy"} /\ cfgPc = "idle"
     /\ engRate = halRate /\ sampleRate = halRate) => active = 1

(* The ring implements an in-order, at-most-once, lossy stream.             *)
Fifo == INSTANCE LossyFifo WITH
          Tags <- Rates, sent <- sent,
          last <- [pos |-> taken.pos + 1, tag |-> taken.rate]

FifoSpec == Fifo!Spec
=============================================================================
