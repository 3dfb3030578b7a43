------------------------- MODULE ControlStateProofs -------------------------
(***************************************************************************)
(* Proofs about the control server and the programs around it: whatever     *)
(* users, keys and bounds, the server's copy is what the device holds, no   *)
(* output listens to the AUX bus at a quad rate, what a user was told is    *)
(* done stays done, and with nothing under way the live state is the saved  *)
(* one.  The argument is in two invariants.  In IInv, a register differs    *)
(* from the copy only in ways the statements allow (Registers), and the     *)
(* replay, which alone may write without a user's wish, only sends while    *)
(* the gate is shut, because nobody but the supervisor opens it (Gate).     *)
(* In Following, built on it, every program is where its connection and its *)
(* helper say it is (Formed), one program at a time is between the live     *)
(* state and the file, or that is excused (Alone), and what separates the   *)
(* two is what that one program has still to do (Effect).                   *)
(***************************************************************************)
EXTENDS ControlState, TLAPS

(* The table of handlers, written out.                                      *)
LEMMA Surface ==
  /\ Controls = {"mixerRoute", "inputRoute", "outputSource", "headphoneSource",
                 "inputLevel", "inputChannelLevel", "inputPan",
                 "softwareReturn", "outputVolume", "headphoneVolume",
                 "auxReturn", "auxInput", "auxOutput"}
  /\ HandlerOf["mixerRoute"] = handleMixer
  /\ HandlerOf["inputRoute"] = handleInputMixer
  /\ HandlerOf["outputSource"] = handleOutput
  /\ HandlerOf["headphoneSource"] = handleHeadphone
  /\ HandlerOf["inputLevel"] = handleInputMonitorLevel
  /\ HandlerOf["inputChannelLevel"] = handleInputMonitorChannelLevel
  /\ HandlerOf["inputPan"] = handleInputMonitorPan
  /\ HandlerOf["softwareReturn"] = handleSoftwareReturnLevel
  /\ HandlerOf["outputVolume"] = handleAnalogOutputLevel
  /\ HandlerOf["headphoneVolume"] = handleHeadphoneOutputLevel
  /\ HandlerOf["auxReturn"] = handleAuxSoftwareReturnLevel
  /\ HandlerOf["auxInput"] = handleAuxAnalogInputLevel
  /\ HandlerOf["auxOutput"] = handleAuxOutputLevel
  BY DEF Controls, HandlerOf

(* Only the two source words have a value that needs the AUX bus, and no    *)
(* other handler writes them.                                               *)
LEMMA AuxHandlers ==
  \A c \in Controls : HandlerOf[c].word \in AuxWords => HandlerOf[c].aux
<1> USE DEF handleMixer, handleInputMixer, handleOutput, handleHeadphone,
        handleInputMonitorLevel, handleInputMonitorChannelLevel,
        handleInputMonitorPan, handleSoftwareReturnLevel,
        handleAnalogOutputLevel, handleHeadphoneOutputLevel,
        handleAuxSoftwareReturnLevel, handleAuxAnalogInputLevel,
        handleAuxOutputLevel, Handler
<1>1. \A c \in Controls : HandlerOf[c].aux => c \in {"outputSource",
                                                   "headphoneSource"}
  BY Surface
<1>2. AuxWords \subseteq {"SRC_ANA_OUT", "SRC_HP_OUT"}
  BY <1>1, Surface DEF AuxWords
<1>3. \A c \in Controls : HandlerOf[c].word \in {"SRC_ANA_OUT", "SRC_HP_OUT"} =>
                            c \in {"outputSource", "headphoneSource"}
  BY Surface
<1>4. HandlerOf["outputSource"].aux /\ HandlerOf["headphoneSource"].aux
  BY Surface
<1> QED
  BY <1>2, <1>3, <1>4

(* The headphone gain is set as a whole, by requests and by the knob.       *)
LEMMA HeadphoneGain ==
  /\ \A c \in Controls : HandlerOf[c].word = WordOf(KnobKey) =>
                           c = "headphoneVolume"
  /\ \A k \in Keys : k.control = "headphoneVolume" => k = KnobKey
  /\ ToolOf("headphoneVolume").kept
<1> USE DEF handleMixer, handleInputMixer, handleOutput, handleHeadphone,
        handleInputMonitorLevel, handleInputMonitorChannelLevel,
        handleInputMonitorPan, handleSoftwareReturnLevel,
        handleAnalogOutputLevel, handleHeadphoneOutputLevel,
        handleAuxSoftwareReturnLevel, handleAuxAnalogInputLevel,
        handleAuxOutputLevel, Handler
<1>1. \A c \in Controls : HandlerOf[c].word = WordOf(KnobKey) =>
                            c = "headphoneVolume"
  BY Surface DEF WordOf, KnobKey, Key
<1>2. \A t \in Tools : "headphoneVolume" \in t.controls =>
                         t = headphoneVolumeCommand
  BY DEF Tools, Tool, mixerRouteCommand, inputMixerRouteCommand,
    outputSourceCommand, headphoneSourceCommand, inputMonitorLevelCommand,
    inputMonitorChannelLevelCommand, inputMonitorPanCommand,
    softwareReturnLevelCommand, outputVolumeCommand, headphoneVolumeCommand,
    auxSendLevelCommand, auxOutputVolumeCommand
<1>3. headphoneVolumeCommand \in Tools
      /\ "headphoneVolume" \in headphoneVolumeCommand.controls
      /\ headphoneVolumeCommand.unit = "word" /\ headphoneVolumeCommand.kept
  BY DEF Tools, Tool, headphoneVolumeCommand
<1>4. ToolOf("headphoneVolume") = headphoneVolumeCommand
  BY <1>2, <1>3 DEF ToolOf
<1>5. \A k \in Keys : k.control = "headphoneVolume" => k = KnobKey
  BY <1>3, <1>4 DEF Keys, Key, KnobKey
<1> QED
  BY <1>1, <1>3, <1>4, <1>5

(* A key names a control, and a cell or the whole word.                     *)
LEMMA KeyShape ==
  \A k \in Keys : k.control \in Controls /\ k.cell \in {0, 1, 2}
  BY DEF Keys, Key, Cells

(* Users, the knob and the supervisor are different.                        *)
LEMMA Apart == Supervisor \notin Users /\ Knob \notin Users /\ Knob # Supervisor
  BY ControlAssumption DEF ControlAssumption, Supervisor, Knob, None

-----------------------------------------------------------------------------
(* The registers and their copy have their shapes.                          *)
Shaped ==
  /\ played \subseteq Keys
  /\ reg \in [PlayedWords -> [Cells -> Values]]
  /\ cache \in [PlayedWords -> [Cells -> Values]]
  /\ DOMAIN acked = played
  /\ current \in BOOLEAN /\ doubt \in BOOLEAN

(* At a quad rate the copy has no AUX source either: what a failed write    *)
(* may leave in a register was derived from the copy.                       *)
AuxOK ==
  up /\ quad => \A w \in PlayedWords \cap AuxWords :
                  reg[w] = Preset /\ cache[w] = Preset

(* Both channels of the headphone gain agree.                               *)
KnobOK ==
  KnobKey \in played => cache[WordOf(KnobKey)][1] = cache[WordOf(KnobKey)][2]

(* Nothing that a user was told stands while a replay may overwrite it.     *)
GateOK == restoring => \A k \in played : acked[k] = Unset

Registers ==
  Shaped /\ CopyIsHardware /\ AuxOK /\ KnobOK /\ SettingsStand /\ GateOK

(* A played key names a played word.                                        *)
LEMMA PlayedWord ==
  ASSUME Shaped, NEW k \in played
  PROVE  /\ WordOf(k) \in PlayedWords /\ k.control \in Controls
         /\ k.cell \in {0, 1, 2}
  BY KeyShape DEF Shaped, PlayedWords

(* What Changed does to the cells of a word.                                *)
LEMMA ChangedWord ==
  ASSUME NEW word \in [Cells -> Values], NEW k, k.cell \in {0, 1, 2},
         NEW v \in Values
  PROVE  /\ Changed(word, k, v) \in [Cells -> Values]
         /\ HasValue(Changed(word, k, v), k, v)
         /\ \A c \in Cells : k.cell # 0 /\ c # k.cell =>
              Changed(word, k, v)[c] = word[c]
         /\ k.cell = 0 => \A c \in Cells : Changed(word, k, v)[c] = v
  BY DEF Changed, HasValue, Cells

(* A setting that is written leaves those standing that share no cell with  *)
(* it, and stands itself.                                                   *)
LEMMA SettingStands ==
  ASSUME Shaped, \A j \in played : acked[j] # Unset =>
                   HasValue(reg[WordOf(j)], j, acked[j]),
         NEW k \in played, NEW v \in Values,
         reg' = [reg EXCEPT ![WordOf(k)] = Changed(reg[WordOf(k)], k, v)],
         UNCHANGED played,
         acked' \in {Acknowledged(k, v), Acknowledged(k, Unset)}
  PROVE  \A j \in played : acked'[j] # Unset =>
           HasValue(reg'[WordOf(j)], j, acked'[j])
<1> SUFFICES ASSUME NEW j \in played, acked'[j] # Unset
             PROVE  HasValue(reg'[WordOf(j)], j, acked'[j])
  OBVIOUS
<1>1. /\ WordOf(k) \in PlayedWords /\ k.cell \in {0, 1, 2}
      /\ WordOf(j) \in PlayedWords /\ j.cell \in {0, 1, 2}
      /\ reg[WordOf(k)] \in [Cells -> Values]
  BY PlayedWord DEF Shaped
<1>2. CASE j = k
  <2>1. acked'[j] = v
    BY <1>2 DEF Acknowledged
  <2> QED
    BY <1>1, <1>2, <2>1, ChangedWord DEF Shaped
<1>3. CASE j # k
  <2>1. ~Shares(k, j) /\ acked'[j] = acked[j]
    BY <1>3 DEF Acknowledged
  <2>2. CASE WordOf(j) # WordOf(k)
    BY <1>1, <2>1, <2>2 DEF Shaped
  <2>3. CASE WordOf(j) = WordOf(k)
    <3>1. k.cell # j.cell /\ k.cell # 0 /\ j.cell # 0
      BY <2>1, <2>3 DEF Shares
    <3>2. reg'[WordOf(j)] = Changed(reg[WordOf(k)], k, v)
      BY <1>1, <2>3 DEF Shaped
    <3>3. reg'[WordOf(j)][j.cell] = reg[WordOf(j)][j.cell]
      BY <1>1, <2>3, <3>1, <3>2, ChangedWord DEF Cells
    <3> QED
      BY <2>1, <3>1, <3>3 DEF HasValue
  <2> QED
    BY <2>2, <2>3
<1> QED
  BY <1>2, <1>3

(* One request, or one turn of the knob, performed in whatever way.         *)
LEMMA SetStep ==
  ASSUME Registers, up, NEW k \in played, NEW v \in Values,
         HandlerOf[k.control].aux /\ quad => v # 1,
         UNCHANGED <<played, up, quad, restoring>>,
         \/ /\ \/ /\ WrittenOk(WordOf(k), Changed(cache[WordOf(k)], k, v))
                  /\ cache' = [cache EXCEPT ![WordOf(k)] =
                                 Changed(cache[WordOf(k)], k, v)]
               \/ /\ Changed(cache[WordOf(k)], k, v) = cache[WordOf(k)]
                  /\ UNCHANGED <<reg, current, doubt, cache>>
            /\ \/ restoring /\ UNCHANGED acked
               \/ ~restoring /\ acked' = Acknowledged(k, v)
               \/ acked' = Acknowledged(k, Unset)
         \/ /\ NotWritten(WordOf(k), Changed(cache[WordOf(k)], k, v))
            /\ UNCHANGED <<cache, acked>>
  PROVE  Registers'
<1> DEFINE w == WordOf(k)
           word == Changed(cache[w], k, v)
<1>1. /\ Shaped /\ CopyIsHardware /\ AuxOK /\ KnobOK /\ SettingsStand /\ GateOK
      /\ w \in PlayedWords /\ k.control \in Controls /\ k.cell \in {0, 1, 2}
      /\ PlayedWords' = PlayedWords
  BY PlayedWord DEF Registers, PlayedWords
<1>2. word \in [Cells -> Values]
  <2>1. cache[w] \in [Cells -> Values]
    BY <1>1 DEF Shaped
  <2> QED
    BY <1>1, <2>1, ChangedWord
<1>3. reg' \in {reg, [reg EXCEPT ![w] = word]}
      /\ cache' \in {cache, [cache EXCEPT ![w] = word]}
  BY DEF WrittenOk, NotWritten
<1>4. Shaped'
  <2>1. DOMAIN acked' = played
    BY <1>1 DEF Shaped, Acknowledged
  <2>2. current' \in BOOLEAN /\ doubt' \in BOOLEAN
    BY <1>1 DEF Shaped, WrittenOk, NotWritten
  <2> QED
    BY <1>1, <1>2, <1>3, <2>1, <2>2 DEF Shaped
<1>5. CopyIsHardware'
  BY <1>1 DEF CopyIsHardware, WrittenOk, NotWritten
<1>6. AuxOK'
  <2>1. quad /\ w \in AuxWords => word = Preset
    <3> SUFFICES ASSUME quad, w \in AuxWords PROVE word = Preset
      OBVIOUS
    <3>1. HandlerOf[k.control].aux
      BY <1>1, AuxHandlers DEF WordOf
    <3>2. v = 0 /\ cache[w] = Preset
      BY <1>1, <3>1 DEF Values, AuxOK
    <3> QED
      BY <1>1, <3>2 DEF Changed, Preset, Cells
  <2> QED
    BY <1>1, <1>3, <2>1 DEF AuxOK, Shaped
<1>7. KnobOK'
  <2>1. w = WordOf(KnobKey) => word[1] = word[2]
    <3> SUFFICES ASSUME w = WordOf(KnobKey) PROVE word[1] = word[2]
      OBVIOUS
    <3>1. k.cell = 0
      BY <1>1, HeadphoneGain DEF WordOf, Shaped, KnobKey, Key
    <3> QED
      BY <1>1, <3>1, ChangedWord DEF Shaped, Cells
  <2> QED
    BY <1>1, <1>3, <2>1, PlayedWord DEF KnobOK, Shaped
<1>8. GateOK'
  BY <1>1 DEF GateOK, Acknowledged
<1>9. SettingsStand'
  <2> SUFFICES ASSUME current', ~doubt'
               PROVE  \A j \in played : acked'[j] # Unset =>
                        HasValue(reg'[WordOf(j)], j, acked'[j])
    BY DEF SettingsStand
  <2>1. current /\ ~doubt
    BY <1>1 DEF Shaped, WrittenOk, NotWritten
  <2>2. cache = reg /\ \A j \in played : acked[j] # Unset =>
                        HasValue(reg[WordOf(j)], j, acked[j])
    BY <1>1, <2>1 DEF CopyIsHardware, SettingsStand
  <2>3. CASE UNCHANGED <<reg, acked>>
    BY <2>2, <2>3
  <2>4. CASE restoring /\ UNCHANGED acked
    BY <1>1, <2>4 DEF GateOK
  <2>5. CASE /\ acked' \in {Acknowledged(k, v), Acknowledged(k, Unset)}
             /\ reg' = [reg EXCEPT ![w] = Changed(reg[w], k, v)]
    BY <1>1, <2>2, <2>5, SettingStands
  <2>6. word = cache[w] => [reg EXCEPT ![w] = Changed(reg[w], k, v)] = reg
    BY <1>1, <2>2 DEF Shaped
  <2>7. NotWritten(w, word) => UNCHANGED reg
    BY <2>1 DEF NotWritten
  <2> QED
    BY <2>2, <2>3, <2>4, <2>5, <2>6, <2>7 DEF WrittenOk
<1> QED
  BY <1>4, <1>5, <1>6, <1>7, <1>8, <1>9 DEF Registers

(* What leaves the registers alone, or takes back what was acknowledged.    *)
LEMMA RegistersKept ==
  ASSUME Registers,
         UNCHANGED <<played, up, quad, current, restoring, reg, cache, doubt>>,
         acked' \in {acked, NoneAcked}
  PROVE  Registers'
<1>1. DOMAIN acked' = played
  BY DEF Registers, Shaped, NoneAcked
<1>2. \A k \in played : acked'[k] \in {acked[k], Unset}
  BY DEF NoneAcked
<1>3. Shaped'
  BY <1>1 DEF Registers, Shaped, PlayedWords
<1>4. SettingsStand'
  BY <1>2 DEF Registers, SettingsStand
<1>5. (CopyIsHardware /\ AuxOK /\ KnobOK)'
  BY DEF Registers, CopyIsHardware, AuxOK, KnobOK, PlayedWords
<1>6. GateOK'
  BY <1>2 DEF Registers, GateOK
<1> QED
  BY <1>3, <1>4, <1>5, <1>6 DEF Registers

-----------------------------------------------------------------------------
(* The connections, and what travels on them.                               *)
Requests ==
  {Ready} \cup {Set(k, v, r) : k \in played, v \in Values, r \in BOOLEAN}

Conns ==
  /\ phase \in [Clients -> Phases] /\ request \in [Clients -> Requests]
  /\ queue \in Seq(Clients) /\ serving \in Clients \cup {None}

(* What is saved, going to be saved, and left to replay.                    *)
Entries(f) ==
  DOMAIN f \subseteq played /\ \A k \in DOMAIN f : f[k] \in Values

Saves ==
  /\ DOMAIN helper = Recorders /\ DOMAIN image = Recorders
  /\ DOMAIN todo = Clients /\ DOMAIN job = Clients
  /\ Entries(file) /\ \A a \in Clients : Entries(todo[a])
  /\ \A a \in Recorders :
       Entries(image[a]) /\ (helper[a] = "load" => DOMAIN image[a] # {})

(* Only the supervisor opens the gate, after its replay; until it does, the *)
(* gate is shut.                                                            *)
Passing(a) == phase[a] \in {"sent", "orphan"}

Gate ==
  /\ \A u \in Users : phase[u] # "idle" => ~request[u].ready
  /\ Passing(Supervisor) /\ request[Supervisor].ready => sup = "ready"
  /\ Passing(Supervisor) /\ ~request[Supervisor].ready => restoring
  /\ up /\ sup \in {"wait", "restore"} => restoring
  /\ job[Supervisor] = "restore" => sup = "restore"

IInv == Registers /\ Conns /\ Saves /\ Gate

(* What the members of Requests look like.                                  *)
LEMMA RequestShape ==
  /\ Ready \in Requests /\ Ready.ready = TRUE
  /\ \A m \in Requests : m.ready \in BOOLEAN
       /\ (~m.ready => m.key \in played /\ m.value \in Values
                         /\ m.restore \in BOOLEAN)
  /\ \A k \in played, v \in Values, r \in BOOLEAN :
       Set(k, v, r) \in Requests /\ Set(k, v, r).ready = FALSE
<1>1. Ready \in Requests /\ Ready.ready = TRUE
  BY DEF Requests, Ready
<1>2. ASSUME NEW k \in played, NEW v \in Values, NEW r \in BOOLEAN
      PROVE  /\ Set(k, v, r) \in Requests /\ Set(k, v, r).ready = FALSE
             /\ Set(k, v, r).key = k /\ Set(k, v, r).value = v
             /\ Set(k, v, r).restore = r
  <2>1. Set(k, v, r) \in Requests
    BY DEF Requests
  <2> QED
    BY <2>1 DEF Set
<1>3. ASSUME NEW m \in Requests
      PROVE  m.ready \in BOOLEAN
             /\ (~m.ready => m.key \in played /\ m.value \in Values
                               /\ m.restore \in BOOLEAN)
  <2>1. CASE m = Ready
    BY <1>1, <2>1
  <2>2. CASE m # Ready
    <3>1. PICK k \in played, v \in Values, r \in BOOLEAN : m = Set(k, v, r)
      BY <2>2 DEF Requests
    <3>2. m.ready = FALSE /\ m.key = k /\ m.value = v /\ m.restore = r
      BY <3>1 DEF Set
    <3> QED
      BY <3>2
  <2> QED
    BY <2>1, <2>2
<1> QED
  BY <1>1, <1>2, <1>3

(* An entry recorded into a set of entries, from an empty one on.           *)
LEMMA WithEntries ==
  ASSUME NEW f, Entries(f), NEW k \in played, NEW v \in Values
  PROVE  Entries(With(f, k, v)) /\ DOMAIN With(f, k, v) # {}
BY DEF Entries, With

LEMMA EmptyEntries == Entries(Empty)
BY DEF Entries, Empty

(* The three other parts are kept by a step that leaves their variables.    *)
LEMMA ConnsKept ==
  ASSUME Conns, UNCHANGED <<played, link>> PROVE Conns'
BY DEF Conns, link, Requests

LEMMA SavesKept ==
  ASSUME Saves, UNCHANGED <<played, file, helper, image, todo, job>>
  PROVE  Saves'
BY DEF Saves, Entries

LEMMA GateKept ==
  ASSUME Gate, UNCHANGED <<phase, request, up, restoring, sup, job>>
  PROVE  Gate'
BY DEF Gate, Passing

(* One connection that ends, or goes back to idle.                          *)
LEMMA Ends ==
  ASSUME Conns, Gate, NEW a \in Clients, phase[a] # "idle",
         NEW p \in {"idle", "ok", "err"}, phase' = [phase EXCEPT ![a] = p],
         UNCHANGED played,
         \/ UNCHANGED request
         \/ p = "idle" /\ request' = [request EXCEPT ![a] = Ready]
  PROVE  /\ phase' \in [Clients -> Phases] /\ request' \in [Clients -> Requests']
         /\ \A u \in Users : phase'[u] # "idle" => ~request'[u].ready
         /\ Passing(Supervisor)' => /\ Passing(Supervisor)
                                    /\ request'[Supervisor] = request[Supervisor]
                                    /\ a # Supervisor
<1>1. Users \subseteq Clients /\ Supervisor \in Clients /\ Requests' = Requests
  BY DEF Clients, Requests
<1>2. Conns /\ Ready \in Requests
  BY RequestShape
<1>3. phase' \in [Clients -> Phases] /\ request' \in [Clients -> Requests]
  BY <1>1, <1>2 DEF Conns, Phases
<1>4. \A u \in Users : phase'[u] # "idle" => ~request'[u].ready
  BY <1>1, <1>2 DEF Conns, Gate
<1> QED
  BY <1>1, <1>2, <1>3, <1>4 DEF Conns, Passing

(* One connection that is asked for.                                        *)
LEMMA Asks ==
  ASSUME Conns, Gate, NEW a \in Clients, NEW m \in Requests, Connect(a, m),
         UNCHANGED <<played, up, restoring, sup>>,
         m.ready => a = Supervisor /\ sup = "ready",
         ~m.ready /\ a = Supervisor => restoring,
         job'[Supervisor] = job[Supervisor]
  PROVE  Conns' /\ Gate'
<1>1. Users \subseteq Clients /\ Supervisor \in Clients /\ Requests' = Requests
      /\ Supervisor \notin Users
  BY Apart DEF Clients, Requests
<1>2. Conns'
  BY <1>1 DEF Conns, Connect, Phases
<1>3. \A u \in Users : phase'[u] # "idle" => ~request'[u].ready
  BY <1>1 DEF Conns, Gate, Connect
<1> QED
  BY <1>1, <1>2, <1>3 DEF Conns, Gate, Connect, Passing

-----------------------------------------------------------------------------
(* The initial states.                                                      *)
LEMMA InitInv == Init => IInv
<1> SUFFICES ASSUME Init PROVE IInv
  OBVIOUS
<1> USE DEF Init, ServerInit
<1>1. Registers
  <2>1. Shaped
    BY ControlAssumption
    DEF ControlAssumption, Shaped, Presets, Preset, Cells, Values, NoneAcked
  <2>2. KnobOK
    BY PlayedWord, <2>1 DEF KnobOK, Presets, Preset, Cells
  <2> QED
    BY <2>1, <2>2
    DEF Registers, CopyIsHardware, AuxOK, SettingsStand, GateOK
<1>2. Conns
  BY RequestShape DEF Conns, Phases
<1>3. Saves
  BY EmptyEntries DEF Saves
<1>4. Gate
  BY Apart DEF Gate, Passing, Clients
<1> QED
  BY <1>1, <1>2, <1>3, <1>4 DEF IInv

(* A new engine writes its preset; an engine that ends takes its            *)
(* connections with it.                                                     *)
LEMMA LaunchStep == IInv /\ Launch => IInv'
<1> SUFFICES ASSUME IInv, Launch PROVE IInv'
  OBVIOUS
<1> USE DEF Launch, start, applyStraightAnalogPlaybackRouting, state
<1>0. Registers /\ Conns /\ Saves /\ Gate /\ PlayedWords' = PlayedWords
  BY DEF IInv, PlayedWords
<1>1. Registers'
  <2>1. Shaped' /\ SettingsStand' /\ GateOK'
    BY <1>0 DEF Registers, Shaped, SettingsStand, GateOK, Presets, Preset,
      Cells, Values, NoneAcked
  <2>2. KnobOK'
    BY <1>0, PlayedWord DEF Registers, KnobOK, Presets, Preset, Cells
  <2>3. CopyIsHardware' /\ AuxOK'
    BY <1>0 DEF CopyIsHardware, AuxOK, Presets
  <2> QED
    BY <2>1, <2>2, <2>3 DEF Registers
<1>2. Conns'
  BY <1>0, ConnsKept
<1>3. Saves'
  BY <1>0, SavesKept
<1>4. Gate'
  BY <1>0 DEF Gate, Passing, link
<1> QED
  BY <1>1, <1>2, <1>3, <1>4 DEF IInv

LEMMA EngineEndsStep == IInv /\ EngineEnds => IInv'
<1> SUFFICES ASSUME IInv, EngineEnds PROVE IInv'
  OBVIOUS
<1> USE DEF EngineEnds, reset, state, programs
<1>0. Registers /\ Conns /\ Saves /\ Gate /\ PlayedWords' = PlayedWords
  BY DEF IInv, PlayedWords
<1>1. Registers'
  <2>1. Shaped'
    BY <1>0 DEF Registers, Shaped, Presets, Preset, Cells, Values
  <2>2. KnobOK'
    BY <1>0, PlayedWord DEF Registers, KnobOK, Presets, Preset, Cells
  <2> QED
    BY <2>1, <2>2
    DEF Registers, CopyIsHardware, AuxOK, SettingsStand, GateOK
<1>2. Conns'
  BY <1>0 DEF Conns, Phases, Requests
<1>3. Saves'
  BY <1>0, SavesKept
<1>4. Gate'
  BY <1>0 DEF Gate, Passing, Conns, Clients
<1> QED
  BY <1>1, <1>2, <1>3, <1>4 DEF IInv

-----------------------------------------------------------------------------
(* The server's own steps.                                                  *)
(* The client looked at is a client, and the queue stays one of clients.    *)
LEMMA NextClient ==
  ASSUME Conns, Client # None, NEW now \in Clients \cup {None}, Served(now)
  PROVE  /\ Client \in Clients
         /\ queue' \in Seq(Clients) /\ serving' \in Clients \cup {None}
<1>1. queue # <<>> \/ serving # None
  BY DEF Client
<1>2. queue # <<>> => Head(queue) \in Clients /\ Tail(queue) \in Seq(Clients)
  BY DEF Conns
<1>3. Client \in Clients
  BY <1>1, <1>2 DEF Client, Conns
<1>4. queue' \in Seq(Clients)
  BY <1>1, <1>2 DEF Served, Conns
<1> QED
  BY <1>3, <1>4 DEF Served

(* A silent client, one that hung up, and the knob's polls change no        *)
(* register.                                                                *)
LEMMA PolledStep ==
  ASSUME IInv, Wait \/ DropLost \/ Forget \/ Prime,
         UNCHANGED <<programs, state>>
  PROVE  IInv'
<1>0. Registers /\ Conns /\ Saves /\ Gate
  BY DEF IInv
<1>1. Registers'
  BY <1>0, RegistersKept DEF Wait, DropLost, Forget, Prime, engine, server
<1>2. Saves'
  BY <1>0, SavesKept
  DEF Wait, DropLost, Forget, Prime, engine, programs, state
<1>3. CASE Forget \/ Prime
  <2>1. Conns'
    BY <1>0, <1>3, ConnsKept DEF Forget, Prime, engine
  <2>2. Gate'
    BY <1>0, <1>3, GateKept DEF Forget, Prime, engine, link, programs, server
  <2> QED
    BY <1>1, <1>2, <2>1, <2>2 DEF IInv
<1>4. CASE Wait
  <2>1. Client # None /\ Served(Client)
    BY <1>4 DEF Wait
  <2>2. Client \in Clients
    <3>1. serving # None \/ (queue # <<>> /\ Client = Head(queue))
      BY <2>1 DEF Client
    <3> QED
      BY <1>0, <3>1 DEF Conns, Client
  <2>3. Conns'
    BY <1>0, <1>4, <2>1, <2>2, NextClient DEF Conns, Wait, engine, Requests
  <2>4. Gate'
    BY <1>0, <1>4, GateKept DEF Wait, engine, server, programs
  <2> QED
    BY <1>1, <1>2, <2>3, <2>4 DEF IInv
<1>5. CASE DropLost
  <2>1. Client # None /\ Served(None)
    BY <1>5 DEF DropLost
  <2>2. /\ Client \in Clients
        /\ queue' \in Seq(Clients) /\ serving' \in Clients \cup {None}
    BY <1>0, <2>1, NextClient
  <2>3. /\ phase[Client] = "lost" /\ phase' = [phase EXCEPT ![Client] = "idle"]
        /\ UNCHANGED <<played, up, request, restoring, sup, job>>
    BY <1>5 DEF DropLost, engine, server, programs
  <2>4. /\ phase' \in [Clients -> Phases]
        /\ request' \in [Clients -> Requests']
        /\ \A u \in Users : phase'[u] # "idle" => ~request'[u].ready
        /\ Passing(Supervisor)' =>
             /\ Passing(Supervisor)
             /\ request'[Supervisor] = request[Supervisor]
    BY <1>0, <2>2, <2>3, Ends
  <2>5. Conns'
    BY <2>2, <2>4 DEF Conns
  <2>6. Gate'
    BY <1>0, <2>3, <2>4 DEF Gate
  <2> QED
    BY <1>1, <1>2, <2>5, <2>6 DEF IInv
<1> QED
  BY <1>3, <1>4, <1>5

(* An answer ends the connection, or is lost with its client.               *)
LEMMA AnsweredAs ==
  ASSUME NEW a, NEW result, Answered(a, result)
  PROVE  \E p \in {"idle", result} : phase' = [phase EXCEPT ![a] = p]
BY DEF Answered

(* One request, handled whole.                                              *)
LEMMA ReceiveStep ==
  ASSUME IInv, Receive, UNCHANGED <<programs, state>>
  PROVE  IInv'
<1> DEFINE a == Client
           m == request[a]
<1>0. /\ Registers /\ Conns /\ Saves /\ Gate
      /\ up /\ Client # None /\ Served(None) /\ phase[a] \in {"sent", "orphan"}
      /\ UNCHANGED <<played, up, quad, request, sup, job>>
  BY DEF IInv, Receive, engine, programs
<1>1. a \in Clients /\ queue' \in Seq(Clients)
      /\ serving' \in Clients \cup {None}
  BY <1>0, NextClient
<1>2. m \in Requests /\ Passing(a)
      /\ (a # Supervisor => a \in Users /\ ~m.ready)
  BY <1>0, <1>1 DEF Conns, Gate, Clients, Passing
<1>3. PICK p \in {"idle", "ok", "err"} : phase' = [phase EXCEPT ![a] = p]
  BY <1>0, AnsweredAs
  DEF Receive, Refused, BecomesReady, Skipped, Performed
<1>4. /\ phase' \in [Clients -> Phases] /\ request' \in [Clients -> Requests']
      /\ \A u \in Users : phase'[u] # "idle" => ~request'[u].ready
      /\ Passing(Supervisor)' => /\ Passing(Supervisor) /\ a # Supervisor
                                 /\ request'[Supervisor] = request[Supervisor]
  BY <1>0, <1>1, <1>3, Ends
<1>5. Conns'
  BY <1>1, <1>4 DEF Conns
<1>6. Saves'
  BY <1>0, SavesKept DEF state, programs
<1>7. CASE Performed(a)
  <2>1. ~m.ready /\ ~Gated(m) /\ ~Unavailable(m) /\ UNCHANGED restoring
    BY <1>7 DEF Performed
  <2>2. m.key \in played /\ m.value \in Values /\ m.restore \in BOOLEAN
    BY <1>2, <2>1, RequestShape
  <2>3. HandlerOf[m.key.control].aux /\ quad => m.value # 1
    BY <2>1 DEF Unavailable, auxRoutingAvailable
  <2>4. a = Supervisor => restoring
    BY <1>0, <1>2, <2>1 DEF Gate
  <2>5. ~m.restore => ~restoring
    BY <2>1 DEF Gated
  <2>6. \/ Remembered(a, m) = acked /\ restoring
        \/ Remembered(a, m) = Acknowledged(m.key, m.value) /\ ~restoring
        \/ Remembered(a, m) = Acknowledged(m.key, Unset)
    BY <2>4, <2>5 DEF Remembered
  <2>7. Registers'
    <3> DEFINE w == WordOf(m.key)
               word == Changed(cache[w], m.key, m.value)
               u == Update(m.key, m.value)
    <3>1. /\ u.word = word /\ u.failed = cache
          /\ u.ok = IF u.same THEN cache ELSE [cache EXCEPT ![w] = word]
          /\ u.same => word = cache[w]
      BY DEF Update
    <3>2. \/ /\ IF u.same THEN UNCHANGED <<reg, current, doubt, faults>>
                ELSE WrittenOk(w, u.word)
             /\ cache' = u.ok /\ acked' = Remembered(a, m)
          \/ /\ NotWritten(w, u.word)
             /\ cache' = u.failed /\ UNCHANGED acked
      BY <1>7 DEF Performed
    <3>3. CASE NotWritten(w, word) /\ UNCHANGED <<cache, acked>>
      BY <1>0, <2>1, <2>2, <2>3, <3>3, SetStep
    <3>4. CASE /\ \/ WrittenOk(w, word) /\ cache' = [cache EXCEPT ![w] = word]
                  \/ word = cache[w] /\ UNCHANGED <<reg, current, doubt, cache>>
               /\ acked' = Remembered(a, m)
      BY <1>0, <2>1, <2>2, <2>3, <2>6, <3>4, SetStep
    <3> HIDE DEF w, word, u
    <3> QED
      BY <3>1, <3>2, <3>3, <3>4
  <2>8. Gate'
    BY <1>0, <1>4, <2>1 DEF Gate
  <2> QED
    BY <1>5, <1>6, <2>7, <2>8 DEF IInv
<1>8. CASE Refused(a) \/ Skipped(a)
  <2>1. UNCHANGED <<restoring, cache, reg, acked, current, doubt>>
    BY <1>8 DEF Refused, Skipped
  <2>2. Registers'
    BY <1>0, <2>1, RegistersKept
  <2>3. Gate'
    BY <1>0, <1>4, <2>1 DEF Gate
  <2> QED
    BY <1>5, <1>6, <2>2, <2>3 DEF IInv
<1>9. CASE BecomesReady(a)
  <2>1. /\ m.ready /\ restoring' = FALSE
        /\ UNCHANGED <<cache, reg, acked, current, doubt>>
    BY <1>9 DEF BecomesReady
  <2>2. a = Supervisor /\ sup = "ready"
    BY <1>0, <1>2, <2>1 DEF Gate
  <2>3. Registers'
    BY <1>0, <2>1 DEF Registers, Shaped, CopyIsHardware, AuxOK, KnobOK,
      SettingsStand, GateOK, PlayedWords
  <2>4. Gate'
    BY <1>0, <1>4, <2>1, <2>2 DEF Gate
  <2> QED
    BY <1>5, <1>6, <2>3, <2>4 DEF IInv
<1> QED
  BY <1>7, <1>8, <1>9 DEF Receive

(* A bus reset, and a turn of the headphone encoder.                        *)
LEMMA BusResetStep ==
  ASSUME IInv, BusReset, UNCHANGED <<programs, state>>
  PROVE  IInv'
<1>0. /\ Registers /\ Conns /\ Saves /\ Gate
      /\ UNCHANGED <<played, up, quad, restoring, cache, reg, acked, doubt>>
      /\ UNCHANGED link /\ current' = FALSE
  BY DEF IInv, BusReset, engine, server
<1>1. Registers'
  BY <1>0 DEF Registers, Shaped, CopyIsHardware, AuxOK, KnobOK, SettingsStand,
    GateOK, PlayedWords
<1>2. Conns' /\ Saves' /\ Gate'
  BY <1>0, ConnsKept, SavesKept, GateKept DEF link, state, programs
<1> QED
  BY <1>1, <1>2 DEF IInv

(* A turn sets the headphone gain as a whole.                               *)
LEMMA TurnedWord ==
  ASSUME Registers, KnobKey \in played, NEW step
  PROVE  /\ Turned(step)[1] \in Values
         /\ Turned(step) = Changed(cache[WordOf(KnobKey)], KnobKey,
                                   Turned(step)[1])
<1> DEFINE word == cache[WordOf(KnobKey)]
<1>1. word \in [Cells -> Values] /\ word[1] = word[2]
  BY PlayedWord DEF Registers, Shaped, KnobOK
<1>2. Turned(step) = rotaryGain(word, step)
  BY DEF Turned
<1> HIDE DEF word
<1>3. Turned(step) = [c \in Cells |-> Turned(step)[1]]
  BY <1>1, <1>2 DEF rotaryGain, Cells
<1>4. Turned(step)[1] \in Values
  BY <1>1, <1>2 DEF rotaryGain, Cells, Values, Lowest
<1>5. KnobKey.cell = 0
  BY DEF KnobKey, Key
<1> QED
  BY <1>3, <1>4, <1>5 DEF Changed

LEMMA TurnKnobStep == IInv /\ TurnKnob => IInv'
<1> SUFFICES ASSUME IInv, TurnKnob PROVE IInv'
  OBVIOUS
<1>0. Registers /\ Conns /\ Saves /\ Gate
  BY DEF IInv
<1>1. PICK step \in {"up", "down"} :
        /\ Turn(step)
        /\ IF cache' = cache THEN UNCHANGED <<helper, image>>
           ELSE saveHeadphoneVolume(Turned(step)[1])
  BY DEF TurnKnob
<1>2. /\ up /\ ~restoring /\ KnobKey \in played
      /\ UNCHANGED <<played, up, quad, restoring, link, programs, file>>
  BY <1>1 DEF Turn, TurnKnob, engine
<1>3. /\ Turned(step)[1] \in Values
      /\ Turned(step) = Changed(cache[WordOf(KnobKey)], KnobKey,
                                Turned(step)[1])
  BY <1>0, <1>2, TurnedWord
<1>4. Registers'
  <2> DEFINE w == WordOf(KnobKey)
             v == Turned(step)[1]
             word == Changed(cache[w], KnobKey, v)
  <2>1. ~HandlerOf[KnobKey.control].aux
    BY Surface DEF KnobKey, Key, handleHeadphoneOutputLevel, Handler
  <2>2. \/ /\ WrittenOk(w, word) /\ cache' = [cache EXCEPT ![w] = word]
           /\ acked' = Acknowledged(KnobKey, v)
        \/ NotWritten(w, word) /\ UNCHANGED <<cache, acked>>
    BY <1>1, <1>3 DEF Turn
  <2> QED
    BY <1>0, <1>2, <1>3, <2>1, <2>2, SetStep
<1>5. Conns' /\ Gate'
  BY <1>0, <1>2, ConnsKept, GateKept DEF link, programs
<1>6. Saves'
  <2>1. UNCHANGED <<helper, image>> \/ saveHeadphoneVolume(Turned(step)[1])
    BY <1>1
  <2>2. CASE UNCHANGED <<helper, image>>
    BY <1>0, <1>2, <2>2, SavesKept DEF programs
  <2>3. CASE saveHeadphoneVolume(Turned(step)[1])
    <3>1. Entries(With(Empty, KnobKey, Turned(step)[1]))
          /\ DOMAIN With(Empty, KnobKey, Turned(step)[1]) # {}
      BY <1>2, <1>3, EmptyEntries, WithEntries
    <3>2. UNCHANGED <<played, todo, job, file>>
      BY <1>2 DEF programs
    <3> QED
      BY <1>0, <2>3, <3>1, <3>2
      DEF Saves, saveHeadphoneVolume, Step, Entries, Recorders
  <2> QED
    BY <2>1, <2>2, <2>3
<1> QED
  BY <1>4, <1>5, <1>6 DEF IInv

-----------------------------------------------------------------------------
(* fw1814state.                                                             *)
LEMMA SaveStep ==
  ASSUME IInv, NEW a \in Recorders, Save(a) \/ KillHelper(a)
  PROVE  IInv'
<1>0. /\ Registers /\ Conns /\ Saves /\ Gate
      /\ Recorders \subseteq Users \cup {Knob} /\ Users \subseteq Clients
      /\ Supervisor \in Clients /\ Supervisor # a
  BY Apart DEF IInv, Recorders, Clients
<1>1. /\ UNCHANGED <<played, up, quad, current, restoring, reg, cache, doubt>>
      /\ UNCHANGED <<link, sup>> /\ acked' \in {acked, NoneAcked}
  BY DEF Save, loadState, Truncate, saveState, KillHelper, serverVars, engine,
    server, programs
<1>2. Registers'
  BY <1>0, <1>1, RegistersKept
<1>3. Conns'
  BY <1>0, <1>1, ConnsKept
<1>4. job'[Supervisor] = job[Supervisor]
  BY <1>0 DEF Saves, Save, loadState, Truncate, saveState, KillHelper,
    programs
<1>5. Gate'
  BY <1>0, <1>1, <1>4 DEF Gate, Passing, link
<1>6. Saves'
  <2>1. CASE loadState(a)
    <3> DEFINE k == CHOOSE j \in DOMAIN image[a] : TRUE
               f == With(file, k, image[a][k])
    <3>1. k \in played /\ image[a][k] \in Values
      BY <1>0, <2>1 DEF Saves, Entries, loadState
    <3>2. Entries(f)
      BY <1>0, <3>1, WithEntries DEF Saves
    <3>3. /\ helper' = [helper EXCEPT ![a] = "open"]
          /\ image' = [image EXCEPT ![a] = f]
          /\ UNCHANGED <<played, file, todo, job>>
      BY <2>1 DEF loadState, Step, Recorded, serverVars, engine, programs
    <3> HIDE DEF f
    <3> QED
      BY <1>0, <3>2, <3>3 DEF Saves, Entries
  <2>2. CASE Truncate(a)
    <3>1. /\ helper' = [helper EXCEPT ![a] = "write"] /\ file' = Empty
          /\ UNCHANGED <<played, image, todo, job>>
      BY <2>2 DEF Truncate, Step, serverVars, engine, programs
    <3> QED
      BY <1>0, <3>1, EmptyEntries DEF Saves, Entries
  <2>3. CASE saveState(a)
    <3>1. /\ helper' = [helper EXCEPT ![a] = "none"] /\ file' = image[a]
          /\ image' = [image EXCEPT ![a] = Empty]
          /\ UNCHANGED played
      BY <2>3 DEF saveState, Step, engine
    <3>2. \/ UNCHANGED <<job, todo>>
          \/ \E j \in {"reset", "none"} :
               /\ job' = [job EXCEPT ![a] = j]
               /\ todo' = [todo EXCEPT ![a] = IF job[a] = "reset" THEN image[a]
                                              ELSE @]
      <4>1. CASE a = Knob
        BY <2>3, <4>1 DEF saveState
      <4>2. CASE a # Knob
        <5>1. PICK j \in {"reset", "none"} : job' = [job EXCEPT ![a] = j]
          BY <2>3, <4>2 DEF saveState
        <5>2. todo' = [todo EXCEPT ![a] = IF job[a] = "reset" THEN image[a]
                                          ELSE @]
          BY <2>3, <4>2 DEF saveState
        <5> QED
          BY <5>1, <5>2
      <4> QED
        BY <4>1, <4>2
    <3> QED
      BY <1>0, <3>1, <3>2, EmptyEntries DEF Saves, Entries
  <2>4. CASE KillHelper(a)
    <3>1. /\ helper' = [helper EXCEPT ![a] = "none"]
          /\ image' = [image EXCEPT ![a] = Empty]
          /\ DOMAIN job' = DOMAIN job /\ UNCHANGED <<played, file, todo>>
      BY <1>0, <2>4 DEF KillHelper, Step, engine, Saves
    <3> QED
      BY <1>0, <3>1, EmptyEntries DEF Saves, Entries
  <2> QED
    BY <2>1, <2>2, <2>3, <2>4 DEF Save
<1> QED
  BY <1>2, <1>3, <1>5, <1>6 DEF IInv

(* A user starts a program.                                                 *)
LEMMA StartStep ==
  ASSUME IInv, NEW u \in Users, SetControl(u) \/ Clear(u) \/ Reset(u)
  PROVE  IInv'
<1>0. /\ Registers /\ Conns /\ Saves /\ Gate
      /\ u \in Recorders /\ u \in Clients /\ u # Supervisor
  BY Apart DEF IInv, Recorders, Clients
<1>1. CASE SetControl(u)
  <2>1. PICK k \in played, v \in Values : Connect(u, Set(k, v, FALSE))
    BY <1>1 DEF SetControl
  <2>2. /\ UNCHANGED <<engine, current, server, reg, acked, doubt, todo, sup,
                       state>>
        /\ \E j \in {"set"} : job' = [job EXCEPT ![u] = j]
    BY <1>1 DEF SetControl, Start
  <2>3. Set(k, v, FALSE) \in Requests /\ ~Set(k, v, FALSE).ready
    BY RequestShape
  <2>4. /\ job'[Supervisor] = job[Supervisor] /\ DOMAIN job' = DOMAIN job
    BY <1>0, <2>2 DEF Saves
  <2>5. Registers'
    BY <1>0, <2>2, RegistersKept DEF engine, server
  <2>6. Conns' /\ Gate'
    BY <1>0, <2>1, <2>2, <2>4, <2>3, Asks DEF engine, server
  <2>7. Saves'
    BY <1>0, <2>2, <2>4 DEF Saves, Entries, engine, state
  <2> QED
    BY <2>5, <2>6, <2>7 DEF IInv
<1>2. CASE Clear(u) \/ Reset(u)
  <2>1. PICK f \in {Empty, defaultState}, j \in {"clear", "reset"} :
          SaveNow(u, j, f)
    BY <1>2 DEF Clear, Reset
  <2>2. Entries(f)
    BY EmptyEntries DEF Entries, defaultState, Saved, Values
  <2>3. /\ helper' = [helper EXCEPT ![u] = "open"]
        /\ image' = [image EXCEPT ![u] = f]
        /\ job' = [job EXCEPT ![u] = j]
        /\ UNCHANGED <<serverVars, todo, sup, file>>
    BY <2>1 DEF SaveNow, Start, Step
  <2>4. Registers'
    BY <1>0, <2>3, RegistersKept DEF serverVars, engine, server
  <2>5. Conns'
    BY <1>0, <2>3, ConnsKept DEF serverVars, engine
  <2>6. Gate'
    BY <1>0, <2>3 DEF Saves, Gate, Passing, serverVars, engine, server, link
  <2>7. Saves'
    BY <1>0, <2>2, <2>3 DEF Saves, Entries, serverVars, engine
  <2> QED
    BY <2>4, <2>5, <2>6, <2>7 DEF IInv
<1> QED
  BY <1>1, <1>2

(* A set goes on, or its tool is killed.                                    *)
LEMMA SetOnStep ==
  ASSUME IInv, NEW u \in Users, Send(u) \/ SetAnswered(u) \/ KillTool(u)
  PROVE  IInv'
<1>0. /\ Registers /\ Conns /\ Saves /\ Gate
      /\ u \in Recorders /\ u \in Clients /\ u # Supervisor
      /\ Supervisor \in Clients
  BY Apart DEF IInv, Recorders, Clients
<1>1. /\ UNCHANGED <<played, up, quad, current, restoring, reg, cache, acked,
                     doubt, queue, serving, sup, todo, file>>
  BY DEF Send, SetAnswered, Settled, KillTool, engine, server, programs, state
<1>2. Registers'
  BY <1>0, <1>1, RegistersKept
<1>3. CASE Send(u)
  <2>1. /\ phase[u] = "open" /\ phase' = [phase EXCEPT ![u] = "sent"]
        /\ UNCHANGED <<request, helper, image, job>>
    BY <1>3 DEF Send, programs, state
  <2>2. Conns' /\ Gate'
    BY <1>0, <1>1, <2>1 DEF Conns, Gate, Passing, Phases, Requests
  <2>3. Saves'
    BY <1>0, <1>1, <2>1, SavesKept
  <2> QED
    BY <1>2, <2>2, <2>3 DEF IInv
<1>4. CASE KillTool(u)
  <2>1. /\ phase[u] # "idle" /\ UNCHANGED <<request, helper, image>>
        /\ \E p \in {"lost", "orphan", "idle"} :
             phase' = [phase EXCEPT ![u] = p]
        /\ job' = [job EXCEPT ![u] = "none"]
    BY <1>4 DEF KillTool, state
  <2>2. Conns' /\ Gate'
    BY <1>0, <1>1, <2>1 DEF Conns, Gate, Passing, Phases, Requests, Saves
  <2>3. Saves'
    BY <1>0, <1>1, <2>1 DEF Saves, Entries
  <2> QED
    BY <1>2, <2>2, <2>3 DEF IInv
<1>5. CASE SetAnswered(u)
  <2>1. /\ phase[u] \in {"ok", "err"} /\ phase' = [phase EXCEPT ![u] = "idle"]
        /\ request' = [request EXCEPT ![u] = Ready]
        /\ persistSuccessfulSet(u)
    BY <1>5 DEF SetAnswered, Settled
  <2>2. /\ request[u].key \in played /\ request[u].value \in Values
    BY <1>0, <2>1, RequestShape DEF Gate, Conns
  <2> DEFINE f == With(Empty, request[u].key, request[u].value)
  <2>3. Entries(f) /\ DOMAIN f # {}
    BY <2>2, EmptyEntries, WithEntries
  <2>4. \/ /\ helper' = [helper EXCEPT ![u] = "load"] /\ UNCHANGED job
           /\ image' = [image EXCEPT ![u] = f]
        \/ /\ job' = [job EXCEPT ![u] = "none"]
           /\ UNCHANGED <<helper, image>>
    BY <2>1 DEF persistSuccessfulSet, Step
  <2> HIDE DEF f
  <2>5. Saves'
    BY <1>0, <1>1, <2>3, <2>4 DEF Saves, Entries
  <2>6. Conns' /\ Gate'
    <3>1. /\ phase' \in [Clients -> Phases]
          /\ request' \in [Clients -> Requests']
          /\ \A w \in Users : phase'[w] # "idle" => ~request'[w].ready
          /\ Passing(Supervisor)' =>
               /\ Passing(Supervisor)
               /\ request'[Supervisor] = request[Supervisor]
      BY <1>0, <1>1, <2>1, Ends
    <3>2. job'[Supervisor] = job[Supervisor]
      BY <1>0, <2>4 DEF Saves
    <3> QED
      BY <1>0, <1>1, <3>1, <3>2 DEF Conns, Gate
  <2> QED
    BY <1>2, <2>5, <2>6 DEF IInv
<1> QED
  BY <1>3, <1>4, <1>5

-----------------------------------------------------------------------------
(* A replay, the user's or the supervisor's.                                *)
LEMMA ReplayStep ==
  ASSUME IInv, NEW a \in Clients, Replay(a)
  PROVE  IInv'
<1>0. /\ Registers /\ Conns /\ Saves /\ Gate /\ Supervisor \in Clients
      /\ (a # Supervisor => a \in Users)
      /\ UNCHANGED <<played, up, quad, current, restoring, reg, cache, acked,
                     doubt, file, helper, image>>
  BY DEF IInv, Clients, Replay, RestoreEntry, EntryAnswered, Restored,
    serverVars, engine, server, state
<1>1. Registers'
  BY <1>0, RegistersKept
<1>2. a = Supervisor => sup = "restore"
  BY <1>0, Apart DEF Replay, RestoreEntry, EntryAnswered, Restored, Replaying,
    Gate
<1>3. ASSUME NEW k, todo' = [todo EXCEPT ![a] = Remaining(a, k)],
             UNCHANGED job
      PROVE  Saves'
  <2>1. Entries(Remaining(a, k))
    BY <1>0 DEF Saves, Entries, Remaining
  <2> QED
    BY <1>0, <1>3, <2>1 DEF Saves, Entries
<1>4. CASE RestoreEntry(a)
  <2>1. PICK k \in DOMAIN todo[a] :
          IF up THEN Connect(a, Set(k, todo[a][k], TRUE)) /\ UNCHANGED todo
          ELSE /\ todo' = [todo EXCEPT ![a] = Remaining(a, k)]
               /\ UNCHANGED link
    BY <1>4 DEF RestoreEntry
  <2>2. UNCHANGED <<job, sup>>
    BY <1>4 DEF RestoreEntry
  <2>3. CASE up
    <3>1. k \in played /\ todo[a][k] \in Values
      BY <1>0 DEF Saves, Entries
    <3>2. /\ Set(k, todo[a][k], TRUE) \in Requests
          /\ ~Set(k, todo[a][k], TRUE).ready
      BY <3>1, RequestShape
    <3>3. a = Supervisor => restoring
      BY <1>0, <1>2, <2>3 DEF Gate
    <3>4. Conns' /\ Gate'
      BY <1>0, <2>1, <2>2, <2>3, <3>2, <3>3, Asks
    <3>5. Saves'
      BY <1>0, <2>1, <2>2, <2>3, SavesKept
    <3> QED
      BY <1>1, <3>4, <3>5 DEF IInv
  <2>4. CASE ~up
    <3>1. Conns' /\ Gate'
      BY <1>0, <2>1, <2>2, <2>4, ConnsKept, GateKept DEF link
    <3>2. Saves'
      BY <1>3, <2>1, <2>2, <2>4
    <3> QED
      BY <1>1, <3>1, <3>2 DEF IInv
  <2> QED
    BY <2>3, <2>4
<1>5. CASE EntryAnswered(a)
  <2>1. /\ phase[a] \in {"ok", "err"} /\ phase' = [phase EXCEPT ![a] = "idle"]
        /\ request' = [request EXCEPT ![a] = Ready]
        /\ todo' = [todo EXCEPT ![a] = Remaining(a, request[a].key)]
        /\ UNCHANGED <<queue, serving, job, sup>>
    BY <1>5 DEF EntryAnswered
  <2>2. /\ phase' \in [Clients -> Phases]
        /\ request' \in [Clients -> Requests']
        /\ \A u \in Users : phase'[u] # "idle" => ~request'[u].ready
        /\ Passing(Supervisor)' => /\ Passing(Supervisor)
                                   /\ request'[Supervisor] = request[Supervisor]
    BY <1>0, <2>1, Ends
  <2>3. Conns' /\ Gate'
    BY <1>0, <2>1, <2>2 DEF Conns, Gate
  <2>4. Saves'
    BY <1>3, <2>1
  <2> QED
    BY <1>1, <2>3, <2>4 DEF IInv
<1>6. CASE Restored(a)
  <2>1. /\ phase[a] = "idle" /\ job' = [job EXCEPT ![a] = "none"]
        /\ sup' = IF a = Supervisor THEN "ready" ELSE sup
        /\ UNCHANGED <<link, todo>>
    BY <1>6 DEF Restored, serverVars
  <2>2. Conns'
    BY <1>0, <2>1, ConnsKept
  <2>3. Gate'
    BY <1>0, <2>1 DEF Gate, Passing, link, Saves
  <2>4. Saves'
    BY <1>0, <2>1 DEF Saves, Entries
  <2> QED
    BY <1>1, <2>2, <2>3, <2>4 DEF IInv
<1> QED
  BY <1>4, <1>5, <1>6 DEF Replay

(* The supervisor's other steps.                                            *)
LEMMA SupervisorStep ==
  ASSUME IInv, restoreControlState \/ internalReady \/ ReadyAnswered
  PROVE  IInv'
<1>0. /\ Registers /\ Conns /\ Saves /\ Gate /\ Supervisor \in Clients
      /\ UNCHANGED <<played, up, quad, current, restoring, reg, cache, acked,
                     doubt, file, helper, image>>
  BY DEF IInv, Clients, restoreControlState, internalReady, ReadyAnswered,
    serverVars, engine, server, state
<1>1. Registers'
  BY <1>0, RegistersKept
<1>2. CASE restoreControlState
  <2>1. /\ sup = "wait" /\ up /\ sup' = "restore" /\ UNCHANGED link
        /\ job' = [job EXCEPT ![Supervisor] = "restore"]
        /\ todo' = [todo EXCEPT ![Supervisor] = file]
    BY <1>2 DEF restoreControlState, serverVars
  <2>2. Conns'
    BY <1>0, <2>1, ConnsKept
  <2>3. Gate'
    BY <1>0, <2>1 DEF Gate, Passing, link
  <2>4. Saves'
    BY <1>0, <2>1 DEF Saves, Entries
  <2> QED
    BY <1>1, <2>2, <2>3, <2>4 DEF IInv
<1>3. CASE internalReady
  <2>1. /\ sup = "ready" /\ UNCHANGED <<job, todo>>
        /\ IF up THEN Connect(Supervisor, Ready) /\ UNCHANGED sup
           ELSE sup' = "watch" /\ UNCHANGED link
        /\ phase[Supervisor] = "idle"
    BY <1>3 DEF internalReady
  <2>2. Saves'
    BY <1>0, <2>1, SavesKept
  <2>3. Conns' /\ Gate'
    <3>1. CASE up
      BY <1>0, <2>1, <3>1, RequestShape, Asks
    <3>2. CASE ~up
      <4>1. Conns'
        BY <1>0, <2>1, <3>2, ConnsKept
      <4>2. Gate'
        BY <1>0, <2>1, <3>2 DEF Gate, Passing, link
      <4> QED
        BY <4>1, <4>2
    <3> QED
      BY <3>1, <3>2
  <2> QED
    BY <1>1, <2>2, <2>3 DEF IInv
<1>4. CASE ReadyAnswered
  <2>1. /\ sup = "ready" /\ phase[Supervisor] \in {"ok", "err"}
        /\ phase' = [phase EXCEPT ![Supervisor] = "idle"] /\ sup' = "watch"
        /\ UNCHANGED <<queue, serving, request, job, todo>>
    BY <1>4 DEF ReadyAnswered
  <2>2. /\ phase' \in [Clients -> Phases]
        /\ request' \in [Clients -> Requests']
        /\ \A u \in Users : phase'[u] # "idle" => ~request'[u].ready
        /\ ~Passing(Supervisor)'
    BY <1>0, <2>1, Ends
  <2>3. Conns' /\ Gate'
    BY <1>0, <2>1, <2>2 DEF Conns, Gate
  <2>4. Saves'
    BY <1>0, <2>1, SavesKept
  <2> QED
    BY <1>1, <2>3, <2>4 DEF IInv
<1> QED
  BY <1>2, <1>3, <1>4

(* Every step preserves the inductive invariant.                            *)
LEMMA InvStep == IInv /\ [Next]_vars => IInv'
<1> SUFFICES ASSUME IInv, [Next]_vars PROVE IInv'
  OBVIOUS
<1>1. CASE UNCHANGED vars
  <2>1. UNCHANGED <<played, up, quad, current, restoring, reg, cache, acked,
                    doubt, phase, request, queue, serving, sup, job, todo,
                    file, helper, image>>
    BY <1>1 DEF vars, serverVars, engine, server, link, programs, state
  <2> QED
    BY <2>1, RegistersKept, ConnsKept, SavesKept, GateKept DEF IInv, link
<1>2. CASE Launch
  BY <1>2, LaunchStep
<1>3. CASE EngineEnds
  BY <1>3, EngineEndsStep
<1>4. CASE Supervise
  BY <1>4, ReplayStep, SupervisorStep DEF Supervise, Clients
<1>5. CASE BusReset /\ UNCHANGED <<programs, state, excused, jobs, launches>>
  BY <1>5, BusResetStep
<1>6. CASE Serve
  BY <1>6, PolledStep, ReceiveStep DEF Serve, Polled
<1>7. CASE PollOnly
  BY <1>7, PolledStep DEF PollOnly, Polled
<1>8. CASE TurnKnob
  BY <1>8, TurnKnobStep
<1>9. ASSUME NEW u \in Users,
             SetControl(u) \/ Clear(u) \/ Reset(u) \/ Tooling(u) \/ KillTool(u)
      PROVE  IInv'
  <2>1. u \in Clients /\ u \in Recorders
    BY DEF Clients, Recorders
  <2> QED
    BY <1>9, <2>1, StartStep, SetOnStep, ReplayStep, SaveStep DEF Tooling
<1>10. CASE Save(Knob)
  BY <1>10, SaveStep DEF Recorders
<1>11. ASSUME NEW a \in Users \cup {Knob}, KillHelper(a) PROVE IInv'
  BY <1>11, SaveStep DEF Recorders
<1> QED
  BY <1>1, <1>2, <1>3, <1>4, <1>5, <1>6, <1>7, <1>8, <1>9, <1>10, <1>11
  DEF Next

-----------------------------------------------------------------------------
(* IInv holds in every reachable state: no reordering of clients, kills,    *)
(* bus resets, failed writes and engine changes breaks it.                  *)
THEOREM Invariance == Spec => []IInv
<1> QED
  BY InitInv, InvStep, PTL DEF Spec

(* The server's copy of the write-only mixer registers is what the device   *)
(* holds, as long as the generation stands and no performed write was       *)
(* reported as failed: for any users, keys and bounds.                      *)
THEOREM CopyIsHardwareAlways == Spec => []CopyIsHardware
<1>1. IInv => CopyIsHardware
  BY DEF IInv, Registers
<1> QED
  BY <1>1, Invariance, PTL

(* No output listens to the AUX bus at a quad rate.                         *)
THEOREM NoAuxAtQuadRateAlways == Spec => []NoAuxAtQuadRate
<1>1. IInv => NoAuxAtQuadRate
  BY DEF IInv, Registers, AuxOK, NoAuxAtQuadRate
<1> QED
  BY <1>1, Invariance, PTL

(* A setting acknowledged to a user is in the registers until a user        *)
(* changes it: no replay of the supervisor overwrites it.                   *)
THEOREM SettingsStandAlways == Spec => []SettingsStand
<1>1. IInv => SettingsStand
  BY DEF IInv, Registers
<1> QED
  BY <1>1, Invariance, PTL

-----------------------------------------------------------------------------
(***************************************************************************)
(* The saved and the live state.                                            *)
(***************************************************************************)
(* What fw1814state keeps: one control of each word, so two kept entries    *)
(* never name the same cell.                                                *)
LEMMA KeptControls ==
  \A c, d \in Controls :
    /\ HandlerOf[c].word = HandlerOf[d].word /\ c # d
    => ~ToolOf(c).kept \/ ~ToolOf(d).kept
<1> USE DEF handleMixer, handleInputMixer, handleOutput, handleHeadphone,
        handleInputMonitorLevel, handleInputMonitorChannelLevel,
        handleInputMonitorPan, handleSoftwareReturnLevel,
        handleAnalogOutputLevel, handleHeadphoneOutputLevel,
        handleAuxSoftwareReturnLevel, handleAuxAnalogInputLevel,
        handleAuxOutputLevel, Handler
<1>1. \A c, d \in Controls :
        HandlerOf[c].word = HandlerOf[d].word /\ c # d =>
          c = "inputChannelLevel" \/ d = "inputChannelLevel"
  BY Surface
<1>2. \A t \in Tools : "inputChannelLevel" \in t.controls =>
                         t = inputMonitorChannelLevelCommand
  BY DEF Tools, Tool, mixerRouteCommand, inputMixerRouteCommand,
    outputSourceCommand, headphoneSourceCommand, inputMonitorLevelCommand,
    inputMonitorChannelLevelCommand, inputMonitorPanCommand,
    softwareReturnLevelCommand, outputVolumeCommand, headphoneVolumeCommand,
    auxSendLevelCommand, auxOutputVolumeCommand
<1>3. /\ inputMonitorChannelLevelCommand \in Tools
      /\ "inputChannelLevel" \in inputMonitorChannelLevelCommand.controls
      /\ ~inputMonitorChannelLevelCommand.kept
  BY DEF Tools, Tool, inputMonitorChannelLevelCommand
<1>4. ToolOf("inputChannelLevel") = inputMonitorChannelLevelCommand
  BY <1>2, <1>3 DEF ToolOf
<1> QED
  BY <1>1, <1>3, <1>4

LEMMA KeptApart ==
  ASSUME Shaped, NEW j \in Saved, NEW k \in Saved, j # k
  PROVE  ~Shares(j, k)
<1>1. /\ j \in Keys /\ ToolOf(j.control).kept /\ j.control \in Controls
      /\ k \in Keys /\ ToolOf(k.control).kept /\ k.control \in Controls
  BY KeyShape DEF Saved, validStoredCommand
<1>2. CASE WordOf(j) = WordOf(k)
  <2>1. j.control = k.control
    BY <1>1, <1>2, KeptControls DEF WordOf
  <2> DEFINE cells == IF ToolOf(j.control).unit = "cell" THEN Cells ELSE {0}
  <2>2. /\ j.cell \in cells /\ j = Key(j.control, j.cell)
        /\ k.cell \in cells /\ k = Key(k.control, k.cell)
    BY <1>1, <2>1 DEF Keys, Key
  <2>3. j.cell # k.cell
    BY <2>1, <2>2
  <2> QED
    BY <2>2, <2>3 DEF Shares, Cells
<1> QED
  BY <1>2 DEF Shares

(* A word that is written shows the setting, and every setting of other     *)
(* cells that was shown before.                                             *)
LEMMA SettingTakes ==
  ASSUME Shaped, NEW k \in played, NEW v \in Values,
         reg' = [reg EXCEPT ![WordOf(k)] = Changed(reg[WordOf(k)], k, v)]
  PROVE  /\ HasValue(reg'[WordOf(k)], k, v)
         /\ \A j \in played, x \in Values :
              ~Shares(j, k) /\ HasValue(reg[WordOf(j)], j, x) =>
                HasValue(reg'[WordOf(j)], j, x)
<1>1. /\ WordOf(k) \in PlayedWords /\ k.cell \in {0, 1, 2}
      /\ reg[WordOf(k)] \in [Cells -> Values]
  BY PlayedWord DEF Shaped
<1>2. HasValue(reg'[WordOf(k)], k, v)
  BY <1>1, ChangedWord DEF Shaped
<1>3. ASSUME NEW j \in played, NEW x \in Values, ~Shares(j, k),
             HasValue(reg[WordOf(j)], j, x)
      PROVE  HasValue(reg'[WordOf(j)], j, x)
  <2>1. WordOf(j) \in PlayedWords /\ j.cell \in {0, 1, 2}
    BY PlayedWord
  <2>2. CASE WordOf(j) # WordOf(k)
    BY <1>1, <1>3, <2>1, <2>2 DEF Shaped
  <2>3. CASE WordOf(j) = WordOf(k)
    <3>1. k.cell # j.cell /\ k.cell # 0 /\ j.cell # 0
      BY <1>3, <2>3 DEF Shares
    <3>2. reg'[WordOf(j)] = Changed(reg[WordOf(k)], k, v)
      BY <1>1, <2>3 DEF Shaped
    <3>3. reg'[WordOf(j)][j.cell] = reg[WordOf(j)][j.cell]
      BY <1>1, <2>1, <2>3, <3>1, <3>2, ChangedWord DEF Cells
    <3> QED
      BY <1>3, <3>1, <3>3 DEF HasValue
  <2> QED
    BY <2>2, <2>3
<1> QED
  BY <1>2, <1>3

-----------------------------------------------------------------------------
(* The queue of connections: who joins it and who leaves it.                *)
LEMMA Joins ==
  ASSUME NEW S, NEW q \in Seq(S), IsInjective(q), NEW a \in S, a \notin ToSet(q)
  PROVE  /\ IsInjective(Append(q, a))
         /\ \A b : b \in ToSet(Append(q, a)) <=> b = a \/ b \in ToSet(q)
<1>1. /\ Len(Append(q, a)) = Len(q) + 1 /\ Len(q) \in Nat
      /\ DOMAIN Append(q, a) = 1 .. Len(q) + 1 /\ DOMAIN q = 1 .. Len(q)
      /\ \A i \in 1 .. Len(q) : Append(q, a)[i] = q[i]
      /\ Append(q, a)[Len(q) + 1] = a
  OBVIOUS
<1>2. \A i \in 1 .. Len(q) : q[i] # a
  BY <1>1 DEF ToSet
<1>3. IsInjective(Append(q, a))
  BY <1>1, <1>2 DEF IsInjective
<1>4. ASSUME NEW b
      PROVE  b \in ToSet(Append(q, a)) <=> b = a \/ b \in ToSet(q)
  BY <1>1 DEF ToSet
<1> QED
  BY <1>3, <1>4

LEMMA Leaves ==
  ASSUME NEW S, NEW q \in Seq(S), IsInjective(q), q # <<>>
  PROVE  /\ IsInjective(Tail(q)) /\ Head(q) \in ToSet(q)
         /\ \A b : b \in ToSet(Tail(q)) <=> b # Head(q) /\ b \in ToSet(q)
<1>1. /\ Len(q) \in Nat \ {0} /\ Len(Tail(q)) = Len(q) - 1
      /\ DOMAIN Tail(q) = 1 .. Len(q) - 1 /\ DOMAIN q = 1 .. Len(q)
      /\ \A i \in 1 .. Len(q) - 1 : Tail(q)[i] = q[i + 1]
      /\ Head(q) = q[1]
  OBVIOUS
<1>2. \A i, j \in 1 .. Len(q) : q[i] = q[j] => i = j
  BY <1>1 DEF IsInjective
<1>3. IsInjective(Tail(q))
  <2> SUFFICES ASSUME NEW i \in 1 .. Len(q) - 1, NEW j \in 1 .. Len(q) - 1,
                      Tail(q)[i] = Tail(q)[j]
               PROVE  i = j
    BY <1>1 DEF IsInjective
  <2>1. i + 1 \in 1 .. Len(q) /\ j + 1 \in 1 .. Len(q)
    BY <1>1
  <2>2. q[i + 1] = q[j + 1]
    BY <1>1
  <2> QED
    BY <1>2, <2>1, <2>2
<1>4. ASSUME NEW b
      PROVE  b \in ToSet(Tail(q)) <=> b # Head(q) /\ b \in ToSet(q)
  <2>1. ASSUME b \in ToSet(Tail(q)) PROVE b # Head(q) /\ b \in ToSet(q)
    <3>1. PICK i \in 1 .. Len(q) - 1 : b = q[i + 1]
      BY <1>1, <2>1 DEF ToSet
    <3>2. i + 1 \in 1 .. Len(q) /\ 1 \in 1 .. Len(q) /\ i + 1 # 1
      BY <1>1
    <3> QED
      BY <1>1, <1>2, <3>1, <3>2 DEF ToSet
  <2>2. ASSUME b # Head(q), b \in ToSet(q) PROVE b \in ToSet(Tail(q))
    <3>1. PICK i \in 1 .. Len(q) : b = q[i]
      BY <1>1, <2>2 DEF ToSet
    <3>2. i - 1 \in 1 .. Len(q) - 1 /\ Tail(q)[i - 1] = q[(i - 1) + 1]
      BY <1>1, <2>2, <3>1
    <3>3. (i - 1) + 1 = i
      OBVIOUS
    <3> QED
      BY <1>1, <3>1, <3>2, <3>3 DEF ToSet
  <2> QED
    BY <2>1, <2>2
<1>5. Head(q) \in ToSet(q)
  BY <1>1 DEF ToSet
<1> QED
  BY <1>3, <1>4, <1>5

-----------------------------------------------------------------------------
(* The simple types, and the bounds.                                        *)
Typed ==
  /\ played \in InPlay
  /\ up \in BOOLEAN /\ quad \in BOOLEAN /\ restoring \in BOOLEAN
  /\ primed \in BOOLEAN /\ excused \in BOOLEAN
  /\ acked \in [played -> 0 .. Unset]
  /\ faults \in 0 .. MaxFaults /\ jobs \in 0 .. MaxJobs
  /\ launches \in 0 .. MaxLaunches

(* A client waits, or is served, exactly once while its connection is open. *)
Line ==
  /\ IsInjective(queue) /\ serving \notin ToSet(queue)
  /\ \A a \in Clients : a = serving \/ a \in ToSet(queue)
                          <=> phase[a] \in {"open", "sent", "lost", "orphan"}

(* Only what is kept is saved, rewritten or replayed; a record starts from  *)
(* the one entry it is to add.                                              *)
Files ==
  /\ DOMAIN file \subseteq Saved
  /\ \A a \in Clients : DOMAIN todo[a] \subseteq Saved
  /\ \A a \in Recorders :
       /\ DOMAIN image[a] \subseteq Saved
       /\ helper[a] = "load" =>
            \E k \in Saved, v \in Values : image[a] = With(Empty, k, v)

(* Where a program is, seen from its connection and from its helper.        *)
UserAt(u) ==
  /\ job[u] # "restore"
  /\ job[u] = "none" => helper[u] = "none"
                          /\ phase[u] \in {"idle", "lost", "orphan"}
  /\ job[u] = "set" => (helper[u] = "none" <=> phase[u] # "idle")
  /\ job[u] = "set" /\ phase[u] # "idle" => ~request[u].restore
  /\ job[u] = "clear" => helper[u] # "none" /\ image[u] = Empty
  /\ helper[u] = "load" => job[u] = "set"
  /\ helper[u] # "none" => phase[u] = "idle"
  /\ phase[u] \in {"lost", "orphan"} => excused /\ job[u] = "none"

SupervisorAt ==
  /\ sup \in {"launch", "wait", "restore", "ready", "watch"}
  /\ sup = "launch" => ~up
  /\ job[Supervisor] = IF sup = "restore" THEN "restore" ELSE "none"
  /\ sup \in {"launch", "wait", "watch"} => phase[Supervisor] = "idle"
  /\ phase[Supervisor] \notin {"lost", "orphan"}
  /\ sup = "ready" /\ phase[Supervisor] # "idle" => request[Supervisor].ready

Tasks ==
  /\ job \in [Clients -> Jobs] /\ helper \in [Recorders -> Helpers]
  /\ SupervisorAt /\ \A u \in Users : UserAt(u)

(* What every step is: one of these actions, and whose.                     *)
LEMMA Moves ==
  ASSUME [Next]_vars
  PROVE  \/ UNCHANGED vars \/ Launch \/ EngineEnds
         \/ restoreControlState \/ internalReady \/ ReadyAnswered
         \/ \E a \in Clients : RestoreEntry(a) \/ EntryAnswered(a)
                                 \/ Restored(a)
         \/ BusReset /\ UNCHANGED <<programs, state, excused, jobs, launches>>
         \/ (Wait \/ Receive \/ DropLost \/ Forget \/ Prime)
              /\ helper[Knob] = "none" /\ Polled
         \/ TurnKnob
         \/ \E u \in Users : \/ SetControl(u) \/ Clear(u) \/ Reset(u)
                             \/ Send(u) \/ SetAnswered(u) \/ KillTool(u)
         \/ \E a \in Recorders : \/ loadState(a) /\ Excuse
                                 \/ Truncate(a) /\ Excuse
                                 \/ saveState(a) /\ Excuse
                                 \/ KillHelper(a)
<1>1. Users \subseteq Clients /\ Users \subseteq Recorders
      /\ Supervisor \in Clients /\ Knob \in Recorders
  BY DEF Clients, Recorders
<1>2. ASSUME Supervise
      PROVE  \/ restoreControlState \/ internalReady \/ ReadyAnswered
             \/ \E a \in Clients : RestoreEntry(a) \/ EntryAnswered(a)
                                     \/ Restored(a)
  BY <1>1, <1>2 DEF Supervise, Replay
<1>3. ASSUME Serve \/ PollOnly
      PROVE  (Wait \/ Receive \/ DropLost \/ Forget \/ Prime)
               /\ helper[Knob] = "none" /\ Polled
  BY <1>3 DEF Serve, PollOnly
<1>4. ASSUME NEW a \in Recorders, Save(a)
      PROVE  \E b \in Recorders : \/ loadState(b) /\ Excuse
                                  \/ Truncate(b) /\ Excuse
                                  \/ saveState(b) /\ Excuse
                                  \/ KillHelper(b)
  BY <1>4 DEF Save
<1>5. ASSUME NEW u \in Users, Tooling(u)
      PROVE  \/ Send(u) \/ SetAnswered(u) \/ Save(u)
             \/ \E a \in Clients : RestoreEntry(a) \/ EntryAnswered(a)
                                     \/ Restored(a)
  BY <1>1, <1>5 DEF Tooling, Replay
<1>6. ASSUME NEW a \in Users \cup {Knob}, KillHelper(a)
      PROVE  \E b \in Recorders : KillHelper(b)
  BY <1>6 DEF Recorders
<1> HIDE DEF Polled
<1> QED
  BY <1>1, <1>2, <1>3, <1>4, <1>5, <1>6 DEF Next

(* What a session acknowledged keeps its type.                              *)
LEMMA AckedStep ==
  ASSUME IInv, acked \in [played -> 0 .. Unset], [Next]_vars
  PROVE  played' = played /\ acked' \in [played -> 0 .. Unset]
<1>0. /\ Registers /\ Conns /\ Gate
      /\ \A v \in Values : v \in 0 .. Unset
      /\ Unset \in 0 .. Unset
  BY DEF IInv, Unset, Lowest, Values
<1>1. NoneAcked \in [played -> 0 .. Unset]
  BY <1>0 DEF NoneAcked
<1>2. \A k, v : v \in 0 .. Unset => Acknowledged(k, v) \in [played -> 0 .. Unset]
  BY <1>0 DEF Acknowledged
<1>3. CASE Receive
  <2> DEFINE m == request[Client]
  <2>1. UNCHANGED played /\ Client # None /\ Served(None)
    BY <1>3 DEF Receive, engine
  <2>2. Client \in Clients
    BY <1>0, <2>1, NextClient
  <2>3. m \in Requests
    BY <1>0, <2>2 DEF Conns
  <2>4. UNCHANGED acked \/ (~m.ready /\ acked' = Remembered(Client, m))
    BY <1>3 DEF Receive, Refused, BecomesReady, Skipped, Performed
  <2>5. ~m.ready => m.value \in Values
    BY <2>3, RequestShape
  <2> QED
    BY <1>0, <1>2, <2>1, <2>4, <2>5 DEF Remembered
<1>4. CASE TurnKnob
  <2>1. PICK step \in {"up", "down"} : Turn(step)
    BY <1>4 DEF TurnKnob
  <2>2. /\ KnobKey \in played /\ UNCHANGED played
        /\ acked' \in {acked, Acknowledged(KnobKey, Turned(step)[1])}
    BY <2>1 DEF Turn, engine
  <2>3. Turned(step)[1] \in Values
    BY <1>0, <2>2, TurnedWord
  <2> QED
    BY <1>0, <1>2, <2>2, <2>3
<1>5. \/ UNCHANGED <<played, acked>>
      \/ UNCHANGED played /\ acked' = NoneAcked
      \/ Receive \/ TurnKnob
  BY Moves DEF vars, serverVars, engine, Launch, start, EngineEnds, reset,
    restoreControlState, internalReady, ReadyAnswered, RestoreEntry,
    EntryAnswered, Restored, BusReset, Wait, DropLost, Forget, Prime,
    SetControl, Clear, Reset, SaveNow, Send, SetAnswered, Settled, KillTool,
    loadState, Truncate, saveState, KillHelper
<1> QED
  BY <1>1, <1>3, <1>4, <1>5

(* The simple types and the bounds.                                         *)
LEMMA TypedStep ==
  ASSUME IInv, Typed, [Next]_vars
  PROVE  Typed'
<1>1. played' = played /\ acked' \in [played -> 0 .. Unset]
  BY AckedStep DEF Typed
<1>2. excused' \in BOOLEAN
  BY Moves DEF Typed, vars, Polled, Excuse, Launch, EngineEnds,
    restoreControlState, internalReady, ReadyAnswered, RestoreEntry,
    EntryAnswered, Restored, TurnKnob, SetControl, Clear, Reset, SaveNow, Send,
    SetAnswered, persistSuccessfulSet, KillTool, KillHelper
<1>3. faults' = faults \/ (faults < MaxFaults /\ faults' = faults + 1)
  BY Moves DEF vars, serverVars, Launch, start, EngineEnds, reset,
    restoreControlState, internalReady, ReadyAnswered, RestoreEntry,
    EntryAnswered, Restored, BusReset, Wait, Receive, Refused, BecomesReady,
    Skipped, Performed, WrittenOk, NotWritten, DropLost, Forget, Prime,
    TurnKnob, Turn, SetControl, Clear, Reset, SaveNow, Send, SetAnswered,
    Settled, KillTool, loadState, Truncate, saveState, KillHelper
<1>4. jobs' = jobs \/ (jobs < MaxJobs /\ jobs' = jobs + 1)
  BY Moves DEF vars, Launch, EngineEnds, restoreControlState, internalReady,
    ReadyAnswered, RestoreEntry, EntryAnswered, Restored, Polled, TurnKnob,
    SetControl, Clear, Reset, SaveNow, Start, Send, SetAnswered, Settled,
    KillTool, loadState, Truncate, saveState, KillHelper
<1>5. \/ launches' = launches
      \/ launches < MaxLaunches /\ launches' = launches + 1
  BY Moves DEF vars, Launch, EngineEnds, restoreControlState, internalReady,
    ReadyAnswered, RestoreEntry, EntryAnswered, Restored, Polled, TurnKnob,
    SetControl, Clear, Reset, SaveNow, Send, SetAnswered, Settled,
    KillTool, loadState, Truncate, saveState, KillHelper
<1>6. /\ up' \in {up, TRUE, FALSE} /\ quad' \in {quad, TRUE, FALSE}
      /\ restoring' \in {restoring, TRUE, FALSE}
      /\ primed' \in {primed, TRUE, FALSE}
  BY Moves DEF vars, serverVars, engine, server, Launch, start, Rates,
    EngineEnds, reset, restoreControlState, internalReady, ReadyAnswered,
    RestoreEntry, EntryAnswered, Restored, BusReset, Wait, Receive, Refused,
    BecomesReady, Skipped, Performed, DropLost, Forget, Prime, TurnKnob, Turn,
    SetControl, Clear, Reset, SaveNow, Send, SetAnswered, Settled, KillTool,
    loadState, Truncate, saveState, KillHelper
<1>7. faults' \in 0 .. MaxFaults /\ jobs' \in 0 .. MaxJobs
      /\ launches' \in 0 .. MaxLaunches
  BY <1>3, <1>4, <1>5, BoundsAssumption DEF Typed, BoundsAssumption
<1>8. up' \in BOOLEAN /\ quad' \in BOOLEAN /\ restoring' \in BOOLEAN
      /\ primed' \in BOOLEAN
  BY <1>6 DEF Typed
<1> QED
  BY <1>1, <1>2, <1>7, <1>8 DEF Typed, Unset

-----------------------------------------------------------------------------
(* The line of connections, under each of the ways it changes.              *)
Waiting == {"open", "sent", "lost", "orphan"}

LEMMA LineKept ==
  ASSUME Line, UNCHANGED <<queue, serving>>,
         \A a \in Clients : phase'[a] \in Waiting <=> phase[a] \in Waiting
  PROVE  Line'
BY DEF Line, Waiting

LEMMA LineJoined ==
  ASSUME Line, Conns, NEW a \in Clients, NEW m, Connect(a, m)
  PROVE  Line'
<1>1. /\ phase[a] = "idle" /\ queue' = Append(queue, a) /\ UNCHANGED serving
      /\ \A b \in Clients \ {a} : phase'[b] = phase[b]
      /\ phase'[a] \in {"open", "sent"}
  BY DEF Connect, Conns
<1>2. a # serving /\ a \notin ToSet(queue)
  BY <1>1 DEF Line
<1>3. /\ IsInjective(queue')
      /\ \A b : b \in ToSet(queue') <=> b = a \/ b \in ToSet(queue)
  BY <1>1, <1>2, Joins DEF Line, Conns
<1> QED
  BY <1>1, <1>2, <1>3 DEF Line

(* The server takes the next connection, and keeps it or closes it.         *)
LEMMA LineServed ==
  ASSUME Line, Conns, Client # None, NEW now \in {None, Client}, Served(now),
         \A b \in Clients : b # Client => phase'[b] = phase[b],
         phase'[Client] \in Waiting <=> now = Client
  PROVE  Line'
<1>1. None \notin Clients
  BY ControlAssumption DEF ControlAssumption, Clients, Supervisor, Knob, None
<1>2. Client \in Clients
  <2>1. serving # None \/ (queue # <<>> /\ Client = Head(queue))
    BY DEF Client
  <2> QED
    BY <2>1 DEF Conns, Client
<1>3. \A b : b \in ToSet(queue) => b \in Clients
  BY DEF Conns, ToSet
<1>4. CASE serving # None
  <2>1. Client = serving /\ queue' = queue /\ serving' = now
    BY <1>4 DEF Client, Served
  <2> QED
    BY <1>1, <1>2, <1>3, <1>4, <2>1 DEF Line, Waiting
<1>5. CASE serving = None
  <2>1. /\ queue # <<>> /\ Client = Head(queue) /\ queue' = Tail(queue)
        /\ serving' = now
    BY <1>5 DEF Client, Served
  <2>2. /\ IsInjective(queue') /\ Client \in ToSet(queue)
        /\ \A b : b \in ToSet(queue') <=> b # Client /\ b \in ToSet(queue)
    BY <2>1, Leaves DEF Line, Conns
  <2> QED
    BY <1>1, <1>2, <1>3, <1>5, <2>1, <2>2 DEF Line, Waiting
<1> QED
  BY <1>4, <1>5

(* What becomes of the connections when an engine ends.                     *)
LEMMA EndedPhases ==
  ASSUME reset
  PROVE  \A a \in Clients :
           /\ phase[a] \in {"open", "sent"} => phase'[a] = "err"
           /\ phase[a] \in {"lost", "orphan"} => phase'[a] = "idle"
           /\ phase[a] \notin Waiting => phase'[a] = phase[a]
<1> SUFFICES ASSUME NEW a \in Clients
             PROVE  /\ phase[a] \in {"open", "sent"} => phase'[a] = "err"
                    /\ phase[a] \in {"lost", "orphan"} => phase'[a] = "idle"
                    /\ phase[a] \notin Waiting => phase'[a] = phase[a]
  OBVIOUS
<1>1. phase'[a] = CASE phase[a] \in {"open", "sent"} -> "err"
                    [] phase[a] \in {"lost", "orphan"} -> "idle"
                    [] OTHER -> phase[a]
  BY DEF reset
<1> QED
  BY <1>1 DEF Waiting

(* What becomes of the connection of a tool that is killed.                 *)
LEMMA KilledPhase ==
  ASSUME Conns, NEW u \in Users, KillTool(u)
  PROVE  /\ \A a \in Clients : a # u => phase'[a] = phase[a]
         /\ phase[u] = "open" => phase'[u] = "lost"
         /\ phase[u] = "sent" => phase'[u] = "orphan"
         /\ phase[u] \notin {"open", "sent"} => phase'[u] = "idle"
<1>1. phase' = [phase EXCEPT ![u] = CASE @ = "open" -> "lost"
                                      [] @ = "sent" -> "orphan"
                                      [] OTHER -> "idle"]
  BY DEF KillTool
<1>2. \A a \in Clients : a # u => phase'[a] = phase[a]
  BY <1>1 DEF Conns
<1>3. phase'[u] = CASE phase[u] = "open" -> "lost"
                    [] phase[u] = "sent" -> "orphan"
                    [] OTHER -> "idle"
  BY <1>1 DEF Conns, Clients
<1> QED
  BY <1>2, <1>3

(* What becomes of the connection whose request is answered.                *)
LEMMA AnsweredPhase ==
  ASSUME Conns, Receive
  PROVE  /\ Client \in Clients /\ phase[Client] \in {"sent", "orphan"}
         /\ \A a \in Clients : a # Client => phase'[a] = phase[a]
         /\ phase[Client] = "orphan" => phase'[Client] = "idle"
         /\ phase[Client] = "sent" => phase'[Client] \in {"ok", "err"}
<1>1. /\ Client # None /\ Served(None)
      /\ phase[Client] \in {"sent", "orphan"}
  BY DEF Receive
<1>2. Client \in Clients
  BY <1>1, NextClient
<1>3. \E r \in {"ok", "err"} :
        phase' = [phase EXCEPT ![Client] = IF @ = "orphan" THEN "idle" ELSE r]
  BY DEF Receive, Refused, BecomesReady, Skipped, Performed, Answered
<1> QED
  BY <1>1, <1>2, <1>3 DEF Conns

LEMMA LineStep ==
  ASSUME IInv, Line, Tasks, [Next]_vars
  PROVE  Line'
<1>0. Conns /\ Line /\ Users \subseteq Clients /\ Supervisor \in Clients
  BY DEF IInv, Clients
<1>1. CASE EngineEnds
  <2>1. queue' = <<>> /\ serving' = None /\ None \notin Clients
    BY <1>1, ControlAssumption
    DEF EngineEnds, reset, ControlAssumption, Clients, Supervisor, Knob, None
  <2>2. \A a \in Clients : phase'[a] \notin Waiting
    BY <1>0, <1>1, EndedPhases DEF EngineEnds, Waiting
  <2>3. IsInjective(<<>>) /\ \A a : a \notin ToSet(<<>>)
    BY DEF IsInjective, ToSet
  <2> QED
    BY <2>1, <2>2, <2>3 DEF Line, Waiting
<1>2. ASSUME NEW a \in Clients, NEW m, Connect(a, m)
      PROVE  Line'
  BY <1>0, <1>2, LineJoined
<1>3. CASE internalReady \/ restoreControlState \/ ReadyAnswered
  <2>1. \/ Connect(Supervisor, Ready)
        \/ UNCHANGED link
        \/ /\ phase[Supervisor] \notin Waiting
           /\ phase' = [phase EXCEPT ![Supervisor] = "idle"]
           /\ UNCHANGED <<queue, serving>>
    BY <1>3 DEF internalReady, restoreControlState, ReadyAnswered, serverVars,
      Waiting
  <2> QED
    BY <1>0, <1>2, <2>1, LineKept DEF link, Waiting, Conns
<1>4. ASSUME NEW a \in Clients,
             RestoreEntry(a) \/ EntryAnswered(a) \/ Restored(a)
      PROVE  Line'
  <2>1. \/ \E m : Connect(a, m)
        \/ UNCHANGED link
        \/ /\ phase[a] \notin Waiting /\ phase' = [phase EXCEPT ![a] = "idle"]
           /\ UNCHANGED <<queue, serving>>
    BY <1>4 DEF RestoreEntry, EntryAnswered, Restored, serverVars, Waiting
  <2> QED
    BY <1>0, <1>2, <2>1, LineKept DEF link, Waiting, Conns
<1>5. CASE Wait
  <2>1. Client # None /\ Served(Client) /\ UNCHANGED phase
        /\ phase[Client] \in Waiting
    BY <1>5 DEF Wait, Waiting
  <2> QED
    BY <1>0, <2>1, LineServed
<1>6. CASE DropLost
  <2>1. /\ Client # None /\ Served(None) /\ phase[Client] = "lost"
        /\ phase' = [phase EXCEPT ![Client] = "idle"]
    BY <1>6 DEF DropLost
  <2>2. Client \in Clients
    BY <1>0, <2>1, NextClient
  <2> QED
    BY <1>0, <2>1, <2>2, LineServed DEF Waiting, Conns
<1>7. CASE Receive
  <2>1. Client # None /\ Served(None)
    BY <1>7 DEF Receive
  <2> QED
    BY <1>0, <1>7, <2>1, AnsweredPhase, LineServed DEF Waiting
<1>8. ASSUME NEW u \in Users, \/ SetControl(u) \/ Clear(u) \/ Reset(u)
                              \/ Send(u) \/ SetAnswered(u) \/ KillTool(u)
      PROVE  Line'
  <2>1. CASE SetControl(u)
    BY <1>0, <1>2, <2>1 DEF SetControl
  <2>2. CASE KillTool(u)
    <3>1. UNCHANGED <<queue, serving>> /\ phase[u] # "idle"
      BY <2>2 DEF KillTool
    <3>2. phase[u] \notin {"lost", "orphan"}
      BY <2>2 DEF KillTool, Tasks, UserAt
    <3> QED
      BY <1>0, <2>2, <3>1, <3>2, KilledPhase, LineKept DEF Waiting
  <2>3. CASE Clear(u) \/ Reset(u)
    BY <1>0, <2>3, LineKept DEF Clear, Reset, SaveNow, serverVars, link
  <2>4. CASE Send(u) \/ SetAnswered(u)
    <3>1. /\ UNCHANGED <<queue, serving>>
          /\ \/ phase[u] = "open" /\ phase' = [phase EXCEPT ![u] = "sent"]
             \/ /\ phase[u] \in {"ok", "err"}
                /\ phase' = [phase EXCEPT ![u] = "idle"]
      BY <2>4 DEF Send, SetAnswered, Settled
    <3> QED
      BY <1>0, <3>1, LineKept DEF Waiting, Conns
  <2> QED
    BY <1>8, <2>1, <2>2, <2>3, <2>4
<1>9. UNCHANGED <<phase, queue, serving>> => Line'
  BY <1>0, LineKept
<1>10. CASE \/ UNCHANGED vars \/ Launch \/ BusReset \/ Forget \/ Prime
            \/ TurnKnob
            \/ \E a \in Recorders : loadState(a) \/ Truncate(a) \/ saveState(a)
                                      \/ KillHelper(a)
  BY <1>9, <1>10 DEF vars, serverVars, link, Launch, start, BusReset, Forget,
    Prime, TurnKnob, Turn, loadState, Truncate, saveState, KillHelper
<1> QED
  BY <1>1, <1>3, <1>4, <1>5, <1>6, <1>7, <1>8, <1>10, Moves

-----------------------------------------------------------------------------
(* What is kept of what a step may do to the files.                         *)
Starts(a) ==
  /\ DOMAIN image[a] \subseteq Saved
  /\ helper[a] = "load" =>
       \E k \in Saved, v \in Values : image[a] = With(Empty, k, v)

LEMMA FilesAt ==
  ASSUME Files, UNCHANGED played,
         file' = file \/ DOMAIN file' \subseteq Saved,
         \A a \in Clients : todo'[a] = todo[a] \/ DOMAIN todo'[a] \subseteq Saved,
         \A a \in Recorders :
           \/ helper'[a] = helper[a] /\ image'[a] = image[a]
           \/ Starts(a)'
  PROVE  Files'
<1>1. Saved' = Saved
  BY DEF Saved
<1> QED
  BY <1>1 DEF Files, Starts

LEMMA SavedWith ==
  ASSUME NEW k \in Saved, NEW v \in Values
  PROVE  /\ \A f : DOMAIN f \subseteq Saved => DOMAIN With(f, k, v) \subseteq Saved
         /\ DOMAIN Empty = {} /\ DOMAIN defaultState = Saved
         /\ DOMAIN With(Empty, k, v) = {k} /\ With(Empty, k, v)[k] = v
BY DEF With, Empty, defaultState

LEMMA FilesStep ==
  ASSUME IInv, Typed, Files, [Next]_vars
  PROVE  Files'
<1>0. /\ Conns /\ Saves /\ Gate /\ Registers /\ Files
      /\ Users \subseteq Clients /\ Users \subseteq Recorders
      /\ Supervisor \in Clients /\ Knob \in Recorders
      /\ UNCHANGED played /\ Saved' = Saved
  BY AckedStep DEF IInv, Typed, Clients, Recorders, Saved
<1>1. DOMAIN Empty = {} /\ DOMAIN defaultState = Saved
  BY DEF Empty, defaultState
<1>2. ASSUME NEW a \in Recorders, NEW s \in Helpers, NEW f,
             helper' = [helper EXCEPT ![a] = s],
             image' = [image EXCEPT ![a] = f],
             DOMAIN f \subseteq Saved,
             s = "load" => \E k \in Saved, v \in Values : f = With(Empty, k, v),
             file' = file \/ DOMAIN file' \subseteq Saved,
             \A c \in Clients : todo'[c] = todo[c]
                                  \/ DOMAIN todo'[c] \subseteq Saved
      PROVE  Files'
  <2>1. /\ \A b \in Recorders : b # a => helper'[b] = helper[b]
                                           /\ image'[b] = image[b]
        /\ helper'[a] = s /\ image'[a] = f
    BY <1>0, <1>2 DEF Saves
  <2>2. Starts(a)'
    BY <1>0, <1>2, <2>1 DEF Starts
  <2> QED
    BY <1>0, <1>2, <2>1, <2>2, FilesAt
<1>3. ASSUME NEW a \in Recorders,
             loadState(a) \/ Truncate(a) \/ saveState(a) \/ KillHelper(a)
      PROVE  Files'
  <2>1. CASE loadState(a)
    <3> DEFINE k == CHOOSE j \in DOMAIN image[a] : TRUE
               f == With(file, k, image[a][k])
    <3>1. k \in Saved
      BY <1>0, <2>1 DEF loadState, Saves, Files
    <3>2. DOMAIN f \subseteq Saved
      BY <1>0, <3>1 DEF With, Files
    <3>3. /\ helper' = [helper EXCEPT ![a] = "open"]
          /\ image' = [image EXCEPT ![a] = f]
          /\ UNCHANGED <<file, todo>>
      BY <2>1 DEF loadState, Step, Recorded, programs
    <3> HIDE DEF f
    <3> QED
      BY <1>2, <3>2, <3>3 DEF Helpers
  <2>2. CASE Truncate(a)
    <3>1. /\ helper' = [helper EXCEPT ![a] = "write"] /\ file' = Empty
          /\ UNCHANGED <<image, todo>>
      BY <2>2 DEF Truncate, Step, programs
    <3>2. \A b \in Recorders :
            \/ helper'[b] = helper[b] /\ image'[b] = image[b]
            \/ Starts(b)'
      BY <1>0, <3>1 DEF Saves, Starts, Files
    <3> QED
      BY <1>0, <1>1, <3>1, <3>2, FilesAt
  <2>3. CASE saveState(a)
    <3>1. /\ helper' = [helper EXCEPT ![a] = "none"] /\ file' = image[a]
          /\ image' = [image EXCEPT ![a] = Empty]
      BY <2>3 DEF saveState, Step
    <3>2. \/ todo' = todo
          \/ todo' = [todo EXCEPT ![a] = IF job[a] = "reset" THEN image[a]
                                         ELSE @]
      BY <2>3 DEF saveState
    <3>3. DOMAIN image[a] \subseteq Saved
      BY <1>0 DEF Files
    <3>4. \A c \in Clients : todo'[c] = todo[c] \/ todo'[c] = image[a]
      BY <1>0, <3>2 DEF Saves
    <3> QED
      BY <1>1, <1>2, <3>1, <3>3, <3>4 DEF Helpers
  <2>4. CASE KillHelper(a)
    <3>1. /\ helper' = [helper EXCEPT ![a] = "none"]
          /\ image' = [image EXCEPT ![a] = Empty] /\ UNCHANGED <<file, todo>>
      BY <2>4 DEF KillHelper, Step
    <3> QED
      BY <1>1, <1>2, <3>1 DEF Helpers
  <2> QED
    BY <1>3, <2>1, <2>2, <2>3, <2>4
<1>4. ASSUME NEW u \in Users, SetControl(u) \/ Clear(u) \/ Reset(u)
                                \/ Send(u) \/ SetAnswered(u) \/ KillTool(u)
      PROVE  Files'
  <2>1. CASE Clear(u) \/ Reset(u)
    <3>1. PICK f \in {Empty, defaultState}, j \in {"clear", "reset"} :
            SaveNow(u, j, f)
      BY <2>1 DEF Clear, Reset
    <3>2. /\ helper' = [helper EXCEPT ![u] = "open"]
          /\ image' = [image EXCEPT ![u] = f] /\ UNCHANGED <<file, todo>>
      BY <3>1 DEF SaveNow, Step
    <3>3. DOMAIN f \subseteq Saved
      BY <1>1
    <3> QED
      BY <1>0, <1>2, <3>2, <3>3 DEF Helpers
  <2>2. CASE SetAnswered(u)
    <3>1. \/ UNCHANGED <<helper, image, file, todo>>
          \/ /\ validStoredCommand(request[u].key)
             /\ helper' = [helper EXCEPT ![u] = "load"]
             /\ image' = [image EXCEPT ![u] =
                            With(Empty, request[u].key, request[u].value)]
             /\ UNCHANGED <<file, todo>>
      BY <2>2 DEF SetAnswered, Settled, persistSuccessfulSet, Step
    <3>2. request[u].key \in played /\ request[u].value \in Values
      <4>1. phase[u] # "idle"
        BY <2>2 DEF SetAnswered, Settled
      <4> QED
        BY <1>0, <4>1, RequestShape DEF Gate, Conns
    <3>3. CASE UNCHANGED <<helper, image, file, todo>>
      BY <1>0, <3>3, FilesAt
    <3>4. CASE /\ validStoredCommand(request[u].key)
               /\ helper' = [helper EXCEPT ![u] = "load"]
               /\ image' = [image EXCEPT ![u] =
                              With(Empty, request[u].key, request[u].value)]
               /\ UNCHANGED <<file, todo>>
      <4>1. request[u].key \in Saved
        BY <3>2, <3>4 DEF Saved
      <4>2. DOMAIN With(Empty, request[u].key, request[u].value)
              \subseteq Saved
        BY <3>2, <4>1, SavedWith
      <4> QED
        BY <1>0, <1>2, <3>2, <3>4, <4>1, <4>2 DEF Helpers
    <3> QED
      BY <3>1, <3>3, <3>4
  <2>3. CASE SetControl(u) \/ Send(u) \/ KillTool(u)
    <3>1. UNCHANGED <<helper, image, file, todo>>
      BY <2>3 DEF SetControl, Send, KillTool, state, programs
    <3> QED
      BY <1>0, <3>1, FilesAt
  <2> QED
    BY <1>4, <2>1, <2>2, <2>3
<1>5. ASSUME NEW a \in Clients,
             RestoreEntry(a) \/ EntryAnswered(a) \/ Restored(a)
      PROVE  Files'
  <2>1. /\ UNCHANGED <<file, helper, image>>
        /\ \/ UNCHANGED todo
           \/ \E k : todo' = [todo EXCEPT ![a] = Remaining(a, k)]
    BY <1>5 DEF RestoreEntry, EntryAnswered, Restored, state
  <2>2. \A k : DOMAIN Remaining(a, k) \subseteq DOMAIN todo[a]
    BY DEF Remaining
  <2>3. \A c \in Clients : todo'[c] = todo[c] \/ DOMAIN todo'[c] \subseteq Saved
    BY <1>0, <2>1, <2>2 DEF Files, Saves
  <2> QED
    BY <1>0, <2>1, <2>3, FilesAt
<1>6. CASE restoreControlState
  <2>1. /\ UNCHANGED <<file, helper, image>>
        /\ todo' = [todo EXCEPT ![Supervisor] = file]
    BY <1>6 DEF restoreControlState, state
  <2>2. \A c \in Clients : todo'[c] = todo[c] \/ DOMAIN todo'[c] \subseteq Saved
    BY <1>0, <2>1 DEF Files, Saves
  <2> QED
    BY <1>0, <2>1, <2>2, FilesAt
<1>7. CASE TurnKnob
  <2>1. UNCHANGED <<file, todo>> /\ KnobKey \in played
    BY <1>7 DEF TurnKnob, programs, Turn
  <2>2. KnobKey \in Saved
    BY <1>0, <2>1, HeadphoneGain
    DEF Saved, validStoredCommand, Registers, Shaped, KnobKey, Key
  <2>3. PICK step \in {"up", "down"} : \/ UNCHANGED <<helper, image>>
                                       \/ saveHeadphoneVolume(Turned(step)[1])
    BY <1>7 DEF TurnKnob
  <2>4. Turned(step)[1] \in Values
    BY <1>0, <2>1, TurnedWord
  <2>5. CASE saveHeadphoneVolume(Turned(step)[1])
    <3>1. /\ helper' = [helper EXCEPT ![Knob] = "load"]
          /\ image' = [image EXCEPT ![Knob] =
                         With(Empty, KnobKey, Turned(step)[1])]
      BY <2>5 DEF saveHeadphoneVolume, Step
    <3>2. DOMAIN With(Empty, KnobKey, Turned(step)[1]) \subseteq Saved
      BY <2>2, <2>4, SavedWith
    <3> QED
      BY <1>0, <1>2, <2>1, <2>2, <2>4, <3>1, <3>2 DEF Helpers
  <2>6. CASE UNCHANGED <<helper, image>>
    BY <1>0, <2>1, <2>6, FilesAt
  <2> QED
    BY <2>3, <2>5, <2>6
<1>8. UNCHANGED <<file, helper, image, todo>> => Files'
  BY <1>0, FilesAt
<1>9. CASE \/ UNCHANGED vars \/ Launch \/ EngineEnds \/ internalReady
           \/ ReadyAnswered
           \/ BusReset /\ UNCHANGED <<programs, state, excused, jobs, launches>>
           \/ Polled
  BY <1>8, <1>9 DEF vars, programs, state, Launch, EngineEnds, internalReady,
    ReadyAnswered, Polled
<1> QED
  BY <1>3, <1>4, <1>5, <1>6, <1>7, <1>9, Moves

-----------------------------------------------------------------------------
(* What a step leaves alone of a user, and of the supervisor.               *)
SameUser(u) ==
  /\ job'[u] = job[u] /\ helper'[u] = helper[u] /\ phase'[u] = phase[u]
  /\ request'[u] = request[u] /\ image'[u] = image[u]

SameSupervisor ==
  /\ sup' = sup /\ up' = up
  /\ job'[Supervisor] = job[Supervisor]
  /\ phase'[Supervisor] = phase[Supervisor]
  /\ request'[Supervisor] = request[Supervisor]

LEMMA TasksAt ==
  ASSUME Tasks, excused => excused',
         job' \in [Clients -> Jobs], helper' \in [Recorders -> Helpers],
         SameSupervisor \/ SupervisorAt',
         \A u \in Users : SameUser(u) \/ UserAt(u)'
  PROVE  Tasks'
<1>1. SupervisorAt'
  BY DEF Tasks, SupervisorAt, SameSupervisor
<1>2. \A u \in Users : UserAt(u)'
  BY DEF Tasks, UserAt, SameUser
<1> QED
  BY <1>1, <1>2 DEF Tasks

(* What may excuse a difference is not forgotten.                           *)
LEMMA ExcusedStays ==
  ASSUME [Next]_vars PROVE excused => excused'
BY Moves DEF vars, Polled, Excuse, Launch, EngineEnds,
  restoreControlState, internalReady, ReadyAnswered, RestoreEntry,
  EntryAnswered, Restored, TurnKnob, SetControl, Clear, Reset, SaveNow, Send,
  SetAnswered, persistSuccessfulSet, KillTool, KillHelper

LEMMA TasksStep ==
  ASSUME IInv, Tasks, [Next]_vars
  PROVE  Tasks'
<1>0. /\ Conns /\ Gate /\ Saves
      /\ excused => excused'
      /\ job \in [Clients -> Jobs] /\ helper \in [Recorders -> Helpers]
      /\ SupervisorAt /\ \A u \in Users : UserAt(u)
      /\ Users \subseteq Clients /\ Users \subseteq Recorders
      /\ Supervisor \in Clients /\ Knob \in Recorders
      /\ Ready.ready = TRUE
      /\ Supervisor \notin Users /\ Knob \notin Users /\ Knob # Supervisor
      /\ \A a \in Clients : a = Supervisor \/ a \in Users
      /\ \A a \in Recorders : a = Knob \/ a \in Users
  BY ExcusedStays, Apart, RequestShape DEF IInv, Tasks, Clients, Recorders
<1>1. UNCHANGED <<sup, up, job, phase, helper, request, image>> => Tasks'
  BY <1>0, TasksAt DEF SameUser, SameSupervisor
<1>2. CASE Launch
  <2>1. /\ ~up /\ sup' = "wait" /\ sup \in {"launch", "wait", "watch"}
        /\ UNCHANGED <<job, phase, helper, request, image>>
    BY <1>2 DEF Launch, start, link, state
  <2>2. SupervisorAt'
    BY <1>0, <2>1 DEF SupervisorAt
  <2> QED
    BY <1>0, <2>1, <2>2, TasksAt DEF SameUser
<1>3. CASE EngineEnds
  <2>1. /\ up' = FALSE /\ reset
        /\ UNCHANGED <<sup, job, helper, request, image>>
    BY <1>3 DEF EngineEnds, reset, programs, state
  <2>2. \A a \in Clients :
          /\ phase[a] \in {"open", "sent"} => phase'[a] = "err"
          /\ phase[a] \in {"lost", "orphan"} => phase'[a] = "idle"
          /\ phase[a] \notin Waiting => phase'[a] = phase[a]
    BY <2>1, EndedPhases
  <2>3. SupervisorAt'
    BY <1>0, <2>1, <2>2 DEF SupervisorAt, Waiting
  <2>4. \A u \in Users : UserAt(u)'
    BY <1>0, <2>1, <2>2 DEF UserAt, Waiting
  <2> QED
    BY <1>0, <2>1, <2>3, <2>4, TasksAt
<1>4. CASE restoreControlState
  <2>1. /\ sup = "wait" /\ up /\ sup' = "restore" /\ up' = up
        /\ job' = [job EXCEPT ![Supervisor] = "restore"]
        /\ UNCHANGED <<phase, request, helper, image>>
    BY <1>4 DEF restoreControlState, serverVars, engine, link, state
  <2>2. SupervisorAt'
    BY <1>0, <2>1 DEF SupervisorAt
  <2>3. \A u \in Users : SameUser(u)
    BY <1>0, <2>1 DEF SameUser
  <2>4. job' \in [Clients -> Jobs]
    BY <1>0, <2>1 DEF Jobs
  <2> QED
    BY <1>0, <2>1, <2>2, <2>3, <2>4, TasksAt
<1>5. CASE internalReady \/ ReadyAnswered
  <2>1. /\ UNCHANGED <<up, job, helper, image>> /\ sup = "ready"
        /\ \/ Connect(Supervisor, Ready) /\ UNCHANGED sup
           \/ /\ phase[Supervisor] = "idle" /\ UNCHANGED <<phase, request>>
              /\ sup' = "watch"
           \/ /\ phase' = [phase EXCEPT ![Supervisor] = "idle"]
              /\ UNCHANGED request /\ sup' = "watch"
    BY <1>5 DEF internalReady, ReadyAnswered, engine, link, state
  <2>2. SupervisorAt'
    BY <1>0, <2>1 DEF SupervisorAt, Connect, Conns
  <2>3. \A u \in Users : SameUser(u)
    BY <1>0, <2>1 DEF SameUser, Connect, Conns
  <2> QED
    BY <1>0, <2>1, <2>2, <2>3, TasksAt
<1>6. ASSUME NEW a \in Clients,
             RestoreEntry(a) \/ EntryAnswered(a) \/ Restored(a)
      PROVE  Tasks'
  <2>1. /\ UNCHANGED <<up, helper, image>> /\ Replaying(a)
        /\ \/ /\ UNCHANGED <<job, sup>>
              /\ phase[a] # "lost" /\ phase[a] # "orphan"
              /\ \/ \E m : Connect(a, m)
                 \/ UNCHANGED <<phase, request>>
                 \/ /\ phase' = [phase EXCEPT ![a] = "idle"]
                    /\ request' = [request EXCEPT ![a] = Ready]
           \/ /\ job' = [job EXCEPT ![a] = "none"] /\ phase[a] = "idle"
              /\ UNCHANGED <<phase, request>>
              /\ sup' = IF a = Supervisor THEN "ready" ELSE sup
    BY <1>6 DEF RestoreEntry, EntryAnswered, Restored, serverVars, engine, link,
      state
  <2>2. /\ \A b \in Clients : b # a => /\ phase'[b] = phase[b]
                                       /\ request'[b] = request[b]
                                       /\ job'[b] = job[b]
        /\ phase'[a] \in {"idle", "open", "sent"} \/ phase'[a] = phase[a]
        /\ job'[a] \in {job[a], "none"}
        /\ job'[a] = "none" => phase'[a] = "idle"
        /\ phase'[a] \notin {"lost", "orphan"}
        /\ job' \in [Clients -> Jobs]
    BY <1>0, <2>1 DEF Connect, Conns, Jobs, Replaying
  <2>3. CASE a = Supervisor
    <3>1. job[a] = "restore" /\ sup = "restore"
      BY <1>0, <2>1, <2>3 DEF Replaying, SupervisorAt
    <3>2. SupervisorAt'
      BY <1>0, <2>1, <2>2, <2>3, <3>1 DEF SupervisorAt
    <3>3. \A u \in Users : SameUser(u)
      BY <1>0, <2>1, <2>2, <2>3 DEF SameUser
    <3> QED
      BY <1>0, <2>1, <2>2, <3>2, <3>3, TasksAt
  <2>4. CASE a \in Users
    <3>1. job[a] = "reset" /\ helper[a] = "none" /\ a # Supervisor
      BY <1>0, <2>1, <2>4 DEF Replaying
    <3>2. SameSupervisor
      BY <1>0, <2>1, <2>2, <3>1 DEF SameSupervisor
    <3>3. UserAt(a)'
      BY <1>0, <2>1, <2>2, <2>4, <3>1 DEF UserAt
    <3>4. \A u \in Users : u # a => SameUser(u)
      BY <1>0, <2>1, <2>2 DEF SameUser
    <3> QED
      BY <1>0, <2>1, <2>2, <3>2, <3>3, <3>4, TasksAt
  <2> QED
    BY <1>0, <2>3, <2>4
<1>7. ASSUME Polled, Receive \/ DropLost
      PROVE  Tasks'
  <2>1. /\ UNCHANGED <<sup, up, job, helper, request, image>>
        /\ Client # None /\ Served(None)
    BY <1>7 DEF Polled, programs, state, Receive, DropLost, engine
  <2>2. Client \in Clients
    BY <1>0, <2>1, NextClient
  <2>3. /\ \A a \in Clients : a # Client => phase'[a] = phase[a]
        /\ \/ phase[Client] \in {"lost", "orphan"} /\ phase'[Client] = "idle"
           \/ phase[Client] = "sent" /\ phase'[Client] \in {"ok", "err"}
    <3>1. CASE Receive
      BY <1>0, <3>1, AnsweredPhase
    <3>2. CASE DropLost
      BY <1>0, <2>2, <3>2 DEF DropLost, Conns
    <3> QED
      BY <1>7, <3>1, <3>2
  <2>4. SupervisorAt'
    BY <1>0, <2>1, <2>2, <2>3 DEF SupervisorAt
  <2>5. \A u \in Users : UserAt(u)'
    BY <1>0, <2>1, <2>2, <2>3 DEF UserAt
  <2> QED
    BY <1>0, <2>1, <2>4, <2>5, TasksAt
<1>8. CASE TurnKnob
  <2>1. /\ UNCHANGED <<sup, up, job, phase, request>>
        /\ \/ UNCHANGED <<helper, image>>
           \/ \E f : /\ helper' = [helper EXCEPT ![Knob] = "load"]
                     /\ image' = [image EXCEPT ![Knob] = f]
    BY <1>8 DEF TurnKnob, Turn, saveHeadphoneVolume, Step, programs, engine, link
  <2>2. \A u \in Users : SameUser(u)
    BY <1>0, <2>1 DEF SameUser, Saves
  <2> QED
    BY <1>0, <2>1, <2>2, TasksAt DEF SameSupervisor, Helpers
<1>9. ASSUME NEW u \in Users, NEW j \in Jobs, NEW h \in Helpers,
             SameSupervisor,
             job' = [job EXCEPT ![u] = j],
             helper' = [helper EXCEPT ![u] = h],
             \A w \in Users : w # u => /\ phase'[w] = phase[w]
                                       /\ request'[w] = request[w]
                                       /\ image'[w] = image[w],
             UserAt(u)'
      PROVE  Tasks'
  <2>1. \A w \in Users : w # u => SameUser(w)
    BY <1>0, <1>9 DEF SameUser
  <2>2. job' \in [Clients -> Jobs] /\ helper' \in [Recorders -> Helpers]
    BY <1>0, <1>9
  <2> QED
    BY <1>0, <1>9, <2>1, <2>2, TasksAt
<1>10. ASSUME NEW u \in Users, \/ SetControl(u) \/ Clear(u) \/ Reset(u)
                               \/ Send(u) \/ SetAnswered(u) \/ KillTool(u)
       PROVE  Tasks'
  <2>0. u \in Clients /\ u \in Recorders /\ UserAt(u) /\ u # Supervisor
    BY <1>0
  <2>1. CASE SetControl(u)
    <3>1. PICK k \in played, v \in Values : Connect(u, Set(k, v, FALSE))
      BY <2>1 DEF SetControl
    <3>2. /\ job[u] = "none" /\ phase[u] = "idle"
          /\ job' = [job EXCEPT ![u] = "set"] /\ UNCHANGED <<sup, up, helper, image>>
      BY <2>1 DEF SetControl, Start, engine, state
    <3>3. /\ \A b \in Clients : b # u => phase'[b] = phase[b]
                                           /\ request'[b] = request[b]
          /\ phase'[u] \in {"open", "sent"} /\ request'[u] = Set(k, v, FALSE)
      BY <1>0, <2>0, <3>1 DEF Connect, Conns
    <3>4. Set(k, v, FALSE).restore = FALSE
      BY DEF Set
    <3>5. SameSupervisor
      BY <1>0, <2>0, <3>2, <3>3 DEF SameSupervisor
    <3>6. UserAt(u)'
      BY <1>0, <2>0, <3>2, <3>3, <3>4 DEF UserAt
    <3>7. helper' = [helper EXCEPT ![u] = helper[u]] /\ helper[u] \in Helpers
      BY <1>0, <2>0, <3>2
    <3> QED
      BY <1>0, <1>9, <2>0, <3>2, <3>3, <3>5, <3>6, <3>7 DEF Jobs
  <2>2. CASE Clear(u) \/ Reset(u)
    <3>1. PICK f \in {Empty, defaultState}, j \in {"clear", "reset"} :
            SaveNow(u, j, f) /\ (j = "clear" => f = Empty)
      BY <2>2 DEF Clear, Reset
    <3>2. /\ job[u] = "none" /\ phase[u] = "idle"
          /\ job' = [job EXCEPT ![u] = j]
          /\ helper' = [helper EXCEPT ![u] = "open"]
          /\ image' = [image EXCEPT ![u] = f]
          /\ UNCHANGED <<sup, up, phase, request>>
      BY <3>1 DEF SaveNow, Start, Step, serverVars, engine, link
    <3>3. SameSupervisor
      BY <1>0, <2>0, <3>2 DEF SameSupervisor
    <3>4. /\ image'[u] = f /\ \A w \in Users : w # u => image'[w] = image[w]
          /\ job'[u] = j /\ helper'[u] = "open" /\ phase'[u] = "idle"
      BY <1>0, <2>0, <3>2 DEF Saves
    <3>5. UserAt(u)'
      <4>1. Empty' = Empty
        BY DEF Empty
      <4> QED
        BY <3>1, <3>4, <4>1 DEF UserAt
    <3> QED
      BY <1>9, <3>2, <3>3, <3>4, <3>5 DEF Jobs, Helpers
  <2>3. CASE Send(u)
    <3>1. /\ phase[u] = "open" /\ phase' = [phase EXCEPT ![u] = "sent"]
          /\ UNCHANGED <<sup, up, job, helper, request, image>>
      BY <2>3 DEF Send, engine, programs, state
    <3>2. /\ phase'[u] = "sent"
          /\ \A b \in Clients : b # u => phase'[b] = phase[b]
      BY <1>0, <2>0, <3>1 DEF Conns
    <3>3. SameSupervisor
      BY <1>0, <2>0, <3>1, <3>2 DEF SameSupervisor
    <3>4. UserAt(u)'
      BY <1>0, <2>0, <3>1, <3>2 DEF UserAt
    <3>5. \A w \in Users : w # u => SameUser(w)
      BY <1>0, <3>1, <3>2 DEF SameUser
    <3> QED
      BY <1>0, <3>1, <3>3, <3>4, <3>5, TasksAt
  <2>4. CASE SetAnswered(u)
    <3>1. /\ job[u] = "set" /\ helper[u] = "none"
          /\ phase' = [phase EXCEPT ![u] = "idle"]
          /\ request' = [request EXCEPT ![u] = Ready]
          /\ UNCHANGED <<sup, up>>
          /\ \/ /\ helper' = [helper EXCEPT ![u] = "load"] /\ UNCHANGED job
                /\ \E f : image' = [image EXCEPT ![u] = f]
             \/ /\ job' = [job EXCEPT ![u] = "none"]
                /\ UNCHANGED <<helper, image>>
      BY <2>4 DEF SetAnswered, Settled, persistSuccessfulSet, Step, engine
    <3>2. /\ phase'[u] = "idle"
          /\ \A b \in Clients : b # u => phase'[b] = phase[b]
                                           /\ request'[b] = request[b]
      BY <1>0, <2>0, <3>1 DEF Conns
    <3>3. SameSupervisor
      BY <1>0, <2>0, <3>1, <3>2 DEF SameSupervisor
    <3>4. CASE /\ helper' = [helper EXCEPT ![u] = "load"] /\ UNCHANGED job
               /\ \E f : image' = [image EXCEPT ![u] = f]
      <4>1. job' = [job EXCEPT ![u] = "set"]
        BY <1>0, <2>0, <3>1, <3>4
      <4>2. UserAt(u)'
        BY <1>0, <2>0, <3>1, <3>2, <3>4 DEF UserAt
      <4>3. \A w \in Users : w # u => image'[w] = image[w]
        BY <1>0, <2>0, <3>4 DEF Saves
      <4> QED
        BY <1>0, <1>9, <3>2, <3>3, <3>4, <4>1, <4>2, <4>3 DEF Jobs, Helpers
    <3>5. CASE /\ job' = [job EXCEPT ![u] = "none"]
               /\ UNCHANGED <<helper, image>>
      <4>1. helper' = [helper EXCEPT ![u] = "none"]
        BY <1>0, <2>0, <3>1, <3>5
      <4>2. UserAt(u)'
        BY <1>0, <2>0, <3>1, <3>2, <3>5 DEF UserAt
      <4> QED
        BY <1>0, <1>9, <3>2, <3>3, <3>5, <4>1, <4>2 DEF Jobs, Helpers
    <3> QED
      BY <3>1, <3>4, <3>5
  <2>5. CASE KillTool(u)
    <3>1. /\ job[u] = "set" /\ helper[u] = "none" /\ excused' = TRUE
          /\ job' = [job EXCEPT ![u] = "none"]
          /\ UNCHANGED <<sup, up, helper, request, image>>
      BY <2>5 DEF KillTool, engine, state
    <3>2. /\ phase'[u] \in {"lost", "orphan", "idle"}
          /\ \A b \in Clients : b # u => phase'[b] = phase[b]
      BY <1>0, <2>5, KilledPhase
    <3>3. SameSupervisor
      BY <1>0, <2>0, <3>1, <3>2 DEF SameSupervisor
    <3>4. helper' = [helper EXCEPT ![u] = "none"] /\ job'[u] = "none"
      BY <1>0, <2>0, <3>1
    <3>5. UserAt(u)'
      BY <2>0, <3>1, <3>2, <3>4 DEF UserAt
    <3> QED
      BY <1>0, <1>9, <3>1, <3>2, <3>3, <3>4, <3>5 DEF Jobs, Helpers
  <2> QED
    BY <1>10, <2>1, <2>2, <2>3, <2>4, <2>5
<1>11. ASSUME NEW a \in Recorders,
              loadState(a) \/ Truncate(a) \/ saveState(a) \/ KillHelper(a)
       PROVE  Tasks'
  <2>1. /\ UNCHANGED <<phase, request, sup, up>>
        /\ \E h \in Helpers : helper' = [helper EXCEPT ![a] = h]
                                /\ (h # "none" => helper[a] # "none"
                                                    /\ UNCHANGED job)
                                /\ h # "load"
        /\ helper[a] # "none"
        /\ UNCHANGED image \/ \E f : image' = [image EXCEPT ![a] = f]
    BY <1>11 DEF loadState, Truncate, saveState, KillHelper, Step, serverVars,
      engine, link, programs, Helpers
  <2>2. \/ UNCHANGED job
        \/ /\ a # Knob
           /\ job' = [job EXCEPT ![a] = "none"]
        \/ a # Knob /\ job[a] = "reset" /\ job' = [job EXCEPT ![a] = "reset"]
    BY <1>11 DEF loadState, Truncate, saveState, KillHelper, programs
  <2>3. /\ \A b \in Recorders : b # a => helper'[b] = helper[b]
                                           /\ image'[b] = image[b]
        /\ helper' \in [Recorders -> Helpers] /\ job' \in [Clients -> Jobs]
        /\ \A b \in Clients : b # a => job'[b] = job[b]
        /\ a = Knob => UNCHANGED job
    BY <1>0, <2>1, <2>2 DEF Saves, Jobs
  <2>4. SameSupervisor
    BY <1>0, <2>1, <2>3 DEF SameSupervisor
  <2>5. ASSUME a \in Users PROVE UserAt(a)'
    <3>1. /\ helper[a] # "none" /\ UserAt(a) /\ phase[a] = "idle"
          /\ job[a] # "none"
      BY <1>0, <2>1, <2>5 DEF UserAt
    <3>2. CASE helper'[a] # "none"
      <4>1. UNCHANGED job /\ helper'[a] # "load"
        BY <1>0, <2>1, <3>2
      <4>2. job[a] = "clear" => image'[a] = Empty
        <5>1. job[a] = "clear" => helper[a] # "load" /\ image[a] = Empty
          BY <3>1 DEF UserAt
        <5>2. helper[a] # "load" => UNCHANGED image
          BY <1>0, <1>11, <3>2 DEF loadState, Truncate, saveState, KillHelper,
            Step
        <5> QED
          BY <5>1, <5>2
      <4>3. Empty' = Empty
        BY DEF Empty
      <4> QED
        BY <1>0, <2>1, <3>1, <3>2, <4>1, <4>2, <4>3 DEF UserAt
    <3>3. CASE helper'[a] = "none"
      <4>1. job'[a] \in {"none", "reset"}
        BY <1>0, <1>11, <2>5, <3>1, <3>3 DEF loadState, Truncate, saveState,
          KillHelper, Step
      <4> QED
        BY <1>0, <2>1, <3>1, <3>3, <4>1 DEF UserAt
    <3> QED
      BY <3>2, <3>3
  <2>6. \A w \in Users : w # a => SameUser(w)
    BY <1>0, <2>1, <2>3 DEF SameUser
  <2> QED
    BY <1>0, <2>3, <2>4, <2>5, <2>6, TasksAt
<1>12. UNCHANGED <<programs, state>> /\ (UNCHANGED vars \/ BusReset) => Tasks'
  BY <1>1 DEF vars, serverVars, engine, link, programs, state, BusReset
<1>15. UNCHANGED vars => UNCHANGED <<programs, state>>
  BY DEF vars, programs, state
<1>13. (Wait \/ Forget \/ Prime) /\ Polled => Tasks'
  BY <1>1 DEF Wait, Forget, Prime, Polled, engine, link, programs, state
<1>14. (Receive \/ DropLost) /\ Polled => Tasks'
  BY <1>7
<1> HIDE DEF Polled
<1> QED
  BY <1>2, <1>3, <1>4, <1>5, <1>6, <1>8, <1>10, <1>11, <1>12, <1>13, <1>14,
     <1>15, Moves

(* What holds whatever the programs do to each other.                       *)
Formed == Typed /\ Line /\ Files /\ Tasks

LEMMA InitFormed == Init => Formed
<1> SUFFICES ASSUME Init PROVE Formed
  OBVIOUS
<1> USE DEF Init, ServerInit
<1>1. Typed
  <2>1. acked \in [played -> 0 .. Unset]
    BY DEF NoneAcked, Unset, Lowest
  <2>2. faults \in 0 .. MaxFaults /\ jobs \in 0 .. MaxJobs
        /\ launches \in 0 .. MaxLaunches
    BY BoundsAssumption DEF BoundsAssumption
  <2> QED
    BY <2>1, <2>2 DEF Typed
<1>2. Line
  <2>1. None \notin Clients
    BY ControlAssumption
    DEF ControlAssumption, Clients, Supervisor, Knob, None
  <2>2. IsInjective(<<>>) /\ \A a : a \notin ToSet(<<>>)
    BY DEF IsInjective, ToSet
  <2> QED
    BY <2>1, <2>2 DEF Line
<1>3. Files
  BY DEF Files, Empty
<1>4. Tasks
  BY DEF Tasks, SupervisorAt, UserAt, Jobs, Helpers, Clients, Recorders
<1> QED
  BY <1>1, <1>2, <1>3, <1>4 DEF Formed

(* One thing at a time, unless that is excused.                             *)
Alone == ~excused => \A a, b \in Windows : a = b

(* A key shows a value, or what the replay leaves of it at a quad rate; the *)
(* registers reflect a set of entries.                                      *)
Shows(k, v) ==
  HasValue(reg[WordOf(k)], k, IF quad /\ HandlerOf[k.control].aux THEN 0
                              ELSE v)
Reflects(f) == \A k \in DOMAIN f : Shows(k, f[k])

(* The statement is about an engine whose replay has begun, and which was   *)
(* neither reset under the server nor written without the server's notice.  *)
Live == up /\ current /\ ~doubt /\ ~excused
          /\ sup \in {"restore", "ready", "watch"}

(* While a window is open, the registers are ahead of the file or behind    *)
(* it: what reflects them is what the one program is going to write, or     *)
(* what its replay has not sent yet is all that is missing.                 *)
Recording(a) ==
  /\ helper[a] = "load" =>
       \E k \in DOMAIN image[a] : DOMAIN image[a] = {k}
                                    /\ Reflects(With(file, k, image[a][k]))
  /\ helper[a] \in {"open", "write"} /\ (a = Knob \/ job[a] # "reset") =>
       Reflects(image[a])

Setting(a) ==
  job[a] = "set" /\ phase[a] = "ok" /\ validStoredCommand(request[a].key) =>
    Reflects(With(file, request[a].key, request[a].value))

Replays(a) ==
  Replaying(a) =>
    /\ DOMAIN todo[a] \subseteq DOMAIN file
    /\ \A k \in DOMAIN todo[a] : todo[a][k] = file[k]
    /\ \A k \in DOMAIN file \ DOMAIN todo[a] : Shows(k, file[k])
    /\ phase[a] # "idle" =>
         /\ ~request[a].ready /\ request[a].restore
         /\ request[a].key \in DOMAIN todo[a]
         /\ request[a].value = todo[a][request[a].key]
    /\ phase[a] = "ok" => Shows(request[a].key, request[a].value)

Pending(a) ==
  /\ a \in Recorders => Recording(a)
  /\ a \in Clients => Setting(a) /\ Replays(a)

Effect ==
  Live => (Windows = {} => Reflects(file)) /\ \A a \in Windows : Pending(a)

-----------------------------------------------------------------------------
(* Whose window is open.                                                    *)
LEMMA InWindows ==
  \A a : a \in Windows <=>
           \/ a \in Clients /\ \/ job[a] \in {"clear", "reset", "restore"}
                               \/ job[a] = "set" /\ phase[a] = "ok"
           \/ a \in Recorders /\ helper[a] # "none"
BY DEF Windows

LEMMA InWindowsNext ==
  \A a : a \in Windows' <=>
           \/ a \in Clients /\ \/ job'[a] \in {"clear", "reset", "restore"}
                               \/ job'[a] = "set" /\ phase'[a] = "ok"
           \/ a \in Recorders /\ helper'[a] # "none"
BY DEF Windows, Clients, Recorders

(* What a step leaves alone of one program.                                 *)
SameAt(a) ==
  /\ a \in Recorders => helper'[a] = helper[a] /\ image'[a] = image[a]
  /\ a \in Clients => /\ job'[a] = job[a] /\ phase'[a] = phase[a]
                      /\ request'[a] = request[a] /\ todo'[a] = todo[a]

LEMMA WindowKept ==
  ASSUME NEW a, SameAt(a) PROVE a \in Windows' <=> a \in Windows
BY InWindows, InWindowsNext DEF SameAt

LEMMA PendingKept ==
  ASSUME NEW a, SameAt(a), UNCHANGED <<reg, quad, file>>, Pending(a)
  PROVE  Pending(a)'
<1>1. a \in Recorders => a = Knob \/ a \in Clients
  BY DEF Recorders, Clients
<1>2. ASSUME a \in Recorders PROVE Recording(a)'
  <2>1. /\ helper'[a] = helper[a] /\ image'[a] = image[a] /\ file' = file
        /\ a = Knob \/ job'[a] = job[a]
        /\ Recording(a) /\ reg' = reg /\ quad' = quad
    BY <1>1, <1>2 DEF SameAt, Pending
  <2> QED
    BY <2>1 DEF Recording, Reflects, Shows
<1>3. ASSUME a \in Clients PROVE Setting(a)' /\ Replays(a)'
  <2>1. /\ job'[a] = job[a] /\ phase'[a] = phase[a] /\ request'[a] = request[a]
        /\ todo'[a] = todo[a] /\ file' = file /\ reg' = reg /\ quad' = quad
        /\ a \in Users => helper'[a] = helper[a]
        /\ Setting(a) /\ Replays(a)
    BY <1>3 DEF SameAt, Pending, Recorders
  <2>2. Replaying(a)' <=> Replaying(a)
    BY <2>1 DEF Replaying
  <2>3. Setting(a)'
    BY <2>1 DEF Setting, Reflects, Shows
  <2>4. Replays(a)'
    BY <2>1, <2>2 DEF Replays, Shows
  <2> QED
    BY <2>3, <2>4
<1> QED
  BY <1>2, <1>3 DEF Pending

(* A step of one program, which leaves the others alone: it opens its       *)
(* window, goes on in it, or closes it; without one it changes nothing that *)
(* is compared.                                                             *)
LEMMA EffectBy ==
  ASSUME NEW a, Alone, Alone', Effect, excused => excused',
         \A b : b # a => SameAt(b), UNCHANGED quad,
         Live' /\ a \notin Windows' => Live,
         Live' /\ a \in Windows' /\ (\A b \in Windows : b = a) => Pending(a)',
         Live' /\ a \in Windows /\ a \notin Windows'
           /\ (\A b \in Windows : b = a) => Reflects(file)',
         Live' /\ a \notin Windows /\ a \notin Windows' =>
           UNCHANGED <<reg, file>>
  PROVE  Effect'
<1> SUFFICES ASSUME Live'
             PROVE  /\ Windows' = {} => Reflects(file)'
                    /\ \A b \in Windows' : Pending(b)'
  BY DEF Effect
<1>1. ~excused' /\ ~excused
  BY DEF Live
<1>2. /\ \A b, c \in Windows' : b = c
      /\ \A b, c \in Windows : b = c
  BY <1>1 DEF Alone
<1>3. \A b : b # a => (b \in Windows' <=> b \in Windows)
  BY WindowKept
<1>4. CASE a \in Windows'
  <2>1. \A b \in Windows : b = a
    BY <1>2, <1>3, <1>4
  <2>2. Pending(a)' /\ \A b \in Windows' : b = a
    BY <1>2, <1>4, <2>1
  <2> QED
    BY <1>4, <2>2
<1>5. CASE a \notin Windows' /\ a \in Windows
  <2>1. \A b \in Windows : b = a
    BY <1>2, <1>5
  <2>2. \A b : b \notin Windows'
    BY <1>3, <1>5, <2>1
  <2> QED
    BY <1>5, <2>1, <2>2
<1>6. CASE a \notin Windows' /\ a \notin Windows
  <2>1. /\ UNCHANGED <<reg, file>> /\ Live
        /\ \A b : b \in Windows' <=> b \in Windows
    BY <1>3, <1>6
  <2>2. \A b \in Windows' : Pending(b)'
    BY <1>6, <2>1, PendingKept DEF Effect
  <2>3. Windows' = {} => Reflects(file)'
    <3>1. Windows' = {} => Reflects(file)
      BY <2>1 DEF Effect
    <3> QED
      BY <2>1, <3>1 DEF Reflects, Shows
  <2> QED
    BY <2>2, <2>3
<1> QED
  BY <1>4, <1>5, <1>6

(* A step that leaves every program alone, and what is compared.            *)
LEMMA EffectKept ==
  ASSUME Effect, \A b : SameAt(b), UNCHANGED <<reg, quad, file>>, Live' => Live
  PROVE  Effect'
<1> SUFFICES ASSUME Live'
             PROVE  /\ Windows' = {} => Reflects(file)'
                    /\ \A b \in Windows' : Pending(b)'
  BY DEF Effect
<1>1. Live /\ \A b : b \in Windows' <=> b \in Windows
  BY WindowKept
<1>2. \A b \in Windows' : Pending(b)'
  BY <1>1, PendingKept DEF Effect
<1>3. Windows' = {} => Reflects(file)'
  <2>1. Windows' = {} => Reflects(file)
    BY <1>1 DEF Effect
  <2> QED
    BY <2>1 DEF Reflects, Shows
<1> QED
  BY <1>2, <1>3

(* What one program finds when no other has a window open.                  *)
LEMMA Before ==
  ASSUME NEW a, Effect, Live, \A b \in Windows : b = a
  PROVE  /\ a \in Windows => Pending(a)
         /\ a \notin Windows => Reflects(file)
<1>1. a \notin Windows => Windows = {}
  OBVIOUS
<1> QED
  BY <1>1 DEF Effect

-----------------------------------------------------------------------------
(* One thing at a time, or it is excused.                                   *)
LEMMA Shrinks ==
  ASSUME Alone, excused => excused',
         \A a \in Clients : job'[a] \in {job[a], "none"}
                              /\ (job[a] = "set" /\ phase'[a] = "ok" => phase[a] = "ok"),
         \A a \in Recorders : helper'[a] # "none" => helper[a] # "none"
  PROVE  Alone'
<1>1. \A a : a \in Windows' => a \in Windows
  BY InWindows, InWindowsNext
<1> QED
  BY <1>1 DEF Alone

LEMMA AloneStep ==
  ASSUME IInv, Formed, Alone, [Next]_vars
  PROVE  Alone'
<1>0. /\ Conns /\ Saves /\ (excused => excused') /\ Tasks
      /\ job \in [Clients -> Jobs] /\ Supervisor \in Clients
      /\ Users \subseteq Clients
  BY ExcusedStays DEF IInv, Formed, Tasks, Clients
<1>1. Excuse => Alone'
  BY DEF Excuse, Alone
<1>2. ASSUME UNCHANGED <<job, helper>>,
             \A a \in Clients : job[a] = "set" /\ phase'[a] = "ok" => phase[a] = "ok"
      PROVE  Alone'
  BY <1>0, <1>2, Shrinks
<1>3. \A a \in Clients : \A m : Connect(a, m) =>
        \A b \in Clients : phase'[b] = "ok" => phase[b] = "ok"
  BY <1>0 DEF Connect, Conns
<1>4. ASSUME internalReady \/ ReadyAnswered PROVE Alone'
  <2>1. UNCHANGED <<job, helper>>
    BY <1>4 DEF internalReady, ReadyAnswered, state
  <2>2. \A a \in Clients : phase'[a] = "ok" => phase[a] = "ok"
    BY <1>0, <1>3, <1>4 DEF internalReady, ReadyAnswered, link, Conns
  <2> QED
    BY <1>2, <2>1, <2>2
<1>5. ASSUME NEW a \in Clients,
             RestoreEntry(a) \/ EntryAnswered(a) \/ Restored(a)
      PROVE  Alone'
  <2>1. UNCHANGED helper
    BY <1>5 DEF RestoreEntry, EntryAnswered, Restored, state
  <2>2. \A b \in Clients : job'[b] \in {job[b], "none"}
    BY <1>0, <1>5 DEF RestoreEntry, EntryAnswered, Restored
  <2>3. \A b \in Clients : phase'[b] = "ok" => phase[b] = "ok"
    BY <1>0, <1>3, <1>5 DEF RestoreEntry, EntryAnswered, Restored, link, Conns,
      serverVars
  <2> QED
    BY <1>0, <2>1, <2>2, <2>3, Shrinks
<1>6. ASSUME NEW u \in Users, Send(u) \/ SetAnswered(u) PROVE Alone'
  <2>1. CASE Excuse
    BY <1>1, <2>1
  <2>2. CASE ~Excuse
    <3>1. /\ UNCHANGED helper
          /\ phase' \in {[phase EXCEPT ![u] = "sent"], [phase EXCEPT ![u] = "idle"]}
          /\ job' \in {job, [job EXCEPT ![u] = "none"]}
      BY <1>6, <2>2 DEF Send, SetAnswered, Settled, persistSuccessfulSet,
        programs, state
    <3>2. \A b \in Clients : /\ job'[b] \in {job[b], "none"}
                             /\ phase'[b] = "ok" => phase[b] = "ok"
      BY <1>0, <3>1 DEF Conns
    <3> QED
      BY <1>0, <3>1, <3>2, Shrinks
  <2> QED
    BY <2>1, <2>2
<1>7. \A u \in Users : KillTool(u) => Alone'
  BY DEF KillTool, Alone
<1>8. \A a \in Recorders : KillHelper(a) => Alone'
  BY DEF KillHelper, Alone
<1>9. UNCHANGED <<job, helper, phase>> => Alone'
  BY <1>2
<1>10. CASE UNCHANGED vars \/ Launch
  BY <1>9, <1>10 DEF vars, serverVars, link, programs, state, Launch, start
<1>11. BusReset /\ UNCHANGED <<programs, state>> => Alone'
  BY <1>9 DEF BusReset, link, programs, state
<1>12. restoreControlState \/ EngineEnds \/ TurnKnob \/ Polled => Alone'
  BY <1>1 DEF restoreControlState, EngineEnds, TurnKnob, Polled
<1>13. \A u \in Users : SetControl(u) \/ Clear(u) \/ Reset(u) => Alone'
  BY <1>1 DEF SetControl, Clear, Reset, SaveNow
<1> HIDE DEF Polled, Excuse
<1> QED
  BY <1>1, <1>4, <1>5, <1>6, <1>7, <1>8, <1>10, <1>11, <1>12, <1>13, Moves

-----------------------------------------------------------------------------
(* A setting that is written is shown, and what other cells showed remains. *)
LEMMA Written ==
  ASSUME Shaped, NEW k \in played, NEW v \in Values,
         HandlerOf[k.control].aux /\ quad => v # 1,
         reg' = [reg EXCEPT ![WordOf(k)] = Changed(reg[WordOf(k)], k, v)],
         UNCHANGED quad
  PROVE  /\ Shows(k, v)'
         /\ \A j \in played, x \in Values :
              ~Shares(j, k) /\ Shows(j, x) => Shows(j, x)'
<1>1. Shows(k, v)'
  <2>1. HasValue(reg'[WordOf(k)], k, v)
    BY SettingTakes
  <2>2. quad' /\ HandlerOf[k.control].aux => v = 0
    BY DEF Values
  <2> QED
    BY <2>1, <2>2 DEF Shows
<1>2. ASSUME NEW j \in played, NEW x \in Values, ~Shares(j, k), Shows(j, x)
      PROVE  Shows(j, x)'
  <2> DEFINE y == IF quad /\ HandlerOf[j.control].aux THEN 0 ELSE x
  <2>1. y \in Values /\ HasValue(reg[WordOf(j)], j, y)
    BY <1>2 DEF Shows, Values
  <2> HIDE DEF y
  <2>2. HasValue(reg'[WordOf(j)], j, y)
    BY <1>2, <2>1, SettingTakes
  <2> QED
    BY <2>2 DEF Shows, y
<1> QED
  BY <1>1, <1>2

(* So the registers then reflect the file with the setting recorded in it.  *)
LEMMA TakenIn ==
  ASSUME Shaped, NEW k \in Saved, NEW v \in Values,
         HandlerOf[k.control].aux /\ quad => v # 1,
         reg' = [reg EXCEPT ![WordOf(k)] = Changed(reg[WordOf(k)], k, v)],
         UNCHANGED <<quad, file>>,
         Entries(file), DOMAIN file \subseteq Saved, Reflects(file)
  PROVE  Reflects(With(file, k, v))'
<1>1. k \in played
  BY DEF Saved
<1>2. ASSUME NEW j \in DOMAIN With(file, k, v)
      PROVE  Shows(j, With(file, k, v)[j])'
  <2>1. CASE j = k
    <3>1. Shows(k, v)'
      BY <1>1, Written
    <3>2. With(file, k, v)[j] = v
      BY <2>1 DEF With
    <3>3. With(file', k, v)[j] = v
      BY <3>2
    <3> QED
      BY <2>1, <3>1, <3>3 DEF Shows
  <2>2. CASE j # k
    <3>1. j \in DOMAIN file /\ With(file, k, v)[j] = file[j]
      BY <2>2 DEF With
    <3>2. j \in Saved /\ j \in played /\ file[j] \in Values /\ Shows(j, file[j])
      BY <3>1 DEF Entries, Reflects, Saved
    <3>3. ~Shares(j, k)
      BY <2>2, <3>2, KeptApart
    <3>4. \A x \in Values : Shows(j, x) => Shows(j, x)'
      BY <1>1, <3>2, <3>3, Written
    <3> QED
      BY <3>1, <3>2, <3>4 DEF Shows
  <2> QED
    BY <2>1, <2>2
<1> QED
  BY <1>2 DEF Reflects, With

(* What an answered request has done to the registers of a live engine.     *)
LEMMA Received ==
  ASSUME IInv, Receive, current', ~doubt'
  PROVE  /\ current /\ ~doubt
         /\ \/ /\ UNCHANGED reg
               /\ \/ phase'[Client] # "ok" \/ request[Client].ready
                  \/ request[Client].restore /\ Unavailable(request[Client])
            \/ /\ ~request[Client].ready /\ ~Unavailable(request[Client])
               /\ phase'[Client] # "err"
               /\ reg' = [reg EXCEPT ![WordOf(request[Client].key)] =
                            Changed(reg[WordOf(request[Client].key)],
                                    request[Client].key,
                                    request[Client].value)]
<1> DEFINE a == Client
           m == request[a]
<1>1. /\ Registers /\ Conns /\ Shaped /\ up
      /\ current \in BOOLEAN /\ doubt \in BOOLEAN
      /\ a \in Clients /\ phase[a] \in {"sent", "orphan"}
  BY AnsweredPhase DEF IInv, Registers, Shaped, Receive
<1>2. current /\ ~doubt /\ cache = reg
  <2>1. current /\ ~doubt
    BY <1>1 DEF Receive, Refused, BecomesReady, Skipped, Performed, WrittenOk,
      NotWritten
  <2> QED
    BY <1>1, <2>1 DEF Registers, CopyIsHardware
<1>3. CASE Refused(a)
  <2>1. UNCHANGED reg /\ Answered(a, "err")
    BY <1>3 DEF Refused
  <2>2. phase'[a] # "ok"
    BY <1>1, <2>1 DEF Answered, Conns
  <2> QED
    BY <1>2, <2>1, <2>2
<1>4. CASE BecomesReady(a) \/ Skipped(a)
  BY <1>2, <1>4 DEF BecomesReady, Skipped
<1>5. CASE Performed(a)
  <2> DEFINE w == WordOf(m.key)
             word == Changed(reg[w], m.key, m.value)
             u == Update(m.key, m.value)
  <2>1. u.word = word /\ (u.same => word = reg[w])
    BY <1>2 DEF Update
  <2>2. ~m.ready /\ ~Unavailable(m)
    BY <1>5 DEF Performed
  <2>3. \/ /\ IF u.same THEN UNCHANGED <<reg, current, doubt, faults>>
              ELSE WrittenOk(w, u.word)
           /\ Answered(a, "ok")
        \/ NotWritten(w, u.word) /\ Answered(a, "err")
    BY <1>5 DEF Performed
  <2>4. m.key \in played
    BY <1>1, <2>2, RequestShape DEF Conns
  <2>5. u.same => reg' = [reg EXCEPT ![w] = word] \/ ~UNCHANGED reg
    <3>1. w \in PlayedWords /\ reg \in [PlayedWords -> [Cells -> Values]]
      BY <1>1, <2>4, PlayedWord DEF Shaped
    <3> QED
      BY <2>1, <3>1
  <2>6. NotWritten(w, u.word) /\ Answered(a, "err") =>
          UNCHANGED reg /\ phase'[a] # "ok"
    BY <1>1, <1>2 DEF NotWritten, Answered, Conns
  <2> HIDE DEF u
  <2>7. CASE /\ IF u.same THEN UNCHANGED <<reg, current, doubt, faults>>
                ELSE WrittenOk(w, u.word)
             /\ Answered(a, "ok")
    <3>1. reg' = [reg EXCEPT ![w] = word]
      BY <2>1, <2>5, <2>7 DEF WrittenOk
    <3>2. phase'[a] # "err"
      BY <1>1, <2>7 DEF Answered, Conns
    <3> QED
      BY <1>2, <2>2, <3>1, <3>2
  <2> QED
    BY <1>2, <2>3, <2>6, <2>7
<1> QED
  BY <1>3, <1>4, <1>5 DEF Receive

(* One request, handled whole.                                              *)
LEMMA ReceiveEffect ==
  ASSUME IInv, Formed, Alone, Alone', Effect, excused => excused',
         Receive, UNCHANGED <<programs, state>>, NEW a, a = Client
  PROVE  Effect'
<1> DEFINE m == request[a]
<1>0. /\ Registers /\ Shaped /\ Conns /\ Saves /\ Gate /\ Tasks /\ Files
      /\ UNCHANGED <<up, quad, request, sup, job, todo, file, helper, image,
                     played>>
      /\ a \in Clients /\ phase[a] \in {"sent", "orphan"}
      /\ \A b \in Clients : b # a => phase'[b] = phase[b]
      /\ phase[a] = "orphan" => phase'[a] = "idle"
      /\ phase[a] = "sent" => phase'[a] \in {"ok", "err"}
      /\ a # Supervisor => a \in Users
  BY AnsweredPhase DEF IInv, Registers, Formed, Receive, engine, programs,
    state, Clients
<1>1. a \in Recorders => a \in Users
  BY <1>0, Apart, ControlAssumption
  DEF Recorders, Clients, ControlAssumption
<1>2. \A b : b # a => SameAt(b)
  BY <1>0 DEF SameAt
<1> DEFINE Unwritten == \/ /\ UNCHANGED reg
                           /\ \/ phase'[a] # "ok" \/ m.ready
                              \/ m.restore /\ Unavailable(m)
           Wrote == /\ ~m.ready /\ ~Unavailable(m) /\ phase'[a] # "err"
                    /\ reg' = [reg EXCEPT ![WordOf(m.key)] =
                                 Changed(reg[WordOf(m.key)], m.key, m.value)]
<1>3. ASSUME Live'
      PROVE  Live /\ (Unwritten \/ Wrote)
  <2>1. up' /\ current' /\ ~doubt' /\ ~excused'
        /\ sup' \in {"restore", "ready", "watch"}
    BY <1>3 DEF Live
  <2> QED
    BY <1>0, <2>1, Received DEF Live
<1>4. ASSUME Live' PROVE phase[a] = "sent" /\ phase'[a] \in {"ok", "err"}
                         /\ ~excused
  <2>1. ~excused
    BY <1>3, <1>4 DEF Live
  <2>2. phase[a] # "orphan"
    BY <1>0, <2>1 DEF Tasks, UserAt, SupervisorAt
  <2> QED
    BY <1>0, <2>1, <2>2
<1>5. ASSUME Wrote
      PROVE  /\ m.key \in played /\ m.value \in Values
             /\ HandlerOf[m.key.control].aux /\ quad => m.value # 1
  <2>1. m \in Requests
    BY <1>0 DEF Conns
  <2> QED
    BY <1>5, <2>1, RequestShape DEF Unavailable, auxRoutingAvailable
<1>6. a \in Users => helper[a] = "none" \/ phase[a] = "orphan"
  BY <1>0 DEF Tasks, UserAt
<1>7. a \in Windows => a \in Windows' \/ phase[a] = "orphan"
  BY <1>0, <1>1, <1>6, InWindows, InWindowsNext
<1>8. ASSUME Live', a \in Windows', \A b \in Windows : b = a
      PROVE  Pending(a)'
  <2>1. a \in Recorders => Recording(a)'
    BY <1>0, <1>1, <1>4, <1>6, <1>8 DEF Recording
  <2>2. Setting(a)'
    <3> SUFFICES ASSUME job[a] = "set", phase'[a] = "ok",
                        validStoredCommand(m.key)
                 PROVE  Reflects(With(file, m.key, m.value))'
      BY <1>0 DEF Setting
    <3>1. a \in Users /\ ~m.ready /\ ~m.restore
      <4>1. a # Supervisor
        BY <1>0 DEF Tasks, SupervisorAt
      <4> QED
        BY <1>0, <4>1 DEF Tasks, UserAt, Gate
    <3>2. Wrote
      BY <1>3, <1>8, <3>1
    <3>3. a \notin Windows
      BY <1>0, <1>1, <1>4, <1>6, <1>8, <3>1, InWindows
    <3>4. Reflects(file)
      BY <1>3, <1>8, <3>3, Before
    <3>5. m.key \in Saved
      BY <1>5, <3>2 DEF Saved
    <3>6. Entries(file) /\ DOMAIN file \subseteq Saved
      BY <1>0 DEF Saves, Files
    <3> QED
      BY <1>0, <1>5, <3>2, <3>4, <3>5, <3>6, TakenIn
  <2>3. Replays(a)'
    <3> SUFFICES ASSUME Replaying(a) PROVE Replays(a)'
      BY <1>0 DEF Replays, Replaying
    <3>1. a \in Windows
      BY <1>0, InWindows DEF Replaying
    <3>2. Replays(a)
      BY <1>0, <1>3, <1>8, <3>1, Before DEF Pending
    <3>3. /\ ~m.ready /\ m.restore /\ m.key \in DOMAIN todo[a]
          /\ m.value = todo[a][m.key] /\ DOMAIN todo[a] \subseteq DOMAIN file
          /\ \A k \in DOMAIN todo[a] : todo[a][k] = file[k]
          /\ \A k \in DOMAIN file \ DOMAIN todo[a] : Shows(k, file[k])
      BY <1>0, <3>2 DEF Replays
    <3>4. /\ m.key \in Saved /\ DOMAIN file \subseteq Saved
          /\ \A k \in DOMAIN file : k \in played /\ file[k] \in Values
      BY <1>0, <3>3 DEF Saves, Entries, Files
    <3>5. ASSUME NEW k \in DOMAIN file \ DOMAIN todo[a]
          PROVE  Shows(k, file[k])'
      <4>1. Shows(k, file[k])
        BY <3>3
      <4>2. CASE Wrote
        <5>1. ~Shares(k, m.key)
          BY <1>0, <3>3, <3>4, KeptApart
        <5>2. \A x \in Values : Shows(k, x) => Shows(k, x)'
          BY <1>0, <1>5, <3>4, <4>2, <5>1, Written
        <5> QED
          BY <1>0, <3>4, <4>1, <5>2 DEF Shows
      <4>3. CASE Unwritten
        BY <1>0, <4>1, <4>3 DEF Shows
      <4> QED
        BY <1>3, <1>8, <4>2, <4>3
    <3>6. phase'[a] = "ok" => Shows(m.key, m.value)'
      <4>1. CASE Wrote
        <5>1. \A v \in Values : v = m.value => Shows(m.key, v)'
          BY <1>0, <1>5, <4>1, Written
        <5> QED
          BY <1>0, <1>5, <4>1, <5>1 DEF Shows
      <4>2. CASE Unwritten /\ phase'[a] = "ok"
        <5>1. quad /\ HandlerOf[m.key.control].aux /\ reg' = reg /\ up
          BY <1>3, <1>8, <3>3, <4>2
          DEF Unavailable, auxRoutingAvailable, Live
        <5>2. WordOf(m.key) \in PlayedWords \cap AuxWords
          BY <1>0, <3>3, <3>4, <5>1, PlayedWord DEF WordOf, AuxWords
        <5>3. reg[WordOf(m.key)] = Preset
          BY <1>0, <5>1, <5>2 DEF Registers, AuxOK
        <5>4. HasValue(reg[WordOf(m.key)], m.key, 0)
          BY <1>0, <3>3, <3>4, <5>3, PlayedWord DEF HasValue, Preset, Cells
        <5> QED
          BY <1>0, <5>1, <5>4 DEF Shows
      <4> QED
        BY <1>3, <1>8, <4>1, <4>2
    <3> QED
      BY <1>0, <3>3, <3>5, <3>6 DEF Replays
  <2> QED
    BY <2>1, <2>2, <2>3 DEF Pending
<1>9. ASSUME Live', a \notin Windows, a \notin Windows'
      PROVE  UNCHANGED <<reg, file>>
  <2> SUFFICES ASSUME Wrote PROVE FALSE
    BY <1>0, <1>3, <1>9
  <2>1. phase[a] = "sent" /\ phase'[a] = "ok" /\ ~m.ready
    BY <1>4, <1>9
  <2>2. job[a] \notin {"clear", "reset", "restore"} /\ job[a] # "set"
    BY <1>0, <1>9, <2>1, InWindows, InWindowsNext
  <2>3. job[a] = "none"
    BY <1>0, <2>2 DEF Tasks, Jobs
  <2>4. a = Supervisor
    BY <1>0, <2>1, <2>3 DEF Tasks, UserAt
  <2> QED
    BY <1>0, <2>1, <2>3, <2>4 DEF Tasks, SupervisorAt
<1>10. Live' /\ a \in Windows => a \in Windows'
  BY <1>4, <1>7
<1> HIDE DEF Unwritten, Wrote
<1> QED
  BY <1>0, <1>2, <1>3, <1>8, <1>9, <1>10, EffectBy

(* The knob is kept.                                                        *)
LEMMA KnobSaved ==
  ASSUME Shaped, KnobKey \in played PROVE KnobKey \in Saved
BY HeadphoneGain DEF Saved, validStoredCommand, Shaped, KnobKey, Key

(* A turn opens the knob's window, if it was written.                       *)
LEMMA TurnKnobEffect ==
  ASSUME IInv, Formed, Alone, Alone', Effect, excused => excused', TurnKnob
  PROVE  Effect'
<1>0. /\ Registers /\ Shaped /\ Saves /\ Files
      /\ UNCHANGED <<played, up, quad, sup, job, todo, file, phase, request>>
      /\ helper[Knob] = "none" /\ Knob \in Recorders /\ Knob \notin Clients
      /\ KnobKey \in played /\ up
  BY Apart DEF IInv, Registers, Formed, TurnKnob, Turn, engine, link, programs,
    Recorders, Clients
<1>1. PICK step \in {"up", "down"} :
        /\ Turn(step)
        /\ IF cache' = cache THEN UNCHANGED <<helper, image>>
           ELSE saveHeadphoneVolume(Turned(step)[1])
  BY DEF TurnKnob
<1> DEFINE w == WordOf(KnobKey)
           v == Turned(step)[1]
<1>2. v \in Values /\ Turned(step) = Changed(cache[w], KnobKey, v)
      /\ ~HandlerOf[KnobKey.control].aux /\ KnobKey \in Saved
      /\ w \in PlayedWords
  BY <1>0, TurnedWord, KnobSaved, Surface, PlayedWord
  DEF KnobKey, Key, handleHeadphoneOutputLevel, Handler
<1>3. \A b : b # Knob => SameAt(b)
  BY <1>0, <1>1 DEF SameAt, Saves, saveHeadphoneVolume, Step
<1>4. Knob \notin Windows
  BY <1>0, InWindows
<1>5. ASSUME Live'
      PROVE  /\ Live
             /\ \/ UNCHANGED <<reg, helper, image>>
                \/ /\ reg' = [reg EXCEPT ![w] = Changed(reg[w], KnobKey, v)]
                   /\ saveHeadphoneVolume(v)
  <2>1. up' /\ current' /\ ~doubt' /\ ~excused'
        /\ sup' \in {"restore", "ready", "watch"}
    BY <1>5 DEF Live
  <2>2. current \in BOOLEAN /\ doubt \in BOOLEAN
    BY <1>0 DEF Shaped
  <2>3. current /\ ~doubt
    BY <1>1, <2>1, <2>2 DEF Turn, WrittenOk, NotWritten
  <2>4. Live /\ cache = reg
    BY <1>0, <2>1, <2>3 DEF Live, Registers, CopyIsHardware
  <2>5. CASE /\ WrittenOk(w, Turned(step))
             /\ cache' = [cache EXCEPT ![w] = Turned(step)]
    <3>1. cache' # cache
      <4>1. Turned(step) # cache[w]
        BY <1>1 DEF Turn
      <4> QED
        BY <1>0, <1>2, <2>5, <4>1 DEF Shaped
    <3> QED
      BY <1>1, <1>2, <2>4, <2>5, <3>1 DEF WrittenOk
  <2>6. CASE NotWritten(w, Turned(step)) /\ UNCHANGED cache
    <3>1. UNCHANGED reg
      BY <2>1, <2>3, <2>6 DEF NotWritten
    <3> QED
      BY <1>1, <2>4, <2>6, <3>1
  <2> QED
    BY <1>1, <2>5, <2>6 DEF Turn
<1>6. ASSUME Live', Knob \in Windows', \A b \in Windows : b = Knob
      PROVE  Pending(Knob)'
  <2>1. helper'[Knob] # "none"
    BY <1>0, <1>6, InWindowsNext
  <2>2. /\ reg' = [reg EXCEPT ![w] = Changed(reg[w], KnobKey, v)]
        /\ helper'[Knob] = "load" /\ image'[Knob] = With(Empty, KnobKey, v)
    BY <1>0, <1>5, <1>6, <2>1 DEF saveHeadphoneVolume, Step, Saves
  <2>3. Reflects(file)
    BY <1>4, <1>5, <1>6, Before
  <2>4. Entries(file) /\ DOMAIN file \subseteq Saved
    BY <1>0 DEF Saves, Files
  <2>5. \A x \in Values : x = v => Reflects(With(file, KnobKey, x))'
    BY <1>0, <1>2, <2>2, <2>3, <2>4, TakenIn
  <2>6. DOMAIN image'[Knob] = {KnobKey} /\ image'[Knob][KnobKey] = v
    <3> HIDE DEF v
    <3> QED
      BY <2>2 DEF With, Empty
  <2> HIDE DEF v
  <2>7. Recording(Knob)'
    BY <1>2, <2>2, <2>5, <2>6 DEF Recording
  <2> QED
    BY <1>0, <2>7 DEF Pending, Recorders, Clients
<1>7. ASSUME Live', Knob \notin Windows' PROVE UNCHANGED <<reg, file>>
  <2>1. helper'[Knob] = "none"
    BY <1>0, <1>7, InWindowsNext
  <2> QED
    BY <1>0, <1>5, <1>7, <2>1 DEF saveHeadphoneVolume, Step, Saves
<1> QED
  BY <1>0, <1>3, <1>4, <1>5, <1>6, <1>7, EffectBy

(* A user starts a program, and its request is sent: nothing shows yet.     *)
LEMMA StartEffect ==
  ASSUME IInv, Formed, Alone, Alone', Effect, excused => excused',
         NEW u \in Users, SetControl(u) \/ Clear(u) \/ Reset(u) \/ Send(u)
  PROVE  Effect'
<1>0. /\ Conns /\ Saves /\ Tasks /\ UserAt(u)
      /\ UNCHANGED <<up, quad, current, doubt, reg, sup, todo, file>>
      /\ u \in Clients /\ u \in Recorders /\ u # Knob /\ u # Supervisor
      /\ Knob \notin Clients /\ job \in [Clients -> Jobs]
  BY Apart DEF IInv, Formed, Tasks, SetControl, Clear, Reset, SaveNow, Send,
    serverVars, engine, state, programs, Clients, Recorders
<1>1. Live' => Live
  BY <1>0 DEF Live
<1>2. CASE SetControl(u)
  <2>1. PICK k \in played, v \in Values : Connect(u, Set(k, v, FALSE))
    BY <1>2 DEF SetControl
  <2>2. /\ job[u] = "none" /\ job' = [job EXCEPT ![u] = "set"]
        /\ UNCHANGED <<helper, image>>
    BY <1>2 DEF SetControl, Start, state
  <2>3. \A b : b # u => SameAt(b)
    BY <1>0, <2>1, <2>2 DEF SameAt, Connect, Conns
  <2>4. u \notin Windows /\ u \notin Windows'
    BY <1>0, <2>1, <2>2, InWindows, InWindowsNext DEF Connect, Conns, UserAt
  <2> QED
    BY <1>0, <1>1, <2>3, <2>4, EffectBy
<1>3. CASE Clear(u) \/ Reset(u)
  <2>1. PICK f \in {Empty, defaultState}, j \in {"clear", "reset"} :
          SaveNow(u, j, f) /\ (j = "clear" => f = Empty)
    BY <1>3 DEF Clear, Reset
  <2>2. /\ helper' = [helper EXCEPT ![u] = "open"]
        /\ image' = [image EXCEPT ![u] = f]
        /\ job' = [job EXCEPT ![u] = j]
        /\ UNCHANGED <<phase, request>> /\ job[u] = "none"
    BY <2>1 DEF SaveNow, Start, Step, serverVars, link
  <2>3. \A b : b # u => SameAt(b)
    BY <1>0, <2>2 DEF SameAt, Saves
  <2>4. /\ helper'[u] = "open" /\ image'[u] = f /\ job'[u] = j
        /\ u \notin Windows
    BY <1>0, <2>2, InWindows DEF Saves, UserAt
  <2>5. Pending(u)'
    <3>1. DOMAIN Empty = {}
      BY DEF Empty
    <3>2. Recording(u)'
      BY <1>0, <2>1, <2>4, <3>1 DEF Recording, Reflects
    <3>3. Setting(u)' /\ Replays(u)'
      BY <1>0, <2>1, <2>4 DEF Setting, Replays, Replaying
    <3> QED
      BY <3>2, <3>3 DEF Pending
  <2>6. u \in Windows'
    BY <1>0, <2>4, InWindowsNext
  <2> QED
    BY <1>0, <1>1, <2>3, <2>4, <2>5, <2>6, EffectBy
<1>4. CASE Send(u)
  <2>1. /\ phase[u] = "open" /\ phase' = [phase EXCEPT ![u] = "sent"]
        /\ UNCHANGED <<job, request, helper, image>>
    BY <1>4 DEF Send, programs, state
  <2>2. phase'[u] = "sent" /\ \A b : b # u => SameAt(b)
    BY <1>0, <2>1 DEF SameAt, Conns
  <2>3. helper[u] = "none"
    BY <1>0, <2>1 DEF UserAt
  <2>4. u \in Windows' <=> u \in Windows
    BY <1>0, <2>1, <2>2, InWindows, InWindowsNext
  <2>5. ASSUME Pending(u) PROVE Pending(u)'
    <3>1. Recording(u)' /\ Setting(u)'
      BY <1>0, <2>1, <2>2, <2>3 DEF Recording, Setting
    <3>2. Replaying(u)' <=> Replaying(u)
      BY <2>1 DEF Replaying
    <3>3. Replays(u)'
      BY <1>0, <2>1, <2>2, <2>5, <3>2 DEF Replays, Pending, Shows
    <3> QED
      BY <3>1, <3>3 DEF Pending
  <2> QED
    BY <1>0, <1>1, <2>2, <2>4, <2>5, EffectBy, Before
<1> QED
  BY <1>2, <1>3, <1>4

(* A set that was answered OK goes on to its record.                        *)
LEMMA SetAnsweredEffect ==
  ASSUME IInv, Formed, Alone, Alone', Effect, excused => excused',
         NEW u \in Users, SetAnswered(u)
  PROVE  Effect'
<1> DEFINE m == request[u]
<1>0. /\ Conns /\ Saves /\ Tasks
      /\ UNCHANGED <<up, quad, current, doubt, reg, sup, todo, file>>
      /\ u \in Clients /\ u \in Recorders /\ u # Knob
      /\ Knob \notin Clients /\ job \in [Clients -> Jobs]
      /\ job[u] = "set" /\ helper[u] = "none" /\ phase[u] \in {"ok", "err"}
      /\ phase' = [phase EXCEPT ![u] = "idle"]
      /\ request' = [request EXCEPT ![u] = Ready]
  BY Apart DEF IInv, Formed, Tasks, SetAnswered, Settled, engine, Clients,
    Recorders
<1>1. Live' => Live
  BY <1>0 DEF Live
<1>2. phase'[u] = "idle"
  BY <1>0 DEF Conns
<1>3. CASE phase[u] = "ok" /\ validStoredCommand(m.key)
  <2>1. /\ helper' = [helper EXCEPT ![u] = "load"] /\ UNCHANGED job
        /\ image' = [image EXCEPT ![u] = With(Empty, m.key, m.value)]
    BY <1>3 DEF SetAnswered, persistSuccessfulSet, Step
  <2>2. \A b : b # u => SameAt(b)
    BY <1>0, <2>1 DEF SameAt, Conns, Saves
  <2>3. /\ helper'[u] = "load" /\ image'[u] = With(Empty, m.key, m.value)
        /\ job'[u] = "set" /\ u \in Windows /\ u \in Windows'
    BY <1>0, <1>3, <2>1, InWindows, InWindowsNext DEF Saves
  <2>4. ASSUME Pending(u) PROVE Pending(u)'
    <3>1. Reflects(With(file, m.key, m.value))
      BY <1>0, <1>3, <2>4 DEF Pending, Setting
    <3>2. DOMAIN image'[u] = {m.key} /\ image'[u][m.key] = m.value
      BY <2>3 DEF With, Empty
    <3>4. Recording(u)'
      BY <1>0, <2>3, <3>1, <3>2 DEF Recording, Reflects, Shows
    <3>5. Setting(u)' /\ Replays(u)'
      BY <1>0, <1>2, <2>3 DEF Setting, Replays, Replaying
    <3> QED
      BY <3>4, <3>5 DEF Pending
  <2> QED
    BY <1>0, <1>1, <2>2, <2>3, <2>4, EffectBy, Before
<1>4. CASE ~(phase[u] = "ok" /\ validStoredCommand(m.key))
  <2>1. /\ job' = [job EXCEPT ![u] = "none"] /\ UNCHANGED <<helper, image>>
        /\ excused' = (excused \/ phase[u] = "ok")
    BY <1>4 DEF SetAnswered, persistSuccessfulSet
  <2>2. CASE phase[u] = "ok"
    BY <2>1, <2>2 DEF Effect, Live
  <2>3. CASE phase[u] = "err"
    <3>1. \A b : b # u => SameAt(b)
      BY <1>0, <2>1 DEF SameAt, Conns
    <3>2. u \notin Windows /\ u \notin Windows'
      BY <1>0, <1>2, <2>1, <2>3, InWindows, InWindowsNext
    <3> QED
      BY <1>0, <1>1, <3>1, <3>2, EffectBy
  <2> QED
    BY <1>0, <2>2, <2>3
<1> QED
  BY <1>3, <1>4

(* The three steps of fw1814state.                                          *)
LEMMA SaveEffect ==
  ASSUME IInv, Formed, Alone, Alone', Effect, excused => excused',
         NEW a \in Recorders, loadState(a) \/ Truncate(a) \/ saveState(a)
  PROVE  Effect'
<1>0. /\ Saves /\ Tasks /\ helper[a] # "none"
      /\ UNCHANGED <<up, quad, current, doubt, reg, sup, phase, request>>
      /\ a # Knob => a \in Users /\ a \in Clients /\ UserAt(a)
      /\ a \in Clients => a # Knob
      /\ job \in [Clients -> Jobs]
  BY Apart DEF IInv, Formed, Tasks, loadState, Truncate, saveState, serverVars,
    engine, link, programs, Clients, Recorders
<1>1. Live' => Live
  BY <1>0 DEF Live
<1>2. a \in Windows
  BY <1>0, InWindows
<1>3. CASE loadState(a)
  <2> DEFINE k == CHOOSE j \in DOMAIN image[a] : TRUE
  <2>1. /\ helper[a] = "load" /\ helper' = [helper EXCEPT ![a] = "open"]
        /\ image' = [image EXCEPT ![a] = With(file, k, image[a][k])]
        /\ UNCHANGED <<job, todo, file>>
    BY <1>3 DEF loadState, Step, Recorded, programs
  <2>2. \A b : b # a => SameAt(b)
    BY <1>0, <2>1 DEF SameAt, Saves
  <2>3. /\ helper'[a] = "open" /\ image'[a] = With(file, k, image[a][k])
    BY <1>0, <2>1 DEF Saves
  <2>4. ASSUME Pending(a) PROVE Pending(a)'
    <3>1. PICK x \in DOMAIN image[a] :
            DOMAIN image[a] = {x} /\ Reflects(With(file, x, image[a][x]))
      BY <2>1, <2>4 DEF Pending, Recording
    <3>2. k = x
      BY <3>1
    <3>3. Reflects(image'[a])
      BY <2>3, <3>1, <3>2
    <3> HIDE DEF k
    <3>4. Recording(a)'
      BY <1>0, <2>1, <2>3, <3>3 DEF Recording, Reflects, Shows
    <3>5. a \in Clients => Setting(a)' /\ Replays(a)'
      BY <1>0, <2>3 DEF Setting, Replays, Replaying, UserAt, Tasks,
        SupervisorAt
    <3> QED
      BY <3>4, <3>5 DEF Pending
  <2>5. a \in Windows'
    BY <2>3, InWindowsNext
  <2> QED
    BY <1>0, <1>1, <1>2, <2>2, <2>4, <2>5, EffectBy, Before
<1>4. CASE Truncate(a)
  <2>1. /\ helper[a] = "open" /\ helper' = [helper EXCEPT ![a] = "write"]
        /\ UNCHANGED <<job, todo, image>>
    BY <1>4 DEF Truncate, Step, programs
  <2>2. \A b : b # a => SameAt(b)
    BY <1>0, <2>1 DEF SameAt, Saves
  <2>3. helper'[a] = "write" /\ a \in Windows'
    BY <1>0, <2>1, InWindowsNext DEF Saves
  <2>4. ASSUME Pending(a) PROVE Pending(a)'
    <3>1. Recording(a)'
      BY <1>0, <2>1, <2>3, <2>4 DEF Pending, Recording, Reflects, Shows
    <3>2. a \in Clients => Setting(a)' /\ Replays(a)'
      BY <1>0, <2>3 DEF Setting, Replays, Replaying, UserAt, Tasks,
        SupervisorAt
    <3> QED
      BY <3>1, <3>2 DEF Pending
  <2> QED
    BY <1>0, <1>1, <1>2, <2>2, <2>3, <2>4, EffectBy, Before
<1>5. CASE saveState(a)
  <2>1. /\ helper[a] = "write" /\ helper' = [helper EXCEPT ![a] = "none"]
        /\ image' = [image EXCEPT ![a] = Empty] /\ file' = image[a]
        /\ a = Knob => UNCHANGED <<job, todo>>
        /\ a # Knob =>
             /\ job' = [job EXCEPT ![a] = IF @ = "reset" THEN @ ELSE "none"]
             /\ todo' = [todo EXCEPT ![a] = IF job[a] = "reset" THEN image[a]
                                            ELSE @]
    BY <1>5 DEF saveState, Step
  <2>2. \A b : b # a => SameAt(b)
    BY <1>0, <2>1 DEF SameAt, Saves
  <2>3. helper'[a] = "none"
    BY <1>0, <2>1 DEF Saves
  <2>4. CASE a # Knob /\ job[a] = "reset"
    <3>1. /\ job'[a] = "reset" /\ todo'[a] = image[a] /\ a \in Windows'
          /\ phase[a] = "idle"
      BY <1>0, <2>1, <2>4, InWindowsNext DEF Saves, UserAt
    <3>2. Pending(a)'
      <4>1. Recording(a)' /\ Setting(a)'
        BY <2>3, <3>1 DEF Recording, Setting
      <4>2. Replays(a)'
        BY <1>0, <2>1, <3>1 DEF Replays
      <4> QED
        BY <4>1, <4>2 DEF Pending
    <3> QED
      BY <1>0, <1>1, <1>2, <2>2, <3>1, <3>2, EffectBy
  <2>5. CASE a = Knob \/ job[a] # "reset"
    <3>1. a \notin Windows'
      BY <1>0, <2>1, <2>3, <2>5, InWindowsNext DEF UserAt, Tasks, SupervisorAt
    <3>2. ASSUME Pending(a) PROVE Reflects(file)'
      <4>1. Reflects(image[a])
        BY <2>1, <2>5, <3>2 DEF Pending, Recording
      <4> QED
        BY <1>0, <2>1, <4>1 DEF Reflects, Shows
    <3> QED
      BY <1>0, <1>1, <1>2, <2>2, <3>1, <3>2, EffectBy, Before
  <2> QED
    BY <2>4, <2>5
<1> QED
  BY <1>3, <1>4, <1>5

(* A replay sends its entries in turn, and what it has not sent yet is all  *)
(* that is missing.                                                         *)
LEMMA ReplayEffect ==
  ASSUME IInv, Formed, Alone, Alone', Effect, excused => excused',
         NEW a \in Clients, RestoreEntry(a) \/ EntryAnswered(a) \/ Restored(a)
  PROVE  Effect'
<1>0. /\ Conns /\ Saves /\ Tasks /\ Replaying(a)
      /\ UNCHANGED <<up, quad, current, doubt, reg, file, helper, image>>
      /\ job \in [Clients -> Jobs]
      /\ (a \in Recorders => a # Knob /\ a \in Users /\ a # Supervisor)
      /\ a = Supervisor \/ a \in Users
      /\ job[a] \in {"reset", "restore"}
      /\ (a \in Users => helper[a] = "none")
      /\ (a = Supervisor => sup = "restore")
  BY Apart DEF IInv, Formed, Tasks, RestoreEntry, EntryAnswered, Restored,
    serverVars, engine, state, Clients, Recorders, Replaying, SupervisorAt, Jobs
<1>1. a \in Windows
  BY <1>0, InWindows
<1>2. CASE RestoreEntry(a)
  <2>1. PICK k \in DOMAIN todo[a] :
          IF up THEN Connect(a, Set(k, todo[a][k], TRUE)) /\ UNCHANGED todo
          ELSE /\ todo' = [todo EXCEPT ![a] = Remaining(a, k)]
               /\ UNCHANGED link
    BY <1>2 DEF RestoreEntry
  <2>2. UNCHANGED <<job, sup>>
    BY <1>2 DEF RestoreEntry
  <2>3. \A b : b # a => SameAt(b)
    BY <1>0, <2>1, <2>2 DEF SameAt, Connect, Conns, Saves, link
  <2>4. a \in Windows' /\ (Live' => Live)
    BY <1>0, <2>2, InWindowsNext DEF Live
  <2>5. ASSUME Live', Pending(a) PROVE Pending(a)'
    <3>1. Connect(a, Set(k, todo[a][k], TRUE)) /\ UNCHANGED todo
      BY <1>0, <2>1, <2>5 DEF Live
    <3>2. /\ Set(k, todo[a][k], TRUE).key = k
          /\ Set(k, todo[a][k], TRUE).value = todo[a][k]
          /\ Set(k, todo[a][k], TRUE).restore = TRUE
          /\ Set(k, todo[a][k], TRUE).ready = FALSE
      BY DEF Set
    <3>3. /\ request'[a] = Set(k, todo[a][k], TRUE) /\ phase'[a] = "sent"
      BY <1>0, <3>1, <3>2 DEF Connect, Conns
    <3>4. Replays(a)
      BY <2>5 DEF Pending
    <3>5. Replays(a)'
      BY <1>0, <3>1, <3>2, <3>3, <3>4 DEF Replays, Shows
    <3>6. Setting(a)' /\ (a \in Recorders => Recording(a)')
      BY <1>0, <3>3 DEF Setting, Recording
    <3> QED
      BY <3>5, <3>6 DEF Pending
  <2> QED
    BY <1>0, <1>1, <2>3, <2>4, <2>5, EffectBy, Before
<1>3. CASE EntryAnswered(a)
  <2>1. /\ phase[a] \in {"ok", "err"} /\ phase' = [phase EXCEPT ![a] = "idle"]
        /\ request' = [request EXCEPT ![a] = Ready]
        /\ todo' = [todo EXCEPT ![a] = Remaining(a, request[a].key)]
        /\ excused' = (excused \/ phase[a] = "err")
        /\ UNCHANGED <<job, sup>>
    BY <1>3 DEF EntryAnswered
  <2>2. \A b : b # a => SameAt(b)
    BY <1>0, <2>1 DEF SameAt, Conns, Saves
  <2>3. a \in Windows' /\ (Live' => Live)
    BY <1>0, <2>1, InWindowsNext DEF Live
  <2>4. ASSUME Live', Pending(a) PROVE Pending(a)'
    <3>1. phase[a] = "ok"
      BY <2>1, <2>4 DEF Live
    <3>2. Replays(a)
      BY <2>4 DEF Pending
    <3>3. /\ phase'[a] = "idle"
          /\ todo'[a] = [j \in DOMAIN todo[a] \ {request[a].key} |-> todo[a][j]]
      BY <1>0, <2>1 DEF Conns, Saves, Remaining
    <3>4. /\ Shows(request[a].key, file[request[a].key])
          /\ \A k \in DOMAIN file \ DOMAIN todo[a] : Shows(k, file[k])
          /\ DOMAIN todo[a] \subseteq DOMAIN file
          /\ \A k \in DOMAIN todo[a] : todo[a][k] = file[k]
      BY <1>0, <3>1, <3>2 DEF Replays
    <3>5. \A k \in DOMAIN file \ DOMAIN todo'[a] : Shows(k, file[k])
      BY <3>3, <3>4
    <3>6. /\ DOMAIN todo'[a] \subseteq DOMAIN file'
          /\ \A k \in DOMAIN todo'[a] : todo'[a][k] = file'[k]
      BY <1>0, <3>3, <3>4
    <3>7. Replays(a)'
      BY <1>0, <3>3, <3>5, <3>6 DEF Replays, Shows
    <3>8. Setting(a)' /\ (a \in Recorders => Recording(a)')
      BY <1>0, <3>3 DEF Setting, Recording
    <3> QED
      BY <3>7, <3>8 DEF Pending
  <2> QED
    BY <1>0, <1>1, <2>2, <2>3, <2>4, EffectBy, Before
<1>4. CASE Restored(a)
  <2>1. /\ phase[a] = "idle" /\ todo[a] = Empty
        /\ job' = [job EXCEPT ![a] = "none"]
        /\ sup' = IF a = Supervisor THEN "ready" ELSE sup
        /\ UNCHANGED <<phase, request, todo, excused>>
    BY <1>4 DEF Restored, serverVars, link
  <2>2. \A b : b # a => SameAt(b)
    BY <1>0, <2>1 DEF SameAt
  <2>3. a \notin Windows'
    BY <1>0, <2>1, InWindowsNext
  <2>4. Live' => Live
    BY <1>0, <2>1 DEF Live
  <2>5. ASSUME Pending(a) PROVE Reflects(file)'
    <3>1. DOMAIN todo[a] = {}
      BY <2>1 DEF Empty
    <3>2. Reflects(file)
      BY <1>0, <2>5, <3>1 DEF Pending, Replays, Reflects
    <3> QED
      BY <1>0, <3>2 DEF Reflects, Shows
  <2> QED
    BY <1>0, <1>1, <2>2, <2>3, <2>4, <2>5, EffectBy, Before
<1> QED
  BY <1>2, <1>3, <1>4

(* The supervisor begins its replay of a new engine, with nothing sent yet; *)
(* its message that the engine is ready changes no register.                *)
LEMMA SupervisorEffect ==
  ASSUME IInv, Formed, Alone, Alone', Effect, excused => excused',
         restoreControlState \/ internalReady \/ ReadyAnswered
  PROVE  Effect'
<1>0. /\ Conns /\ Saves /\ Tasks /\ SupervisorAt
      /\ UNCHANGED <<up, quad, current, doubt, reg, file, helper, image>>
      /\ job \in [Clients -> Jobs]
      /\ Supervisor \in Clients /\ Supervisor \notin Users
      /\ Supervisor \notin Recorders
  BY Apart DEF IInv, Formed, Tasks, restoreControlState, internalReady,
    ReadyAnswered, serverVars, engine, state, Clients, Recorders
<1>1. CASE restoreControlState
  <2>1. /\ sup = "wait" /\ job' = [job EXCEPT ![Supervisor] = "restore"]
        /\ todo' = [todo EXCEPT ![Supervisor] = file]
        /\ UNCHANGED <<phase, request>>
    BY <1>1 DEF restoreControlState, serverVars, link
  <2>2. \A b : b # Supervisor => SameAt(b)
    BY <1>0, <2>1 DEF SameAt, Saves
  <2>3. /\ job'[Supervisor] = "restore" /\ todo'[Supervisor] = file
        /\ phase'[Supervisor] = "idle" /\ Supervisor \in Windows'
    BY <1>0, <2>1, InWindowsNext DEF Saves, SupervisorAt
  <2>4. Pending(Supervisor)'
    <3>1. Replays(Supervisor)' /\ Setting(Supervisor)'
      BY <1>0, <2>3 DEF Replays, Setting
    <3> QED
      BY <1>0, <3>1 DEF Pending, Recorders
  <2> QED
    BY <1>0, <2>2, <2>3, <2>4, EffectBy
<1>2. CASE internalReady \/ ReadyAnswered
  <2>1. /\ UNCHANGED <<job, todo>> /\ sup = "ready"
        /\ \/ Connect(Supervisor, Ready) /\ UNCHANGED sup
           \/ UNCHANGED <<phase, request>> /\ sup' = "watch"
           \/ /\ phase' = [phase EXCEPT ![Supervisor] = "idle"]
              /\ UNCHANGED request /\ sup' = "watch"
    BY <1>2 DEF internalReady, ReadyAnswered, link
  <2>2. \A b : b # Supervisor => SameAt(b)
    BY <1>0, <2>1 DEF SameAt, Connect, Conns
  <2>3. Supervisor \notin Windows /\ Supervisor \notin Windows'
    BY <1>0, <2>1, InWindows, InWindowsNext DEF SupervisorAt
  <2>4. Live' => Live
    BY <1>0, <2>1 DEF Live
  <2> QED
    BY <1>0, <2>2, <2>3, <2>4, EffectBy
<1> QED
  BY <1>1, <1>2

(* The steps after which no engine is live.                                 *)
LEMMA DeadEffect ==
  ASSUME \/ Launch \/ EngineEnds \/ BusReset
         \/ \E u \in Users : KillTool(u)
         \/ \E a \in Recorders : KillHelper(a)
  PROVE  Effect'
<1>1. ~Live'
  BY DEF Live, Launch, EngineEnds, reset, BusReset, KillTool, KillHelper
<1> QED
  BY <1>1 DEF Effect

(* The server's steps without a request.                                    *)
LEMMA PolledEffect ==
  ASSUME IInv, Formed, Effect, excused => excused',
         Wait \/ DropLost \/ Forget \/ Prime, UNCHANGED <<programs, state>>
  PROVE  Effect'
<1>0. /\ Conns /\ Tasks
      /\ UNCHANGED <<up, quad, current, doubt, reg, sup, job, todo, request,
                     file, helper, image>>
  BY DEF IInv, Formed, Wait, DropLost, Forget, Prime, engine, server, link,
    programs, state
<1>1. Live' => Live
  BY <1>0 DEF Live
<1>2. CASE Wait \/ Forget \/ Prime
  <2>1. \A b : SameAt(b)
    BY <1>0, <1>2 DEF SameAt, Wait, Forget, Prime, link
  <2> QED
    BY <1>0, <1>1, <2>1, EffectKept
<1>3. CASE DropLost
  <2>1. Client \in Clients /\ phase[Client] = "lost"
    <3>1. Client # None /\ Served(None)
      BY <1>3 DEF DropLost
    <3> QED
      BY <1>0, <1>3, <3>1, NextClient DEF DropLost
  <2>2. excused
    BY <1>0, <2>1 DEF Tasks, UserAt, SupervisorAt, Clients
  <2> QED
    BY <2>2 DEF Effect, Live
<1> QED
  BY <1>2, <1>3

LEMMA EffectStep ==
  ASSUME IInv, Formed, Alone, Effect, [Next]_vars
  PROVE  Effect'
<1>0. Alone' /\ (excused => excused')
  BY AloneStep, ExcusedStays
<1>1. Polled => UNCHANGED <<programs, state>>
  BY DEF Polled
<1>2. Receive /\ Polled => Effect'
  BY <1>0, <1>1, ReceiveEffect
<1>3. (Wait \/ DropLost \/ Forget \/ Prime) /\ Polled => Effect'
  BY <1>0, <1>1, PolledEffect
<1>4. ASSUME UNCHANGED vars PROVE Effect'
  <2>1. UNCHANGED <<up, quad, current, doubt, reg, sup, job, todo, request,
                    phase, file, helper, image, excused>>
    BY <1>4 DEF vars, serverVars, engine, link, programs, state
  <2>2. (\A b : SameAt(b)) /\ (Live' => Live)
    BY <2>1 DEF SameAt, Live
  <2> QED
    BY <2>1, <2>2, EffectKept
<1>5. \A u \in Users : SetControl(u) \/ Clear(u) \/ Reset(u) \/ Send(u) => Effect'
  BY <1>0, StartEffect
<1>6. \A u \in Users : SetAnswered(u) => Effect'
  BY <1>0, SetAnsweredEffect
<1>7. \A a \in Recorders : loadState(a) \/ Truncate(a) \/ saveState(a) => Effect'
  BY <1>0, SaveEffect
<1>8. \A a \in Clients :
        RestoreEntry(a) \/ EntryAnswered(a) \/ Restored(a) => Effect'
  BY <1>0, ReplayEffect
<1>9. restoreControlState \/ internalReady \/ ReadyAnswered => Effect'
  BY <1>0, SupervisorEffect
<1>10. TurnKnob => Effect'
  BY <1>0, TurnKnobEffect
<1>11. /\ Launch \/ EngineEnds \/ BusReset => Effect'
       /\ \A u \in Users : KillTool(u) => Effect'
       /\ \A a \in Recorders : KillHelper(a) => Effect'
  BY DeadEffect
<1> HIDE DEF Polled
<1> QED
  BY <1>2, <1>3, <1>4, <1>5, <1>6, <1>7, <1>8, <1>9, <1>10, <1>11, Moves

LEMMA InitEffect == Init => Alone /\ Effect
<1> SUFFICES ASSUME Init PROVE Alone /\ Effect
  OBVIOUS
<1>1. ~up /\ \A a : a \notin Windows
  BY InWindows DEF Init, ServerInit
<1> QED
  BY <1>1 DEF Alone, Effect, Live

-----------------------------------------------------------------------------
(* The whole of the argument about what is saved: it holds together with    *)
(* IInv in every reachable state.                                           *)
Following == IInv /\ Formed /\ Alone /\ Effect

THEOREM FollowingAlways == Spec => []Following
<1>1. Init => Following
  BY InitInv, InitFormed, InitEffect DEF Following
<1>2. Following /\ [Next]_vars => Following'
  <2> SUFFICES ASSUME Following, [Next]_vars PROVE Following'
    OBVIOUS
  <2>1. IInv'
    BY InvStep DEF Following
  <2>2. Typed' /\ Line' /\ Files' /\ Tasks'
    BY TypedStep, LineStep, FilesStep, TasksStep DEF Following, Formed
  <2>3. Alone' /\ Effect'
    BY AloneStep, EffectStep DEF Following
  <2> QED
    BY <2>1, <2>2, <2>3 DEF Following, Formed
<1> QED
  BY <1>1, <1>2, PTL DEF Spec

(* Every variable keeps its type; in particular a client waits for the      *)
(* server exactly once while its connection is open, and a user without a   *)
(* program has no connection but one that it left behind.                   *)
THEOREM TypeCorrect == Spec => []TypeOK
<1>1. Following => TypeOK
  <2> SUFFICES ASSUME IInv, Formed PROVE TypeOK
    BY DEF Following
  <2>1. ServerTypeOK
    <3>1. 0 .. Lowest = Values
      BY DEF Lowest, Values
    <3> QED
      BY <3>1 DEF ServerTypeOK, IInv, Registers, Shaped, Conns, Formed, Typed,
        Line
  <2>2. \A f : Entries(f) /\ DOMAIN f \subseteq Saved => IsFile(f)
    BY DEF Entries, IsFile, Values, Lowest
  <2>3. /\ IsFile(file) /\ \A a \in Recorders : IsFile(image[a])
        /\ \A a \in Clients : IsFile(todo[a])
    BY <2>2 DEF IInv, Saves, Formed, Files
  <2> QED
    BY <2>1, <2>3 DEF TypeOK, Formed, Typed, Tasks, SupervisorAt, UserAt
<1> QED
  BY <1>1, FollowingAlways, PTL

(* With nothing under way, an engine that was replayed has in its registers *)
(* what the state file holds, but for AUX sources at a quad rate: whatever  *)
(* was set, refused, failed, turned, cleared, restarted before.             *)
THEOREM SavedIsInEffectAlways == Spec => []SavedIsInEffect
<1>1. Following => SavedIsInEffect
  <2> SUFFICES ASSUME IInv, Formed, Effect,
                      up, current, ~restoring, ~doubt, ~excused, Quiet,
                      NEW k \in DOMAIN file
               PROVE  InEffect(k)
    BY DEF SavedIsInEffect, Following
  <2>1. sup \in {"restore", "ready", "watch"}
    BY DEF Formed, Tasks, SupervisorAt, IInv, Gate
  <2>2. Reflects(file)
    BY <2>1 DEF Effect, Live, Quiet
  <2> QED
    BY <2>2 DEF Reflects, Shows, InEffect
<1> QED
  BY <1>1, FollowingAlways, PTL
=============================================================================
