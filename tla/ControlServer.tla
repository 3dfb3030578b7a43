---------------------------- MODULE ControlServer ---------------------------
(***************************************************************************)
(* The control server of an FW1814 engine.  It owns the device handle,      *)
(* takes one client at a time from a local socket, and derives every write  *)
(* from a software copy of registers that cannot be read back.  While the   *)
(* saved state is being restored it answers only RESTORE requests.          *)
(***************************************************************************)
EXTENDS ControlCommands, Sequences, SequencesExt

CONSTANTS Users,      \* terminals and the panel: whoever runs fw1814ctl
          InPlay,     \* the sets of keys a behaviour may exercise
          MaxFaults   \* bound: failed writes, bus resets, killed processes

Supervisor == "supervisor"
Knob == "knob"
Clients == Users \cup {Supervisor}
None == "none"

ASSUME ControlAssumption ==
  /\ \A keys \in InPlay : keys \subseteq Keys
  /\ Users \cap {Supervisor, Knob, None} = {}

VARIABLES
  played,      \* the keys this behaviour exercises
  up, quad,    \* an engine is up; its rate is 176400 or 192000
  current,     \* the bus generation is still the one the server started in
  restoring,   \* restoringControlState_
  reg, cache,  \* the mixer registers and the server's copy of them
  primed,      \* rotaries_.initialized_
  queue, serving,   \* connections not accepted yet, and clientFd_
  phase, request,   \* of each client: where its connection is, what it asks
  acked,       \* history: what was last acknowledged in this session
  doubt,       \* history: a write answered as failed was done
  faults       \* bound

server == <<restoring, cache, primed>>
link == <<queue, serving, phase, request>>
engine == <<played, up, quad>>

(* A connection: "open" before its request is sent, "sent" after, "lost" or *)
(* "orphan" when the client is killed in one of these; then its answer.     *)
Phases == {"idle", "open", "sent", "lost", "orphan", "ok", "err"}

Ready == [ready |-> TRUE]
Set(k, v, r) == [ready |-> FALSE, key |-> k, value |-> v, restore |-> r]

PlayedWords == {WordOf(k) : k \in played}
Unset == Lowest + 1

ServerTypeOK ==
  /\ played \in InPlay
  /\ up \in BOOLEAN /\ quad \in BOOLEAN /\ current \in BOOLEAN
  /\ restoring \in BOOLEAN /\ primed \in BOOLEAN /\ doubt \in BOOLEAN
  /\ reg \in [PlayedWords -> [Cells -> 0 .. Lowest]]
  /\ cache \in [PlayedWords -> [Cells -> 0 .. Lowest]]
  /\ serving \in Clients \cup {None} /\ phase \in [Clients -> Phases]
  /\ IsInjective(queue) /\ serving \notin ToSet(queue)
  /\ \A a \in Clients : (a = serving \/ a \in ToSet(queue))
                          <=> phase[a] \in {"open", "sent", "lost", "orphan"}
  /\ acked \in [played -> 0 .. Unset]
  /\ faults \in 0 .. MaxFaults

Presets == [w \in PlayedWords |-> Preset]
NoneAcked == [k \in played |-> Unset]

ServerInit ==
  /\ played \in InPlay
  /\ up = FALSE /\ quad = FALSE /\ current = FALSE /\ restoring = FALSE
  /\ reg = [w \in PlayedWords |-> [c \in Cells |-> 1]]   \* left from before
  /\ cache = Presets /\ primed = FALSE
  /\ queue = <<>> /\ serving = None
  /\ phase = [a \in Clients |-> "idle"]
  /\ request = [a \in Clients |-> Ready]
  /\ acked = NoneAcked /\ doubt = FALSE /\ faults = 0

---------------------------------------------------------------------------
(* The engine writes the whole preset, then starts the server on a copy of  *)
(* it; a supervised engine starts gated.                                    *)
applyStraightAnalogPlaybackRouting == reg' = Presets

(* The rate matters only to the source words.                               *)
Rates == IF PlayedWords \cap AuxWords = {} THEN {FALSE} ELSE BOOLEAN

start ==
  /\ ~up /\ up' = TRUE /\ quad' \in Rates /\ current' = TRUE
  /\ applyStraightAnalogPlaybackRouting
  /\ restoring' = TRUE /\ cache' = Presets /\ primed' = FALSE
  /\ acked' = NoneAcked /\ doubt' = FALSE
  /\ UNCHANGED <<played, link, faults>>

(* The engine ends: both sockets are closed and every client sees it.       *)
reset ==
  /\ up /\ up' = FALSE /\ restoring' = FALSE /\ current' = FALSE
  /\ cache' = Presets /\ primed' = FALSE
  /\ queue' = <<>> /\ serving' = None
  /\ phase' = [a \in Clients |->
                 CASE phase[a] \in {"open", "sent"} -> "err"
                   [] phase[a] \in {"lost", "orphan"} -> "idle"
                   [] OTHER -> phase[a]]
  /\ UNCHANGED <<played, quad, reg, request, acked, doubt, faults>>

(* A bus reset: the generation the server started in is over.               *)
BusReset ==
  /\ up /\ current /\ current' = FALSE
  /\ faults < MaxFaults /\ faults' = faults + 1
  /\ UNCHANGED <<engine, server, reg, link, acked, doubt>>

---------------------------------------------------------------------------
(* writeRegister: the generation is compared before the write and after it, *)
(* so a write answered as failed may have reached the device.               *)
WrittenOk(w, word) ==
  /\ current /\ reg' = [reg EXCEPT ![w] = word]
  /\ UNCHANGED <<current, doubt, faults>>

NotWritten(w, word) ==
  \/ ~current /\ UNCHANGED <<current, doubt, faults, reg>>
  \/ /\ current /\ faults < MaxFaults /\ faults' = faults + 1
     /\ reg' \in {reg, [reg EXCEPT ![w] = word]}
     /\ \/ current' = FALSE /\ UNCHANGED doubt     \* a reset during the write
        \/ UNCHANGED current /\ doubt' = (doubt \/ reg' # reg)

(* The differential handlers answer without a write when nothing changes.   *)
(* Mutant: the copy is updated before the write is known to have succeeded. *)
UpdateFirst(k, v) ==
  LET w == WordOf(k)
      desired == Changed(cache[w], k, v)
  IN  IF HandlerOf[k.control].differences /\ desired = cache[w]
      THEN [same |-> TRUE, ok |-> cache, failed |-> cache, word |-> desired]
      ELSE [same |-> FALSE, ok |-> [cache EXCEPT ![w] = desired],
            failed |-> [cache EXCEPT ![w] = desired], word |-> desired]

Update(k, v) ==
  LET w == WordOf(k)
      desired == Changed(cache[w], k, v)
  IN  IF HandlerOf[k.control].differences /\ desired = cache[w]
      THEN [same |-> TRUE, ok |-> cache, failed |-> cache, word |-> desired]
      ELSE [same |-> FALSE, ok |-> [cache EXCEPT ![w] = desired],
            failed |-> cache, word |-> desired]

auxRoutingAvailable == ~quad

(* Mutant: a restored AUX source is not checked against the rate.           *)
UnavailableToUsers(m) ==
  HandlerOf[m.key.control].aux /\ m.value = 1 /\ ~m.restore
    /\ ~auxRoutingAvailable

Unavailable(m) ==
  HandlerOf[m.key.control].aux /\ m.value = 1 /\ ~auxRoutingAvailable

(* What the session remembers of an acknowledged request: a user's setting, *)
(* which replaces those of the same cells; a user's reset takes them back.  *)
(* The supervisor's replay is nobody's wish and leaves them standing.       *)
Shares(k, j) == WordOf(k) = WordOf(j)
                  /\ (k.cell = j.cell \/ k.cell = 0 \/ j.cell = 0)
Acknowledged(k, v) ==
  [j \in played |-> IF j = k THEN v
                        ELSE IF Shares(k, j) THEN Unset ELSE acked[j]]
Remembered(a, m) ==
  IF a = Supervisor THEN acked
  ELSE Acknowledged(m.key, IF m.restore THEN Unset ELSE m.value)

Answered(a, result) ==
  phase' = [phase EXCEPT ![a] = IF @ = "orphan" THEN "idle" ELSE result]

(* handle: CONTROL READY opens the gate; behind it only RESTORE passes.     *)
(* Mutant: the gate is forgotten.                                           *)
NeverGated(m) == FALSE

Gated(m) == restoring /\ ~m.ready /\ ~m.restore

Refused(a) ==
  /\ Gated(request[a]) \/ (~request[a].ready /\ Unavailable(request[a])
                             /\ ~request[a].restore)
  /\ Answered(a, "err")
  /\ UNCHANGED <<restoring, cache, reg, acked, current, doubt, faults>>

BecomesReady(a) ==
  /\ request[a].ready /\ restoring' = FALSE
  /\ Answered(a, "ok")
  /\ UNCHANGED <<cache, reg, acked, current, doubt, faults>>

(* A restored AUX source is accepted at a quad rate and left as it is.      *)
Skipped(a) ==
  /\ ~request[a].ready /\ request[a].restore /\ Unavailable(request[a])
  /\ Answered(a, "ok")
  /\ UNCHANGED <<restoring, cache, reg, acked, current, doubt, faults>>

Performed(a) ==
  /\ ~request[a].ready /\ ~Gated(request[a]) /\ ~Unavailable(request[a])
  /\ LET m == request[a]
         u == Update(m.key, m.value)
     IN  \/ /\ IF u.same THEN UNCHANGED <<reg, current, doubt, faults>>
               ELSE WrittenOk(WordOf(m.key), u.word)
            /\ cache' = u.ok /\ acked' = Remembered(a, m)
            /\ Answered(a, "ok")
         \/ /\ ~u.same /\ NotWritten(WordOf(m.key), u.word)
            /\ cache' = u.failed /\ UNCHANGED acked
            /\ Answered(a, "err")
  /\ UNCHANGED restoring

(* One service call takes the next connection when there is none, and reads *)
(* the one it has: a request is handled whole and the connection closed; a  *)
(* client that hung up is dropped; one that is silent is left for the next  *)
(* call, and keeps every other one waiting.                                 *)
Client == IF serving # None \/ queue = <<>> THEN serving ELSE Head(queue)

Served(now) ==
  /\ queue' = IF serving = None THEN Tail(queue) ELSE queue
  /\ serving' = now

Wait ==
  /\ up /\ serving = None /\ Client # None /\ phase[Client] = "open"
  /\ Served(Client)
  /\ UNCHANGED <<engine, current, server, reg, phase, request, acked, doubt,
                 faults>>

(* Mutant: a client that hung up is kept as if it were only silent.         *)
KeepLost ==
  /\ up /\ serving = None /\ Client # None /\ phase[Client] = "lost"
  /\ Served(Client)
  /\ UNCHANGED <<engine, current, server, reg, phase, request, acked, doubt,
                 faults>>

DropLost ==
  /\ up /\ Client # None /\ phase[Client] = "lost"
  /\ phase' = [phase EXCEPT ![Client] = "idle"] /\ Served(None)
  /\ UNCHANGED <<engine, current, server, reg, request, acked, doubt, faults>>

Receive ==
  /\ up /\ Client # None /\ phase[Client] \in {"sent", "orphan"}
  /\ \/ Refused(Client) \/ BecomesReady(Client)
     \/ Skipped(Client) \/ Performed(Client)
  /\ Served(None)
  /\ UNCHANGED <<engine, request, primed>>

---------------------------------------------------------------------------
KnobKey == Key("headphoneVolume", 0)

(* The headphone encoders are polled before each connection is looked at.   *)
(* A poll that cannot be read, or during a restore, forgets the last frame, *)
(* and the next frame only becomes the one to compare with.                 *)
Forget ==
  /\ up /\ primed /\ primed' = FALSE
  /\ restoring \/ ~current \/ (faults < MaxFaults)
  /\ faults' = IF restoring \/ ~current THEN faults ELSE faults + 1
  /\ UNCHANGED <<engine, current, restoring, cache, reg, link, acked, doubt>>

Prime ==
  /\ KnobKey \in played /\ up /\ ~restoring /\ current /\ ~primed /\ primed' = TRUE
  /\ UNCHANGED <<engine, current, restoring, cache, reg, link, acked, doubt,
                 faults>>

Turned(step) == rotaryGain(cache[WordOf(KnobKey)], step)

(* A turn is written like a request, and kept only when the write succeeds. *)
Turn(step) ==
  /\ up /\ ~restoring /\ current /\ primed
  /\ KnobKey \in played /\ Turned(step) # cache[WordOf(KnobKey)]
  /\ LET w == WordOf(KnobKey)
     IN  \/ /\ WrittenOk(w, Turned(step))
            /\ cache' = [cache EXCEPT ![w] = Turned(step)]
            /\ acked' = Acknowledged(KnobKey, Turned(step)[1])
         \/ NotWritten(w, Turned(step)) /\ UNCHANGED <<cache, acked>>
  /\ UNCHANGED <<engine, restoring, primed, link>>

(***************************************************************************)
(* While the generation stands, and no write that the device performed was  *)
(* answered as failed, the copy is what the registers hold: differential    *)
(* writes and answers are derived from it.                                  *)
(***************************************************************************)
CopyIsHardware == up /\ current /\ ~doubt => cache = reg

(***************************************************************************)
(* The AUX bus does not exist at the quad rates: no output listens to it    *)
(* there, whatever the saved state asks for and whatever failed.            *)
(***************************************************************************)
NoAuxAtQuadRate ==
  up /\ quad => \A w \in PlayedWords \cap AuxWords : reg[w] = Preset

(***************************************************************************)
(* A setting acknowledged to a user (or made with the knob) stays in effect *)
(* until another user changes it: the replay of the saved state never       *)
(* overwrites it, because until the replay is over nobody's is accepted.    *)
(***************************************************************************)
SettingsStand ==
  up /\ current /\ ~doubt =>
    \A k \in played :
      acked[k] # Unset => HasValue(reg[WordOf(k)], k, acked[k])
=============================================================================
