---------------------------- MODULE ControlState ----------------------------
(***************************************************************************)
(* The control server with the programs around it: fw1814ctl, which sends   *)
(* one request and records a success through `fw1814state record`; the      *)
(* server itself, which records a turned knob the same way; `fw1814state    *)
(* clear` and `reset`; and the supervisor, which replays the saved state    *)
(* into every new engine and then opens the gate.  The state file is        *)
(* truncated and rewritten in place, without a lock.                        *)
(***************************************************************************)
EXTENDS ControlServer

CONSTANTS MaxJobs,      \* bound: commands of the users and turns of the knob
          MaxLaunches   \* bound: engines launched

ASSUME BoundsAssumption ==
  MaxJobs \in Nat /\ MaxLaunches \in Nat /\ MaxFaults \in Nat

Recorders == Users \cup {Knob}

VARIABLES
  job,       \* of each client: the program it runs
  todo,      \* of a replay: the keys left, with their values
  sup,       \* the supervisor's place in runEngine
  file,      \* the state file: some keys and their values
  helper,    \* of each recorder: the place in `fw1814state`
  image,     \* of each recorder: the entries it is going to write
  excused,   \* history: saved and live state may differ (see Excuse)
  jobs, launches   \* bounds

state == <<file, helper, image>>
programs == <<job, todo, sup>>
serverVars == <<engine, current, server, reg, link, acked, doubt, faults>>
vars == <<serverVars, programs, state, excused, jobs, launches>>

Jobs == {"none", "set", "clear", "reset", "restore"}
Helpers == {"none", "load", "open", "write"}
Empty == [k \in {} |-> 0]
Saved == {k \in played : validStoredCommand(k)}
defaultState == [k \in Saved |-> 0]

IsFile(f) == /\ DOMAIN f \subseteq Saved
             /\ \A k \in DOMAIN f : f[k] \in 0 .. Lowest

TypeOK ==
  /\ ServerTypeOK
  /\ job \in [Clients -> Jobs] /\ helper \in [Recorders -> Helpers]
  /\ \A u \in Users :
       job[u] = "none" => phase[u] \in {"idle", "lost", "orphan"}
  /\ sup \in {"launch", "wait", "restore", "ready", "watch"}
  /\ IsFile(file) /\ \A a \in Recorders : IsFile(image[a])
  /\ \A a \in Clients : IsFile(todo[a])
  /\ excused \in BOOLEAN /\ jobs \in 0 .. MaxJobs
  /\ launches \in 0 .. MaxLaunches

Init ==
  /\ ServerInit
  /\ job = [a \in Clients |-> "none"] /\ todo = [a \in Clients |-> Empty]
  /\ sup = "launch" /\ file = Empty
  /\ helper = [a \in Recorders |-> "none"]
  /\ image = [a \in Recorders |-> Empty]
  /\ excused = FALSE /\ jobs = 0 /\ launches = 0

(* The saved and the live state may differ while more than one of these is  *)
(* under way: a replay, a clear, a set from its acknowledgement to its      *)
(* record, a knob's record.  Likewise after a set that is not kept, an      *)
(* entry whose replay failed, and a program that was killed half way.       *)
Windows == {a \in Clients : job[a] \in {"clear", "reset", "restore"}}
           \cup {a \in Clients : job[a] = "set" /\ phase[a] = "ok"}
           \cup {a \in Recorders : helper[a] # "none"}
Excuse == excused' = (excused \/ \E a, b \in Windows' : a # b)

---------------------------------------------------------------------------
(* fw1814state: `record` loads the file, opens it truncated and writes it   *)
(* back with one entry replaced; `clear` and `reset` only open and write.   *)
With(f, k, v) == [j \in DOMAIN f \cup {k} |-> IF j = k THEN v ELSE f[j]]

(* Mutant: an entry already in the file keeps its value.                    *)
AppendOnly(f, k, v) == IF k \in DOMAIN f THEN f ELSE With(f, k, v)

Recorded(f, k, v) == With(f, k, v)

Step(a, s) == helper' = [helper EXCEPT ![a] = s]

loadState(a) ==
  /\ helper[a] = "load" /\ Step(a, "open")
  /\ image' = [image EXCEPT ![a] =
                 LET k == CHOOSE j \in DOMAIN image[a] : TRUE
                 IN  Recorded(file, k, image[a][k])]
  /\ UNCHANGED <<serverVars, programs, file, jobs, launches>>

Truncate(a) ==
  /\ helper[a] = "open" /\ Step(a, "write") /\ file' = Empty
  /\ UNCHANGED <<serverVars, programs, image, jobs, launches>>

(* The end of a record ends the set; a reset goes on to replay what it      *)
(* wrote.  A clear or a reset takes back what the users had asked for.      *)
saveState(a) ==
  /\ helper[a] = "write" /\ Step(a, "none") /\ file' = image[a]
  /\ image' = [image EXCEPT ![a] = Empty]
  /\ IF a = Knob THEN UNCHANGED <<job, todo>>
     ELSE /\ job' = [job EXCEPT ![a] = IF @ = "reset" THEN @ ELSE "none"]
          /\ todo' = [todo EXCEPT ![a] = IF job[a] = "reset" THEN image[a]
                                         ELSE @]
  /\ acked' = IF a # Knob /\ job[a] \in {"clear", "reset"} THEN NoneAcked
              ELSE acked
  /\ UNCHANGED <<engine, current, server, reg, link, doubt, faults, sup, jobs,
                 launches>>

(* The helper is killed after it truncated the file.                        *)
KillHelper(a) ==
  /\ helper[a] = "write" /\ Step(a, "none")
  /\ image' = [image EXCEPT ![a] = Empty]
  /\ job' = IF a = Knob THEN job ELSE [job EXCEPT ![a] = "none"]
  /\ faults < MaxFaults /\ faults' = faults + 1 /\ excused' = TRUE
  /\ UNCHANGED <<engine, current, server, reg, link, acked, doubt, todo, sup,
                 file, jobs, launches>>

Save(a) == (loadState(a) \/ Truncate(a) \/ saveState(a)) /\ Excuse

---------------------------------------------------------------------------
(* transact: the connection, then the request, then the answer.  (A user's  *)
(* tool can be stopped or killed between the first two; a replay's is not.) *)
Connect(a, m) ==
  /\ up /\ phase[a] = "idle"
  /\ phase' = [phase EXCEPT ![a] = IF m.ready \/ m.restore THEN "sent"
                                   ELSE "open"]
  /\ request' = [request EXCEPT ![a] = m]
  /\ queue' = Append(queue, a)
  /\ UNCHANGED serving

Send(a) ==
  /\ phase[a] = "open" /\ phase' = [phase EXCEPT ![a] = "sent"]
  /\ UNCHANGED <<engine, current, server, reg, queue, serving, request, acked,
                 doubt, faults, programs, state, excused, jobs, launches>>

(* A user starts a program.                                                 *)
Start(u, j) ==
  /\ job[u] = "none" /\ phase[u] = "idle" /\ jobs < MaxJobs
  /\ job' = [job EXCEPT ![u] = j] /\ jobs' = jobs + 1

SetControl(u) ==
  /\ Start(u, "set")
  /\ \E k \in played, v \in Values : Connect(u, Set(k, v, FALSE))
  /\ UNCHANGED <<engine, current, server, reg, acked, doubt, faults, todo, sup,
                 state, launches>>
  /\ Excuse

SaveNow(u, j, f) ==
  /\ Start(u, j) /\ Step(u, "open") /\ image' = [image EXCEPT ![u] = f]
  /\ UNCHANGED <<serverVars, todo, sup, file, launches>>
  /\ Excuse

Clear(u) == SaveNow(u, "clear", Empty)
Reset(u) == SaveNow(u, "reset", defaultState)

(* A set that was answered OK is recorded, if the command is one that is    *)
(* kept; one answered ERR, or not at all, is not.                           *)
Settled(u) ==
  /\ job[u] = "set" /\ helper[u] = "none" /\ phase[u] \in {"ok", "err"}
  /\ phase' = [phase EXCEPT ![u] = "idle"]
  /\ request' = [request EXCEPT ![u] = Ready]
  /\ UNCHANGED <<engine, current, server, reg, queue, serving, acked, doubt,
                 faults, todo, sup, file, jobs, launches>>

(* Mutant: a set is recorded however it was answered.                       *)
RecordAlways(u) ==
  LET m == request[u]
  IN  IF validStoredCommand(m.key)
      THEN /\ Step(u, "load") /\ UNCHANGED job /\ Excuse
           /\ image' = [image EXCEPT ![u] = With(Empty, m.key, m.value)]
      ELSE /\ job' = [job EXCEPT ![u] = "none"] /\ excused' = TRUE
           /\ UNCHANGED <<helper, image>>

persistSuccessfulSet(u) ==
  LET m == request[u]
  IN  IF phase[u] = "ok" /\ validStoredCommand(m.key)
      THEN /\ Step(u, "load") /\ UNCHANGED job /\ Excuse
           /\ image' = [image EXCEPT ![u] = With(Empty, m.key, m.value)]
      ELSE /\ job' = [job EXCEPT ![u] = "none"]
           /\ excused' = (excused \/ phase[u] = "ok")
           /\ UNCHANGED <<helper, image>>

SetAnswered(u) == Settled(u) /\ persistSuccessfulSet(u)

(* fw1814ctl is killed: before its request is sent, after, or before it     *)
(* records what was done.                                                   *)
KillTool(u) ==
  /\ job[u] = "set" /\ helper[u] = "none" /\ faults < MaxFaults
  /\ phase[u] # "idle"
  /\ faults' = faults + 1 /\ job' = [job EXCEPT ![u] = "none"]
  /\ phase' = [phase EXCEPT ![u] = CASE @ = "open" -> "lost"
                                     [] @ = "sent" -> "orphan"
                                     [] OTHER -> "idle"]
  /\ excused' = TRUE
  /\ UNCHANGED <<engine, current, server, reg, queue, serving, request, acked,
                 doubt, todo, sup, state, jobs, launches>>

---------------------------------------------------------------------------
(* restoreEntries: every entry is sent in turn, whatever became of the one  *)
(* before; without an engine each one fails at once.                        *)
Replaying(a) == \/ a = Supervisor /\ job[a] = "restore"
                \/ a \in Users /\ job[a] = "reset" /\ helper[a] = "none"

Remaining(a, k) == [j \in DOMAIN todo[a] \ {k} |-> todo[a][j]]

RestoreEntry(a) ==
  /\ Replaying(a) /\ phase[a] = "idle"
  /\ \E k \in DOMAIN todo[a] :
       IF up THEN Connect(a, Set(k, todo[a][k], TRUE)) /\ UNCHANGED todo
       ELSE /\ todo' = [todo EXCEPT ![a] = Remaining(a, k)]
            /\ UNCHANGED link
  /\ UNCHANGED <<engine, current, server, reg, acked, doubt, faults, job, sup,
                 state, excused, jobs, launches>>

EntryAnswered(a) ==
  /\ Replaying(a) /\ phase[a] \in {"ok", "err"}
  /\ phase' = [phase EXCEPT ![a] = "idle"]
  /\ request' = [request EXCEPT ![a] = Ready]
  /\ todo' = [todo EXCEPT ![a] = Remaining(a, request[a].key)]
  /\ excused' = (excused \/ phase[a] = "err")
  /\ UNCHANGED <<engine, current, server, reg, queue, serving, acked, doubt,
                 faults, job, sup, state, jobs, launches>>

Restored(a) ==
  /\ Replaying(a) /\ phase[a] = "idle" /\ todo[a] = Empty
  /\ job' = [job EXCEPT ![a] = "none"]
  /\ sup' = IF a = Supervisor THEN "ready" ELSE sup
  /\ UNCHANGED <<serverVars, todo, state, excused, jobs, launches>>

---------------------------------------------------------------------------
(* runEngine of the supervisor: launch, wait for the engine's READY, replay *)
(* the saved state, publish readiness, watch the engine.                    *)
Launch ==
  /\ sup \in {"launch", "wait", "watch"} /\ ~up
  /\ launches < MaxLaunches /\ launches' = launches + 1
  /\ start /\ sup' = "wait"
  /\ UNCHANGED <<job, todo, state, excused, jobs>>

restoreControlState ==
  /\ sup = "wait" /\ up /\ sup' = "restore"
  /\ job' = [job EXCEPT ![Supervisor] = "restore"]
  /\ todo' = [todo EXCEPT ![Supervisor] = file]
  /\ UNCHANGED <<serverVars, state, jobs, launches>>
  /\ Excuse

(* fw1814ctl internal-ready: sent whether or not the replay succeeded.      *)
internalReady ==
  /\ sup = "ready" /\ phase[Supervisor] = "idle"
  /\ IF up THEN Connect(Supervisor, Ready) /\ UNCHANGED sup
     ELSE sup' = "watch" /\ UNCHANGED link
  /\ UNCHANGED <<engine, current, server, reg, acked, doubt, faults, job,
                 todo, state, excused, jobs, launches>>

ReadyAnswered ==
  /\ sup = "ready" /\ phase[Supervisor] \in {"ok", "err"}
  /\ phase' = [phase EXCEPT ![Supervisor] = "idle"] /\ sup' = "watch"
  /\ UNCHANGED <<engine, current, server, reg, queue, serving, request, acked,
                 doubt, faults, job, todo, state, excused, jobs, launches>>

(* An engine ends by itself, or is stopped for another rate.                *)
EngineEnds ==
  /\ reset /\ helper[Knob] = "none"
  /\ UNCHANGED <<programs, state, jobs, launches>>
  /\ Excuse

---------------------------------------------------------------------------
(* The server's own steps, when it is not waiting for a knob's record.      *)
Polled == UNCHANGED <<programs, state, jobs, launches>> /\ Excuse

Serve == helper[Knob] = "none" /\ (Wait \/ Receive \/ DropLost) /\ Polled

PollOnly == helper[Knob] = "none" /\ (Forget \/ Prime) /\ Polled

saveHeadphoneVolume(v) ==
  /\ Step(Knob, "load")
  /\ image' = [image EXCEPT ![Knob] = With(Empty, KnobKey, v)]

TurnKnob ==
  /\ helper[Knob] = "none" /\ jobs < MaxJobs /\ jobs' = jobs + 1
  /\ \E step \in {"up", "down"} :
       /\ Turn(step)
       /\ IF cache' = cache THEN UNCHANGED <<helper, image>>
          ELSE saveHeadphoneVolume(Turned(step)[1])
  /\ UNCHANGED <<programs, file, launches>> /\ Excuse

(* Every program that runs goes on, a step at a time: the server, each      *)
(* tool once started, the supervisor, and the knob's recorder.  No engine   *)
(* need end, no user need start anything.                                   *)
Replay(a) == RestoreEntry(a) \/ EntryAnswered(a) \/ Restored(a)

Tooling(u) == Send(u) \/ SetAnswered(u) \/ Replay(u) \/ Save(u)

Supervise == restoreControlState \/ Replay(Supervisor) \/ internalReady
               \/ ReadyAnswered

Next ==
  \/ Launch \/ Supervise \/ EngineEnds
  \/ BusReset /\ UNCHANGED <<programs, state, excused, jobs, launches>>
  \/ Serve \/ PollOnly \/ TurnKnob
  \/ \E u \in Users : \/ SetControl(u) \/ Clear(u) \/ Reset(u)
                      \/ Tooling(u) \/ KillTool(u)
  \/ Save(Knob) \/ \E a \in Users \cup {Knob} : KillHelper(a)

Fairness ==
  /\ WF_vars(Serve) /\ WF_vars(Supervise) /\ WF_vars(Save(Knob))
  /\ \A u \in Users : WF_vars(Tooling(u))

Spec == Init /\ [][Next]_vars /\ Fairness

---------------------------------------------------------------------------
(***************************************************************************)
(* With nothing under way, the live state is the saved one, across          *)
(* settings, refused settings, turns of the knob, restarts and changes of   *)
(* rate: a saved AUX source is out of effect at a quad rate and back in     *)
(* effect after it.  (Unless programs overlapped or were killed: Excuse.)   *)
(***************************************************************************)
InEffect(k) ==
  HasValue(reg[WordOf(k)], k,
           IF quad /\ HandlerOf[k.control].aux THEN 0 ELSE file[k])

Quiet == Windows = {} /\ \A a \in Clients : phase[a] = "idle"

SavedIsInEffect ==
  up /\ current /\ ~restoring /\ ~doubt /\ ~excused /\ Quiet =>
    \A k \in DOMAIN file : InEffect(k)

(***************************************************************************)
(* What a user was told is done is in the state file once its recording is  *)
(* over: the saved state is replaced as a whole, one setting at a time.     *)
(***************************************************************************)
AcknowledgedIsSaved ==
  up /\ Quiet =>
    \A k \in Saved : acked[k] # Unset => k \in DOMAIN file
                                           /\ file[k] = acked[k]

(***************************************************************************)
(* A gated engine becomes ready for ordinary clients, or ends: no client,   *)
(* killed or slow, keeps the replay and the readiness message out.          *)
(***************************************************************************)
GateOpens == (up /\ restoring) ~> (~up \/ ~restoring)
=============================================================================
