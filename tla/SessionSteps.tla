---------------------------- MODULE SessionSteps ----------------------------
(***************************************************************************)
(* The steps a streaming program's code is made of, as data: module         *)
(* DuplexSession says what each of them does, modules Engines1814,          *)
(* Probes1814 and Programs410 which steps a program takes in which order.   *)
(***************************************************************************)
EXTENDS Sequences

Plugs == {"opcr", "ipcr"}
Directions == {"out", "in"}

Step(o, a) == [op |-> o, arg |-> a]

\* the way up
Get(r)           == Step("get", r)           \* claim r, or give up
Try(r)           == Step("try", r)           \* claim r, or go on without it
Do(what)         == Step("do", what)         \* may fail, leaves nothing behind
Set(m)           == Step("mark", m)          \* a flag of the program is set
EnterBlock       == Set("block")             \* failures now go to the first label
DryRun           == Step("dry", 0)           \* without --execute: the end
TryWith(r, q)    == Step("tryWith", <<r, q>>)  \* Try(r), where q is held
RunRateProbe(r)  == Step("rateProbe", r)     \* the rateprobe tool, as a child
ReadPlugs(S)     == Step("plugs", S)         \* the plugs of S are unconnected
ConnectPlug(p)   == Step("connect", p)
RateIs(r)        == Step("rateIs", r)
SetRate(d, r)    == Step("command", [dir |-> d, rate |-> r])
StillRunning(g)  == Step("watch", g)         \* stop, audio thread, generation if g
WaitFor(w, t)    == Step("await", [what |-> w, deadline |-> t])
NoSocket         == Step("socketAbsent", 0)
OpenDevice       == Step("open", 0)
StartThread(g)   == Step("audio", g)         \* looks at the generation if g
OpenControl      == Step("control", 0)
SetActive        == Step("active", 0)
Live             == Step("live", 0)          \* until stop or audio thread's end
Poll(g)          == Step("poll", g)          \* until stop, or a new generation if g
Finite           == Step("finite", 0)        \* ends by itself, well or badly

\* the release
Drop(S)          == Step("drop", S)          \* release what is held of S
SetStop          == Step("halt", 0)
JoinAudio        == Step("join", 0)
CloseControl     == Step("unlink", 0)
ClearActive      == Step("inactive", 0)
CheckGen         == Step("check", 0)
RestorePlug(p)   == Step("restore", p)
RestoreQuietly(p)== Step("restoreQuiet", p)
CheckAttempt     == Step("checkRate", 0)
ResetRate(d)     == Step("rerate", d)
ReadBaseline     == Step("readRate", 0)
VerifyPlugs(S)   == Step("verify", S)
VerifyRate       == Step("verifyRate", 0)
ProbeRateBack(w) == Step("rateBack", w)      \* rateprobe 48000; w: when
SayPass          == Step("pass", 0)          \* the result is a pass, whatever failed

SetRates(r)  == << SetRate("out", r), SetRate("in", r) >>
Baseline     ==
  << CheckAttempt, ResetRate("out"), ResetRate("in"), ReadBaseline >>

(* A program: the way up, the release, the place in it where a failure       *)
(* before the block goes, and whether the program handles SIGTERM; and what *)
(* its steps say of it.                                                     *)
Takes(path, step) == \E i \in DOMAIN path : path[i] = step
TakesA(path, o)   == \E i \in DOMAIN path : path[i].op = o

Labelled(acquire, release, label, catches) ==
  [acquire |-> acquire, release |-> release, label |-> label,
   catches |-> catches,
   mayRunDry     |-> TakesA(acquire, "dry"),
   qualifies     |-> TakesA(acquire, "await"),
   watchesBus    |-> Takes(acquire, StartThread(TRUE)),
   ignoresResets |-> Takes(acquire, Poll(FALSE)),
   rerates       |-> TakesA(release, "rerate")
                     \/ Takes(release, ProbeRateBack("always"))]

Programme(acquire, release, catches) == Labelled(acquire, release, 1, catches)
=============================================================================
