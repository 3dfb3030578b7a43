----------------------------- MODULE SessionForm -----------------------------
(***************************************************************************)
(* What makes a program (a record of module SessionSteps) well formed: that  *)
(* its release code, entered wherever a failure enters it, gives back what   *)
(* may have been claimed by then, users before what they run on, and that a  *)
(* step comes only where what it needs is held.  These are conditions on the *)
(* text of a program.  That they are enough is what the proofs show.         *)
(***************************************************************************)
EXTENDS SessionSteps, Integers

(* The resources a step may claim; those it has claimed when the program     *)
(* goes on; those it gives back.  The audio thread counts as one.            *)
When(yes, S) == IF yes THEN S ELSE {}

Claims(s) ==
  When(s.op = "open", {"device"}) \cup When(s.op = "control", {"control"})
  \cup When(s.op = "active", {"active"}) \cup When(s.op = "audio", {"audio"})
  \cup When(s.op \in {"get", "try", "connect"}, {s.arg})
  \cup When(s.op = "tryWith", {s.arg[1]})

Certain(s) == When(s.op \in {"open", "get", "connect", "active"}, Claims(s))

Gives(s) ==
  When(s.op = "unlink", {"control"}) \cup When(s.op = "inactive", {"active"})
  \cup When(s.op = "join", {"audio"}) \cup When(s.op = "drop", s.arg)
  \cup When(s.op \in {"restore", "restoreQuiet"}, {s.arg})

(* The first of a pair runs on the second: a channel on its plug, a          *)
(* connection on its bandwidth, the audio thread on its rings, the word that *)
(* the HAL sees on both channels.                                            *)
Supports ==
  {<<"playback", "ipcr">>, <<"ipcr", "playbackBandwidth">>,
   <<"opcr", "captureBandwidth">>, <<"audio", "rings">>,
   <<"active", "playback">>, <<"active", "capture">>}

Supported(h) == \A d \in Supports : d[1] \in h => d[2] \in h

(* What a program can claim at all, the flags it can set, and the rates it   *)
(* can command.                                                              *)
Claimable(P) == UNION {Claims(P.acquire[i]) : i \in 1 .. Len(P.acquire)}

Args(P, o) ==
  {P.acquire[i].arg : i \in {j \in 1 .. Len(P.acquire) : P.acquire[j].op = o}}

Flags(P) == {"dryRun", "rerated"} \cup Args(P, "mark")
Rates(P) == Args(P, "rateProbe") \cup {c.rate : c \in Args(P, "command")}

(* What FCP needs.                                                           *)
AnswerPath == {"device", "callback", "fcp"}

-----------------------------------------------------------------------------
(* The way up, before its i-th step: what may be held and what is, which     *)
(* marks are set, which rates are commanded, and where a failure goes.       *)
MayHold(P, i) ==
  {r \in Claimable(P) :
     \E j \in 1 .. Len(P.acquire) : j < i /\ r \in Claims(P.acquire[j])}

MustHold(P, i) ==
  {r \in MayHold(P, i) :
     \E j \in 1 .. Len(P.acquire) :
       /\ j < i /\ r \in Certain(P.acquire[j])
       /\ \A k \in 1 .. Len(P.acquire) :
            j < k /\ k < i => r \notin Gives(P.acquire[k])}

Marked(P, i, m) ==
  \E j \in 1 .. Len(P.acquire) :
    j < i /\ P.acquire[j].op = "mark" /\ P.acquire[j].arg = m

RateSet(P, i, d) ==
  \E j \in 1 .. Len(P.acquire) :
    /\ j < i /\ P.acquire[j].op = "command" /\ P.acquire[j].arg.dir = d
    /\ \A k \in 1 .. Len(P.acquire) :
         j < k /\ k < i => P.acquire[k].op # "rateProbe"

Entry(P, i) == IF Marked(P, i, "block") THEN 1 ELSE P.label

(* The release code from its k-th step on.  Everything in h is given back,   *)
(* nothing before its users, and the rate is not commanded before the HAL    *)
(* is told.                                                                  *)
Later(P, k) == {n \in 1 .. Len(P.release) : k <= n}

GivesBack(P, k, h) ==
  \A r \in h : \E n \in Later(P, k) : r \in Gives(P.release[n])

UsersFirst(P, k, h) ==
  \A d \in Supports : d[1] \in h =>
    \A n \in Later(P, k) : d[2] \in Gives(P.release[n]) =>
      \E m \in Later(P, k) : m <= n /\ d[1] \in Gives(P.release[m])

RateLast(P, k, h) ==
  "active" \in h =>
    \A n \in Later(P, k) : P.release[n].op \in {"rerate", "rateBack"} =>
      \E m \in Later(P, k) : m <= n /\ "active" \in Gives(P.release[m])

(* The baseline is commanded only while h, which is held, still answers.     *)
CanAsk(P, k, h) ==
  \A n \in Later(P, k) : P.release[n].op = "rerate" =>
    /\ AnswerPath \subseteq h
    /\ \A m \in Later(P, k) : m < n => AnswerPath \cap Gives(P.release[m]) = {}

-----------------------------------------------------------------------------
(* Every resource has the steps that are its own.                            *)
Separate(P) ==
  /\ \A i \in 1 .. Len(P.acquire) :
       /\ P.acquire[i].op \notin
            {"restore", "restoreQuiet", "unlink", "inactive", "join", "rerate"}
       /\ P.acquire[i].op \in {"get", "try"} =>
            P.acquire[i].arg \notin Plugs \cup {"active", "audio"}
       /\ P.acquire[i].op = "tryWith" =>
            P.acquire[i].arg[1] \notin Plugs \cup {"active", "audio"}
       /\ P.acquire[i].op = "connect" => P.acquire[i].arg \in Plugs
       /\ P.acquire[i].op = "drop" =>
            P.acquire[i].arg \cap (Plugs \cup {"active", "audio"}) = {}
  /\ \A n \in 1 .. Len(P.release) :
       /\ P.release[n].op # "command"
       /\ P.release[n].op = "drop" =>
            P.release[n].arg \cap (Plugs \cup {"active", "audio"}) = {}
       /\ P.release[n].op \in {"restore", "restoreQuiet"} =>
            P.release[n].arg \in Plugs

ClaimsInOrder(P) ==
  \A i \in 1 .. Len(P.acquire) :
    /\ \A d \in Supports :
         /\ d[1] \in Claims(P.acquire[i]) => d[2] \in MustHold(P, i)
         /\ d[2] \in Gives(P.acquire[i]) => d[1] \notin MayHold(P, i)
    /\ P.acquire[i].op = "socketAbsent" => MayHold(P, i) = {}
    /\ P.acquire[i].op = "open" => MayHold(P, i) \cap Plugs = {}
    /\ P.acquire[i].op = "command" => AnswerPath \subseteq MustHold(P, i)
    /\ P.acquire[i].op = "active" => \A d \in Directions : RateSet(P, i, d)
    /\ P.acquire[i].op = "rateProbe" => "active" \notin MayHold(P, i)

ReleasesInOrder(P) ==
  \A i \in 1 .. Len(P.acquire) + 1 :
    \A k \in IF i > Len(P.acquire) THEN {1} ELSE {Entry(P, i)} :
      /\ GivesBack(P, k, MayHold(P, i))
      /\ UsersFirst(P, k, MayHold(P, i))
      /\ RateLast(P, k, MayHold(P, i))
      /\ Marked(P, i, "rateAttempted") => CanAsk(P, k, MustHold(P, i))

(* A program that promises the baseline commands it in both directions, just *)
(* after a look at the generation, and calls nothing a success after that.   *)
JustChecked(P, n) ==
  \E c \in 1 .. Len(P.release) :
    /\ c < n /\ P.release[c].op = "checkRate"
    /\ \A k \in 1 .. Len(P.release) :
         c < k /\ k < n => P.release[k].op # "check"

RatesBack(s, d) == \/ s.op = "rerate" /\ s.arg = d
                   \/ s.op = "rateBack" /\ s.arg = "always"

RestoresBaseline(P) ==
  P.rerates =>
    /\ \A d \in Directions :
         \E n \in 1 .. Len(P.release) : RatesBack(P.release[n], d)
    /\ \A n \in 1 .. Len(P.release) :
         /\ P.release[n].op # "pass"
         /\ P.release[n].op = "rerate" =>
              /\ JustChecked(P, n)
              /\ Marked(P, Len(P.acquire) + 1, "rateAttempted")

Shaped(P) ==
  /\ Len(P.acquire) \in Nat \ {0} /\ Len(P.release) \in Nat
  /\ P.label \in 1 .. Len(P.release) + 1
  /\ P.rerates \in BOOLEAN

WellFormed(P) ==
  /\ Shaped(P) /\ Separate(P) /\ ClaimsInOrder(P) /\ ReleasesInOrder(P)
  /\ RestoresBaseline(P)
=============================================================================
