---------------------------- MODULE SessionProofs ----------------------------
(***************************************************************************)
(* Proofs about DuplexSession, for any set of well-formed programs          *)
(* (SessionForm), any number of sessions, resets and faults.  The argument: *)
(* at every point of the way up, what is held lies between what the text    *)
(* claims for certain and what it may claim (Holding); so where a failure   *)
(* goes, the conditions on the text say that the rest of the release gives  *)
(* back what is held, users first; and each release step hands these        *)
(* conditions to the next.                                                  *)
(***************************************************************************)
EXTENDS DuplexSession, TLAPS

-----------------------------------------------------------------------------
(* What the form of a program says, step by step.                           *)

(* A step claims one of the resources of its program.                       *)
LEMMA ResourceOf ==
  ASSUME NEW Q, NEW i \in 1 .. Len(Q.acquire), NEW r \in Claims(Q.acquire[i])
  PROVE  r \in Claimable(Q)
BY DEF Claimable

(* After a step of the way up, what it claims may be held as well.          *)
LEMMA MayHoldMore ==
  ASSUME NEW Q, Shaped(Q), NEW i \in 1 .. Len(Q.acquire)
  PROVE  MayHold(Q, i + 1) = MayHold(Q, i) \cup Claims(Q.acquire[i])
<1>0. Len(Q.acquire) \in Nat
  BY DEF Shaped
<1>1. ASSUME NEW r, r \in MayHold(Q, i + 1)
      PROVE  r \in MayHold(Q, i) \cup Claims(Q.acquire[i])
  <2>1. PICK j \in 1 .. Len(Q.acquire) : j < i + 1 /\ r \in Claims(Q.acquire[j])
    BY <1>1 DEF MayHold
  <2>2. j = i \/ j < i
    BY <1>0, <2>1
  <2>3. r \in Claimable(Q)
    BY <1>1 DEF MayHold
  <2> QED
    BY <2>1, <2>2, <2>3 DEF MayHold
<1>2. ASSUME NEW r, r \in MayHold(Q, i) PROVE r \in MayHold(Q, i + 1)
  <2>1. PICK j \in 1 .. Len(Q.acquire) : j < i /\ r \in Claims(Q.acquire[j])
    BY <1>2 DEF MayHold
  <2>2. j < i + 1
    BY <1>0, <2>1
  <2> QED
    BY <1>2, <2>1, <2>2 DEF MayHold
<1>3. ASSUME NEW r, r \in Claims(Q.acquire[i]) PROVE r \in MayHold(Q, i + 1)
  <2>1. r \in Claimable(Q)
    BY <1>3, ResourceOf
  <2>2. i < i + 1
    BY <1>0
  <2> QED
    BY <1>3, <2>1, <2>2 DEF MayHold
<1> QED
  BY <1>1, <1>2, <1>3

(* Before the first step nothing is held, marked or commanded.              *)
LEMMA MayHoldNothing ==
  ASSUME NEW Q, Shaped(Q)
  PROVE  MayHold(Q, 1) = {} /\ MustHold(Q, 1) = {}
         /\ (\A m : ~Marked(Q, 1, m)) /\ (\A d : ~RateSet(Q, 1, d))
<1>1. Len(Q.acquire) \in Nat
  BY DEF Shaped
<1>2. \A j \in 1 .. Len(Q.acquire) : ~(j < 1)
  BY <1>1
<1> QED
  BY <1>2 DEF MayHold, MustHold, Marked, RateSet

(* What is held for certain after a step was so before, or the step claims  *)
(* it.                                                                      *)
LEMMA MustHoldLess ==
  ASSUME NEW Q, Shaped(Q), NEW i \in 1 .. Len(Q.acquire), NEW r,
         r \in MustHold(Q, i + 1)
  PROVE  \/ r \in Certain(Q.acquire[i])
         \/ r \in MustHold(Q, i) /\ r \notin Gives(Q.acquire[i])
<1>0. Len(Q.acquire) \in Nat
  BY DEF Shaped
<1>1. PICK j \in 1 .. Len(Q.acquire) :
        /\ j < i + 1 /\ r \in Certain(Q.acquire[j])
        /\ \A k \in 1 .. Len(Q.acquire) :
             j < k /\ k < i + 1 => r \notin Gives(Q.acquire[k])
  BY DEF MustHold
<1>2. j = i \/ j < i
  BY <1>0, <1>1
<1>3. CASE j < i
  <2>1. r \notin Gives(Q.acquire[i])
    BY <1>0, <1>1, <1>3
  <2>2. \A k \in 1 .. Len(Q.acquire) : j < k /\ k < i => r \notin Gives(Q.acquire[k])
    BY <1>0, <1>1
  <2>3. r \in Claims(Q.acquire[j])
    BY <1>1 DEF Certain, When
  <2>5. r \in Claimable(Q)
    BY <2>3, ResourceOf
  <2>4. r \in MayHold(Q, i)
    BY <1>3, <2>3, <2>5 DEF MayHold
  <2> QED
    BY <1>1, <1>3, <2>1, <2>2, <2>4 DEF MustHold
<1> QED
  BY <1>1, <1>2, <1>3

(* The marks after a step are those before it and its own.                  *)
LEMMA MarkedMore ==
  ASSUME NEW Q, Shaped(Q), NEW i \in 1 .. Len(Q.acquire), NEW m
  PROVE  Marked(Q, i + 1, m) <=>
           \/ Marked(Q, i, m)
           \/ Q.acquire[i].op = "mark" /\ Q.acquire[i].arg = m
<1>0. Len(Q.acquire) \in Nat
  BY DEF Shaped
<1>1. \A j \in 1 .. Len(Q.acquire) : j < i + 1 <=> j = i \/ j < i
  BY <1>0
<1> QED
  BY <1>1 DEF Marked

(* A rate that is commanded after a step was so before, or the step         *)
(* commands it, and the step is no run of rateprobe.                        *)
LEMMA RateSetLess ==
  ASSUME NEW Q, Shaped(Q), NEW i \in 1 .. Len(Q.acquire), NEW d,
         RateSet(Q, i + 1, d)
  PROVE  \/ Q.acquire[i].op = "command" /\ Q.acquire[i].arg.dir = d
         \/ RateSet(Q, i, d) /\ Q.acquire[i].op # "rateProbe"
<1>0. Len(Q.acquire) \in Nat
  BY DEF Shaped
<1>1. PICK j \in 1 .. Len(Q.acquire) :
        /\ j < i + 1 /\ Q.acquire[j].op = "command" /\ Q.acquire[j].arg.dir = d
        /\ \A k \in 1 .. Len(Q.acquire) :
             j < k /\ k < i + 1 => Q.acquire[k].op # "rateProbe"
  BY DEF RateSet
<1>2. j = i \/ j < i
  BY <1>0, <1>1
<1>3. CASE j < i
  <2>1. Q.acquire[i].op # "rateProbe"
    BY <1>0, <1>1, <1>3
  <2>2. \A k \in 1 .. Len(Q.acquire) :
          j < k /\ k < i => Q.acquire[k].op # "rateProbe"
    BY <1>0, <1>1
  <2> QED
    BY <1>1, <1>3, <2>1, <2>2 DEF RateSet
<1> QED
  BY <1>1, <1>2, <1>3

(* The rest of a release is its next step and what follows.                 *)
LEMMA LaterNext ==
  ASSUME NEW Q, Shaped(Q), NEW k \in 1 .. Len(Q.release), NEW n
  PROVE  n \in Later(Q, k) <=> n = k \/ n \in Later(Q, k + 1)
BY DEF Later, Shaped

(* The four conditions on the rest of a release are handed from one step to *)
(* the next: everything is given back ...                                   *)
LEMMA GivesBackNext ==
  ASSUME NEW Q, Shaped(Q), NEW k \in 1 .. Len(Q.release), NEW g, NEW h,
         GivesBack(Q, k, g), h \subseteq g \ Gives(Q.release[k])
  PROVE  GivesBack(Q, k + 1, h)
BY LaterNext DEF GivesBack

(* ... users before what they run on ...                                    *)
LEMMA UsersFirstNext ==
  ASSUME NEW Q, Shaped(Q), NEW k \in 1 .. Len(Q.release), NEW g, NEW h,
         UsersFirst(Q, k, g), h \subseteq g \ Gives(Q.release[k])
  PROVE  UsersFirst(Q, k + 1, h)
<1> SUFFICES ASSUME NEW d \in Supports, d[1] \in h, NEW n \in Later(Q, k + 1),
                    d[2] \in Gives(Q.release[n])
             PROVE  \E m \in Later(Q, k + 1) :
                      m <= n /\ d[1] \in Gives(Q.release[m])
  BY DEF UsersFirst
<1>1. PICK m \in Later(Q, k) : m <= n /\ d[1] \in Gives(Q.release[m])
  BY LaterNext DEF UsersFirst
<1> QED
  BY <1>1, LaterNext

(* ... the rate commanded after the HAL is told ...                         *)
LEMMA RateLastNext ==
  ASSUME NEW Q, Shaped(Q), NEW k \in 1 .. Len(Q.release), NEW g, NEW h,
         RateLast(Q, k, g), h \subseteq g \ Gives(Q.release[k])
  PROVE  RateLast(Q, k + 1, h)
<1> SUFFICES ASSUME "active" \in h, NEW n \in Later(Q, k + 1),
                    Q.release[n].op \in {"rerate", "rateBack"}
             PROVE  \E m \in Later(Q, k + 1) :
                      m <= n /\ "active" \in Gives(Q.release[m])
  BY DEF RateLast
<1>1. PICK m \in Later(Q, k) : m <= n /\ "active" \in Gives(Q.release[m])
  BY LaterNext DEF RateLast
<1> QED
  BY <1>1, LaterNext

(* ... and the baseline commanded while FCP answers.                        *)
LEMMA CanAskNext ==
  ASSUME NEW Q, Shaped(Q), NEW k \in 1 .. Len(Q.release), NEW g, NEW h,
         CanAsk(Q, k, g), g \ Gives(Q.release[k]) \subseteq h
  PROVE  CanAsk(Q, k + 1, h)
<1> SUFFICES ASSUME NEW n \in Later(Q, k + 1), Q.release[n].op = "rerate"
             PROVE  /\ AnswerPath \subseteq h
                    /\ \A m \in Later(Q, k + 1) : m < n =>
                         AnswerPath \cap Gives(Q.release[m]) = {}
  BY DEF CanAsk
<1>1. /\ AnswerPath \subseteq g
      /\ \A m \in Later(Q, k) : m < n =>
           AnswerPath \cap Gives(Q.release[m]) = {}
  BY LaterNext DEF CanAsk
<1>2. k \in Later(Q, k) /\ k < n
  BY LaterNext DEF Later, Shaped
<1> QED
  BY <1>1, <1>2, LaterNext

(* A step of a release takes no resource from under its user.               *)
LEMMA SupportedNext ==
  ASSUME NEW Q, Shaped(Q), NEW k \in 1 .. Len(Q.release), NEW h,
         UsersFirst(Q, k, h), Supported(h)
  PROVE  Supported(h \ Gives(Q.release[k]))
<1> SUFFICES ASSUME NEW d \in Supports, d[1] \in h,
                    d[1] \notin Gives(Q.release[k]), d[2] \in Gives(Q.release[k])
             PROVE  FALSE
  BY DEF Supported
<1>1. k \in Later(Q, k)
  BY LaterNext
<1>2. PICK m \in Later(Q, k) : m <= k /\ d[1] \in Gives(Q.release[m])
  BY <1>1 DEF UsersFirst
<1>3. m = k
  BY <1>2 DEF Later, Shaped
<1> QED
  BY <1>2, <1>3

(* At the end of a release nothing is left.                                 *)
LEMMA NothingLeft ==
  ASSUME NEW Q, Shaped(Q), NEW k \in 1 .. Len(Q.release) + 1,
         k > Len(Q.release), NEW h, GivesBack(Q, k, h)
  PROVE  h = {}
<1>1. Later(Q, k) = {}
  BY DEF Later, Shaped
<1> QED
  BY <1>1 DEF GivesBack

-----------------------------------------------------------------------------
(* The inductive invariant.                                                 *)

P == Program[prog]

(* What is held, the running audio thread included.                         *)
Using == held \cup IF audio = "running" THEN {"audio"} ELSE {}

(* Where the program is.                                                    *)
Placed ==
  /\ prog \in DOMAIN Program /\ phase \in {"idle", "acquire", "release"}
  /\ phase = "acquire" => pc \in 1 .. Len(P.acquire)
  /\ phase = "release" => pc \in 1 .. Len(P.release) + 1
  /\ phase # "idle" => exit = "none" /\ sessions # 0
  /\ "audio" \notin held

(* What is held is what the text of the program says, and on the way down   *)
(* what the rest of the release gives back in order.                        *)
Holding ==
  /\ phase = "idle" => Using = {}
  /\ phase = "acquire" => Using \subseteq MayHold(P, pc) /\ MustHold(P, pc) \subseteq held
  /\ phase = "release" => /\ GivesBack(P, pc, Using) /\ UsersFirst(P, pc, Using)
                          /\ RateLast(P, pc, Using)
  /\ Supported(Using)

Marking ==
  phase = "acquire" => \A m \in {"block", "rateAttempted"} :
                         m \in marks <=> Marked(P, pc, m)

Asking ==
  phase = "release" /\ "rateAttempted" \in marks => CanAsk(P, pc, held)

(* The rates that the HAL is told of.                                       *)
Rated ==
  /\ phase = "acquire" =>
       \A d \in Directions : RateSet(P, pc, d) => rate[d] \in Commanded(d)
  /\ "active" \in held => \A d \in Directions : rate[d] \in Commanded(d)

Telling ==
  /\ halActive \in Nat /\ halActive <= sessions
  /\ halActive = sessions /\ sessions # 0 => "active" \in held \/ exit = "crashed"

(* Whose plugs are connected: while the generation lasts, the program's are *)
(* those it holds, but for lost answers.                                    *)
Plugged ==
  /\ myGen \in Nat /\ gen \in Nat /\ myGen <= gen /\ sessions \in Nat
  /\ plug \in [Plugs -> Int] /\ \A p \in Plugs : plug[p] <= sessions
  /\ phase = "acquire" => genOk
  /\ phase = "release" /\ gen = myGen => genOk
  /\ gen = myGen => \A p \in Plugs \cap held : plug[p] = sessions
  /\ phase = "acquire" =>
       \A p \in Plugs : plug[p] = sessions => p \in MayHold(P, pc)
  /\ phase # "idle" /\ ~lost /\ gen = myGen =>
       \A p \in Plugs : plug[p] = sessions => p \in held
  /\ NoPlugLeftConnected

(* A program that still calls its run a success has restored the baseline   *)
(* or is about to.                                                          *)
Promising == phase = "release" /\ ok /\ "dryRun" \notin marks /\ P.rerates

Restoring48 ==
  /\ Promising =>
       /\ \A d \in Directions :
            \/ rate[d] = "48000"
            \/ \E n \in Later(P, pc) : RatesBack(P.release[n], d)
       /\ (\E n \in 1 .. Len(P.release) : P.release[n].op = "rerate")
            => "rateAttempted" \in marks
       /\ JustChecked(P, pc) /\ "rateAttempted" \in marks => genOk
  /\ SuccessRestoresRate

(* The running program is well formed.                                      *)
LEMMA Formed ==
  ASSUME Placed PROVE WellFormed(P) /\ Shaped(P)
BY ProgramsAssumption DEF Placed, P, WellFormed

(* A step s of the way up either goes on, with what it claims and marks; or *)
(* goes to the release with what it had; or is refused by the socket file.  *)
GoesOn(s) ==
  /\ \/ pc < Len(P.acquire) /\ phase' = "acquire" /\ pc' = pc + 1
     \/ pc = Len(P.acquire) /\ phase' = "release" /\ pc' = 1
  /\ held' \subseteq held \cup Claims(s)
  /\ Using' \subseteq (Using \ Gives(s)) \cup Claims(s)
  /\ (held \ Gives(s)) \cup Certain(s) \subseteq held'
  /\ marks' = marks \cup IF s.op = "mark" THEN {s.arg} ELSE {}
  /\ ok' => ok

GivesUp ==
  /\ phase' = "release" /\ pc' = Cleanup
  /\ held' = held /\ Using' = Using /\ marks' = marks
  /\ ~ok' \/ "dryRun" \in marks

Refused(s) ==
  /\ s.op = "socketAbsent" /\ phase' = "idle" /\ held' = held /\ Using' = Using
  /\ marks' = marks
  /\ exit' = "refused"

(* A step of the way up goes on, gives up or is refused, and touches        *)
(* neither the program nor the bus generation.                              *)
LEMMA UpStep ==
  ASSUME Placed, WayUp, NEW s, s = P.acquire[pc]
  PROVE  /\ phase = "acquire" /\ pc \in 1 .. Len(P.acquire) /\ prog' = prog
         /\ sessions' = sessions /\ gen' = gen
         /\ GoesOn(s) \/ GivesUp \/ Refused(s)
         /\ exit' = exit \/ Refused(s)
         /\ "audio" \notin held'
<1>1. phase = "acquire" /\ pc \in 1 .. Len(P.acquire) /\ Now = s /\ Code = P.acquire
  BY DEF WayUp, Placed, Now, Code, P
<1>2. Advance => \/ pc < Len(P.acquire) /\ phase' = "acquire" /\ pc' = pc + 1
                 \/ pc = Len(P.acquire) /\ phase' = "release" /\ pc' = 1
  BY <1>1, Formed DEF Advance, Shaped
<1> USE DEF ids, flow, threads, world, history
<1>3. /\ s.op = "drop" => "audio" \notin s.arg
      /\ s.op \in {"get", "try", "connect"} => s.arg # "audio"
      /\ s.op = "tryWith" => s.arg[1] # "audio"
  BY <1>1, Formed DEF WellFormed, Separate, Plugs
<1>4. "audio" \notin held
  BY DEF Placed
<1>a. CASE SocketAbsent(s) \/ Open(s) \/ Claim(s) \/ ClaimWith(s) \/ Done(s)
  BY <1>1, <1>2, <1>3, <1>4, <1>a DEF SocketAbsent, Open, Claim, ClaimWith, Done, GoesOn,
    Claims, Certain, Gives, When, Using
<1>b. CASE SocketPresent(s)
  BY <1>1, <1>3, <1>4, <1>b DEF SocketPresent, Refused, Using
<1>c. CASE StepFails(s) \/ RunDry(s)
  BY <1>1, <1>2, <1>3, <1>4, <1>c DEF StepFails, RunDry, GiveUp, GivesUp, GoesOn, Using,
    Claims, Certain, Gives, When
<1>d. CASE RateProbe(s) \/ PlugsReady(s) \/ Connect(s) \/ ConnectLost(s)
  BY <1>1, <1>2, <1>3, <1>4, <1>d DEF RateProbe, PlugsReady, Connect, ConnectLost, GiveUp,
    GivesUp, GoesOn, Using, Claims, Certain, Gives, When
<1>e. CASE RateMatches(s) \/ Command(s) \/ CommandUnanswered(s) \/ Mark(s)
  BY <1>1, <1>2, <1>3, <1>4, <1>e DEF RateMatches, Command, CommandUnanswered, Mark, GiveUp,
    GivesUp, GoesOn, Using, Claims, Certain, Gives, When
<1>f. CASE StartAudio(s) \/ Watch(s) \/ StartControl(s) \/ Await(s)
  BY <1>1, <1>2, <1>3, <1>4, <1>f DEF StartAudio, Watch, StartControl, Await, GiveUp,
    GivesUp, GoesOn, Using, Claims, Certain, Gives, When
<1>g. CASE Activate(s)
  BY <1>1, <1>2, <1>4, <1>g DEF Activate, GoesOn, Using, Claims, Certain, Gives,
    When
<1>i. CASE StreamEnds(s)
  <2>1. /\ s.op \in {"live", "poll", "finite"} /\ Advance
        /\ UNCHANGED <<held, audio, marks, prog, sessions, gen, exit>>
    BY <1>i DEF StreamEnds
  <2>2. ok' => ok
    BY <1>i DEF StreamEnds
  <2>3. Gives(s) = {} /\ Claims(s) = {} /\ Certain(s) = {} /\ Using' = Using
    BY <2>1 DEF Using, Claims, Certain, Gives, When
  <2> QED
    BY <1>1, <1>2, <1>4, <2>1, <2>2, <2>3 DEF GoesOn
<1>h. CASE Release(s)
  <2>1. /\ Gives(s) = s.arg /\ Certain(s) = {} /\ held' = held \ s.arg
        /\ Using' = Using \ s.arg
    BY <1>3, <1>h DEF Release, Using, Certain, Claims, Gives, When
  <2>2. marks' = marks /\ ok' = ok /\ s.op # "mark" /\ Advance
    BY <1>h DEF Release
  <2>3. prog' = prog /\ sessions' = sessions /\ gen' = gen /\ exit' = exit
    BY <1>h DEF Release
  <2> QED
    BY <1>1, <1>2, <1>4, <2>1, <2>2, <2>3 DEF GoesOn
<1> QED
  BY <1>1, <1>a, <1>b, <1>c, <1>d, <1>e, <1>f, <1>g, <1>h,
    <1>i DEF WayUp

(* A step s of the release goes on, without what it gives back.             *)
LEMMA DownStep ==
  ASSUME Placed, WayDown, NEW s, s = P.release[pc]
  PROVE  /\ phase = "release" /\ pc \in 1 .. Len(P.release) /\ prog' = prog
         /\ sessions' = sessions /\ gen' = gen /\ exit' = exit /\ myGen' = myGen
         /\ phase' = "release" /\ pc' = pc + 1
         /\ held' = held \ Gives(s) /\ Using' = Using \ Gives(s)
         /\ marks' = marks \/ marks' = marks \cup {"rerated"}
<1>1. phase = "release" /\ pc \in 1 .. Len(P.release) /\ Now = s /\ Code = P.release
  BY Formed DEF WayDown, Placed, Now, Code, P, Shaped
<1>2. Advance => phase' = "release" /\ pc' = pc + 1
  BY <1>1 DEF Advance
<1> USE DEF ids, flow, threads, world, history
<1>3. s.op = "drop" => "audio" \notin s.arg
  BY <1>1, Formed DEF WellFormed, Separate
<1>5. "audio" \notin held
  BY DEF Placed
<1>4. s.op \in {"restore", "restoreQuiet"} => s.arg # "audio"
  BY <1>1, Formed DEF WellFormed, Separate, Plugs
<1>a. CASE Halt(s) \/ Join(s) \/ StopControl(s)
  BY <1>1, <1>2, <1>5, <1>a DEF Halt, Join, StopControl, Gives, Using, When
<1>e. CASE Release(s)
  <2>1. /\ Gives(s) = s.arg /\ held' = held \ s.arg /\ Using' = Using \ s.arg
    BY <1>3, <1>e DEF Release, Using, Gives, When
  <2> QED
    BY <1>1, <1>2, <2>1, <1>e DEF Release
<1>b. CASE Deactivate(s) \/ CheckGeneration(s) \/ CheckRate(s)
  BY <1>1, <1>2, <1>b DEF Deactivate, CheckGeneration, CheckRate, Gives, Using, When
<1>c. CASE Restore(s)
  BY <1>1, <1>2, <1>4, <1>c DEF Restore, Gives, Using, When
<1>d. CASE Rerate(s) \/ ReadRate(s) \/ Verify(s) \/ RateBack(s) \/ Passed(s)
  BY <1>1, <1>2, <1>d DEF Rerate, ReadRate, Verify, RateBack, Passed, Gives,
    Using, When
<1> QED
  BY <1>1, <1>a, <1>b, <1>c, <1>d, <1>e DEF WayDown

(* What happens around the program: it keeps its place and what it holds.   *)
LEMMA AroundStep ==
  ASSUME Placed,
         AudioEnds \/ Qualify \/ Signal \/ BusReset \/ (\E p \in Plugs : Foreign(p))
           \/ UNCHANGED vars
  PROVE  /\ UNCHANGED <<prog, phase, pc, held, marks, ok, exit, sessions, rate,
                        myGen, genOk, lost, halActive>>
         /\ Using' \subseteq Using /\ Using \ {"audio"} \subseteq held'
<1> USE DEF ids, flow, threads, world, history, vars, Using
<1>1. CASE AudioEnds
  BY <1>1 DEF AudioEnds
<1>2. CASE Qualify \/ Signal \/ BusReset \/ UNCHANGED vars
  BY <1>2 DEF Qualify, Signal, BusReset
<1>3. CASE \E p \in Plugs : Foreign(p)
  BY <1>3 DEF Foreign
<1> QED
  BY <1>1, <1>2, <1>3

-----------------------------------------------------------------------------
(* What is held: the claims and the order in which they are given back.     *)

(* The last step of a program, or its death.                                *)
LEMMA EndStep ==
  ASSUME Placed, Exit \/ Crash
  PROVE  /\ phase # "idle" /\ phase' = "idle"
         /\ UNCHANGED <<prog, marks, myGen, gen, rate, plug, halActive, sessions>>
         /\ \/ /\ Exit /\ phase = "release" /\ pc > Len(P.release)
               /\ pc \in 1 .. Len(P.release) + 1
               /\ exit' \in {"good", "bad"} /\ (exit' = "good" => ok)
               /\ UNCHANGED <<held, audio, lost>>
            \/ held' = {} /\ audio' = "none" /\ exit' = "crashed"
<1> USE DEF ids, flow, threads, world, history
<1>1. CASE Exit
  BY <1>1 DEF Exit, Code, P, Placed
<1>2. CASE Crash
  BY <1>2 DEF Crash
<1> QED
  BY <1>1, <1>2

(* A program starts with nothing held, at the first step of its way up.     *)
LEMMA LaunchStep ==
  ASSUME Placed, Launch
  PROVE  /\ phase = "idle" /\ phase' = "acquire" /\ prog' \in DOMAIN Program
         /\ pc' = 1 /\ held' = {} /\ Using' = {} /\ marks' \subseteq {"dryRun"}
         /\ sessions' = sessions + 1 /\ exit' = "none" /\ genOk' = TRUE
         /\ UNCHANGED <<myGen, gen, plug, rate, halActive>> /\ ok' = TRUE
         /\ Shaped(P')
<1>1. WellFormed(P')
  BY ProgramsAssumption DEF Launch, P
<1> QED
  BY <1>1 DEF Launch, Using, world, WellFormed

(* The program counter stays within the code of the program.                *)
LEMMA PlacedStep ==
  ASSUME Placed, sessions \in Nat, [Next]_vars
  PROVE  Placed'
<1>0. Shaped(P)
  BY ProgramsAssumption DEF Placed, P, WellFormed
<1>1. CASE Launch
  <2>1. pc' = 1 /\ 1 \in 1 .. Len(P'.acquire)
    BY <1>1, LaunchStep DEF Shaped
  <2>2. sessions' # 0 /\ "audio" \notin held'
    BY <1>1, LaunchStep
  <2> QED
    BY <1>1, <2>1, <2>2, LaunchStep DEF Placed
<1>2. CASE WayUp
  <2>1. PICK s : s = P.acquire[pc]
    OBVIOUS
  <2>2. Cleanup \in 1 .. Len(P.release) + 1
    BY <1>0 DEF Cleanup, Shaped, P
  <2>3. P' = P
    BY <1>2, <2>1, UpStep DEF P
  <2> QED
    BY <1>0, <1>2, <2>1, <2>2, <2>3, UpStep DEF Placed, GoesOn, GivesUp,
      Refused, Shaped
<1>3. CASE WayDown
  <2>1. PICK s : s = P.release[pc]
    OBVIOUS
  <2>2. P' = P
    BY <1>3, <2>1, DownStep DEF P
  <2>3. pc' \in 1 .. Len(P.release) + 1
    BY <1>0, <1>3, <2>1, DownStep DEF Shaped
  <2> QED
    BY <1>3, <2>1, <2>2, <2>3, DownStep DEF Placed
<1>4. CASE Exit \/ Crash
  BY <1>4, EndStep DEF Placed
<1>5. CASE AudioEnds \/ Qualify \/ Signal \/ BusReset
           \/ (\E p \in Plugs : Foreign(p)) \/ UNCHANGED vars
  BY <1>5, AroundStep DEF Placed, P
<1> QED
  BY <1>1, <1>2, <1>3, <1>4, <1>5 DEF Next

(* A failure goes where the text of the program says.                       *)
LEMMA CleanupIs ==
  ASSUME Placed, Marking, phase = "acquire"
  PROVE  Cleanup = Entry(P, pc)
BY DEF Marking, Cleanup, Entry, P

(* What a release does for all that may be held it does for less.           *)
LEMMA Fewer ==
  ASSUME NEW Q, NEW k, NEW g, NEW h, h \subseteq g,
         GivesBack(Q, k, g), UsersFirst(Q, k, g), RateLast(Q, k, g)
  PROVE  GivesBack(Q, k, h) /\ UsersFirst(Q, k, h) /\ RateLast(Q, k, h)
BY DEF GivesBack, UsersFirst, RateLast

(* The release, entered from the i-th step or after the last one, gives     *)
(* back in order what may be held there.                                    *)
LEMMA ReleaseEntered ==
  ASSUME Placed, NEW i \in 1 .. Len(P.acquire) + 1, NEW k,
         k = IF i > Len(P.acquire) THEN 1 ELSE Entry(P, i),
         NEW h, h \subseteq MayHold(P, i)
  PROVE  GivesBack(P, k, h) /\ UsersFirst(P, k, h) /\ RateLast(P, k, h)
BY Formed, Fewer DEF WellFormed, ReleasesInOrder

(* A step of the way up leaves nothing without what it runs on.             *)
LEMMA UpSupported ==
  ASSUME Placed, Holding, WayUp, NEW s, s = P.acquire[pc], GoesOn(s)
  PROVE  Supported(Using')
<1>0. /\ phase = "acquire" /\ pc \in 1 .. Len(P.acquire)
      /\ Using \subseteq MayHold(P, pc) /\ MustHold(P, pc) \subseteq held
      /\ Supported(Using)
  BY UpStep DEF Holding
<1> SUFFICES ASSUME NEW d \in Supports, d[1] \in Using' PROVE d[2] \in held'
  BY DEF Supported, Using
<1>1. /\ d[1] \in Claims(s) => d[2] \in MustHold(P, pc)
      /\ d[2] \in Gives(s) => d[1] \notin MayHold(P, pc)
  BY <1>0, Formed DEF WellFormed, ClaimsInOrder
<1>2. /\ Using' \subseteq (Using \ Gives(s)) \cup Claims(s)
      /\ held \ Gives(s) \subseteq held'
  BY DEF GoesOn
<1>3. d[2] # "audio"
  BY DEF Supports
<1>4. CASE d[1] \in Claims(s)
  <2>1. Gives(s) = {}
    BY <1>4 DEF Claims, Gives, When
  <2> QED
    BY <1>0, <1>1, <1>2, <1>4, <2>1
<1>5. CASE d[1] \in Using
  <2>1. d[2] \in Using
    BY <1>0, <1>5 DEF Supported
  <2>2. d[2] \in held
    BY <1>3, <2>1 DEF Using
  <2> QED
    BY <1>0, <1>1, <1>2, <1>5, <2>2
<1> QED
  BY <1>2, <1>4, <1>5

(* What is held follows the text on the way up ...                          *)
LEMMA UpHolding ==
  ASSUME Placed, Holding, Marking, WayUp
  PROVE  Holding'
<1>1. PICK s : s = P.acquire[pc]
  OBVIOUS
<1>2. /\ phase = "acquire" /\ pc \in 1 .. Len(P.acquire) /\ P' = P
      /\ GoesOn(s) \/ GivesUp \/ Refused(s)
      /\ Using \subseteq MayHold(P, pc) /\ MustHold(P, pc) \subseteq held
      /\ Supported(Using)
  BY <1>1, UpStep DEF Holding, P
<1>3. CASE GoesOn(s)
  <2>1. MayHold(P, pc + 1) = MayHold(P, pc) \cup Claims(s)
    BY <1>1, <1>2, Formed, MayHoldMore
  <2>2. Using' \subseteq MayHold(P, pc + 1)
    BY <1>2, <1>3, <2>1 DEF GoesOn
  <2>3. MustHold(P, pc + 1) \subseteq held'
    BY <1>1, <1>2, <1>3, Formed, MustHoldLess DEF GoesOn
  <2>4. Supported(Using')
    BY <1>1, <1>3, UpSupported
  <2>5. CASE phase' = "acquire" /\ pc' = pc + 1
    BY <1>2, <2>2, <2>3, <2>4, <2>5 DEF Holding
  <2>6. CASE pc = Len(P.acquire) /\ phase' = "release" /\ pc' = 1
    <3>1. pc + 1 \in 1 .. Len(P.acquire) + 1 /\ pc + 1 > Len(P.acquire)
      BY <1>2, <2>6
    <3>2. /\ GivesBack(P, 1, Using') /\ UsersFirst(P, 1, Using')
          /\ RateLast(P, 1, Using')
      BY <2>2, <3>1, ReleaseEntered
    <3> QED
      BY <1>2, <2>4, <2>6, <3>2 DEF Holding
  <2> QED
    BY <1>3, <2>5, <2>6 DEF GoesOn
<1>4. CASE GivesUp
  <2>1. Cleanup = Entry(P, pc)
    BY <1>2, CleanupIs
  <2>2. pc \in 1 .. Len(P.acquire) + 1 /\ ~(pc > Len(P.acquire))
    BY <1>2, Formed DEF Shaped
  <2>3. /\ GivesBack(P, Cleanup, Using) /\ UsersFirst(P, Cleanup, Using)
        /\ RateLast(P, Cleanup, Using)
    BY <1>2, <2>1, <2>2, ReleaseEntered
  <2> QED
    BY <1>2, <1>4, <2>3 DEF Holding, GivesUp
<1>5. CASE Refused(s)
  <2>1. MayHold(P, pc) = {}
    BY <1>1, <1>2, <1>5, Formed DEF WellFormed, ClaimsInOrder, Refused
  <2> QED
    BY <1>2, <1>5, <2>1 DEF Holding, Refused
<1> QED
  BY <1>2, <1>3, <1>4, <1>5

(* ... on the way down ...                                                  *)
LEMMA DownHolding ==
  ASSUME Placed, Holding, WayDown
  PROVE  Holding'
<1>1. PICK s : s = P.release[pc]
  OBVIOUS
<1>2. /\ phase = "release" /\ pc \in 1 .. Len(P.release) /\ P' = P
      /\ phase' = "release" /\ pc' = pc + 1 /\ Using' = Using \ Gives(s)
      /\ GivesBack(P, pc, Using) /\ UsersFirst(P, pc, Using)
      /\ RateLast(P, pc, Using) /\ Supported(Using)
  BY <1>1, DownStep DEF Holding, P
<1>3. /\ GivesBack(P, pc + 1, Using') /\ UsersFirst(P, pc + 1, Using')
      /\ RateLast(P, pc + 1, Using') /\ Supported(Using')
  BY <1>1, <1>2, Formed, GivesBackNext, UsersFirstNext, RateLastNext,
    SupportedNext
<1> QED
  BY <1>2, <1>3 DEF Holding

(* ... and at every other step.                                             *)
LEMMA HoldingStep ==
  ASSUME Placed, Holding, Marking, [Next]_vars
  PROVE  Holding'
<1>1. CASE Launch
  BY <1>1, LaunchStep, MayHoldNothing DEF Holding, Supported
<1>2. CASE Exit \/ Crash
  <2>1. Using' = {}
    BY <1>2, EndStep, Formed, NothingLeft DEF Using, Holding
  <2> QED
    BY <1>2, <2>1, EndStep DEF Holding, Supported
<1>3. CASE AudioEnds \/ Qualify \/ Signal \/ BusReset
           \/ (\E p \in Plugs : Foreign(p)) \/ UNCHANGED vars
  <2>1. /\ UNCHANGED <<phase, pc, held>> /\ P' = P /\ Using' \subseteq Using
        /\ Using \ {"audio"} \subseteq Using'
    BY <1>3, AroundStep DEF P, Using
  <2>2. Supported(Using) => Supported(Using')
    BY <2>1 DEF Supported, Supports
  <2> QED
    BY <2>1, <2>2, Fewer DEF Holding
<1> QED
  BY <1>1, <1>2, <1>3, UpHolding, DownHolding DEF Next

(* The marks that decide where a failure goes follow the text.              *)
LEMMA MarkingStep ==
  ASSUME Placed, Marking, [Next]_vars
  PROVE  Marking'
<1>1. CASE Launch
  BY <1>1, LaunchStep, MayHoldNothing DEF Marking
<1>2. CASE WayUp
  <2>1. PICK s : s = P.acquire[pc]
    OBVIOUS
  <2>2. /\ phase = "acquire" /\ pc \in 1 .. Len(P.acquire) /\ P' = P
        /\ GoesOn(s) \/ phase' # "acquire"
    BY <1>2, <2>1, UpStep DEF P, GivesUp, Refused
  <2>3. \A m : Marked(P, pc + 1, m) <=>
                 Marked(P, pc, m) \/ (s.op = "mark" /\ s.arg = m)
    BY <2>1, <2>2, Formed, MarkedMore
  <2> QED
    BY <2>2, <2>3 DEF Marking, GoesOn
<1>3. CASE WayDown \/ Exit \/ Crash
  BY <1>3, DownStep, EndStep DEF Marking
<1>4. CASE AudioEnds \/ Qualify \/ Signal \/ BusReset
           \/ (\E p \in Plugs : Foreign(p)) \/ UNCHANGED vars
  BY <1>4, AroundStep DEF Marking, P
<1> QED
  BY <1>1, <1>2, <1>3, <1>4 DEF Next

-----------------------------------------------------------------------------
(* The rates: FCP answers when they are commanded; what the HAL is told.    *)

(* A release that is to command the baseline still holds what FCP needs     *)
(* until it has done so.                                                    *)
LEMMA AskingStep ==
  ASSUME Placed, Holding, Marking, Asking, [Next]_vars
  PROVE  Asking'
<1>1. CASE Launch \/ Exit \/ Crash
  BY <1>1, LaunchStep, EndStep DEF Asking
<1>2. CASE WayUp
  <2>1. PICK s : s = P.acquire[pc]
    OBVIOUS
  <2>2. /\ phase = "acquire" /\ pc \in 1 .. Len(P.acquire) /\ P' = P
        /\ GoesOn(s) \/ GivesUp \/ Refused(s)
        /\ MustHold(P, pc) \subseteq held
    BY <1>2, <2>1, UpStep DEF P, Holding
  <2>3. CASE GoesOn(s)
    <3> SUFFICES ASSUME phase' = "release", "rateAttempted" \in marks'
                 PROVE  CanAsk(P, 1, held')
      BY <2>2, <2>3 DEF Asking, GoesOn
    <3>1. pc = Len(P.acquire)
      BY <2>3 DEF GoesOn
    <3>2. Marked(P, pc + 1, "rateAttempted")
      BY <2>1, <2>2, <2>3, Formed, MarkedMore DEF Marking, GoesOn
    <3>3. pc + 1 \in 1 .. Len(P.acquire) + 1 /\ pc + 1 > Len(P.acquire)
      BY <2>2, <3>1
    <3>4. CanAsk(P, 1, MustHold(P, pc + 1))
      BY <3>2, <3>3, Formed DEF WellFormed, ReleasesInOrder
    <3>5. MustHold(P, pc + 1) \subseteq held'
      BY <2>1, <2>2, <2>3, Formed, MustHoldLess DEF GoesOn
    <3> QED
      BY <3>4, <3>5 DEF CanAsk
  <2>4. CASE GivesUp
    <3> SUFFICES ASSUME "rateAttempted" \in marks
                 PROVE  CanAsk(P, Cleanup, held)
      BY <2>2, <2>4 DEF Asking, GivesUp
    <3>1. Cleanup = Entry(P, pc)
      BY <2>2, CleanupIs
    <3>2. pc \in 1 .. Len(P.acquire) + 1 /\ ~(pc > Len(P.acquire))
      BY <2>2, Formed DEF Shaped
    <3>3. Marked(P, pc, "rateAttempted")
      BY <2>2 DEF Marking
    <3>4. CanAsk(P, Cleanup, MustHold(P, pc))
      BY <3>1, <3>2, <3>3, Formed DEF WellFormed, ReleasesInOrder
    <3> QED
      BY <2>2, <3>4 DEF CanAsk
  <2> QED
    BY <2>2, <2>3, <2>4 DEF Refused, Asking
<1>3. CASE WayDown
  <2>1. PICK s : s = P.release[pc]
    OBVIOUS
  <2>2. /\ phase = "release" /\ pc \in 1 .. Len(P.release) /\ P' = P
        /\ pc' = pc + 1 /\ held' = held \ Gives(s)
        /\ "rateAttempted" \in marks' => "rateAttempted" \in marks
    BY <1>3, <2>1, DownStep DEF P
  <2> QED
    BY <2>1, <2>2, Formed, CanAskNext DEF Asking
<1>4. CASE AudioEnds \/ Qualify \/ Signal \/ BusReset
           \/ (\E p \in Plugs : Foreign(p)) \/ UNCHANGED vars
  BY <1>4, AroundStep DEF Asking, P
<1> QED
  BY <1>1, <1>2, <1>3, <1>4 DEF Next

(* Plugs and the word that the HAL sees have the steps that are theirs.      *)
LEMMA OwnClaims ==
  ASSUME Placed, NEW i \in 1 .. Len(P.acquire), NEW s, s = P.acquire[i]
  PROVE  /\ "active" \in Claims(s) => s.op = "active"
         /\ \A p \in Plugs : p \in Claims(s) => s.op = "connect" /\ s.arg = p
         /\ \A p \in Plugs \cup {"active"} : p \notin Gives(s)
BY Formed DEF WellFormed, Separate, Claims, Gives, When, Plugs

(* On the way down each has its own step as well.                           *)
LEMMA OwnGives ==
  ASSUME Placed, NEW n \in 1 .. Len(P.release), NEW s, s = P.release[n]
  PROVE  /\ "active" \in Gives(s) => s.op = "inactive"
         /\ \A p \in Plugs : p \in Gives(s) =>
              s.op \in {"restore", "restoreQuiet"} /\ s.arg = p
BY Formed DEF WellFormed, Separate, Gives, When, Plugs

(* Which steps of the way up command rates ...                              *)
LEMMA UpRate ==
  ASSUME Placed, WayUp, NEW s, s = P.acquire[pc]
  PROVE  /\ \/ rate' = rate
            \/ s.op = "rateProbe"
            \/ s.op = "command" /\ rate' = [rate EXCEPT ![s.arg.dir] = s.arg.rate]
         /\ s.op = "command" /\ phase' = "acquire"
              => rate' = [rate EXCEPT ![s.arg.dir] = s.arg.rate]
<1>1. phase = "acquire" /\ pc \in 1 .. Len(P.acquire) /\ Now = s
  BY DEF WayUp, Placed, Now, Code, P
<1> USE DEF world, GiveUp
<1>a. CASE SocketAbsent(s) \/ SocketPresent(s) \/ Open(s) \/ Claim(s)
           \/ ClaimWith(s) \/ Done(s) \/ StepFails(s) \/ RunDry(s)
  BY <1>a DEF SocketAbsent, SocketPresent, Open, Claim, ClaimWith, Done,
    StepFails, RunDry
<1>b. CASE RateProbe(s) \/ PlugsReady(s) \/ Connect(s) \/ ConnectLost(s)
           \/ RateMatches(s) \/ Command(s) \/ CommandUnanswered(s) \/ Mark(s)
  BY <1>b DEF RateProbe, PlugsReady, Connect, ConnectLost, RateMatches,
    Command, CommandUnanswered, Mark
<1>c. CASE StartAudio(s) \/ Watch(s) \/ StartControl(s) \/ Await(s)
           \/ Activate(s) \/ StreamEnds(s) \/ Release(s)
  BY <1>c DEF StartAudio, Watch, StartControl, Await, Activate, StreamEnds,
    Release
<1> QED
  BY <1>1, <1>a, <1>b, <1>c DEF WayUp

(* ... and which steps of a release.                                        *)
LEMMA DownRate ==
  ASSUME Placed, WayDown, NEW s, s = P.release[pc]
  PROVE  rate' = rate \/ s.op \in {"rerate", "rateBack"}
<1>1. Now = s
  BY DEF WayDown, Now, Code, P, Placed
<1> USE DEF world
<1>a. CASE Halt(s) \/ Join(s) \/ Release(s) \/ StopControl(s) \/ Deactivate(s)
           \/ CheckGeneration(s) \/ Restore(s)
  BY <1>a DEF Halt, Join, Release, StopControl, Deactivate, CheckGeneration,
    Restore
<1>b. CASE CheckRate(s) \/ Rerate(s) \/ ReadRate(s) \/ Verify(s) \/ RateBack(s)
           \/ Passed(s)
  BY <1>b DEF CheckRate, Rerate, ReadRate, Verify, RateBack, Passed
<1> QED
  BY <1>1, <1>a, <1>b DEF WayDown

(* The HAL is told only of rates that the program has commanded.            *)
LEMMA RatedStep ==
  ASSUME Placed, Holding, Rated, rate \in [Directions -> AllRates], [Next]_vars
  PROVE  Rated'
<1>1. CASE Launch
  BY <1>1, LaunchStep, MayHoldNothing DEF Rated
<1>2. CASE WayUp
  <2>1. PICK s : s = P.acquire[pc]
    OBVIOUS
  <2>2. /\ phase = "acquire" /\ pc \in 1 .. Len(P.acquire) /\ P' = P
        /\ GoesOn(s) \/ GivesUp \/ Refused(s)
        /\ Using \subseteq MayHold(P, pc) /\ Shaped(P) /\ prog' = prog
    BY <1>2, <2>1, UpStep, Formed DEF P, Holding
  <2>3. \A d \in Directions : Commanded(d)' = Commanded(d)
    BY <2>2 DEF Commanded
  <2>4. s.op = "command" => \A d \in Directions :
          s.arg.dir = d => s.arg.rate \in Commanded(d)
    BY <2>1, <2>2 DEF Commanded, P
  <2>5. \A d \in Directions : rate[d] \in Commanded(d) /\ s.op # "rateProbe"
          => rate'[d] \in Commanded(d)
    BY <1>2, <2>1, <2>4, UpRate
  <2>6. ASSUME phase' = "acquire", NEW d \in Directions, RateSet(P, pc', d)
        PROVE  rate'[d] \in Commanded(d)
    <3>1. GoesOn(s) /\ pc' = pc + 1
      BY <2>2, <2>6 DEF GivesUp, Refused, GoesOn
    <3>2. \/ s.op = "command" /\ s.arg.dir = d
          \/ RateSet(P, pc, d) /\ s.op # "rateProbe"
      BY <2>1, <2>2, <2>6, <3>1, RateSetLess
    <3>3. CASE s.op = "command" /\ s.arg.dir = d
      BY <1>2, <2>1, <2>4, <2>6, <3>3, UpRate
    <3>4. CASE RateSet(P, pc, d) /\ s.op # "rateProbe"
      BY <2>2, <2>5, <3>4 DEF Rated
    <3> QED
      BY <3>2, <3>3, <3>4
  <2>7. ASSUME "active" \in held', NEW d \in Directions
        PROVE  rate'[d] \in Commanded(d)
    <3>1. CASE "active" \in held
      <4>1. s.op # "rateProbe"
        BY <2>1, <2>2, <3>1, Formed DEF WellFormed, ClaimsInOrder, Using
      <4> QED
        BY <2>5, <3>1, <4>1 DEF Rated
    <3>2. CASE "active" \notin held
      <4>1. GoesOn(s) /\ "active" \in Claims(s)
        BY <2>2, <2>7, <3>2 DEF GoesOn, GivesUp, Refused
      <4>2. s.op = "active"
        BY <2>1, <2>2, <4>1, OwnClaims
      <4>3. RateSet(P, pc, d)
        BY <2>1, <2>2, <4>2, Formed DEF WellFormed, ClaimsInOrder
      <4> QED
        BY <2>2, <2>5, <4>2, <4>3 DEF Rated
    <3> QED
      BY <3>1, <3>2
  <2> QED
    BY <2>2, <2>3, <2>6, <2>7 DEF Rated
<1>3. CASE WayDown
  <2>1. PICK s : s = P.release[pc]
    OBVIOUS
  <2>2. /\ phase = "release" /\ pc \in 1 .. Len(P.release) /\ prog' = prog
        /\ phase' = "release" /\ held' = held \ Gives(s)
    BY <1>3, <2>1, DownStep
  <2>3. ASSUME "active" \in held' PROVE rate' = rate
    <3>1. SUFFICES ASSUME s.op \in {"rerate", "rateBack"} PROVE FALSE
      BY <1>3, <2>1, DownRate
    <3>2. pc \in Later(P, pc)
      BY <2>2, Formed, LaterNext
    <3>3. RateLast(P, pc, Using) /\ "active" \in Using
      BY <2>2, <2>3 DEF Holding, Using
    <3>4. PICK m \in Later(P, pc) : m <= pc /\ "active" \in Gives(P.release[m])
      BY <2>1, <3>1, <3>2, <3>3 DEF RateLast
    <3>5. m = pc
      BY <2>2, <3>4 DEF Later
    <3> QED
      BY <2>1, <3>1, <3>4, <3>5 DEF Gives, When
  <2> QED
    BY <2>2, <2>3 DEF Rated, Commanded
<1>4. CASE Exit \/ Crash
  BY <1>4, EndStep DEF Rated, Commanded
<1>5. CASE AudioEnds \/ Qualify \/ Signal \/ BusReset
           \/ (\E p \in Plugs : Foreign(p)) \/ UNCHANGED vars
  BY <1>5, AroundStep DEF Rated, Commanded, P
<1> QED
  BY <1>1, <1>2, <1>3, <1>4, <1>5 DEF Next

(* Who tells the HAL.                                                       *)
LEMMA TellingStep ==
  ASSUME Placed, Telling, Holding, sessions \in Nat, [Next]_vars
  PROVE  Telling'
<1> USE DEF ids, flow, threads, world, history
<1>1. CASE Launch
  <2>1. sessions' # halActive' /\ halActive' <= sessions' /\ halActive' \in Nat
    BY <1>1, LaunchStep DEF Telling
  <2> QED
    BY <2>1 DEF Telling
<1>2. CASE WayUp
  <2>1. PICK s : s = P.acquire[pc]
    OBVIOUS
  <2>2. /\ phase = "acquire" /\ exit = "none" /\ sessions' = sessions /\ Now = s
        /\ GoesOn(s) \/ GivesUp \/ Refused(s)
        /\ pc \in 1 .. Len(P.acquire)
    BY <1>2, <2>1, UpStep DEF Placed, Now, Code, P
  <2>3. "active" \in held => "active" \in held'
    BY <2>1, <2>2, OwnClaims DEF GoesOn, GivesUp, Refused, Gives, When
  <2>4. halActive' = halActive \/ (halActive' = sessions /\ "active" \in held')
    <3>a. CASE SocketAbsent(s) \/ SocketPresent(s) \/ Open(s) \/ Claim(s)
               \/ ClaimWith(s) \/ Done(s) \/ StepFails(s) \/ RunDry(s)
      BY <3>a DEF SocketAbsent, SocketPresent, Open, Claim, ClaimWith, Done,
        StepFails, RunDry, GiveUp
    <3>b. CASE RateProbe(s) \/ PlugsReady(s) \/ Connect(s) \/ ConnectLost(s)
               \/ RateMatches(s) \/ Command(s) \/ CommandUnanswered(s) \/ Mark(s)
      BY <3>b DEF RateProbe, PlugsReady, Connect, ConnectLost, RateMatches,
        Command, CommandUnanswered, Mark
    <3>c. CASE StartAudio(s) \/ Watch(s) \/ StartControl(s) \/ Await(s)
               \/ Activate(s) \/ StreamEnds(s) \/ Release(s)
      BY <3>c DEF StartAudio, Watch, StartControl, Await, Activate, StreamEnds,
        Release
    <3> QED
      BY <1>2, <2>2, <3>a, <3>b, <3>c DEF WayUp
  <2> QED
    BY <2>2, <2>3, <2>4 DEF Telling
<1>3. CASE WayDown
  <2>1. PICK s : s = P.release[pc]
    OBVIOUS
  <2>2. /\ phase = "release" /\ exit = "none" /\ sessions' = sessions /\ Now = s
        /\ held' = held \ Gives(s) /\ pc \in 1 .. Len(P.release)
    BY <1>3, <2>1, DownStep DEF Placed, Now, Code, P
  <2>3. CASE Deactivate(s)
    <3>1. halActive' = IF "active" \in held THEN 0 ELSE halActive
      BY <2>3 DEF Deactivate
    <3>2. halActive' \in Nat /\ halActive' <= sessions
      BY <3>1 DEF Telling
    <3>3. "active" \notin held => halActive' # sessions \/ sessions = 0
      BY <2>2, <3>1 DEF Telling
    <3>4. "active" \in held => halActive' = 0
      BY <3>1
    <3>5. sessions # 0
      BY <2>2 DEF Placed
    <3> QED
      BY <2>2, <3>2, <3>3, <3>4, <3>5 DEF Telling
  <2>4. CASE ~Deactivate(s)
    <3>1. halActive' = halActive
      <4>a. CASE Halt(s) \/ Join(s) \/ Release(s) \/ StopControl(s)
                 \/ CheckGeneration(s) \/ Restore(s)
        BY <4>a DEF Halt, Join, Release, StopControl, CheckGeneration, Restore
      <4>b. CASE CheckRate(s) \/ Rerate(s) \/ ReadRate(s) \/ Verify(s)
                 \/ RateBack(s) \/ Passed(s)
        BY <4>b DEF CheckRate, Rerate, ReadRate, Verify, RateBack, Passed
      <4> QED
        BY <1>3, <2>2, <2>4, <4>a, <4>b DEF WayDown
    <3>2. "active" \notin Gives(s)
      <4>1. s.op # "inactive"
        <5>1. Halt(s) \/ Join(s) \/ Release(s) \/ StopControl(s)
              \/ CheckGeneration(s) \/ Restore(s) \/ CheckRate(s) \/ Rerate(s)
              \/ ReadRate(s) \/ Verify(s) \/ RateBack(s) \/ Passed(s)
          BY <1>3, <2>2, <2>4 DEF WayDown
        <5> QED
          BY <5>1 DEF Halt, Join, Release, StopControl, CheckGeneration, Restore,
            CheckRate, Rerate, ReadRate, Verify, RateBack, Passed
      <4> QED
        BY <2>1, <2>2, <4>1, OwnGives
    <3> QED
      BY <2>2, <3>1, <3>2 DEF Telling
  <2> QED
    BY <2>3, <2>4
<1>4. CASE Exit
  <2>1. phase # "idle" /\ exit = "none" /\ sessions' = sessions
        /\ halActive' = halActive /\ held' = held
    BY <1>4 DEF Exit, Placed
  <2>2. "active" \notin held
    BY <1>4, EndStep, Formed, NothingLeft DEF Using, Holding, Crash, Exit
  <2> QED
    BY <2>1, <2>2 DEF Telling
<1>5. CASE Crash
  BY <1>5 DEF Crash, Telling
<1>6. CASE AudioEnds \/ Qualify \/ Signal \/ BusReset
           \/ (\E p \in Plugs : Foreign(p)) \/ UNCHANGED vars
  BY <1>6, AroundStep DEF Telling
<1> QED
  BY <1>1, <1>2, <1>3, <1>4, <1>5, <1>6 DEF Next

-----------------------------------------------------------------------------
(* The plugs.                                                               *)

(* What the steps of the way up do to plugs: only a connection changes one, *)
(* from Free and in the generation the program started in.                  *)
LEMMA UpPlug ==
  ASSUME Placed, WayUp, NEW s, s = P.acquire[pc]
  PROVE  /\ genOk' = genOk
         /\ \/ /\ plug' = plug /\ lost' = lost
               /\ s.op # "connect" \/ held' = held
               /\ myGen' = myGen \/ (s.op = "open" /\ myGen' = gen)
            \/ /\ s.op = "connect" /\ gen = myGen /\ plug[s.arg] = Free
               /\ plug' = [plug EXCEPT ![s.arg] = sessions] /\ myGen' = myGen
               /\ \/ held' = held \cup {s.arg} /\ lost' = lost
                  \/ lost' = TRUE
<1>1. Now = s
  BY DEF WayUp, Now, Code, P, Placed
<1> USE DEF ids, world, history, GiveUp
<1>a. CASE SocketAbsent(s) \/ SocketPresent(s) \/ Open(s) \/ Claim(s)
           \/ ClaimWith(s) \/ Done(s) \/ StepFails(s) \/ RunDry(s)
  BY <1>a DEF SocketAbsent, SocketPresent, Open, Claim, ClaimWith, Done,
    StepFails, RunDry
<1>b. CASE RateProbe(s) \/ PlugsReady(s) \/ RateMatches(s) \/ Command(s)
           \/ CommandUnanswered(s) \/ Mark(s)
  BY <1>b DEF RateProbe, PlugsReady, RateMatches, Command, CommandUnanswered,
    Mark
<1>c. CASE Connect(s) \/ ConnectLost(s)
  BY <1>c DEF Connect, ConnectLost, SwapSucceeds, Reachable
<1>d. CASE StartAudio(s) \/ Watch(s) \/ StartControl(s) \/ Await(s)
           \/ Activate(s) \/ StreamEnds(s) \/ Release(s)
  BY <1>d DEF StartAudio, Watch, StartControl, Await, Activate, StreamEnds,
    Release
<1> QED
  BY <1>1, <1>a, <1>b, <1>c, <1>d DEF WayUp

(* What the steps of a release do to plugs: only a restoration of a plug    *)
(* that is held changes one.                                                *)
LEMMA DownPlug ==
  ASSUME Placed, WayDown, NEW s, s = P.release[pc]
  PROVE  /\ genOk' = genOk \/ genOk' = Reachable
         /\ \/ /\ plug' = plug /\ lost' = lost
               /\ s.op \in {"restore", "restoreQuiet"} => ~Restoring(s.arg)
            \/ /\ s.op \in {"restore", "restoreQuiet"} /\ Restoring(s.arg)
               /\ \/ /\ Reachable /\ lost' = lost
                     /\ plug' = [plug EXCEPT ![s.arg] = Free]
                  \/ plug' = plug /\ lost' = (lost \/ Reachable)
<1>1. Now = s
  BY DEF WayDown, Now, Code, P, Placed
<1> USE DEF ids, world, history
<1>a. CASE Halt(s) \/ Join(s) \/ Release(s) \/ StopControl(s) \/ Deactivate(s)
           \/ CheckGeneration(s)
  BY <1>a DEF Halt, Join, Release, StopControl, Deactivate, CheckGeneration
<1>b. CASE Restore(s)
  BY <1>b DEF Restore
<1>c. CASE CheckRate(s) \/ Rerate(s) \/ ReadRate(s) \/ Verify(s) \/ RateBack(s)
           \/ Passed(s)
  BY <1>c DEF CheckRate, Rerate, ReadRate, Verify, RateBack, Passed
<1> QED
  BY <1>1, <1>a, <1>b, <1>c DEF WayDown

(* While the generation lasts, the plugs connected by the program are those *)
(* it holds, on the way up ...                                              *)
LEMMA UpPlugged ==
  ASSUME Placed, Holding, Plugged, WayUp
  PROVE  Plugged'
<1>1. PICK s : s = P.acquire[pc]
  OBVIOUS
<1>2. /\ phase = "acquire" /\ pc \in 1 .. Len(P.acquire) /\ P' = P
      /\ GoesOn(s) \/ GivesUp \/ Refused(s)
      /\ held \subseteq MayHold(P, pc) /\ Shaped(P)
      /\ sessions' = sessions /\ gen' = gen /\ sessions # 0
  BY <1>1, UpStep, Formed DEF P, Holding, Placed, Using
<1>3. Plugs \cap held' = Plugs \cap (held \cup (held' \cap Claims(s)))
  BY <1>1, <1>2, OwnClaims DEF GoesOn, GivesUp, Refused
<1>4. MayHold(P, pc + 1) = MayHold(P, pc) \cup Claims(s)
  BY <1>1, <1>2, MayHoldMore
<1>5. phase' = "acquire" => pc' = pc + 1
  BY <1>2 DEF GoesOn, GivesUp, Refused
<1>6. NoPlugLeftConnected'
  BY <1>2 DEF NoPlugLeftConnected, GoesOn, GivesUp, Refused
<1>7. \A p \in Plugs : p \in Claims(s) => s.op = "connect" /\ s.arg = p
  BY <1>1, <1>2, OwnClaims
<1>8. CASE /\ plug' = plug /\ lost' = lost
           /\ s.op # "connect" \/ held' = held
           /\ myGen' = myGen \/ (s.op = "open" /\ myGen' = gen)
  <2>1. Plugs \cap held' = Plugs \cap held
    BY <1>3, <1>7, <1>8
  <2>2. genOk' = genOk
    BY <1>1, UpPlug
  <2>3. CASE myGen' = myGen
    BY <1>2, <1>4, <1>5, <1>6, <1>8, <2>1, <2>2, <2>3 DEF Plugged
  <2>4. CASE s.op = "open" /\ myGen' = gen
    <3>1. MayHold(P, pc) \cap Plugs = {}
      BY <1>1, <1>2, <2>4, Formed DEF WellFormed, ClaimsInOrder
    <3>2. Plugs \cap held' = {} /\ \A p \in Plugs : plug[p] # sessions
      BY <1>2, <2>1, <3>1 DEF Plugged
    <3> QED
      BY <1>2, <1>6, <1>8, <2>2, <2>4, <3>2 DEF Plugged
  <2> QED
    BY <1>8, <2>3, <2>4
<1>9. CASE /\ s.op = "connect" /\ gen = myGen /\ plug[s.arg] = Free
           /\ plug' = [plug EXCEPT ![s.arg] = sessions] /\ myGen' = myGen
           /\ \/ held' = held \cup {s.arg} /\ lost' = lost
              \/ lost' = TRUE
  <2>1. s.arg \in Plugs /\ s.arg \in Claims(s)
    BY <1>1, <1>2, <1>9, Formed DEF WellFormed, Separate, Claims, When
  <2>2. genOk' = genOk
    BY <1>1, UpPlug
  <2>3. plug' \in [Plugs -> Int] /\ plug'[s.arg] = sessions
        /\ \A p \in Plugs : p # s.arg => plug'[p] = plug[p]
    BY <1>9, <2>1 DEF Plugged
  <2>4. \A p \in Plugs \cap held' : p # s.arg => p \in held
    BY <1>3, <1>7
  <2>5. Plugs \cap held \subseteq held'
    BY <1>1, <1>2, OwnClaims DEF GoesOn, GivesUp, Refused
  <2>6. gen' = myGen' => \A p \in Plugs \cap held' : plug'[p] = sessions'
    BY <1>2, <1>9, <2>3, <2>4 DEF Plugged
  <2>7. phase' = "acquire" =>
          \A p \in Plugs : plug'[p] = sessions' => p \in MayHold(P', pc')
    BY <1>2, <1>4, <1>5, <2>1, <2>3 DEF Plugged
  <2>8. phase' # "idle" /\ ~lost' /\ gen' = myGen' =>
          \A p \in Plugs : plug'[p] = sessions' => p \in held'
    <3> SUFFICES ASSUME ~lost', NEW p \in Plugs, plug'[p] = sessions
                 PROVE  p \in held'
      BY <1>2
    <3>1. lost' = lost /\ held' = held \cup {s.arg}
      BY <1>9
    <3> QED
      BY <1>2, <1>9, <2>3, <3>1 DEF Plugged
  <2>9. \A p \in Plugs : plug'[p] <= sessions
    BY <2>3 DEF Plugged
  <2> QED
    BY <1>2, <1>6, <1>9, <2>2, <2>3, <2>6, <2>7, <2>8, <2>9 DEF Plugged
<1> QED
  BY <1>1, <1>8, <1>9, UpPlug

(* ... on the way down ...                                                  *)
LEMMA DownPlugged ==
  ASSUME Placed, Holding, Plugged, WayDown
  PROVE  Plugged'
<1>1. PICK s : s = P.release[pc]
  OBVIOUS
<1>2. /\ phase = "release" /\ pc \in 1 .. Len(P.release) /\ phase' = "release"
      /\ UNCHANGED <<sessions, gen, myGen>> /\ sessions # 0
      /\ held' = held \ Gives(s)
  BY <1>1, DownStep DEF Placed
<1>3. \A p \in Plugs : p \in Gives(s) =>
        s.op \in {"restore", "restoreQuiet"} /\ s.arg = p
  BY <1>1, <1>2, OwnGives
<1>4. gen' = myGen' => genOk'
  BY <1>1, <1>2, DownPlug DEF Plugged, Reachable
<1>5. s.op \in {"restore", "restoreQuiet"} => s.arg \in Plugs /\ s.arg \in Gives(s)
  BY <1>1, <1>2, Formed DEF WellFormed, Separate, Gives, When
<1>6. NoPlugLeftConnected'
  BY <1>2 DEF NoPlugLeftConnected
<1>7. CASE /\ plug' = plug /\ lost' = lost
           /\ s.op \in {"restore", "restoreQuiet"} => ~Restoring(s.arg)
  <2>1. ~lost' /\ gen' = myGen' =>
          \A p \in Plugs : plug'[p] = sessions' => p \in held'
    <3> SUFFICES ASSUME ~lost, gen = myGen, NEW p \in Plugs, plug[p] = sessions
                 PROVE  p \in held'
      BY <1>2, <1>7
    <3>1. p \in held /\ genOk
      BY <1>2 DEF Plugged
    <3>2. p \notin Gives(s)
      BY <1>3, <1>7, <3>1 DEF Restoring
    <3> QED
      BY <1>2, <3>1, <3>2
  <2> QED
    BY <1>2, <1>4, <1>6, <1>7, <2>1 DEF Plugged
<1>8. CASE /\ s.op \in {"restore", "restoreQuiet"} /\ Restoring(s.arg)
           /\ \/ /\ Reachable /\ lost' = lost
                 /\ plug' = [plug EXCEPT ![s.arg] = Free]
              \/ plug' = plug /\ lost' = (lost \/ Reachable)
  <2>1. /\ plug' \in [Plugs -> Int]
        /\ \A p \in Plugs : p # s.arg => plug'[p] = plug[p]
        /\ plug'[s.arg] \in {Free, plug[s.arg]}
    BY <1>5, <1>8 DEF Plugged, Free
  <2>2. \A p \in Plugs : plug'[p] <= sessions
    BY <1>5, <1>8, <2>1 DEF Plugged, Free
  <2>3. gen = myGen => \A p \in Plugs \cap held' : plug'[p] = sessions
    BY <1>2, <1>5, <1>8, <2>1 DEF Plugged
  <2>4. ~lost' /\ gen = myGen => \A p \in Plugs : plug'[p] = sessions => p \in held'
    <3> SUFFICES ASSUME ~lost', gen = myGen, NEW p \in Plugs, plug'[p] = sessions
                 PROVE  p \in held'
      OBVIOUS
    <3>1. lost' = lost /\ plug' = [plug EXCEPT ![s.arg] = Free]
      BY <1>8 DEF Reachable
    <3>2. p # s.arg
      BY <1>2, <3>1 DEF Plugged, Free
    <3>3. p \in held
      BY <1>2, <2>1, <3>1, <3>2 DEF Plugged
    <3> QED
      BY <1>2, <1>3, <3>2, <3>3
  <2> QED
    BY <1>2, <1>4, <1>6, <2>1, <2>2, <2>3, <2>4 DEF Plugged
<1> QED
  BY <1>1, <1>7, <1>8, DownPlug

(* ... whatever the bus and the other controllers do ...                    *)
LEMMA AroundPlugged ==
  ASSUME Placed, Holding, Plugged,
         AudioEnds \/ Qualify \/ Signal \/ BusReset
           \/ (\E p \in Plugs : Foreign(p)) \/ UNCHANGED vars
  PROVE  Plugged'
<1>1. /\ UNCHANGED <<prog, phase, pc, held, exit, sessions, myGen, genOk, lost>>
      /\ P' = P /\ (held # {} => sessions # 0)
  BY AroundStep DEF P, Holding, Using, Placed
<1>2. CASE AudioEnds \/ Qualify \/ Signal \/ UNCHANGED vars
  <2>1. gen' = gen /\ plug' = plug
    BY <1>2 DEF AudioEnds, Qualify, Signal, vars, world
  <2> QED
    BY <1>1, <2>1 DEF Plugged, NoPlugLeftConnected
<1>3. CASE BusReset
  <2>1. gen' = gen + 1 /\ plug' \in {plug, [p \in Plugs |-> Free]}
    BY <1>3 DEF BusReset
  <2>2. gen' \in Nat /\ myGen <= gen' /\ gen' # myGen
    BY <2>1 DEF Plugged
  <2>3. plug' \in [Plugs -> Int] /\ \A p \in Plugs : plug'[p] <= sessions
    BY <2>1 DEF Plugged, Free
  <2>4. phase = "acquire" =>
          \A p \in Plugs : plug'[p] = sessions => plug[p] = sessions
    BY <2>1 DEF Placed, Free
  <2> QED
    BY <1>1, <2>2, <2>3, <2>4 DEF Plugged, NoPlugLeftConnected
<1>4. ASSUME NEW q \in Plugs, Foreign(q) PROVE Plugged'
  <2>1. /\ gen' = gen
        /\ \/ plug' = [plug EXCEPT ![q] = Other] /\ plug[q] = Free
           \/ plug' = [plug EXCEPT ![q] = Free] /\ plug[q] = Other
    BY <1>4 DEF Foreign
  <2>2. /\ plug' \in [Plugs -> Int] /\ \A p \in Plugs : plug'[p] <= sessions
        /\ \A p \in Plugs : p # q => plug'[p] = plug[p]
        /\ plug'[q] \in {-1, 0} /\ plug[q] \in {-1, 0}
    BY <2>1 DEF Plugged, Free, Other
  <2>3. sessions # 0 => \A p \in Plugs : plug'[p] = sessions <=> plug[p] = sessions
    BY <2>2 DEF Plugged
  <2> QED
    BY <1>1, <2>1, <2>2, <2>3 DEF Plugged, NoPlugLeftConnected, Placed
<1> QED
  BY <1>2, <1>3, <1>4

(* ... and at every step.                                                   *)
LEMMA PluggedStep ==
  ASSUME Placed, Holding, Plugged, [Next]_vars
  PROVE  Plugged'
<1>1. CASE Launch
  <2>1. \A p \in Plugs : plug'[p] <= sessions' /\ plug'[p] # sessions'
    BY <1>1, LaunchStep DEF Plugged
  <2> QED
    BY <1>1, <2>1, LaunchStep DEF Plugged, NoPlugLeftConnected
<1>2. CASE Exit \/ Crash
  <2>1. held' = {}
    BY <1>2, EndStep, Formed, NothingLeft DEF Using, Holding
  <2>2. /\ phase' = "idle" /\ UNCHANGED <<myGen, gen, plug, sessions>>
        /\ exit' = "crashed" \/ (held' = held /\ lost' = lost /\ phase = "release")
    BY <1>2, EndStep
  <2> QED
    BY <2>1, <2>2 DEF Plugged, NoPlugLeftConnected
<1>3. CASE AudioEnds \/ Qualify \/ Signal \/ BusReset
           \/ (\E p \in Plugs : Foreign(p)) \/ UNCHANGED vars
  BY <1>3, AroundPlugged
<1> QED
  BY <1>1, <1>2, <1>3, UpPlugged, DownPlugged DEF Next

(* No step of a program connects or frees a plug of another controller.     *)
LEMMA OthersStep ==
  ASSUME Placed, Holding, Plugged, [Next]_vars, NEW p \in Plugs,
         plug[p] = Other, plug'[p] # Other
  PROVE  UNCHANGED flow
<1>1. CASE Launch \/ Exit \/ Crash
  BY <1>1, LaunchStep, EndStep
<1>2. ~WayUp
  <2> SUFFICES ASSUME WayUp PROVE FALSE
    OBVIOUS
  <2>1. PICK s : s = P.acquire[pc]
    OBVIOUS
  <2>2. plug[s.arg] = Free /\ plug' = [plug EXCEPT ![s.arg] = sessions]
    BY <2>1, UpPlug
  <2>3. p # s.arg
    BY <2>2 DEF Free, Other
  <2> QED
    BY <2>2, <2>3 DEF Plugged
<1>3. ~WayDown
  <2> SUFFICES ASSUME WayDown PROVE FALSE
    OBVIOUS
  <2>1. PICK s : s = P.release[pc]
    OBVIOUS
  <2>2. /\ plug' = [plug EXCEPT ![s.arg] = Free] /\ Restoring(s.arg)
        /\ Reachable
    BY <2>1, DownPlug
  <2>3. p = s.arg
    BY <2>2 DEF Plugged
  <2>4. plug[p] = sessions
    BY <2>2, <2>3 DEF Plugged, Restoring, Reachable
  <2> QED
    BY <2>4 DEF Plugged, Other
<1>4. CASE AudioEnds \/ Qualify \/ Signal \/ BusReset
           \/ (\E q \in Plugs : Foreign(q)) \/ UNCHANGED vars
  BY <1>4 DEF AudioEnds, Qualify, Signal, BusReset, Foreign, vars
<1> QED
  BY <1>1, <1>2, <1>3, <1>4 DEF Next

-----------------------------------------------------------------------------
(* The baseline rate.                                                       *)

(* What the steps of a release do to the rate, to the look at the           *)
(* generation and to the result.                                            *)
LEMMA DownResult ==
  ASSUME Placed, WayDown, NEW s, s = P.release[pc], s.op # "pass", ok'
  PROVE  /\ ok
         /\ s.op = "checkRate" => genOk' = Reachable /\ ("rateAttempted" \in marks => Reachable)
         /\ s.op \notin {"check", "checkRate"} => genOk' = genOk
<1>1. Now = s
  BY DEF WayDown, Now, Code, P, Placed
<1> USE DEF ids
<1>a. CASE Halt(s) \/ Release(s) \/ StopControl(s) \/ Deactivate(s)
  BY <1>a DEF Halt, Release, StopControl, Deactivate
<1>b. CASE Join(s) \/ CheckGeneration(s) \/ CheckRate(s)
  BY <1>b DEF Join, CheckGeneration, CheckRate
<1>c. CASE Restore(s)
  BY <1>c DEF Restore
<1>d. CASE Rerate(s) \/ ReadRate(s) \/ RateBack(s)
  BY <1>d DEF Rerate, ReadRate, RateBack
<1>e. CASE Verify(s)
  BY <1>e DEF Verify
<1>f. ~Passed(s)
  BY DEF Passed
<1> QED
  BY <1>1, <1>a, <1>b, <1>c, <1>d, <1>e, <1>f DEF WayDown

(* A release that still ends well undoes no restored rate, and a step that  *)
(* restores one has done so.                                                *)
LEMMA DownRestoresRate ==
  ASSUME Placed, WayDown, NEW s, s = P.release[pc], ok',
         rate \in [Directions -> AllRates], NEW d \in Directions
  PROVE  /\ rate[d] = "48000" => rate'[d] = "48000"
         /\ s.op = "rerate" /\ s.arg = d /\ Rerating => rate'[d] = "48000"
         /\ s.op = "rateBack" /\ s.arg = "always" /\ "dryRun" \notin marks
              => rate'[d] = "48000"
<1>1. Now = s
  BY DEF WayDown, Now, Code, P, Placed
<1>2. CASE Rerate(s)
  BY <1>2 DEF Rerate
<1>3. CASE RateBack(s)
  <2>1. \/ rate' = rate /\ ("dryRun" \in marks \/ s.arg = "failed")
        \/ rate' = [e \in Directions |-> "48000"]
    BY <1>3 DEF RateBack
  <2> QED
    BY <1>3, <2>1 DEF RateBack
<1>4. CASE ~Rerate(s) /\ ~RateBack(s)
  <2>1. Halt(s) \/ Join(s) \/ Release(s) \/ StopControl(s)
        \/ Deactivate(s) \/ CheckGeneration(s) \/ Restore(s)
        \/ CheckRate(s) \/ ReadRate(s) \/ Verify(s) \/ Passed(s)
    BY <1>1, <1>4 DEF WayDown
  <2>2. rate' = rate /\ s.op \notin {"rerate", "rateBack"}
    BY <2>1 DEF Halt, Join, Release, StopControl, Deactivate, CheckGeneration,
      Restore, CheckRate, ReadRate, Verify, Passed, world
  <2> QED
    BY <2>2
<1> QED
  BY <1>2, <1>3, <1>4

(* A program that still calls its run a success restores the baseline in    *)
(* its release ...                                                          *)
LEMMA DownRestoring ==
  ASSUME Placed, Restoring48, rate \in [Directions -> AllRates], WayDown
  PROVE  Restoring48'
<1>1. PICK s : s = P.release[pc]
  OBVIOUS
<1>2. /\ phase = "release" /\ pc \in 1 .. Len(P.release) /\ P' = P
      /\ phase' = "release" /\ pc' = pc + 1
      /\ marks' = marks \/ marks' = marks \cup {"rerated"}
      /\ WellFormed(P) /\ Shaped(P)
  BY <1>1, DownStep, Formed DEF P
<1> SUFFICES ASSUME Promising'
             PROVE  /\ \A d \in Directions :
                         \/ rate'[d] = "48000"
                         \/ \E n \in Later(P, pc + 1) : RatesBack(P.release[n], d)
                    /\ (\E n \in 1 .. Len(P.release) : P.release[n].op = "rerate")
                         => "rateAttempted" \in marks
                    /\ JustChecked(P, pc + 1) /\ "rateAttempted" \in marks => genOk'
  BY <1>2 DEF Restoring48, SuccessRestoresRate
<1>3. ok' /\ "dryRun" \notin marks /\ P.rerates
  BY <1>2 DEF Promising
<1>4. s.op # "pass"
  BY <1>1, <1>2, <1>3 DEF WellFormed, RestoresBaseline
<1>5. Promising
  BY <1>1, <1>2, <1>3, <1>4, DownResult DEF Promising
<1>6. (\E n \in 1 .. Len(P.release) : P.release[n].op = "rerate")
        => "rateAttempted" \in marks
  BY <1>5 DEF Restoring48
<1>7. ASSUME NEW d \in Directions
      PROVE  \/ rate'[d] = "48000"
             \/ \E n \in Later(P, pc + 1) : RatesBack(P.release[n], d)
  <2>1. CASE rate[d] = "48000"
    BY <1>1, <1>3, <2>1, DownRestoresRate
  <2>2. ASSUME NEW n \in Later(P, pc), RatesBack(P.release[n], d)
        PROVE  \/ rate'[d] = "48000"
               \/ \E m \in Later(P, pc + 1) : RatesBack(P.release[m], d)
    <3>1. CASE n \in Later(P, pc + 1)
      BY <2>2, <3>1
    <3>2. CASE n = pc /\ s.op = "rerate"
      <4>1. s.arg = d
        BY <1>1, <2>2, <3>2 DEF RatesBack
      <4>2. JustChecked(P, pc)
        BY <1>1, <1>2, <1>3, <3>2 DEF WellFormed, RestoresBaseline
      <4>3. Rerating
        BY <1>1, <1>2, <1>5, <1>6, <3>2, <4>2 DEF Restoring48, Rerating
      <4> QED
        BY <1>1, <1>3, <3>2, <4>1, <4>3, DownRestoresRate
    <3>3. CASE n = pc /\ s.op = "rateBack" /\ s.arg = "always"
      BY <1>1, <1>3, <3>3, DownRestoresRate
    <3> QED
      BY <1>1, <1>2, <2>2, <3>1, <3>2, <3>3, LaterNext DEF RatesBack
  <2> QED
    BY <1>5, <2>1, <2>2 DEF Restoring48
<1>8. ASSUME JustChecked(P, pc + 1), "rateAttempted" \in marks PROVE genOk'
  <2>1. CASE s.op = "checkRate"
    BY <1>1, <1>3, <1>4, <1>8, <2>1, DownResult
  <2>2. CASE s.op # "checkRate"
    <3>1. PICK c \in 1 .. Len(P.release) :
            /\ c < pc + 1 /\ P.release[c].op = "checkRate"
            /\ \A k \in 1 .. Len(P.release) :
                 c < k /\ k < pc + 1 => P.release[k].op # "check"
      BY <1>8 DEF JustChecked
    <3>2. c < pc /\ c \in Int /\ pc \in Int
      BY <1>1, <1>2, <2>2, <3>1
    <3>3. s.op # "check"
      BY <1>1, <1>2, <3>1, <3>2
    <3>4. \A k \in 1 .. Len(P.release) : c < k /\ k < pc => P.release[k].op # "check"
      BY <1>2, <3>1
    <3>5. JustChecked(P, pc)
      BY <3>1, <3>2, <3>4 DEF JustChecked
    <3>6. genOk
      BY <1>5, <1>8, <3>5 DEF Restoring48
    <3> QED
      BY <1>1, <1>3, <1>4, <2>2, <3>3, <3>6, DownResult
  <2> QED
    BY <2>1, <2>2
<1> QED
  BY <1>6, <1>7, <1>8

(* ... and says so only when it has.                                        *)
LEMMA RestoringStep ==
  ASSUME Placed, Marking, Restoring48, rate \in [Directions -> AllRates],
         [Next]_vars
  PROVE  Restoring48'
<1>1. CASE Launch
  BY <1>1, LaunchStep DEF Restoring48, Promising, SuccessRestoresRate
<1>2. CASE WayUp
  <2>1. PICK s : s = P.acquire[pc]
    OBVIOUS
  <2>2. /\ phase = "acquire" /\ pc \in 1 .. Len(P.acquire) /\ P' = P
        /\ GoesOn(s) \/ GivesUp \/ Refused(s)
        /\ WellFormed(P) /\ Shaped(P)
    BY <1>2, <2>1, UpStep, Formed DEF P
  <2>3. SuccessRestoresRate'
    BY <2>2 DEF SuccessRestoresRate, GoesOn, GivesUp, Refused
  <2> SUFFICES ASSUME Promising'
               PROVE  /\ \A d \in Directions :
                           \E n \in Later(P, pc') : RatesBack(P.release[n], d)
                      /\ (\E n \in 1 .. Len(P.release) : P.release[n].op = "rerate")
                           => "rateAttempted" \in marks'
                      /\ ~JustChecked(P, pc')
    BY <2>2, <2>3 DEF Restoring48
  <2>4. /\ pc = Len(P.acquire) /\ pc' = 1 /\ P.rerates
        /\ marks' = marks \cup IF s.op = "mark" THEN {s.arg} ELSE {}
    BY <2>2 DEF Promising, GoesOn, GivesUp, Refused
  <2>5. Later(P, 1) = 1 .. Len(P.release)
    BY <2>2 DEF Later, Shaped
  <2>6. \A d \in Directions : \E n \in Later(P, pc') : RatesBack(P.release[n], d)
    BY <2>2, <2>4, <2>5 DEF WellFormed, RestoresBaseline
  <2>7. ASSUME NEW n \in 1 .. Len(P.release), P.release[n].op = "rerate"
        PROVE  "rateAttempted" \in marks'
    <3>1. Marked(P, pc + 1, "rateAttempted")
      BY <2>2, <2>4, <2>7 DEF WellFormed, RestoresBaseline
    <3> QED
      BY <2>1, <2>2, <2>4, <3>1, MarkedMore DEF Marking
  <2>8. ~JustChecked(P, pc')
    BY <2>2, <2>4 DEF JustChecked, Shaped
  <2> QED
    BY <2>6, <2>7, <2>8
<1>3. CASE Exit
  <2>1. /\ phase = "release" /\ phase' = "idle" /\ UNCHANGED <<prog, marks, rate>>
        /\ exit' = "good" => ok
        /\ Later(P, pc) = {}
    BY <1>3, Formed DEF Exit, Code, P, Later, Shaped, Placed, world
  <2> QED
    BY <2>1 DEF Restoring48, Promising, SuccessRestoresRate, P
<1>4. CASE Crash
  BY <1>4 DEF Crash, Restoring48, Promising, SuccessRestoresRate
<1>5. CASE AudioEnds \/ Qualify \/ Signal \/ BusReset
           \/ (\E p \in Plugs : Foreign(p)) \/ UNCHANGED vars
  <2>1. P' = P /\ UNCHANGED <<prog, phase, pc, marks, ok, exit, rate, genOk>>
    BY <1>5, AroundStep DEF P
  <2> QED
    BY <2>1 DEF Restoring48, Promising, SuccessRestoresRate
<1> QED
  BY <1>1, <1>2, <1>3, <1>4, <1>5, DownRestoring DEF Next

-----------------------------------------------------------------------------
(* The types.                                                               *)

(* The flags stay flags.                                                    *)
LEMMA FlagsStep ==
  ASSUME TypeOK, Placed, [Next]_vars
  PROVE  {ok, genOk, stop, qualified, socket, lost}' \subseteq BOOLEAN
<1>0. /\ ok \in BOOLEAN /\ genOk \in BOOLEAN /\ stop \in BOOLEAN
      /\ qualified \in BOOLEAN /\ socket \in BOOLEAN /\ lost \in BOOLEAN
  BY DEF TypeOK
<1> SUFFICES /\ ok' \in BOOLEAN /\ genOk' \in BOOLEAN /\ stop' \in BOOLEAN
             /\ qualified' \in BOOLEAN /\ socket' \in BOOLEAN /\ lost' \in BOOLEAN
  OBVIOUS
<1> USE <1>0 DEF ids, flow, threads, world, history, GiveUp, Advance
<1>1. CASE Launch \/ Exit \/ Crash
  BY <1>1 DEF Launch, Exit, Crash
<1>2. ASSUME WayUp PROVE /\ ok' \in BOOLEAN /\ genOk' \in BOOLEAN /\ stop' \in BOOLEAN
             /\ qualified' \in BOOLEAN /\ socket' \in BOOLEAN /\ lost' \in BOOLEAN
  <2> DEFINE s == Now
  <2> HIDE DEF s
  <2>a. CASE SocketAbsent(s) \/ SocketPresent(s) \/ Open(s) \/ Claim(s)
             \/ ClaimWith(s) \/ Done(s) \/ StepFails(s) \/ RunDry(s)
    BY <2>a DEF SocketAbsent, SocketPresent, Open, Claim, ClaimWith, Done,
      StepFails, RunDry
  <2>b. CASE RateProbe(s) \/ PlugsReady(s) \/ Connect(s) \/ ConnectLost(s)
             \/ RateMatches(s) \/ Command(s) \/ CommandUnanswered(s) \/ Mark(s)
    BY <2>b DEF RateProbe, PlugsReady, Connect, ConnectLost, RateMatches,
      Command, CommandUnanswered, Mark
  <2>c. CASE StartAudio(s) \/ Watch(s) \/ StartControl(s) \/ Await(s)
             \/ Activate(s) \/ StreamEnds(s) \/ Release(s)
    BY <2>c DEF StartAudio, Watch, StartControl, Await, Activate, StreamEnds,
      Release
  <2> QED
    BY <1>2, <2>a, <2>b, <2>c DEF WayUp, s
<1>3. ASSUME WayDown PROVE /\ ok' \in BOOLEAN /\ genOk' \in BOOLEAN /\ stop' \in BOOLEAN
             /\ qualified' \in BOOLEAN /\ socket' \in BOOLEAN /\ lost' \in BOOLEAN
  <2> DEFINE s == Now
  <2> HIDE DEF s
  <2>a. CASE Halt(s) \/ Join(s) \/ Release(s) \/ StopControl(s) \/ Deactivate(s)
    BY <2>a DEF Halt, Join, Release, StopControl, Deactivate
  <2>b. CASE CheckGeneration(s) \/ Restore(s) \/ CheckRate(s)
    BY <2>b DEF CheckGeneration, Restore, CheckRate, Reachable
  <2>c. CASE Rerate(s) \/ ReadRate(s) \/ Verify(s) \/ RateBack(s) \/ Passed(s)
    BY <2>c DEF Rerate, ReadRate, Verify, RateBack, Passed
  <2> QED
    BY <1>3, <2>a, <2>b, <2>c DEF WayDown, s
<1>4. CASE AudioEnds \/ Qualify \/ Signal \/ BusReset
           \/ (\E p \in Plugs : Foreign(p)) \/ UNCHANGED vars
  BY <1>4 DEF AudioEnds, Qualify, Signal, BusReset, Foreign, vars
<1> QED
  BY <1>1, <1>2, <1>3, <1>4 DEF Next

(* The counters, the threads and the ways to end.                           *)
LEMMA CountsStep ==
  ASSUME TypeOK, Placed, [Next]_vars
  PROVE  /\ sessions' \in 0 .. MaxSessions /\ faults' \in 0 .. MaxFaults
         /\ gen' \in 0 .. MaxGen /\ myGen' \in 0 .. MaxGen
         /\ halActive' \in 0 .. MaxSessions
         /\ audio' \in {"none", "running", "good", "bad"}
         /\ exit' \in {"none", "good", "bad", "refused", "crashed"}
         /\ pc' \in Nat \ {0}
<1>0. /\ sessions \in 0 .. MaxSessions /\ faults \in 0 .. MaxFaults
      /\ gen \in 0 .. MaxGen /\ myGen \in 0 .. MaxGen
      /\ halActive \in 0 .. MaxSessions
      /\ audio \in {"none", "running", "good", "bad"}
      /\ exit \in {"none", "good", "bad", "refused", "crashed"}
      /\ MaxSessions \in Nat /\ MaxFaults \in Nat /\ MaxGen \in Nat /\ pc \in Nat \ {0}
  BY BoundsAssumption DEF TypeOK
<1>9. \A p \in DOMAIN Program : Program[p].label \in Nat \ {0}
  BY ProgramsAssumption DEF WellFormed, Shaped
<1>8. Cleanup \in Nat \ {0}
  BY <1>9 DEF Placed, Cleanup
<1> HIDE DEF Cleanup
<1> USE <1>0, <1>8 DEF ids, flow, threads, world, history, GiveUp, Advance
<1>1. CASE Launch \/ Exit \/ Crash
  BY <1>1 DEF Launch, Exit, Crash
<1>2. CASE WayUp
  <2> DEFINE s == Now
  <2> HIDE DEF s
  <2>a. CASE SocketAbsent(s) \/ SocketPresent(s) \/ Open(s) \/ Claim(s)
             \/ ClaimWith(s) \/ Done(s) \/ StepFails(s) \/ RunDry(s)
    BY <2>a DEF SocketAbsent, SocketPresent, Open, Claim, ClaimWith, Done,
      StepFails, RunDry
  <2>b. CASE RateProbe(s) \/ PlugsReady(s) \/ Connect(s) \/ ConnectLost(s)
             \/ RateMatches(s) \/ Command(s) \/ CommandUnanswered(s) \/ Mark(s)
    BY <2>b DEF RateProbe, PlugsReady, Connect, ConnectLost, RateMatches,
      Command, CommandUnanswered, Mark
  <2>c. CASE StartAudio(s) \/ Watch(s) \/ StartControl(s) \/ Await(s)
             \/ Activate(s) \/ StreamEnds(s) \/ Release(s)
    BY <2>c DEF StartAudio, Watch, StartControl, Await, Activate, StreamEnds,
      Release
  <2> QED
    BY <1>2, <2>a, <2>b, <2>c DEF WayUp, s
<1>3. CASE WayDown
  <2> DEFINE s == Now
  <2> HIDE DEF s
  <2>a. CASE Halt(s) \/ Join(s) \/ Release(s) \/ StopControl(s) \/ Deactivate(s)
    BY <2>a DEF Halt, Join, Release, StopControl, Deactivate
  <2>b. CASE CheckGeneration(s) \/ CheckRate(s)
    BY <2>b DEF CheckGeneration, CheckRate
  <2>d. CASE Restore(s)
    <3>1. lost' = lost \/ faults < MaxFaults
      BY <2>d DEF Restore, TypeOK
    <3>2. faults' \in 0 .. MaxFaults
      BY <2>d, <3>1 DEF Restore
    <3> QED
      BY <2>d, <3>2 DEF Restore
  <2>c. CASE Rerate(s) \/ ReadRate(s) \/ Verify(s) \/ RateBack(s) \/ Passed(s)
    BY <2>c DEF Rerate, ReadRate, Verify, RateBack, Passed
  <2> QED
    BY <1>3, <2>a, <2>b, <2>c, <2>d DEF WayDown, s
<1>4. CASE AudioEnds \/ Qualify \/ Signal \/ BusReset
           \/ (\E p \in Plugs : Foreign(p)) \/ UNCHANGED vars
  BY <1>4 DEF AudioEnds, Qualify, Signal, BusReset, Foreign, vars
<1> QED
  BY <1>1, <1>2, <1>3, <1>4 DEF Next

(* A plug is free, another controller's or a session's.                     *)
LEMMA PlugTypes ==
  ASSUME TypeOK, Placed, [Next]_vars
  PROVE  plug' \in [Plugs -> Other .. MaxSessions]
<1>0. /\ plug \in [Plugs -> Other .. MaxSessions] /\ sessions \in 0 .. MaxSessions
      /\ MaxSessions \in Nat
  BY BoundsAssumption DEF TypeOK
<1>1. CASE WayUp
  <2>1. PICK s : s = P.acquire[pc]
    OBVIOUS
  <2>2. plug' = plug \/ plug' = [plug EXCEPT ![s.arg] = sessions]
    BY <1>1, <2>1, UpPlug
  <2> QED
    BY <1>0, <2>2 DEF Other
<1>2. CASE WayDown
  <2>1. PICK s : s = P.release[pc]
    OBVIOUS
  <2>2. plug' = plug \/ plug' = [plug EXCEPT ![s.arg] = Free]
    BY <1>2, <2>1, DownPlug
  <2> QED
    BY <1>0, <2>2 DEF Other, Free
<1>3. CASE Launch \/ Exit \/ Crash
  BY <1>0, <1>3, LaunchStep, EndStep
<1>4. CASE AudioEnds \/ Qualify \/ Signal \/ BusReset
           \/ (\E p \in Plugs : Foreign(p)) \/ UNCHANGED vars
  BY <1>0, <1>4 DEF AudioEnds, Qualify, Signal, BusReset, Foreign, vars, world,
    Free, Other
<1> QED
  BY <1>1, <1>2, <1>3, <1>4 DEF Next

(* The rates, the resources and the flags are those that the programs name. *)
LEMMA RateNamed ==
  ASSUME Placed, WayUp, NEW s, s = P.acquire[pc]
  PROVE  /\ s.op = "rateProbe" => s.arg \in AllRates
         /\ s.op = "command" => s.arg.rate \in AllRates
         /\ s.op = "mark" => s.arg \in Flags(P)
<1>1. /\ pc \in 1 .. Len(P.acquire) /\ prog \in DOMAIN Program
  BY UpStep DEF Placed
<1>2. s.arg \in Args(P, s.op)
  BY <1>1 DEF Args
<1>3. s.op = "rateProbe" => s.arg \in Rates(P)
  BY <1>2 DEF Rates
<1>4. s.op = "command" => s.arg.rate \in Rates(P)
  BY <1>2 DEF Rates
<1>5. Rates(P) \subseteq AllRates
  BY <1>1 DEF AllRates, P
<1> QED
  BY <1>2, <1>3, <1>4, <1>5 DEF Flags

(* The rates are those that some program commands.                          *)
LEMMA RateTypes ==
  ASSUME TypeOK, Placed, [Next]_vars
  PROVE  rate' \in [Directions -> AllRates]
<1>0. rate \in [Directions -> AllRates] /\ "48000" \in AllRates
  BY DEF TypeOK, AllRates
<1>1. CASE WayUp
  <2>1. PICK s : s = P.acquire[pc]
    OBVIOUS
  <2>2. /\ pc \in 1 .. Len(P.acquire) /\ Now = s
        /\ s.op = "rateProbe" => s.arg \in AllRates
        /\ s.op = "command" => s.arg.rate \in AllRates
    BY <1>1, <2>1, UpStep, RateNamed DEF Now, Code, P
  <2>3. CASE RateProbe(s)
    BY <1>0, <2>2, <2>3 DEF RateProbe, Recommanded
  <2>4. CASE ~RateProbe(s)
    <3>1. s.op # "rateProbe"
      BY <1>1, <2>2, <2>4 DEF WayUp, SocketAbsent, SocketPresent, Open, Claim,
        ClaimWith, Done, StepFails, RunDry, PlugsReady, Connect, ConnectLost,
        RateMatches, Command, CommandUnanswered, Mark, StartAudio, Watch,
        StartControl, Await, Activate, StreamEnds, Release
    <3> QED
      BY <1>0, <1>1, <2>1, <2>2, <3>1, UpRate
  <2> QED
    BY <2>3, <2>4
<1>2. CASE WayDown
  <2>1. PICK s : s = P.release[pc] /\ Now = s
    BY <1>2 DEF WayDown, Now, Code, P
  <2>2. CASE Rerate(s)
    BY <1>0, <2>2 DEF Rerate
  <2>3. CASE RateBack(s)
    BY <1>0, <2>3 DEF RateBack, Recommanded
  <2>4. CASE ~Rerate(s) /\ ~RateBack(s)
    BY <1>0, <1>2, <2>1, <2>4 DEF WayDown, Halt, Join, Release, StopControl,
      Deactivate, CheckGeneration, Restore, CheckRate, ReadRate, Verify, Passed,
      world
  <2> QED
    BY <2>2, <2>3, <2>4
<1>3. CASE Launch \/ Exit \/ Crash
  BY <1>0, <1>3, LaunchStep, EndStep
<1>4. CASE AudioEnds \/ Qualify \/ Signal \/ BusReset
           \/ (\E p \in Plugs : Foreign(p)) \/ UNCHANGED vars
  BY <1>0, <1>4, AroundStep
<1> QED
  BY <1>1, <1>2, <1>3, <1>4 DEF Next

(* A program holds what it claims and sets the flags it names.              *)
LEMMA NamesStep ==
  ASSUME TypeOK, Placed, [Next]_vars
  PROVE  held' \subseteq Claimable(P)' /\ marks' \subseteq Flags(P)'
<1>0. /\ held \subseteq Claimable(P) /\ marks \subseteq Flags(P)
      /\ \A Q : {"dryRun", "rerated"} \subseteq Flags(Q)
  BY DEF TypeOK, Flags, P
<1>1. CASE WayUp
  <2>1. PICK s : s = P.acquire[pc]
    OBVIOUS
  <2>2. /\ pc \in 1 .. Len(P.acquire)
        /\ GoesOn(s) \/ GivesUp \/ Refused(s)
        /\ P' = P
    BY <1>1, <2>1, UpStep DEF P
  <2>3. s.op = "mark" => s.arg \in Flags(P)
    BY <1>1, <2>1, RateNamed
  <2>6. ASSUME NEW r \in Claims(s) PROVE r \in Claimable(P)
    BY <2>1, <2>2, <2>6, ResourceOf
  <2>4. held' \subseteq held \cup Claims(s)
    BY <2>2 DEF GoesOn, GivesUp, Refused
  <2>5. marks' = marks \/ marks' = marks \cup IF s.op = "mark" THEN {s.arg} ELSE {}
    BY <2>2 DEF GoesOn, GivesUp, Refused
  <2> QED
    BY <1>0, <2>2, <2>3, <2>4, <2>5, <2>6
<1>2. CASE WayDown
  <2>1. PICK s : s = P.release[pc]
    OBVIOUS
  <2>2. held' \subseteq held /\ marks' \subseteq marks \cup {"rerated"} /\ P' = P
    BY <1>2, <2>1, DownStep DEF P
  <2> QED
    BY <1>0, <2>2
<1>3. CASE Launch
  BY <1>0, <1>3, LaunchStep
<1>4. CASE Exit \/ Crash
  <2>1. held' \subseteq held /\ marks' = marks /\ P' = P
    BY <1>4, EndStep DEF P
  <2> QED
    BY <1>0, <2>1
<1>5. CASE AudioEnds \/ Qualify \/ Signal \/ BusReset
           \/ (\E p \in Plugs : Foreign(p)) \/ UNCHANGED vars
  BY <1>0, <1>5, AroundStep DEF P
<1> QED
  BY <1>1, <1>2, <1>3, <1>4, <1>5 DEF Next

-----------------------------------------------------------------------------
(* The theorems.                                                            *)

(* Every step keeps the types.                                              *)
LEMMA TypeStep ==
  ASSUME TypeOK, Placed, [Next]_vars
  PROVE  TypeOK'
<1>1. Placed'
  BY PlacedStep DEF TypeOK
<1>2. prog' \in DOMAIN Program /\ phase' \in {"idle", "acquire", "release"}
  BY <1>1 DEF Placed
<1> QED
  BY <1>2, NamesStep, FlagsStep, CountsStep, PlugTypes, RateTypes DEF TypeOK, P

IInv ==
  /\ TypeOK /\ Placed /\ Holding /\ Marking /\ Asking /\ Rated /\ Telling
  /\ Plugged /\ Restoring48

(* The invariant holds initially: the types and the place ...               *)
LEMMA InitPlaced ==
  ASSUME Init
  PROVE  TypeOK /\ Placed
<1>0. /\ MaxGen \in Nat /\ MaxSessions \in Nat /\ MaxFaults \in Nat
      /\ DOMAIN Program # {}
  BY BoundsAssumption, ProgramsAssumption
<1>1. prog \in DOMAIN Program
  BY <1>0 DEF Init
<1>2. /\ gen \in 0 .. MaxGen /\ myGen \in 0 .. MaxGen
      /\ halActive \in 0 .. MaxSessions
      /\ sessions \in 0 .. MaxSessions /\ faults \in 0 .. MaxFaults
  BY <1>0 DEF Init
<1>3. plug \in [Plugs -> Other .. MaxSessions]
  BY <1>0 DEF Init, Free, Other
<1>4. rate \in [Directions -> AllRates]
  <2>1. PICK r \in InitialRates : rate = [d \in Directions |-> r]
    BY DEF Init
  <2>2. r \in AllRates
    BY DEF AllRates
  <2> QED
    BY <2>1, <2>2
<1>5. {ok, genOk, stop, qualified, socket, lost} \subseteq BOOLEAN
  BY DEF Init
<1>6. /\ phase = "idle" /\ held = {} /\ marks = {} /\ pc = 1
      /\ audio = "none" /\ exit = "none"
  BY DEF Init
<1> QED
  BY <1>1, <1>2, <1>3, <1>4, <1>5, <1>6 DEF TypeOK, Placed

(* ... and the rest, since nothing runs.                                    *)
LEMMA InitRest ==
  ASSUME Init
  PROVE  /\ Holding /\ Marking /\ Asking /\ Rated /\ Telling /\ Plugged
         /\ Restoring48
<1>1. /\ phase = "idle" /\ held = {} /\ marks = {} /\ audio = "none"
      /\ exit = "none" /\ gen = 0 /\ myGen = 0 /\ sessions = 0 /\ halActive = 0
      /\ plug \in [Plugs -> {Free, Other}]
  BY DEF Init
<1>2. Using = {}
  BY <1>1 DEF Using
<1>3. Holding /\ Marking /\ Asking /\ Rated /\ Telling
  BY <1>1, <1>2 DEF Holding, Marking, Asking, Rated, Telling, Supported
<1>4. Plugged
  BY <1>1 DEF Plugged, NoPlugLeftConnected, Free, Other
<1>5. Restoring48
  BY <1>1 DEF Restoring48, Promising, SuccessRestoresRate
<1> QED
  BY <1>3, <1>4, <1>5

(* The inductive invariant holds in every state.                            *)
LEMMA Invariance ==
  Init /\ [][Next]_vars => []IInv
<1>1. Init => IInv
  BY InitPlaced, InitRest DEF IInv
<1>2. IInv /\ [Next]_vars => IInv'
  <2> SUFFICES ASSUME IInv, [Next]_vars PROVE IInv'
    OBVIOUS
  <2>1. sessions \in Nat /\ rate \in [Directions -> AllRates]
    BY DEF IInv, TypeOK
  <2> QED
    BY <2>1, TypeStep, PlacedStep, HoldingStep, MarkingStep, AskingStep,
      RatedStep, TellingStep, PluggedStep, RestoringStep DEF IInv
<1> QED
  BY <1>1, <1>2, PTL

(* Every variable keeps its type, for any set of well-formed programs, any  *)
(* number of sessions run one after another, resets and faults.             *)
THEOREM TypeCorrect == Spec => []TypeOK
<1>1. IInv => TypeOK
  BY DEF IInv
<1> QED
  BY <1>1, Invariance, PTL DEF Spec

(* However a program ends, it holds nothing then and its audio thread has   *)
(* been joined; unless the bus was reset under it or an answer of the       *)
(* device was lost, no plug is left connected by it: every goto of every    *)
(* program leads to release code that covers what may be held.              *)
THEOREM CleanExitAlways == Spec => []CleanExit
<1>1. IInv => CleanExit
  <2> SUFFICES ASSUME Holding, Plugged PROVE CleanExit
    BY DEF IInv
  <2>1. EverythingReleased
    BY DEF Holding, Using, EverythingReleased
  <2> QED
    BY <2>1 DEF CleanExit, Plugged
<1> QED
  BY <1>1, Invariance, PTL DEF Spec

(* At every step of every way up and every release: no channel without its  *)
(* plug and bandwidth, no audio thread without the rings, and the HAL is    *)
(* told of a running transport only over two running channels at the rate   *)
(* the program commanded.                                                   *)
THEOREM NothingOutlivesItsSupportAlways == Spec => []NothingOutlivesItsSupport
<1>1. IInv => NothingOutlivesItsSupport
  <2> SUFFICES ASSUME Placed, Holding, Rated, Telling
               PROVE  NothingOutlivesItsSupport
    BY DEF IInv
  <2>1. \A d \in Supports : d[1] \in Using => d[2] \in Using
    BY DEF Holding, Supported
  <2>2. /\ "playback" \in Using => "ipcr" \in Using
        /\ "ipcr" \in Using => "playbackBandwidth" \in Using
        /\ "opcr" \in Using => "captureBandwidth" \in Using
        /\ "audio" \in Using => "rings" \in Using
        /\ "active" \in Using => "playback" \in Using /\ "capture" \in Using
    BY <2>1 DEF Supports
  <2>3. \A r : r # "audio" => (r \in Using <=> r \in held)
    BY DEF Using
  <2>4. audio = "running" <=> "audio" \in Using
    BY DEF Using, Placed
  <2>5. StreamsAreConnected /\ AudioThreadHasRings
    BY <2>2, <2>3, <2>4 DEF StreamsAreConnected, AudioThreadHasRings
  <2>6. ActiveMeansStreaming
    BY <2>2, <2>3 DEF ActiveMeansStreaming, Rated, Telling
  <2> QED
    BY <2>5, <2>6 DEF NothingOutlivesItsSupport
<1> QED
  BY <1>1, Invariance, PTL DEF Spec

(* A program that commands a rate and restores the baseline exits with 0    *)
(* only when the device is back at 48 kHz on both plugs.                    *)
THEOREM SuccessRestoresRateAlways == Spec => []SuccessRestoresRate
<1>1. IInv => SuccessRestoresRate
  BY DEF IInv, Restoring48
<1> QED
  BY <1>1, Invariance, PTL DEF Spec

(* No program commands a rate, on its way up or in its release, without the *)
(* dispatcher and the response space through which the answer comes.        *)
THEOREM CommandsCanBeAnsweredAlways == Spec => []CommandsCanBeAnswered
<1>1. IInv => CommandsCanBeAnswered
  <2> SUFFICES ASSUME Placed, Holding, Asking PROVE CommandsCanBeAnswered
    BY DEF IInv
  <2> SUFFICES ASSUME At("command") \/ (At("rerate") /\ Rerating)
               PROVE  AnswerPath \subseteq held
    BY DEF CommandsCanBeAnswered, AnswerPath
  <2>0. WellFormed(P) /\ Shaped(P)
    BY Formed
  <2>1. CASE phase = "acquire"
    <3>1. pc \in 1 .. Len(P.acquire) /\ P.acquire[pc].op \in {"command", "rerate"}
      BY <2>1 DEF At, Now, Code, P, Placed
    <3>2. P.acquire[pc].op = "command"
      BY <2>0, <3>1 DEF WellFormed, Separate
    <3>3. AnswerPath \subseteq MustHold(P, pc)
      BY <2>0, <3>1, <3>2 DEF WellFormed, ClaimsInOrder
    <3> QED
      BY <2>1, <3>3 DEF Holding
  <2>2. CASE phase = "release"
    <3>1. pc \in 1 .. Len(P.release) /\ P.release[pc].op \in {"command", "rerate"}
      BY <2>0, <2>2 DEF At, Now, Code, P, Placed, Shaped
    <3>2. P.release[pc].op = "rerate" /\ Rerating
      BY <2>0, <2>2, <3>1 DEF WellFormed, Separate, At, Now, Code, P
    <3>3. CanAsk(P, pc, held)
      BY <2>2, <3>2 DEF Asking, Rerating
    <3>4. pc \in Later(P, pc)
      BY <2>0, <3>1, LaterNext
    <3> QED
      BY <3>2, <3>3, <3>4 DEF CanAsk
  <2> QED
    BY <2>1, <2>2 DEF At, Placed
<1> QED
  BY <1>1, Invariance, PTL DEF Spec

(* No step of a program connects or frees a plug that another controller    *)
(* holds: a plug the program holds is its own as long as the generation     *)
(* lasts.                                                                   *)
THEOREM OthersPlugsUntouchedAlways == Spec => OthersPlugsUntouched
<1>1. IInv /\ [Next]_vars =>
        [\A p \in Plugs : plug[p] = Other /\ plug'[p] # Other => UNCHANGED flow]_vars
  BY OthersStep DEF IInv
<1> QED
  BY <1>1, Invariance, PTL DEF Spec, OthersPlugsUntouched
=============================================================================
