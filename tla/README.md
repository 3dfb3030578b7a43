# A verification project for macfw

macfw is a user-space FireWire audio driver for macOS. It drives two M-Audio
interfaces, the FireWire 1814 (`devices/fw1814`) and the FireWire 410
(`devices/fw410`). This directory holds TLA+ modules that model the driver's
control and its concurrency, TLC configurations that check them on small
instances, and proofs that TLAPS checks for all values of the constants.
`PROJECT.json` lists the parts, runs, mutants, theorems and hazards, and says for
every definition which source lines it models.

Paths below are relative to `src/devices/fw1814/` unless they start with `fw410/`.

## 1. The system

    CoreAudio client
        | StartIO / StopIO / WriteMix / ReadInput / set sample rate
    HAL plug-in in coreaudiod         hal/src/FW1814HAL.cpp
        | playback ring (shm)         hal/include/macfw_fw1814_hal_shm.h
        | capture ring (shm)          hal/include/macfw_fw1814_capture_shm.h
    transport engine of one rate      transport/analog{44,48,88,96,176,192}_main.cpp
        | PCM FIFO, packet stream     transport/pcm_stream48.h, blocking_pcm_tx*.h
        | duplex lifecycle, CMP       transport/duplex_lifecycle.h, fw410/lib/src/cmp.cpp
        | FCP / AV/C                  fcp_control.h
    FW1814 on the bus
    supervisor (launchd job)          transport/supervisor_main.cpp
        | starts init / boot / reset / restore helpers and one engine at a time
        | reads the wanted rate from the playback ring
    fw1814ctl, fw1814state, panel     a Unix socket served by the engine
                                      transport/fw1814_control_server.h

The FireWire 410 has the same shape with ancestors of the same code: two engines
(`fw410/tools/transport/halbridge{44100,48000}`), a supervisor
(`fw410/tools/transport/haltransport`) that publishes a status the HAL's I/O path
reads, a control server with a cached mixer, and helpers of its own (`rateprobe`).
Beside the drivers stand some thirty tools that stream for a few seconds to
measure something; they claim the same unit, plugs and channels as the engines do.

### Inventory

| Component | State it keeps | Operations | What is hard | What makes it correct |
|---|---|---|---|---|
| Playback ring | `writeFrame`, `readFrame`, `sampleRate`, `active`, samples; survives every process | HAL: admit, write, configuration change. Engine: open, discard, go online, read, stop | three writers of `readFrame`, two of `active`; crash of either side; unsigned differences | never wraps or races; frames intact, in order, once, none from before a discard; no frame of another rate |
| Capture ring | as above plus `halReadCalls` | engine: initialise, write, activate. HAL: discard, trim, suspend, read | both sides move `readFrame` and store `active`; initialised under a reader; queue length taken for age | no race; no other rate; nothing stale; capture comes back |
| Packet stream | timer sample, rebuilt cycle count, next packet, guard | prime, service, refill, stop | hardware that never waits; timer that wraps; slots that are reused | count exact; late threads stop |
| Supervisor | wanted rate, recovery owed, enumeration pending, engine child | select, init, boot, recover, launch, watch, hand off, stop | everything it starts can fail, at any time; the rate moves under it | engine only on a device initialised for it; recoveries done, and done once; always comes up, always stops |
| Streaming programs: engines, probes, tools | claims (device, dispatchers, bandwidth, channels, plugs, threads, socket), flags, exit status | open, claim, connect, stream, release | a way up of some thirty steps with a release for every prefix, written out anew in every program | holds nothing at the end; plugs and rate left as promised; users go before what they use |
| Duplex lifecycle, CMP | plug registers, channels, bus generation | prepare, connect, start, stop, restore | bus reset between any two steps; another controller on the bus; an answer lost after the write | never breaks another's connection; undoes exactly what it did |
| FCP / AV/C | command, mask, one response; the device's queue | transaction, response handler, retries | answers carry no number: late, lost and INTERIM answers are matched by content | an answer means what it says; PASS means the rates; every call returns |
| Control server, mixer | copy of write-only registers, one client, restore gate, knob | accept, dispatch, write, answer, publish readiness | the copy after a failed write; one client blocks all; a gate that only the replay opens | copy equals registers; acknowledged settings stand; the gate opens |
| fw1814ctl, fw1814state | settings file | set, record, reset, clear, restore | a helper per setting, no lock; the replay against users | the saved state is the one in effect |
| FW410 transport supervisor | child, READY pipe, back-off, published status | the poll loop with its blocking helpers | blocking steps between sampling and use; child, pipe and rate change in any order | one engine; ONLINE is earned; converges, stops |
| FW410 engines and rateprobe | the unit's two signal formats, who holds the unit | check the rate, set it, stream, put it back | rateprobe is a process of its own that can outlive its parent | what streams, streams at its rate |
| FW410 mixer cache | cached routes, initialised flag | initialise, route, headphone | write-only cells; lost answers | cache equals hardware |
| Capture pump | expected DBC, 32-packet chunk | service, reorder, decode | completion order, wrapped DBC, gaps | in order, once, gaps counted |
| Isochronous callback thread | run loop, flags under a mutex | prepare, startPumping, stop | the loop's lifetime against `stop` | no use after release, stop ends |
| Init, boot, firmware and bus reset tools | none | one shot | guards against the wrong personality | refuse the wrong device |
| HAL properties, control panels, installers, DriverKit trial, common tools, packaging | views, wording, files | | | |

The hazards of this code, each at its line, are under `hazards` in `PROJECT.json`,
with the property that covers each or the reason why none does; the status of each
component is under `components`.

## 2. Modules

| Module | Models | Composes |
|---|---|---|
| `PlaybackRing` | playback ring, HAL output, life of an engine as far as the ring sees it | refines `LossyFifo` |
| `LossyFifo` | what a client may assume of the output: an in-order, at-most-once stream that may lose frames | |
| `CaptureRing` | capture ring, HAL input, engine's writer and activation | |
| `RollingTx` | the packet stream against the controller | |
| `Supervisor` | FW1814 supervisor, its engine child, the device, launchd, the HAL's wish | |
| `SessionSteps` | the steps a streaming program is made of, as data | |
| `SessionForm` | when the text of such a program is well formed | `SessionSteps` |
| `Engines1814`, `Probes1814`, `Programs410` | which steps each program takes, in its order | `SessionSteps` |
| `DuplexSession` | what each step does, with its failures; the bus, the plugs, other controllers | interprets the programs; `SessionForm` |
| `FcpRoutines` | which commands each AV/C routine sends and what their failure means, as data | |
| `FcpLink` | one transaction after another against a device that answers late, or not | `FcpRoutines` |
| `FcpCalls` | the programs that run the routines; the FW410's mixer cache | `FcpLink` |
| `ControlCommands` | the control surface: which handler writes which word, what fw1814ctl asks for, what is stored | |
| `ControlServer` | the socket, the copy of the registers, the gate, the knob | `ControlCommands` |
| `ControlState` | fw1814ctl, fw1814state and the supervisor around the server; the state file | `ControlServer` |
| `Bridge410` | FW410 engines and rateprobes as processes that contend for the unit | |
| `HalTransport` | FW410 supervisor and its published status | `Bridge410` |
| `PlaybackRingProofs`, `CaptureRingProofs`, `RollingTxProofs`, `SupervisorProofs`, `SessionProofs`, `FcpCallsProofs`, `ControlStateProofs`, `HalTransportProofs` | theorems, about the module each is named for | that module |
| `MCPlayback`, `MCCapture`, `MCRolling`, `MCSupervisor`, `MCSession`, `MCFcp`, `MCControl`, `MCTransport410` | what TLC runs | |

The modules meet at the engine. `PlaybackRing`, `CaptureRing` and `RollingTx` show its
data path, with the same events (launch, open, start, stop, crash); `DuplexSession`
what it claims on the host and the bus, `FcpCalls` what it says to the device,
`ControlServer` what it does for clients; `Supervisor` and `HalTransport` show it as a
child process with an exit status. They are not composed into one state space,
which TLC could not enumerate; where one relies on another, it takes the other's
whole operation as one step with the outcomes the other module shows it to have
(an FCP command in `DuplexSession` may be done and unanswered; a session in
`Bridge410` may fail at any step and ends with the unit closed).

### PlaybackRing

Each process has a program counter: `ioPc` (the HAL's IO thread in
`DoIOOperation` and `write()`), `cfgPc` (`PerformDeviceConfigurationChange`) and
`engPc` (engine). Each store to an atomic word is a step; so is each copied frame,
because that is where a race would show. A frame is its stream position and the
rate it was rendered at. History variables are `sent` (rates of published frames),
`taken` (last frame the engine got), `mark` (the last discard) and `late` (an engine
has gone online for a rate that the HAL had given up).

`Prearming` and `Rearming` are the rates whose engines discard again before or
after going online (176.4 and 192 kHz). The HAL may change the rate only with no
client in IO: that is CoreAudio's contract for a requested configuration change,
and the code relies on it. `HalRestart` (coreaudiod relaunched, ring kept) may
happen anywhere but inside one copy or discard of the engine: launching a process
takes longer. `sampleRate` of the ring is the only thing the supervisor reads here.

### CaptureRing

Words are modulo `Word`, as 64-bit counters are modulo 2^64, because the question is
what an unsigned difference does when `readFrame` is ahead of `writeFrame`. That
happens: `initialize()` zeroes `writeFrame` and then `readFrame` while a HAL
callback may be about to store its own `readFrame`. `LaunchEngine` starts only while
`writeFrame` is far from the end of the small word, so that a stale index is ahead,
as with a real 64-bit word, and not by accident just behind. A slot carries its age
in decoded frames (capped at `MaxAge`) and its rate. `Trimming`, `Flushing` and
`Qualifying` are the rates with a 48 kHz trim, a flush before activation (96 kHz) and
a qualification. `HalStalls`, `InitOverlaps` and `HalMayRestart` choose, per run, which
disturbances are on.

`StartCapture` waits until a callback that overlapped `initialize()` has
ended: between them lie seconds of FCP, CMP and ISO start-up. `CaptureAssumption` keeps
the proportions of the code: a queue at the threshold and a packet fit in the ring
(threshold 4096, packets of at most 32 frames, ring of 32768).

### RollingTx

Time is in bus cycles. `Tick` is the bus: the controller sends one packet and reads
the slot `Fetch` cycles ahead of it. Software reads the timer (`Observe`), and only
then decides. `MaxGap` bounds the cycles between two reads of the timer, `MaxRefill`
those from a read to the end of its refill. `rolling` selects the mode. A packet is
its number: `holds[s]` is the packet slot `s` was last filled for. The code can only
judge lateness by the guard, so `missed` does too: a packet was not in its slot when it
was `Due`, that is, when a refill the guard had let begin would at the latest have
written it. Nothing ties `Fetch` to `Guard`: the shipped guard is 48 packets, and
`single-speed-low-latency-handover.md:56-66` reports read-aheads of 64 to 96, so the
module has to say what holds there too.

### Supervisor

`supPc` follows `main()` and `runEngine()`; a one-shot helper is one step, which
passes when the device is in the state it needs and no fault strikes, and fails
otherwise. `Fault` is taken from a budget, `MaxFaults`; rate changes from `MaxChanges`.
`configured` is the rate the device was last initialised for, "none" after a
reset or boot that the supervisor itself asked for, "lost" after one it cannot
know of. `since` is what has followed the last engine failure, which is what the
properties on recovery speak of.

`left` is what an engine leaves that died without its cleanup, or that could not restore a
plug: the file of its control socket and the unit's connected plugs. The engines of 88.2 kHz and
above (`High`) refuse to run beside the file, which only the control server of a later engine
unlinks; `prepare()` and the firmware reboot refuse connected plugs, which a bus reset or
an unplugging frees. An engine asks to be tried again (exit status 2) before READY at
44.1 kHz, where a start schedule can be missed, and before or after READY at a quad rate, until
its capture is "qualified"; `QualificationExit` relaunches it without a recovery.

Left out: back-off delays (the interleaving
includes every delay), the check that an engine's binary exists (533), and logs.
Signals are polled where the code polls them.

### DuplexSession and its programs

Thirty-six programs of the repository stream: six FW1814 engines, sixteen probes, and
fourteen engines and tools of the FW410. Each has its own `run()`, which claims resources
one by one and releases them by hand behind `goto cleanup` labels, in its own order
and under its own flags. What a step does is the same library code for all; which
steps, in which order, and what failure jumps over, is each program's own.

So a program is a record of data: `acquire`, the steps of its way up; `release`, those
of its release code; where a failure before the inner block goes; and whether it
handles SIGTERM. `SessionSteps` names the steps, the three program modules spell out the
programs in the order of their sources, and `DuplexSession` has one action per kind of
step. Any step that can fail may do so, which sends the program to the first step of
its release. A release step is conditional exactly where the source tests a flag,
and unconditional where it does not. Between any two steps the bus may be reset
(connections dropped or kept), another controller may connect a free plug or let go
of it, the program may be signalled or crash. `Connect` is cmp's compare-and-swap against
the value read; `ConnectLost` is the swap that was done and whose answer was lost,
which the code cannot see (`lost` records it, and `NoPlugLeftConnected` excuses it).
Accesses carry the generation that the program began in. `halActive` is the `active`
word: 0, or the number of the session that set it, because a word that a program
left set when it died is not the claim of the next program.

`SessionForm` says what an auditor of one of these `run()` functions would look for: that
every step comes where what it needs is held, that every `goto` enters the release
code at a point from which all that may be held is given back, users before what
they run on, that the baseline is commanded while FCP still answers, and after a look
at the generation. `ProgramsAssumption` is that every program has this form. TLC evaluates
it on all thirty-six; the theorems need nothing else of a program.

Assumed: IOKit calls return. `capturebridge48000` alone has a loop that never looks at the
bus (`ignoresResets`); `StopOrResetEnds` excludes it by name.

### FcpLink, FcpRoutines, FcpCalls

The device takes commands in order, executes them, and answers each at most once,
after an INTERIM if it wants; answers wait in `wire` for the run loop, however late. A
transaction ends when `responseHandler` takes an answer, or after its deadline. The
repository has two dialects. FcpControl of the FW1814 engines ("masked") takes only an
answer that repeats the command's bytes; fw1814init, rateprobe and the FW410 server
("first") take the next answer, whatever it answers. A routine (`kick`, `restore`, `init`,
`rate`, `headphone`, `route`, ...) is a sequence of steps, each one command and what follows
from its failure (`must`, retry, tolerate, remember). Registers are the two signal
formats, the clock and selector, and two of the 35 mixer cells. Three history variables
say where an answer can mislead: `clean`, that when the command waited on was sent
nothing was outstanding that could be taken for its answer and be untrue (where answers
are compared, nothing for the same register with another value; where they are not,
nothing at all); `disputed`, the registers whose last command of the running routine
was sent otherwise; and `suspect`, that since the last full preset a route write failed
or was sent otherwise.

Reductions: a deadline passes only when no answer waits (a program cannot tell an answer
the device has sent late from one delayed on its way, so the device's part is left for
after the deadline); `EditModel`, a change of the mixer model without a write, happens only
to an initialised mixer, since an edit of another is lost to the next preset. After an
INTERIM at 44.1 kHz the FW410's reassertion takes the deferred final answer of one plug
for that of the next, and the engine stops: that is the code's behaviour, and the
model's.

### ControlCommands, ControlServer, ControlState

A word of the mixer has two cells (two routes, two outputs, or left and right);
values are coded so that 0 is what the preset loads. A handler is the word it
writes, whether it writes only differences, and whether a value needs the AUX bus,
which quad rates do not have. `ControlServer` accepts one connection at a time (the
others queue in the socket), and answers when the client has sent. A write may fail
with the register written or not; the copy (`cache`) changes only on success, as in
`writeRegister`, and `doubt` records a write that was answered as failed and done.
`restoring` is the gate: until `internal-ready` only RESTORE requests are served.

`ControlState` adds the programs: fw1814ctl sends one request and on success starts
`fw1814state record`, which loads the file, changes entries and rewrites it truncated, each
a step; the server does the same for the headphone knob; users run `clear` and `reset`;
the supervisor replays the file into every new engine and then opens the gate. Users,
helpers and engines may be killed at any step. `Excuse` records that two helpers or a
reset and a replay overlapped: `SavedIsInEffect` speaks of behaviours without that, and
the run `control_settings_lost` of those with it.

Each behaviour exercises one set of keys from `InPlay`. That is a reduction by
symmetry: words do not interact, but for the two that share `GAIN_ANA_IN` and the gain the knob
turns, and those are in play together or on their own.

Not modelled here: the performance profile, GET queries and meters, different levels
for left and right in one request, the choice of the rotary pair, and a supervisor
that dies in the middle of a replay (`Supervisor` has its death).

### Bridge410, HalTransport

An FW410 engine is a process that goes through `entry` (rateprobe first asks or sets
the rate, before any signal handler is installed), `setup`, `arming`, the 44.1 kHz start
lead and its reassertion of the rate, READY, streaming, clean-up and, for a failed
44.1 kHz engine, `putback` to 48 kHz. A rateprobe is a process of its own, which opens
the unit exclusively, reads both plugs, sets them, and reads them again. Everyone may
fail, crash or be caught by a bus reset or an unplugging; a SIGTERM that strikes an
entry leaves its rateprobe without a parent (`Orphaned`). `plugs` are the unit's two
connection registers: "held" by the engine that connected them, "left" connected by one that
crashed or whose restoring write was lost (`CleanUp` ignores its result, as the code does). An
engine that finds them connected refuses (`CanArm`); only a bus reset or an unplugging frees
them. `strayed` records that such
a probe has set a rate since the last check, which `RateInForce` excuses.

`HalTransport` follows `main()` of haltransport place by place: rate change and `stopBridge`,
`pollReady` with the replay of the controls, reaping, guarded boot, start, publication.
What blocks is a place of its own. The retry delays are one timer that runs out
"some time later"; "over" is a timer that has run out but that `now`, sampled at the
top of the loop, does not show yet. launchd kills the group of a dead supervisor and
starts it again. The HAL offers 44.1 and 48 kHz only, and its audio path is open
while the status is ONLINE (`fw410/hal/src/FW410HALInstrumented.cpp:70-78`). The status
keeps its value while `stopBridge` blocks, as in the code; the heartbeat is not modelled,
because the HAL does not read it.

## 3. Runs

The bounds are the constants of the `.cfg` files; the counts are distinct states.

| Run | States | Bounds | Shows |
|---|---|---|---|
| `playback` | 2.8 M | ring of 2, 4 frames, 2 rates, 2 clients | the ring's safety and its refinement of `LossyFifo` |
| `capture` | 0.8 M | ring of 4, word of 12, packets of 2 | no frames of another rate, none stale where flushed |
| `capture_live` | 0.4 M | same, packets of 1, stalls, overlaps, restarts | no race; reads resume |
| `rolling` | 18 k | second of 13, ring of 12, 48 cycles, read-ahead above the guard | the clock; what the guard promises whatever the read-ahead |
| `supervisor` | 0.2 M | 4 rates (44.1, single, double, quad), 2 faults, 2 rate changes | safety, convergence, stopping |
| `session` | 0.49 M | every program from both rates, 1 bus reset, 1 fault | what each program leaves behind, from each step it can fail in |
| `fcp` | 1.34 M | 2 lost, late or failed exchanges, 2 routines | answers, PASS, mixer cache, termination |
| `control` | 0.43 M | 2 users, the knob, 2 commands, 2 engines, 1 fault | copy, settings, gate |
| `transport410` | 0.22 M | 2 engines, 3 probes, 1 fault, 1 rate change | one engine, status, rate, convergence, stopping |
| `supervisor_routine_reset` | violation | as `supervisor` | a rate change that costs a reset |
| `fcp_mixer_cache` | violation | 1 fault | a route answered OK that is not in effect |
| `control_settings_lost` | violation | 2 users, no fault | an acknowledged setting that the file forgets |

### What the properties say

- `playback`: HAL and engine never copy at the same slot (`NoSlotRace`); no frame from
  before a discard is delivered (`FreshAfterDiscard`); frames of another rate reach an
  engine only after an engine undid the HAL's clear of `active` (`HandoffIsolation`);
  in order, at most once, intact (`FifoSpec`, the abstract specification).
- `capture`, `capture_live`: `NoForeignCapture`, `FreshWhenFlushing`, `NoSlotRace`, and that
  from the time a client and an engine of one rate are there, reads resume
  (`ReadsResume`).
- `rolling`, with a read-ahead above the guard: the rebuilt cycle count is the true one
  (`ClockFollows`); in both modes no slot is refilled before its packet has left
  (`NotAhead`); a rolling refill writes each packet at least `Guard - MaxRefill` cycles before it
  is sent (`RefillDeadline`), so that a controller repeats at most what it reads in the
  `Fetch - Guard + MaxRefill` cycles before; and an engine that did not have a packet in its
  slot when the guard wanted it there stops at its next service (`LatenessStops`). None of
  them says that nothing was repeated: with such a read-ahead packets that are on time for
  the guard are repeated too, and nothing in the code can notice (divergence 8). A controller
  that reads less than `Guard - MaxRefill` ahead repeats nothing: that is `NoUnsafeReuse`, which
  follows from `RefillDeadline` (section 4).
- `supervisor`: `NoOrphan`, `FreshInit` (an engine starts only after an init for its rate),
  `RecoveryDone` and `RecoveryOwed` (every recovery owed is done, none that is not owed; an
  engine that asks to be tried again, before READY or after it, owes none), `StopCompletes`,
  and `Converges`: once the disturbances end, the engine of the requested rate is up for good,
  unless what a dead engine left stands in the way of that rate (`Blocked`: a socket file at a high
  rate, connected plugs at a quad rate). `MC_Recovers.cfg` shows the first case (divergence 10).
- `session`: a program that has ended holds nothing, and has left no plug connected
  unless the bus was reset or an answer was lost (`CleanExit`); nothing outlives what it
  runs on, neither a stream its connection, nor the audio thread its rings, nor
  `active` its channels (`NothingOutlivesItsSupport`); a program that promises to restore
  48 kHz and reports success has (`SuccessRestoresRate`); rate commands are sent only
  while an answer can be received (`CommandsCanBeAnswered`); nobody's connection but
  one's own is broken (`OthersPlugsUntouched`); a stop or bus reset ends it
  (`StopOrResetEnds`).
- `fcp`: `CacheIsHardware` holds as long as no route write was left in doubt; `AnswersAreTrue`
  says when an accepted answer reports what the device did; `PassMeansRates` that a PASS
  of fw1814init, rateprobe or an engine's restore means the rates it names, unless the
  last command for one was disputed; `CallsReturn`. Without that proviso both are false:
  when calls for 44.1, 96 and again 44.1 kHz follow each other and the answers to the
  first two are late, the third takes the first's answer for its own, although the device
  has yet to execute the second.
- `control`: `CopyIsHardware` (unless in doubt); no source is the AUX bus at a quad rate
  (`NoAuxAtQuadRate`); an acknowledged setting stays until another replaces it
  (`SettingsStand`); with nothing under way what is saved is in effect
  (`SavedIsInEffect`); the gate opens (`GateOpens`).
- `transport410`: `OneEngine`, `OnlineIsEarned` (ONLINE only for an engine that has reported
  READY, at the published rate, after the replay), `RateInForce` (an engine that streams
  finds both directions of the unit at its rate), `StopCompletes`, and `Converges`, unless an
  engine has left the unit's plugs connected (divergence 11).

**Why the bounds are enough.** In `playback` the writer goes around the two-slot ring
twice, and a full, an empty and a half-full ring all meet every other event; a third
slot adds only rings that are neither. Positions end at `MaxFrames` and the proofs
remove that bound. In the capture runs a ring of four with a threshold of
two has all four regimes the code distinguishes (below the prefill, live, stale,
full), and a word of three rings wraps several times; the theorems hold for every size
of ring, word, packet and callback that `CaptureAssumption` admits. In `rolling`, 13 is no multiple
of 12, as 8000 is none of 640: 48 cycles see the timer wrap at least three times,
at different slots; the theorems remove every bound but the one on the time between two
reads of the timer. In `supervisor`, two disturbances are what it takes for one to strike the
handling of another; four rates cover every test of a rate in the code (44.1 kHz, another
single rate, a double and a quad rate).

In `session` programs do not share state but through the device's plugs and rate, so
one program at a time, started at either rate, shows all it can do; one reset and
one fault can fall between any two of its steps, also on the way down; the theorems
remove all three bounds. In `fcp` two
routines are what it takes for the late answer of one to reach the other, two faults
for a retry to fail as well; the theorems hold for any number of both, and it was in
proving them that the case of three routines above came to light. In `control` two users, two commands and two engines
are what overlapping recordings and a replay need. In `transport410` two slots show
that a second engine is never needed, three helpers are one for the running engine
and one for each entry that a rate change can orphan; with two rate changes and two
helpers the same properties hold (0.7 M states), and the theorems remove the bounds from the
safety properties.

**Deadlock** is checked where the system has no end (`playback`, the capture runs,
`supervisor`). Elsewhere it may stop: the rolling engine, the last program, call or command
a bound allows, a supervisor that was told to.

**Fairness.** No fairness makes a fault, an unplugging, a crash, a signal, a client or a
rate change happen, or stop happening: those are bounded.

- `capture_live`: CoreAudio calls ReadInput while a client runs IO; the engine's audio
  thread is a time-constraint thread that iterates (weak fairness); qualification, which
  counts quiet packets of a live stream, is strong since its guard is interrupted by
  every iteration. `ReadsResume` is about the time from which both sides are there and
  agree on the rate.
- `supervisor`: the supervisor's loop and the engine's loop run; a HAL that has not yet
  created the ring will; a unit that is plugged in enumerates; time passes; launchd
  restarts the job (`KeepAlive`). A disturbance is never owed (`Undisturbed`): fairness of the
  engine's or the supervisor's step does not make it fail. That an engine ends after SIGTERM is an assumption (the
  supervisor's blocking `waitpid` makes it too). That launchd ends a dead job's process
  group is launchd's default.
- `session`: the program takes its next step, and an audio thread that must leave its loop
  does. Waits with a deadline may end either way.
- `fcp`: the device executes what it was sent, and the program in a routine goes on (its
  run loop is served until the deadline, which passes).
- `control`: the server, the supervisor, the knob's recorder and every started tool go on;
  a client that has connected sends or hangs up. That last part is an assumption about
  clients: the server has no deadline on a silent one, which blocks everybody else,
  the replay included.
- `transport410`: each process goes on, a timer runs out, a cued unit starts, and a unit
  that was unplugged is plugged in again (without that the supervisor waits, as it
  should). `waitpid` in `stopBridge` has no deadline, so `StopCompletes` rests on the
  engines' fairness.

**Mutants.** Beside a definition stands, where a property is about it, a mutated form
with a comment that says what is wrong in it ("Mutant: ..."). No run uses one; each
breaks the property that `PROJECT.json` pairs with it.

### Divergences

Three runs check what a comment or document of the repository says and find that the
code does otherwise; `findings` quotes the lines:

1. `supervisor_routine_reset`: a rate change just after the supervisor's last look makes the
   engine exit with status 1, which arms the recovery for engine failures: a bus reset
   or firmware reboot for a plain rate change.
2. `fcp_mixer_cache`: a ROUTE SET whose answer is lost leaves the FW410 server's cache at the old
   value and the flag that says it is trusted set; setting the old value again is then
   answered OK and not sent. `CacheIsHardware` shows this to be the only way.
3. `control_settings_lost`: two fw1814state helpers that overlap; the one that loaded first and
   writes last undoes the other's setting. `SavedIsInEffect` shows that nothing else
   does.

Ten more are kept as configurations outside the listed runs; each is run with
`tlc -config <cfg> <module>` and ends in a counterexample:

4. `MC_NoForeignRate.cfg` (`MCPlayback`): a rate change that falls into an engine's start-up is
   undone by its `active = 1`; frames of the new rate reach the old engine.
   `HandoffIsolation` shows that this is the only way.
5. `MC_OnlineAccepts.cfg` (`MCPlayback`): a rate change there and back between two polls of the
   supervisor leaves `active` at 0 with the right engine running.
6. `MC_CaptureFresh.cfg` (`MCCapture`): at rates other than 96 kHz the first read after a pause
   gets old frames, since the ring's length is taken for its age and a full ring has
   been dropping. `FreshWhenFlushing` shows the extent.
7. `MC_FlushSuspends.cfg` (`MCCapture`): the engine may activate between the two stores of the HAL's
   discard, on the queue that is about to go.
8. `MC_UnsafeReuse.cfg` (`MCRolling`): with a read-ahead of the controller above the rolling guard,
   as measured on hardware, a slot is rewritten after it was read (`NoUnsafeReuse`).
   `RefillDeadline` shows how much is repeated, and that a guard above read-ahead plus refill
   time is enough.
9. `MC_Appropriate.cfg` (`MCSupervisor`): an engine failure at the moment of a rate change is taken
   for the handoff, and no recovery follows.
10. `MC_Recovers.cfg` (`MCSupervisor`): an engine of 88.2 kHz or above that dies without its cleanup
    leaves `/tmp/macfw-fw1814-control.sock`; every engine of such a rate refuses to start beside
    it (`analog88_main.cpp:84`, `analog96_main.cpp:86`, `analog176_main.cpp:83`,
    `analog192_main.cpp:91`), and only the control server that an engine constructs after that
    check would unlink it (`fw1814_control_server.h:92`). The supervisor resets the bus for each of
    them without end; before a quad rate the firmware reboot, too, refuses beside the file, so that
    not even the recovery passes. `single-speed-low-latency-handover.md:326-327` has the
    supervisor recover "without a reboot loop". At a quad rate a plug that the dead engine left
    connected does the same, since the firmware reboot refuses it too. `Converges` shows that
    nothing else does.
11. `MC_PlugsLeft.cfg` (`MCTransport410`): after one crash of a streaming FW410 engine the plugs stay
    connected; `prepare()` (`fw410/tools/transport/full_duplex_lifecycle.h:36-43`) refuses
    them, `haltransport` resets no bus, and every later engine fails. `Converges` shows that
    only connected plugs do this.
12. `MC_AttemptUndone.cfg` (`MCSession`): in `fw1814capture192_duplex_nodata.cpp` the failure at 451 goes to
    `cleanup`, past the restoration at 808-840, after the device was commanded to
    192 kHz; `high-rate-development.md:1331` says the execution "restores the 48-kHz
    baseline".
13. `MC_CleanStop.cfg` (`MCTransport410`): a 44.1 kHz engine of the FW410 that is stopped within its start
    lead goes to the clean-up as failed and puts the unit back to 48 kHz; `entry.cpp:51-54`
    says a clean stop "leaves the operational FW410 at the selected native rate".

## 4. Proofs

No theorem bounds ring sizes, rates, frames, faults, processes or time.

**`PlaybackRingProofs`** — `TypeOK`, `Bounded`, `NoSlotRace`, `CopyIntact`,
`FreshAfterDiscard`, `HandoffIsolation`, and that the ring implements `LossyFifo`. None is
inductive. `Bounded` needs to know what each program point is about to store:
`WriterOK` (a write under way ends within the free space that a reader can only
enlarge) and `ReaderOK` (a read or discard under way ends between `readFrame` and
`writeFrame`). `ReaderOK` in turn depends on `ContractOK`, no client in IO while the
configuration changes, and on the HAL's flush only enlarging the free
space. `OrderOK` relates what was taken to what may still be taken.
`HandoffIsolation` has its own strengthening, `RateOK`: unless `late`, every frame that
is queued for an engine that is online has that engine's rate. About slots one fact is
needed: positions less than a ring apart have different slots (`RemaindersDistinct`).

**`CaptureRingProofs`** — `TypeOK`, `NoSlotRace`, `NoForeignCapture`, `FreshWhenFlushing`, for
every size of ring, word and packet. The indices are words that wrap, so the proofs begin
with what an unsigned difference is worth (`Used`) when a packet is published, a read
stored, a queue trimmed. `NoSlotRace` rests on who may move which index when (`Roles`: past
its check the HAL alone moves `readFrame`, the engine `writeFrame`), and then on the queue and
the packet under way fitting in the ring together (`Racing`). It holds with every
disturbance on. `NoForeignCapture` needs that behind every position `readFrame` has, or is about
to be given, lie frames of this engine only (`Source`), with the empty ring of a
start told from one whose indices a late store of the HAL has crossed (`Blank`); it is stated for
`~InitOverlaps`, as the run `capture` has it, since a HAL that reads on through `initialize()` may get
an old frame. `FreshWhenFlushing` needs in addition that the queue, as long as it is
within the threshold, is dense in the engine's packets (`Recent`), and `~HalStalls`: with a HAL
that stalls between reading and storing an index it is false (divergence 7).

**`RollingTxProofs`** — `TypeOK`, `ClockFollows`, `NotAhead`, `RefillDeadline`, `LatenessStops`, assuming
only `Timely`, that the timer is read less than a second apart; no relation between guard and
read-ahead is assumed, so they cover the shipped guard. `ClockFollows` is inductive once
`TimerRead` has undone the wrap. `HorizonOK` says how far `next` may be from the
cycle count in each mode, and that what a rolling refill has still to fill is beyond the guard;
`FilledOK` that what software counts as filled is filled; `MissedOK` that a packet missed
its deadline only if the horizon has been caught up with, so the next comparison with the guard
must see it. `NoUnsafeReuse` is a corollary for a controller with
`Fetch + MaxRefill < Guard` (`Prompt`), which the measured hardware does not meet with the
default guard (divergence 8); it is not listed among the theorems for that reason.

**`SupervisorProofs`** — `NoOrphan`, `FreshInit`, `RecoveryDone`, `RecoveryOwed`, for engines that
fail, die or ask to be tried again at any moment the code allows, after READY too, and whatever
they leave. The invariant
carries each to every program point before the one it speaks of: `RecoveryOK` (before
the recovery the flag says whether one is owed; during it one is and the flag is
down; after it none is), `ConfiguredOK` (from the recheck to the launch the device is
as init left it, or disturbed), `ChildOK` (an engine exists only inside `runEngine`).

**`SessionProofs`** — `TypeOK`, `CleanExit`, `NothingOutlivesItsSupport`, `SuccessRestoresRate`,
`CommandsCanBeAnswered`, `OthersPlugsUntouched`, for any programs of the form of `SessionForm`,
any number of sessions after one another, resets and faults. The argument follows the
program counter. On the way up what is held lies between what the steps passed claim
for certain and what they may claim, and the mark that chooses the label is set where the
text says (`Holding`, `Marking`); so a failure, wherever it goes, arrives at a release whose
remaining steps give back all of it in order, and each release step hands that condition to the
next (`GivesBackNext` and its like). `Supported` is kept on both ways. The same argument
runs for FCP (`Asking`: the rest of the release still finds the answer path), for the rates told
to the HAL (`Rated`, `Telling`), and for the baseline (`Restoring48`: while the result is
still a success each rate is back or its command lies ahead, and no generation check
can skip it). `Plugged` says whose the connections are: while the generation of the start lasts, the
program's plugs are those it holds, but for lost answers. These are arguments about all
programs at once; that the thirty-six programs have the form is evaluated by TLC (`ProgramsAssumption`).

**`FcpCallsProofs`** — `TypeOK`, `AnswersAreTrue`, `PassMeansRates`, `CacheIsHardware`, for any number of calls,
faults and late answers. `AnswersAreTrue` follows from `Own`: while an undisputed command is
waited on, whatever the device still has to execute or has already answered is not
for its register, or agrees with it. The other two need what is *settled*: a register is
settled at a value when it holds it and no command on its way will change it. `Passing` says, from the
shape of what the routine has still to send, which registers its PASS will be
about and that those it is done with are settled; `Caching`, that outside a full preset
every cell is settled at what the cache says, and within one the cells already written are at
what the preset says.

**`HalTransportProofs`** — `TypeOK`, `OneEngine`, `OnlineIsEarned`, `RateInForce`. That two engines never run is not
inductive; that the engine of the supervisor's handle is the only process there is
(`Owned`), is. `OnlineIsEarned` needs what the handle says of its engine at every place of the
loop (`Handle`): its rate is the one read at the top of this round, except while it is being
stopped for another, and READY is believed only of an engine that has sent it and
whose controls were replayed. The twenty-odd steps of engines, probes and bus are
alike to the supervisor: they create no engine and take no READY back (`Kept`), which
is proved of each once. `RateInForce` follows the rate from the probe to the stream (`Rated`):
which slot holds the unit, what its rateprobe has read and set, and that an engine past its
entry has had both directions verified since the last change that no stray probe made.

**`ControlStateProofs`** — `TypeOK`, `CopyIsHardware`, `NoAuxAtQuadRate`, `SettingsStand`,
`SavedIsInEffect`, for any users, any keys of the surface, any bounds. `CopyIsHardware` alone is inductive;
the other two are not. `NoAuxAtQuadRate` needs the same of the copy (`AuxOK`), since the word
that a failed write leaves behind was derived from the copy. `SettingsStand` needs `GateOK`
(behind a shut gate nothing has been acknowledged) and `Gate`: the supervisor's replay
sends only while the gate is shut, because only its own `internal-ready` opens it and that
follows the last entry; `Gate` in turn rests on what travels on each connection (`Conns`)
and on the entries of files and helpers being keys in play (`Saves`).
The turns of the knob are requests for the whole word because both channels of its copy
agree (`KnobOK`). `SavedIsInEffect` speaks of a quiet moment, but every request opens a window in which registers
and file differ, and several tools may be at work. `Alone` says that without an overlap
(`Excuse`) at most one such window is open; `Effect`, that the
window's own program accounts for the whole difference: what the request has changed and the
recorder has yet to load, change or write, or what the replay has yet to send. Keys
whose values the file keeps share no cell of a word, so replaying one does not disturb another.
`ControlAssumption` (keys in play are keys of the surface, users are neither the supervisor nor
the knob) and `BoundsAssumption` are evaluated by the `control` run.

Every safety property that a passing run checks is thereby proved, action properties
included, under the conditions named above (`Timely` for the packet stream, `~InitOverlaps` and
`~HalStalls` for two properties of the capture ring). Only model-checked are liveness (`ReadsResume`, `Converges`, `StopCompletes`, `StopOrResetEnds`,
`CallsReturn`, `GateOpens`) and the violations: TLAPS does not reason about fairness and
ENABLED, nor by induction over what a recursive definition computes; no module here
is recursive. Proofs found two things that the runs had not. `PassMeansRates` and
`AnswersAreTrue` were first stated without regard to what was outstanding, which fails only
with a third call. And `ActiveMeansStreaming` took any set `active` word for the running
program's, which fails when a second session follows a crash.

## 5. Not modelled, and why

- `IsochCallbackThread` (`transport/realtime_service.h`): whether `CFRunLoopStop` may meet a
  released run loop depends on CoreFoundation, not on code in `src/`; the rest is a
  flag under a mutex. MachPacer and thread policies act on wall-clock time.
- Packet contents, AM824 conversion, channel maps, SYT, DBC, and with them the capture
  pump's reordering: data no module carries. The per-rate schedules are arithmetic
  with unit tests, and a candidate for a bounded comparison.
- Memory orders: the stores modelled as steps are release stores of atomics and
  are seen in order. The relaxed stores of `initialize()` are modelled in program
  order, with a reader between any two of them.
- FW410 rings, HAL I/O and packets: the designs that the FW1814's, modelled here, grew
  out of.
- HAL properties and timestamps, panels, installers, pure probes, common tools: no
  concurrency of their own or not part of the running driver. The DriverKit target
  is unfinished.
- Timer gaps of a second or more, and missed deadlines of the half-ring mode: the code
  does not detect them and nothing says that it does.
- The state file of the FW410 (`fw410state`) has the same truncating save as the FW1814's;
  it is one step of `HalTransport`.

## 6. Plan

Done: the data path (two rings, packet stream), both supervisors, every streaming
program's session, FCP, the control server and its tools; theorems for each of them
that cover the safety properties of every passing run. Next, in this order:

1. An abstract supervisor ("one engine, of the wanted rate, on a checked device") that
   `Supervisor` and `HalTransport` both implement, as a refinement proved step by step.
2. `CaptureReorder`: the pump's reordering of a chunk against a reference order, over
   bounded chunks, with DBC modulo 256 scaled down.
3. The per-rate schedules against a reference cadence.
