----------------------------- MODULE Probes1814 -----------------------------
(***************************************************************************)
(* The streaming probes of the FW1814 (src/devices/fw1814/tools) as step    *)
(* programs.  Each is a run() of its own with two labels: cleanup_stream    *)
(* inside the block that owns the rings and the channels, and cleanup after *)
(* the restoring code; a failure before the block jumps over that code.     *)
(* Probes have no signal handler.                                           *)
(***************************************************************************)
EXTENDS Engines1814, Naturals

(* The shape the guarded probes share: the control socket, the device, its  *)
(* fingerprint, FCP, the expected rate, both plugs free.                    *)
OpenProbe == << NoSocket, OpenDevice, Do("fingerprint") >>

Preflight ==
  << Get("callback"), Get("fcp"), RateIs("48000"), ReadPlugs(Plugs), DryRun >>

Resources ==
  << EnterBlock, Get("rings"), Get("channels"), Get("isochDispatcher"),
     Try("notifications"), Get("playbackBandwidth"), Get("captureBandwidth") >>

ConnectAndStart ==
  << ConnectPlug("opcr"), ConnectPlug("ipcr"), Get("playback"), Get("capture") >>

KickTo(r) == << Set("rateAttempted") >> \o SetRates(r)

StopChannels == << Drop({"capture"}), Drop({"playback"}) >>

RestoreGuarded == << CheckGen, RestorePlug("ipcr"), RestorePlug("opcr") >>

LeaveBlock ==
  << Drop({"captureBandwidth", "playbackBandwidth"}),
     Drop({"channels", "rings"}) >>

RestoreBaseline ==
  << Drop({"notifications", "isochDispatcher"}) >> \o Baseline
  \o << VerifyPlugs(Plugs), VerifyRate >>

CloseProbe == << Drop({"fcp", "callback"}), Drop({"device"}) >>

Probe(acquire, stream, tail) ==
  Labelled(acquire, stream \o tail \o CloseProbe, Len(stream \o tail) + 1, FALSE)

-----------------------------------------------------------------------------
(* fw1814capture88: a worker thread refills the transmit ring.              *)
Preflight88 == OpenProbe \o Preflight

Rings88 == Resources

Stream88 ==
  ConnectAndStart \o << StartThread(FALSE) >> \o KickTo("88200") \o << Finite >>

StopStream88 ==
  << SetStop, JoinAudio >> \o StopChannels \o RestoreGuarded \o LeaveBlock

Tail88 == RestoreBaseline

Capture88 == Probe(Preflight88 \o Rings88 \o Stream88, StopStream88, Tail88)

(* fw1814capture176: the same.                                              *)
Preflight176 == OpenProbe \o Preflight

Rings176 == Resources

Stream176 ==
  ConnectAndStart \o << StartThread(FALSE) >> \o KickTo("176400")
  \o << Finite >>

StopStream176 ==
  << SetStop, JoinAudio >> \o StopChannels \o RestoreGuarded \o LeaveBlock

Tail176 == RestoreBaseline

Capture176 ==
  Probe(Preflight176 \o Rings176 \o Stream176, StopStream176, Tail176)

(* fw1814capture192: the rate is armed before the block, so a failure of    *)
(* the arming jumps over the code that restores the baseline.               *)
Preflight192 == OpenProbe \o Preflight

PreArm192 == KickTo("192000") \o << RateIs("192000") >>

Rings192 == Resources

Stream192 ==
  ConnectAndStart \o << StartThread(FALSE) >> \o SetRates("192000")
  \o << Finite >>

StopStream192 ==
  << SetStop, JoinAudio >> \o StopChannels \o RestoreGuarded \o LeaveBlock

Tail192 == RestoreBaseline

Capture192 == Probe(Preflight192 \o PreArm192 \o Rings192 \o Stream192,
                    StopStream192, Tail192)

(* fw1814capture96 and fw1814tone96: static rings, no worker.               *)
Preflight96 == OpenProbe \o Preflight

Stream96 == Resources \o ConnectAndStart \o KickTo("96000") \o << Finite >>

StopStream96 == StopChannels \o RestoreGuarded \o LeaveBlock

Tail96 == RestoreBaseline

Capture96 == Probe(Preflight96 \o Stream96, StopStream96, Tail96)

PreflightTone96 == OpenProbe \o Preflight

StreamTone96 == Resources \o ConnectAndStart \o KickTo("96000") \o << Finite >>

StopTone96 == StopChannels \o RestoreGuarded \o LeaveBlock

TailTone96 == RestoreBaseline

Tone96 == Probe(PreflightTone96 \o StreamTone96, StopTone96, TailTone96)

(* fw1814tone96_live: the main thread refills; capture is stopped first, to *)
(* read its ring, while playback still runs.                                *)
PreflightLive == OpenProbe \o Preflight

RingsLive == Resources \o ConnectAndStart

StreamLive ==
  << Do("serviceFor") >> \o KickTo("96000")
  \o << Do("serviceFor"), Finite, Drop({"capture"}) >>

StopLive == StopChannels \o RestoreGuarded \o LeaveBlock

TailLive == RestoreBaseline

ToneLive == Probe(PreflightLive \o RingsLive \o StreamLive, StopLive, TailLive)

-----------------------------------------------------------------------------
(* fw1814capture48: only the output plug; the restore is not guarded by the *)
(* bus generation.                                                          *)
PreflightReceive ==
  << OpenDevice, Do("fingerprint"), Get("callback"), Get("fcp"),
     RateIs("48000"), ReadPlugs({"opcr"}), DryRun >>

StreamReceive ==
  << EnterBlock, Get("rings"), Get("channels"), Get("isochDispatcher"),
     Try("notifications"), Get("captureBandwidth"), ConnectPlug("opcr"),
     Get("capture") >>
  \o SetRates("48000") \o << Finite >>

StopReceive ==
  << Drop({"capture"}), RestoreQuietly("opcr") >> \o LeaveBlock
  \o << Drop({"notifications", "isochDispatcher"}), VerifyPlugs({"opcr"}) >>

Capture48 == Probe(PreflightReceive \o StreamReceive, StopReceive, << >>)

(* fw1814capture48_dualcmp: both plugs, but only the capture channel runs.  *)
PreflightDual == << OpenDevice, Do("fingerprint") >> \o Preflight

StreamDual ==
  << EnterBlock, Get("rings"), Get("channels"), Get("isochDispatcher"),
     Try("notifications"), Get("captureBandwidth"), Get("playbackBandwidth"),
     ConnectPlug("opcr"), ConnectPlug("ipcr"), Get("capture") >>
  \o SetRates("48000") \o << RateIs("48000"), Finite >>

StopDual ==
  << Drop({"capture"}), RestoreQuietly("ipcr"), RestoreQuietly("opcr") >>
  \o LeaveBlock
  \o << Drop({"notifications", "isochDispatcher"}), VerifyPlugs(Plugs) >>

DualCmp == Probe(PreflightDual \o StreamDual, StopDual, << >>)

(* fw1814capture48_dualcmp_wait: without the read-back after the kick.      *)
PreflightWait == << OpenDevice, Do("fingerprint") >> \o Preflight

StreamWait ==
  << EnterBlock, Get("rings"), Get("channels"), Get("isochDispatcher"),
     Try("notifications"), Get("captureBandwidth"), Get("playbackBandwidth"),
     ConnectPlug("opcr"), ConnectPlug("ipcr"), Get("capture") >>
  \o SetRates("48000") \o << Finite >>

StopWait ==
  << Drop({"capture"}), RestoreQuietly("ipcr"), RestoreQuietly("opcr") >>
  \o LeaveBlock
  \o << Drop({"notifications", "isochDispatcher"}), VerifyPlugs(Plugs) >>

DualCmpWait == Probe(PreflightWait \o StreamWait, StopWait, << >>)

(* fw1814capture48_duplex_nodata: both channels.                            *)
PreflightDuplex == << OpenDevice, Do("fingerprint") >> \o Preflight

StreamDuplex ==
  Resources \o ConnectAndStart \o SetRates("48000") \o << Finite >>

StopDuplex ==
  StopChannels \o << RestoreQuietly("ipcr"), RestoreQuietly("opcr") >>
  \o LeaveBlock
  \o << Drop({"notifications", "isochDispatcher"}), VerifyPlugs(Plugs) >>

CaptureDuplex == Probe(PreflightDuplex \o StreamDuplex, StopDuplex, << >>)

(* fw1814capture48_output_watch: the output command alone, and a watch of   *)
(* the generation; it passes once the watch is over.                        *)
PreflightWatch == << OpenDevice, Do("fingerprint") >> \o Preflight

StreamWatch ==
  Resources \o ConnectAndStart
  \o << Do("generation"), SetRate("out", "48000"), Finite >>

StopWatch ==
  StopChannels
  \o << CheckGen, RestoreQuietly("ipcr"), RestoreQuietly("opcr") >>
  \o LeaveBlock \o << Drop({"notifications", "isochDispatcher"}) >>

OutputWatch == Probe(PreflightWatch \o StreamWatch, StopWatch, << >>)

-----------------------------------------------------------------------------
(* fw1814playback_map: a tone on one position; one label.                   *)
PreflightMap ==
  << OpenDevice, Do("generation"), ReadPlugs(Plugs), DryRun, Get("callback"),
     Get("fcp"), RateIs("48000") >>

StreamMap ==
  << Get("rings"), Get("channels"), Get("isochDispatcher"),
     Try("notifications"), Get("playbackBandwidth"), Get("captureBandwidth") >>
  \o ConnectAndStart \o SetRates("48000") \o << Finite >>

StopMap ==
  StopChannels \o RestoreGuarded \o LeaveBlock
  \o << Drop({"notifications", "isochDispatcher"}) >> \o CloseProbe

PlaybackMap == Programme(PreflightMap \o StreamMap, StopMap, FALSE)

(* fw1814duplex44 and fw1814tone44: over the engines' own DuplexLifecycle.  *)
StartDuplex44 ==
  << OpenDevice, Get("rings"), DryRun >> \o Prepare1814 \o AttachDispatcher1814
  \o << Get("fcp"), Get("thread"), RateIs("44100") >> \o StartIsoch1814

StreamDuplex44 ==
  << Do("serviceFor"), SetRate("out", "44100"), Do("serviceFor"),
     SetRate("in", "44100"), Do("serviceFor"), RateIs("44100"), Finite >>

StopDuplex44 ==
  StopIsoch1814 \o << Drop({"fcp"}) >> \o RemoveDispatchers1814
  \o << Drop({"thread"}) >> \o Stop1814
  \o << Drop({"device"}), Drop({"rings"}) >>

Duplex44 == Programme(StartDuplex44 \o StreamDuplex44, StopDuplex44, FALSE)

StartTone44 ==
  << OpenDevice, Get("rings") >> \o Prepare1814 \o AttachDispatcher1814
  \o << Get("fcp"), Get("thread"), RateIs("44100") >> \o StartIsoch1814

StreamTone44 ==
  << Do("serviceFor"), SetRate("out", "44100"), Do("serviceFor"),
     SetRate("in", "44100"), Do("serviceFor"), RateIs("44100"), Finite >>

StopTone44 ==
  StopIsoch1814 \o << Drop({"fcp"}) >> \o RemoveDispatchers1814
  \o << Drop({"thread"}) >> \o Stop1814
  \o << Drop({"device"}), Drop({"rings"}) >>

Tone44 == Programme(StartTone44 \o StreamTone44, StopTone44, FALSE)

-----------------------------------------------------------------------------
(* The two teardown diagnostics: no FCP; the restores look at the           *)
(* generation each, and the result is a pass.                               *)
SetUpTeardown ==
  << OpenDevice, ReadPlugs(Plugs), DryRun, Get("rings"), Get("channels"),
     Get("isochDispatcher"), Try("notifications"), Get("playbackBandwidth"),
     Get("captureBandwidth") >>
  \o ConnectAndStart \o << Finite >>

TearDown ==
  StopChannels
  \o << CheckGen, RestoreQuietly("ipcr"), CheckGen, RestoreQuietly("opcr"),
        Drop({"captureBandwidth"}), Drop({"playbackBandwidth"}),
        Drop({"channels", "rings"}), Drop({"notifications"}),
        Drop({"isochDispatcher"}), Drop({"device"}), SayPass >>

TeardownWatch == Programme(SetUpTeardown, TearDown, FALSE)

SetUpClient ==
  << OpenDevice, DryRun, ReadPlugs(Plugs), Get("rings"), Get("channels"),
     Get("isochDispatcher"), Try("notifications"), Get("playbackBandwidth"),
     Get("captureBandwidth") >>
  \o ConnectAndStart \o << Finite >>

TearDownClient ==
  StopChannels
  \o << CheckGen, RestoreQuietly("ipcr"), CheckGen, RestoreQuietly("opcr"),
        Drop({"captureBandwidth"}), Drop({"playbackBandwidth"}),
        Drop({"channels", "rings"}), Drop({"notifications"}),
        Drop({"isochDispatcher"}), Drop({"device"}), SayPass >>

ClientCloseWatch == Programme(SetUpClient, TearDownClient, FALSE)

ProbePrograms ==
  [capture48 |-> Capture48, dualcmp |-> DualCmp, dualcmpWait |-> DualCmpWait,
   capture48Duplex |-> CaptureDuplex, outputWatch |-> OutputWatch,
   capture88 |-> Capture88, capture96 |-> Capture96, tone96 |-> Tone96,
   tone96Live |-> ToneLive, capture176 |-> Capture176,
   capture192 |-> Capture192, playbackMap |-> PlaybackMap,
   duplex44 |-> Duplex44, tone44 |-> Tone44, teardownWatch |-> TeardownWatch,
   clientCloseWatch |-> ClientCloseWatch]
=============================================================================
