---------------------------- MODULE Programs410 ----------------------------
(***************************************************************************)
(* The streaming engines and tools of the FireWire 410                      *)
(* (src/devices/fw410/tools/transport) as step programs.  The engines       *)
(* stream over full_duplex_lifecycle.h; each tool has a run() of its own.   *)
(* None of them looks at the bus generation before it restores the plugs,   *)
(* nor at the result of the restore.                                        *)
(***************************************************************************)
EXTENDS SessionSteps, Naturals

(* FullDuplexEngineSetup::prepare: the playback ring at the right rate, the *)
(* capture ring, the device.                                                *)
Setup410 == << Get("playbackRing"), Get("captureRing"), OpenDevice,
               Do("cycleTime") >>

(* FireWireDuplexLifecycle.                                                 *)
Prepare410 == << ReadPlugs(Plugs), Get("channels") >>

AddCallbackDispatcher410 == << Get("callback") >>

StartIsoch410 ==
  << Get("isochDispatcher"), Get("notifications"),
     Get("captureBandwidth"), Get("playbackBandwidth"),
     ConnectPlug("opcr"), ConnectPlug("ipcr"),
     Get("playback"), Get("capture") >>

StopIsoch410 ==
  << Drop({"playback"}), Drop({"capture"}),
     RestoreQuietly("ipcr"), RestoreQuietly("opcr"),
     Drop({"playbackBandwidth"}), Drop({"captureBandwidth"}) >>

RemoveDispatchers410 ==
  << Drop({"notifications"}), Drop({"isochDispatcher"}), Drop({"callback"}) >>

(* The destructors of run()'s objects.                                      *)
Destroy410 ==
  << Drop({"channels", "rings"}), Drop({"device"}),
     Drop({"captureRing", "playbackRing"}) >>

-----------------------------------------------------------------------------
(* halbridge48000: FCP, control socket and meter socket are optional.       *)
Rate48000 == << RunRateProbe("48000"), EnterBlock >>

Run48000 ==
  Setup410 \o << Get("rings") >> \o Prepare410 \o AddCallbackDispatcher410
  \o << Try("fcp"), TryWith("control", "fcp"), Get("thread"), Try("meter") >>
  \o StartIsoch410 \o << Set("ready"), StartThread(TRUE), Live >>

Cleanup48000 ==
  << JoinAudio, Drop({"meter"}), Drop({"control"}) >> \o StopIsoch410
  \o << Drop({"fcp"}) >> \o RemoveDispatchers410 \o << Drop({"thread"}) >>
  \o Destroy410

Halbridge48000 ==
  Labelled(Rate48000 \o Run48000, Cleanup48000, Len(Cleanup48000) + 1, TRUE)

(* halbridge44100: the rate is commanded again 20 ms into the stream; the    *)
(* wait for it looks at the stop flag.                                      *)
Rate44100 == << RunRateProbe("44100"), EnterBlock >>

Run44100 ==
  Setup410 \o << Get("rings") >> \o Prepare410 \o AddCallbackDispatcher410
  \o << Get("fcp"), Get("thread"), TryWith("control", "fcp") >>
  \o StartIsoch410 \o << Do("cycleTime"), StillRunning(FALSE) >>
  \o SetRates("44100")
  \o << Try("meter"), Set("ready"), StartThread(TRUE), Live >>

Cleanup44100 ==
  << JoinAudio, Drop({"meter"}), Drop({"control"}) >> \o StopIsoch410
  \o << Drop({"fcp"}) >> \o RemoveDispatchers410 \o << Drop({"thread"}) >>
  \o Destroy410

RateAfter44100 == << ProbeRateBack("failed") >>

Halbridge44100 ==
  Labelled(Rate44100 \o Run44100, Cleanup44100 \o RateAfter44100,
           Len(Cleanup44100 \o RateAfter44100) + 1, TRUE)

-----------------------------------------------------------------------------
(* The tools: dispatchers are optional where nothing waits for a callback.  *)
OpenTool == << OpenDevice, ReadPlugs(Plugs), Do("cycleTime"), DryRun >>

TryDispatchers ==
  << Try("callback"), Try("isochDispatcher"), Try("notifications") >>

ToolConnection ==
  << Get("captureBandwidth"), Get("playbackBandwidth"),
     ConnectPlug("opcr"), ConnectPlug("ipcr") >>

ToolStream == ToolConnection \o << Get("playback"), Get("capture") >>

(* isoplayback, pcm44100playback, pcmbufferplayback.                        *)
RunIsoplayback ==
  OpenTool \o << Get("rings"), Get("channels") >> \o TryDispatchers
  \o ToolStream \o << Finite >>

StopIsoplayback == StopIsoch410 \o RemoveDispatchers410 \o Destroy410

RunPcm44100 ==
  OpenTool \o << Get("rings"), Get("channels") >> \o TryDispatchers
  \o ToolConnection \o << Do("cycleTime"), Get("playback"), Get("capture"),
                          Finite >>

StopPcm44100 == StopIsoch410 \o RemoveDispatchers410 \o Destroy410

RunPcmBuffer ==
  OpenTool \o << Get("rings"), Get("channels") >> \o TryDispatchers
  \o ToolStream \o << Finite >>

StopPcmBuffer == StopIsoch410 \o RemoveDispatchers410 \o Destroy410

(* isocapture: both plugs, only the capture channel.                        *)
RunIsocapture ==
  OpenTool \o << Get("rings"), Get("channels") >> \o TryDispatchers
  \o ToolConnection \o << Get("capture"), Finite >>

StopIsocapture == StopIsoch410 \o RemoveDispatchers410 \o Destroy410

(* isoduplex: written over IOFireWireLib itself; capture stops first.       *)
OpenIsoduplex == << OpenDevice, ReadPlugs(Plugs), DryRun >>

PortsIsoduplex == << Get("rings"), Get("channels") >> \o TryDispatchers

ConnectIsoduplex == ToolStream \o << Finite >>

StopIsoduplex ==
  << Drop({"capture"}), Drop({"playback"}), RestoreQuietly("ipcr"),
     RestoreQuietly("opcr"), Drop({"playbackBandwidth"}),
     Drop({"captureBandwidth"}) >>
  \o RemoveDispatchers410 \o << Drop({"channels"}), Drop({"rings"}),
                                Drop({"device"}) >>

(* pcmstreamplayback: a producer thread fills the PCM FIFO.                 *)
RunPcmStream ==
  OpenTool \o << Get("rings"), Get("channels") >> \o TryDispatchers
  \o ToolStream \o << StartThread(FALSE), Finite >>

StopPcmStream ==
  << SetStop, JoinAudio >> \o StopIsoch410 \o RemoveDispatchers410
  \o Destroy410

(* pcmstream44100: with the rate commanded once the channels run.           *)
RatePcmStream44 == << RunRateProbe("44100"), EnterBlock >>

RunPcmStream44 ==
  OpenTool \o << Get("rings"), Get("channels"), Get("callback"), Get("fcp"),
                 Try("isochDispatcher"), Try("notifications") >>
  \o ToolStream \o << Do("cycleTime") >> \o SetRates("44100")
  \o << StartThread(FALSE), Finite >>

StopPcmStream44 ==
  << SetStop, JoinAudio >> \o StopIsoch410 \o << Drop({"fcp"}) >>
  \o RemoveDispatchers410 \o Destroy410

RateAfterStream44 == << ProbeRateBack("always") >>

(* coreaudiobridge, coreaudiobridge44100: callbacks of the default input    *)
(* fill the FIFO from before the rings exist.                               *)
RunCoreAudio ==
  OpenTool \o << Get("rings"), Get("channels"), Get("input") >>
  \o TryDispatchers \o ToolStream \o << Finite >>

StopCoreAudio ==
  << Drop({"input"}) >> \o StopIsoch410 \o RemoveDispatchers410 \o Destroy410

RateCoreAudio44 == << RunRateProbe("44100"), EnterBlock >>

RunCoreAudio44 ==
  OpenTool \o << Get("input"), Get("rings"), Get("channels"), Get("callback"),
                 Get("fcp"), Try("isochDispatcher"), Try("notifications") >>
  \o ToolStream \o SetRates("44100") \o << Finite >>

StopCoreAudio44 ==
  << Drop({"input"}) >> \o StopIsoch410 \o << Drop({"fcp"}) >>
  \o RemoveDispatchers410 \o Destroy410

RateAfterCoreAudio44 == << ProbeRateBack("always") >>

(* pcm44100warmup: once it has begun to claim, its result is a pass.        *)
RunWarmup ==
  OpenTool \o << Get("rings"), Get("channels"), EnterBlock, Get("callback"),
                 Get("fcp"), Try("isochDispatcher"), Try("notifications") >>
  \o ToolConnection \o << Do("cycleTime"), Get("playback"), Get("capture") >>
  \o SetRates("44100") \o << Finite >>

StopWarmup ==
  StopIsoch410 \o << Drop({"fcp"}) >> \o RemoveDispatchers410 \o << SayPass >>

(* cmpconnect: the connections alone.                                       *)
RunCmpconnect ==
  << OpenDevice, ReadPlugs(Plugs), DryRun, Get("channels") >>
  \o ToolConnection \o << Finite >>

StopCmpconnect ==
  << RestoreQuietly("ipcr"), RestoreQuietly("opcr"),
     Drop({"playbackBandwidth"}), Drop({"captureBandwidth"}) >> \o Destroy410

(* capturebridge48000: until a stop; bus resets go unnoticed.               *)
RunCapturebridge ==
  << Get("captureRing"), OpenDevice, ReadPlugs(Plugs), Do("cycleTime"),
     Get("rings"), Get("channels") >>
  \o TryDispatchers \o ToolStream \o << Poll(FALSE) >>

StopCapturebridge == StopIsoch410 \o RemoveDispatchers410 \o Destroy410

Tool(acquire, release) == Programme(acquire, release, FALSE)

Isoplayback    == Tool(RunIsoplayback, StopIsoplayback)
Pcm44100       == Tool(RunPcm44100, StopPcm44100)
PcmBuffer      == Tool(RunPcmBuffer, StopPcmBuffer)
Isocapture     == Tool(RunIsocapture, StopIsocapture)
Isoduplex      == Tool(OpenIsoduplex \o PortsIsoduplex \o ConnectIsoduplex,
                       StopIsoduplex)
PcmStream      == Tool(RunPcmStream, StopPcmStream)
PcmStream44    ==
  Labelled(RatePcmStream44 \o RunPcmStream44,
           StopPcmStream44 \o RateAfterStream44,
           Len(StopPcmStream44 \o RateAfterStream44) + 1, FALSE)
CoreAudio      == Tool(RunCoreAudio, StopCoreAudio)
CoreAudio44    ==
  Labelled(RateCoreAudio44 \o RunCoreAudio44,
           StopCoreAudio44 \o RateAfterCoreAudio44,
           Len(StopCoreAudio44 \o RateAfterCoreAudio44) + 1, FALSE)
Warmup         == Labelled(RunWarmup, StopWarmup \o Destroy410,
                           Len(StopWarmup) + 1, FALSE)
Cmpconnect     == Tool(RunCmpconnect, StopCmpconnect)
Capturebridge  == Programme(RunCapturebridge, StopCapturebridge, TRUE)

ProgramsOf410 ==
  [halbridge48000 |-> Halbridge48000, halbridge44100 |-> Halbridge44100,
   isoplayback |-> Isoplayback, pcm44100playback |-> Pcm44100,
   pcmbufferplayback |-> PcmBuffer, isocapture |-> Isocapture,
   isoduplex |-> Isoduplex, pcmstreamplayback |-> PcmStream,
   pcmstream44100 |-> PcmStream44, coreaudiobridge |-> CoreAudio,
   coreaudiobridge44100 |-> CoreAudio44, pcm44100warmup |-> Warmup,
   cmpconnect |-> Cmpconnect, capturebridge48000 |-> Capturebridge]
=============================================================================
