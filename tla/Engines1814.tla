---------------------------- MODULE Engines1814 ----------------------------
(***************************************************************************)
(* The six engines of the FW1814 (analog44 ... analog192_main.cpp) as step  *)
(* programs over duplex_lifecycle.h.  The playback and capture rings and    *)
(* the packet stream are local to a block of run(): they are destroyed at   *)
(* its end, or by the goto that leaves it, before the channels stop.        *)
(***************************************************************************)
EXTENDS SessionSteps

(* SharedPlaybackReader::open, SharedCaptureWriter::open, the device.       *)
OpenShared == << Get("playbackRing"), Get("captureRing") >>

(* DuplexLifecycle.                                                         *)
AttachDispatcher1814 == << Get("callback") >>

Prepare1814 == << ReadPlugs(Plugs), Get("channels") >>

StartIsoch1814 ==
  << Get("isochDispatcher"), Get("notifications"),
     Get("playbackBandwidth"), Get("captureBandwidth"),
     ConnectPlug("opcr"), ConnectPlug("ipcr"),
     Get("playback"), Get("capture") >>

StopIsoch1814 ==
  << Drop({"capture"}), Drop({"playback"}),
     CheckGen, RestorePlug("ipcr"), RestorePlug("opcr"),
     Drop({"playbackBandwidth", "captureBandwidth"}) >>

RemoveDispatchers1814 ==
  << Drop({"notifications", "isochDispatcher", "callback"}) >>

(* stop() repeats the two above with every flag clear, then frees the       *)
(* channel objects.                                                         *)
Stop1814 == << Drop({"channels"}) >>

(* What follows the restores in every engine's cleanup; on return the       *)
(* destructors unmap the shared rings.                                      *)
Close1814 ==
  << Drop({"fcp"}) >> \o RemoveDispatchers1814 \o << Drop({"thread"}) >>
  \o Stop1814
  \o << Drop({"device"}), Drop({"captureRing", "playbackRing"}) >>

-----------------------------------------------------------------------------
(* 48 kHz: the device is at its rate; control is optional.                  *)
Open48 == OpenShared \o << OpenDevice, Do("routing") >>

Start48 ==
  << Get("rings") >> \o Prepare1814 \o AttachDispatcher1814
  \o << Get("fcp"), Get("thread"), RateIs("48000") >> \o StartIsoch1814

Kick48 == SetRates("48000") \o << OpenControl, Set("ready"), SetActive >>

Serve48 == << StartThread(TRUE), Live >>

Release48 ==
  << JoinAudio, Drop({"rings"}), CloseControl, ClearActive >> \o StopIsoch1814
  \o Close1814

Analog48 == Programme(Open48 \o Start48 \o Kick48 \o Serve48, Release48, TRUE)

-----------------------------------------------------------------------------
(* 44.1 kHz: the main thread services the transmit ring around the two      *)
(* rate commands, before the audio thread exists.                           *)
Open44 == OpenShared \o << OpenDevice, Do("routing") >>

Start44 ==
  << Get("rings") >> \o Prepare1814 \o AttachDispatcher1814
  \o << Get("fcp"), Get("thread"), RateIs("44100") >> \o StartIsoch1814

Kick44 ==
  << Do("lead"), Do("serviceTx"), SetRate("out", "44100"), Do("serviceTx"),
     SetRate("in", "44100"), Do("serviceTx"), RateIs("44100"), OpenControl,
     Do("enableRolling"), Set("ready"), SetActive >>

Serve44 == << StartThread(TRUE), Live >>

Release44 ==
  << JoinAudio, Drop({"rings"}), CloseControl, ClearActive >> \o StopIsoch1814
  \o Close1814

Analog44 == Programme(Open44 \o Start44 \o Kick44 \o Serve44, Release44, TRUE)

-----------------------------------------------------------------------------
(* 88.2 kHz: refused beside a control socket; the audio thread services the *)
(* transmit ring from before the rate commands; the baseline is restored.   *)
Open88 == << NoSocket >> \o OpenShared \o << OpenDevice, Do("routing") >>

Start88 ==
  << Get("rings") >> \o Prepare1814 \o AttachDispatcher1814
  \o << Get("fcp"), Get("thread"), RateIs("48000") >> \o StartIsoch1814
  \o << Do("lead") >>

Serve88 == << StartThread(TRUE) >>

Kick88 ==
  << StillRunning(FALSE), Set("rateAttempted") >> \o SetRates("88200")
  \o << Set("rateKicked"), StillRunning(TRUE), OpenControl, Do("topUp") >>

Online88 == << Set("released"), Set("ready"), SetActive, Live >>

Release88 ==
  << SetStop, JoinAudio, Drop({"rings"}), CloseControl, ClearActive >>
  \o StopIsoch1814 \o Baseline \o Close1814

Analog88 == Programme(Open88 \o Start88 \o Serve88 \o Kick88 \o Online88,
                      Release88, TRUE)

-----------------------------------------------------------------------------
(* 96 kHz: the same shape.                                                  *)
Open96 == << NoSocket >> \o OpenShared \o << OpenDevice, Do("routing") >>

Start96 ==
  << Get("rings") >> \o Prepare1814 \o AttachDispatcher1814
  \o << Get("fcp"), Get("thread"), RateIs("48000") >> \o StartIsoch1814
  \o << Do("lead") >>

Serve96 == << StartThread(TRUE) >>

Kick96 ==
  << StillRunning(FALSE), Set("rateAttempted") >> \o SetRates("96000")
  \o << Set("rateKicked"), StillRunning(TRUE), OpenControl, Do("topUp") >>

Online96 == << Set("released"), Set("ready"), SetActive, Live >>

Release96 ==
  << SetStop, JoinAudio, Drop({"rings"}), CloseControl, ClearActive >>
  \o StopIsoch1814 \o Baseline \o Close1814

Analog96 == Programme(Open96 \o Start96 \o Serve96 \o Kick96 \o Online96,
                      Release96, TRUE)

-----------------------------------------------------------------------------
(* 176.4 kHz: READY comes before the saved state is restored and the input  *)
(* qualified, playback is released after both.                              *)
Open176 == << NoSocket >> \o OpenShared \o << OpenDevice, Do("routing") >>

Start176 ==
  << Get("rings") >> \o Prepare1814 \o AttachDispatcher1814
  \o << Get("fcp"), Get("thread"), RateIs("48000") >> \o StartIsoch1814
  \o << Do("lead") >>

Serve176 == << StartThread(TRUE) >>

Kick176 ==
  << StillRunning(FALSE), Set("rateAttempted") >> \o SetRates("176400")
  \o << Set("rateKicked"), StillRunning(TRUE), OpenControl, Do("topUp"),
        Set("ready"), WaitFor("restored", FALSE), StillRunning(TRUE),
        WaitFor("qualified", TRUE), StillRunning(TRUE) >>

Online176 ==
  << SetActive, StillRunning(TRUE), StillRunning(TRUE), Do("topUp"),
     Set("released"), Live >>

Release176 ==
  << SetStop, JoinAudio, Drop({"rings"}), CloseControl, ClearActive >>
  \o StopIsoch1814 \o Baseline \o Close1814

Analog176 == Programme(Open176 \o Start176 \o Serve176 \o Kick176 \o Online176,
                       Release176, TRUE)

-----------------------------------------------------------------------------
(* 192 kHz: the rate is armed before the isochronous resources exist, and   *)
(* commanded again once they stream.                                        *)
Open192 == << NoSocket >> \o OpenShared \o << OpenDevice, Do("routing") >>

Arm192 ==
  AttachDispatcher1814
  \o << Get("fcp"), RateIs("48000"), Set("rateAttempted") >>
  \o SetRates("192000") \o << RateIs("192000") >>

Start192 ==
  << Get("rings") >> \o Prepare1814 \o << Get("thread"), RateIs("192000") >>
  \o StartIsoch1814 \o << Do("lead") >>

Serve192 == << StartThread(TRUE) >>

Kick192 ==
  << StillRunning(FALSE) >> \o SetRates("192000")
  \o << Set("rateKicked"), StillRunning(TRUE), OpenControl, Do("topUp"),
        Set("ready"), WaitFor("restored", FALSE), StillRunning(TRUE), SetActive,
        StillRunning(TRUE) >>

Online192 ==
  << WaitFor("qualified", FALSE), StillRunning(TRUE), StillRunning(TRUE), StillRunning(TRUE),
     Do("topUp"), Set("released"), Live >>

Release192 ==
  << SetStop, JoinAudio, Drop({"rings"}), CloseControl, ClearActive >>
  \o StopIsoch1814 \o Baseline \o Close1814

Analog192 ==
  Programme(Open192 \o Arm192 \o Start192 \o Serve192 \o Kick192 \o Online192,
            Release192, TRUE)

EnginePrograms ==
  [analog44 |-> Analog44, analog48 |-> Analog48, analog88 |-> Analog88,
   analog96 |-> Analog96, analog176 |-> Analog176, analog192 |-> Analog192]
=============================================================================
