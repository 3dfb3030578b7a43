-------------------------- MODULE ControlCommands ---------------------------
(***************************************************************************)
(* The control surface of the FW1814: what each handler of the control      *)
(* server does to the write-only mixer registers, and what each fw1814ctl   *)
(* command asks for and keeps.  A word has two cells: two routes, two       *)
(* outputs, or the left and right channels.  Values are coded so that 0 is  *)
(* what the preset loads; in a source word 1 is the AUX bus.                *)
(***************************************************************************)
EXTENDS Naturals

Cells == {1, 2}
Lowest == 1          \* bound: the steps of a gain below the top
Values == {0, 1}     \* what a request sets
Preset == [c \in Cells |-> 0]

(* A handler: the word it writes, whether it writes only a word that        *)
(* changes, and whether value 1 needs the AUX bus.                          *)
Handler(w, d, a) == [word |-> w, differences |-> d, aux |-> a]

handleMixer == Handler("MIX_STM_IN", TRUE, FALSE)
handleInputMixer == Handler("MIX_ANA_DIG_IN", TRUE, FALSE)
handleOutput == Handler("SRC_ANA_OUT", TRUE, TRUE)
handleHeadphone == Handler("SRC_HP_OUT", TRUE, TRUE)
handleInputMonitorLevel == Handler("GAIN_ANA_IN", FALSE, FALSE)
handleInputMonitorChannelLevel == Handler("GAIN_ANA_IN", FALSE, FALSE)
handleInputMonitorPan == Handler("LR_ANA_IN", TRUE, FALSE)
handleSoftwareReturnLevel == Handler("GAIN_STM_IN", FALSE, FALSE)
handleAnalogOutputLevel == Handler("GAIN_ANA_OUT", FALSE, FALSE)
handleHeadphoneOutputLevel == Handler("GAIN_HP_OUT", FALSE, FALSE)
handleAuxSoftwareReturnLevel == Handler("AUX_STM_IN", FALSE, FALSE)
handleAuxAnalogInputLevel == Handler("AUX_ANA_IN", FALSE, FALSE)
handleAuxOutputLevel == Handler("GAIN_AUX_OUT", FALSE, FALSE)

HandlerOf ==
  [mixerRoute |-> handleMixer, inputRoute |-> handleInputMixer,
   outputSource |-> handleOutput, headphoneSource |-> handleHeadphone,
   inputLevel |-> handleInputMonitorLevel,
   inputChannelLevel |-> handleInputMonitorChannelLevel,
   inputPan |-> handleInputMonitorPan,
   softwareReturn |-> handleSoftwareReturnLevel,
   outputVolume |-> handleAnalogOutputLevel,
   headphoneVolume |-> handleHeadphoneOutputLevel,
   auxReturn |-> handleAuxSoftwareReturnLevel,
   auxInput |-> handleAuxAnalogInputLevel,
   auxOutput |-> handleAuxOutputLevel]

Controls == DOMAIN HandlerOf
Words == {HandlerOf[c].word : c \in Controls}
AuxWords == {HandlerOf[c].word : c \in {d \in Controls : HandlerOf[d].aux}}

(* A command of fw1814ctl: the controls it sets, whether one request sets a *)
(* cell or the whole word, and whether a successful set is recorded.        *)
Tool(cs, unit, kept) == [controls |-> cs, unit |-> unit, kept |-> kept]

mixerRouteCommand == Tool({"mixerRoute"}, "cell", TRUE)
inputMixerRouteCommand == Tool({"inputRoute"}, "cell", TRUE)
outputSourceCommand == Tool({"outputSource"}, "cell", TRUE)
headphoneSourceCommand == Tool({"headphoneSource"}, "cell", TRUE)
inputMonitorLevelCommand == Tool({"inputLevel"}, "word", TRUE)
inputMonitorChannelLevelCommand ==
  Tool({"inputChannelLevel"}, "cell", FALSE)
inputMonitorPanCommand == Tool({"inputPan"}, "cell", TRUE)
softwareReturnLevelCommand == Tool({"softwareReturn"}, "word", TRUE)
outputVolumeCommand == Tool({"outputVolume"}, "word", TRUE)
headphoneVolumeCommand == Tool({"headphoneVolume"}, "word", TRUE)
auxSendLevelCommand == Tool({"auxReturn", "auxInput"}, "word", TRUE)
auxOutputVolumeCommand == Tool({"auxOutput"}, "word", TRUE)

Tools ==
  {mixerRouteCommand, inputMixerRouteCommand, outputSourceCommand,
   headphoneSourceCommand, inputMonitorLevelCommand,
   inputMonitorChannelLevelCommand, inputMonitorPanCommand,
   softwareReturnLevelCommand, outputVolumeCommand, headphoneVolumeCommand,
   auxSendLevelCommand, auxOutputVolumeCommand}

ToolOf(c) == CHOOSE t \in Tools : c \in t.controls

(* What one request names: a control and a cell, or cell 0 for the word.    *)
Key(c, x) == [control |-> c, cell |-> x]
Keys == UNION {{Key(c, x) : x \in IF ToolOf(c).unit = "cell" THEN Cells
                                  ELSE {0}} : c \in Controls}

WordOf(k) == HandlerOf[k.control].word

(* The entries fw1814state accepts, on record and on load.                  *)
validStoredCommand(k) == k \in Keys /\ ToolOf(k.control).kept

(* The word with the named cells set.                                       *)
Changed(word, k, v) ==
  IF k.cell = 0 THEN [c \in Cells |-> v] ELSE [word EXCEPT ![k.cell] = v]

(* The value a key has in a word, when its cells agree on one.              *)
HasValue(word, k, v) ==
  \A c \in IF k.cell = 0 THEN Cells ELSE {k.cell} : word[c] = v

(* A headphone encoder moves both channels of its gain word by one step,    *)
(* within the range.                                                        *)
(* Mutant: the lower end of the range is not enforced.                      *)
RotaryUnclamped(word, step) ==
  [c \in Cells |-> IF step = "down" THEN word[c] + 1
                   ELSE IF word[c] = 0 THEN 0 ELSE word[c] - 1]

rotaryGain(word, step) ==
  [c \in Cells |-> IF step = "down" THEN IF word[c] = Lowest THEN Lowest
                                         ELSE word[c] + 1
                   ELSE IF word[c] = 0 THEN 0 ELSE word[c] - 1]
=============================================================================
