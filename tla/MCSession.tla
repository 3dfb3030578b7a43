----------------------------- MODULE MCSession -----------------------------
(***************************************************************************)
(* DuplexSession over every program of the repository that streams.         *)
(***************************************************************************)
EXTENDS DuplexSession, Probes1814, Programs410, TLC

StreamingPrograms == EnginePrograms @@ ProbePrograms @@ ProgramsOf410

MCProgram == StreamingPrograms
=============================================================================
