----------------------------- MODULE MCPlayback -----------------------------
(* PlaybackRing on a two-slot ring: the writer wraps the ring twice and   *)
(* laps the reader's slot, with one plain engine and one that discards      *)
(* again around going online.                                               *)
EXTENDS PlaybackRing
=============================================================================
