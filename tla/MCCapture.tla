----------------------------- MODULE MCCapture -----------------------------
(* CaptureRing on a four-slot ring with a stale threshold of two frames:     *)
(* the ring can be live, stale and full, and words wrap several times.       *)
EXTENDS CaptureRing
=============================================================================
