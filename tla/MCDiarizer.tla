----------------------------- MODULE MCDiarizer -----------------------------
(* Two utterances on a stream of five time units, two to a frame.          *)
EXTENDS Diarizer

(* A caller may also name a time before the stream.                        *)
MCTimes == -1 .. MaxTime
=============================================================================
