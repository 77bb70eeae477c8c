--------------------------- MODULE MCAudioPipeline --------------------------
(* A stream of eleven samples with every useful set of models.                *)
EXTENDS AudioPipeline

MCBuilds == {{"vad", "whisper"}, {"vad", "hotword"}, {"hotword"}, {"vad"}, {"whisper"}}
=============================================================================
