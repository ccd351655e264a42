--------------------------- MODULE MCAudioStream ---------------------------
(***************************************************************************)
(* AudioStream on the generated schedule: with the sink that does nothing  *)
(* (NullSink), as in create.py, or with the VStreamAudioSink that create.py *)
(* and debug_create.py have in its place.                                  *)
(***************************************************************************)
EXTENDS AudioStream, AudioGraph

SilentGraph == Generated
SpeakerGraph == [Generated EXCEPT ![Len(Generated)] = VStreamAudioSink("audioSink", 13)]
=============================================================================
