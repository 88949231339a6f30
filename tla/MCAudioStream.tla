---------------------------- MODULE MCAudioStream ------------------------------
(***************************************************************************)
(* A track that captures an application, one with a microphone or an input *)
(* channel, and an output track with two channels to choose from.          *)
(***************************************************************************)
EXTENDS AudioStream

MCTracks == {"app", "in", "out"}
MCKind == [t \in MCTracks |-> CASE t = "app" -> "app"
                                [] t = "in" -> "mic"
                                [] t = "out" -> "render"]
MCChans == [t \in MCTracks |-> CASE t = "app" -> {}
                                 [] t = "in" -> {"i1"}
                                 [] t = "out" -> {"o1", "o2"}]
=============================================================================
