----------------------------- MODULE MCPipeline -----------------------------
(* A source with video and audio pads, a sink with one pad. *)
EXTENDS Pipeline

MCWords == << <<"src", "video", "0">>, <<"src", "video", "1">>, <<"src", "audio", "0">>,
              <<"sink", "0">>, <<"src", "video", "%u">>, <<"src", "audio", "%u">> >>
MCName == 1..6
MCWants == <<[src |-> 5, tgt |-> 4], [src |-> 6, tgt |-> 4]>>
MCAsks == [g \in {3} |-> 1]
=============================================================================
