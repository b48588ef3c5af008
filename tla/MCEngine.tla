------------------------------ MODULE MCEngine ------------------------------
(* Engine for TLC: two pieces, both wanted or only one of them.               *)
EXTENDS Engine

CONSTANTS p1, p2
MCPieces == {p1, p2}
MCTorrents ==
  {[selected |-> {p1, p2}, split |-> TRUE, v2 |-> FALSE],
   [selected |-> {p1}, split |-> FALSE, v2 |-> FALSE],
   [selected |-> {p1, p2}, split |-> TRUE, v2 |-> TRUE],
   [selected |-> {p1, p2}, split |-> FALSE, v2 |-> TRUE]}

(* Verified pieces do not stay out of the resume file for ever, and an engine *)
(* that has the selected pieces finishes the torrent or ends.                 *)
EngineProceeds == CheckpointHappens /\ CompletionHappens
=============================================================================
