--------------------------- MODULE MCPipelineRun ---------------------------
(***************************************************************************)
(* A small instance of PipelineRun for TLC: a submission and a resume, two  *)
(* attempts of each, two chats, and an analyst that may fail or answer       *)
(* nothing, which the nodes after it feel.                                  *)
(***************************************************************************)
EXTENDS PipelineRun, TLC

UnsureAnalyst == {analyst}

\* No channel, or both.
AllOrNothing == {{}, Requested}

\* The chats differ in name only.
ChatSymmetry == Permutations(Chats)
=============================================================================
