----------------------------- MODULE MCRagAnswer -----------------------------
(***************************************************************************)
(* RagAnswer for TLC: a matches the query, b has lost its row, c has no     *)
(* point, and the payload of a is stale.                                    *)
(***************************************************************************)
EXTENDS RagAnswer, TLC

CONSTANTS a, b, c, k, l

MCPointKind == a :> k @@ b :> l
MCRowKind == a :> l @@ c :> k
=============================================================================
