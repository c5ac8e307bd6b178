--------------------------- MODULE MCKnowledgeSync ---------------------------
(***************************************************************************)
(* Small instances of KnowledgeSync for TLC.                                *)
(***************************************************************************)
EXTENDS KnowledgeSync

CONSTANTS t, u, a, b

\* A whole item, a new text alone and a new title alone: one after the other they
\* reach every content of two titles and two texts.
OneFieldBodies == {[title |-> t, text |-> a], [title |-> None, text |-> b], [title |-> u, text |-> None]}
=============================================================================
