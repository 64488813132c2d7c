-------------------------- MODULE MCSerialization --------------------------
(***************************************************************************)
(* Small instances of Serialization.                                       *)
(***************************************************************************)
EXTENDS Serialization

CONSTANTS a1, a2, b2, b1, v1, v2

\* Two commands of each vdev.
MCVdevOf == [c \in Cmds |-> IF c \in {b1, b2} THEN v2 ELSE v1]

\* A command is cancelled wherever it is, or all active ones of a vdev are.
CancelOne(c) == [sel |-> {c}, all |-> FALSE, queues |-> <<TRUE, FALSE>>,
                 closed |-> FALSE]
CancelActive(v) == [sel |-> {c \in Cmds : VdevOf[c] = v}, all |-> TRUE,
                    queues |-> <<TRUE>>, closed |-> FALSE]
MCScopes == {CancelOne(b1), CancelActive(v1)}
MCOneScope == {CancelOne(b1)}

Symmetry == Permutations(Nodes)
=============================================================================
