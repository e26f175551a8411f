--------------------------- MODULE MCConversationLog ---------------------------
(* Instances of ConversationLog for TLC. *)
EXTENDS ConversationLog, TLC

CONSTANTS g1, g2, t1, t2

\* All request slots on one node.
OneHome == [t \in Tasks |-> CHOOSE g \in Gateways : TRUE]

\* One slot on a node of its own.
TwoHomes == [t \in Tasks |-> IF t = t1 THEN g1 ELSE g2]

\* ULIDs are compared for equality only.
Symmetry == Permutations(Messages)
=============================================================================
