----------------------------- MODULE OrderedLog -----------------------------
(***************************************************************************)
(* What the message store promises of one conversation, without handlers,  *)
(* cache or counter: every message is accepted at most once under a number *)
(* no other message has, keeps it for ever, is acknowledged with that very *)
(* number however often it is sent, and is broadcast at most once.         *)
(*                                                                         *)
(* ConversationLog is shown to implement this specification.               *)
(***************************************************************************)
EXTENDS Naturals

CONSTANT Ulids           \* the messages and the group events

VARIABLES
    log,                 \* the number of every accepted entry; 0: not accepted
    acknowledged,        \* the pairs <<ulid, number>> the senders were told
    broadcast            \* the entries members were told of

vars == <<log, acknowledged, broadcast>>

Init ==
    /\ log = [u \in Ulids |-> 0]
    /\ acknowledged = {}
    /\ broadcast = {}

\* Any free number will do: numbers are drawn before the entry is stored, so
\* entries can be accepted out of the order of their numbers.
Accept(u) ==
    /\ log[u] = 0
    /\ log'[u] \in Nat \ {0}
    /\ \A v \in Ulids : log[v] # log'[u]
    /\ log' = [log EXCEPT ![u] = log'[u]]
    /\ UNCHANGED <<acknowledged, broadcast>>

Acknowledge(u) ==
    /\ log[u] # 0
    /\ acknowledged' = acknowledged \cup {<<u, log[u]>>}
    /\ UNCHANGED <<log, broadcast>>

Broadcast(u) ==
    /\ log[u] # 0
    /\ u \notin broadcast
    /\ broadcast' = broadcast \cup {u}
    /\ UNCHANGED <<log, acknowledged>>

Next == \E u \in Ulids : Accept(u) \/ Acknowledge(u) \/ Broadcast(u)

Spec == Init /\ [][Next]_vars
=============================================================================
