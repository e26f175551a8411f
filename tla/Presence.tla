------------------------------- MODULE Presence -------------------------------
(***************************************************************************)
(* The presence key of ONE user, who has sockets on several gateways: set  *)
(* by every HELLO, set again by every gateway at intervals, deleted by the *)
(* gateway that has lost its last socket of the user, and gone by itself   *)
(* when nobody sets it (lib/core/gateway.js, lib/server.js, server.js).    *)
(* Sends look at this key to decide whether a message is queued.           *)
(*                                                                         *)
(* A tick is the 20 seconds of the interval.  The commands of a gateway    *)
(* are executed in their order, those of two gateways in any.  A socket    *)
(* that closes while the token of its HELLO is verified leaves its session *)
(* in byUser when the HELLO goes on, and nothing takes it out again.       *)
(***************************************************************************)
EXTENDS Integers, Sequences

CONSTANTS
    Gateways,
    Sessions,
    Home,          \* the gateway a session connects to
    Lifetime,      \* EX 60, in ticks
    MaxCrashes     \* bound of the model

\* What the parameters have to be; the module that instantiates this one assumes it.
PresenceAssumption ==
    /\ Home \in [Sessions -> Gateways]
    /\ Lifetime \in Nat \ {0} /\ MaxCrashes \in Nat

VARIABLES
    socket,        \* per session: "new", "open", "lost" (unnoticed) or "closed"
    verifying,     \* the sessions whose HELLO awaits the verifier
    early,         \* history: the sockets that closed meanwhile
    byUser,        \* the user's sessions on the gateways that run
    commands,      \* per gateway: SET and DEL on their way to Redis
    refreshed,     \* the gateways whose interval has fired since the last tick
    key,           \* Redis: the ticks presence:{uid} has left, 0 if it is absent
    alive,         \* the gateways that run
    crashes

sessionVars == <<socket, verifying, early, byUser>>
vars == <<sessionVars, commands, refreshed, key, alive, crashes>>

Init ==
    /\ socket = [s \in Sessions |-> "new"] /\ verifying = {} /\ early = {} /\ byUser = {}
    /\ commands = [g \in Gateways |-> << >>]
    /\ refreshed = {} /\ key = 0 /\ alive = Gateways /\ crashes = 0

At(g) == {s \in byUser : Home[s] = g}

Issue(g, command) == commands' = [commands EXCEPT ![g] = Append(@, command)]

\* A socket connects and sends its HELLO: await this.auth(deviceId, token).
Hello(s) ==
    /\ socket[s] = "new" /\ Home[s] \in alive
    /\ socket' = [socket EXCEPT ![s] = "open"]
    /\ verifying' = verifying \cup {s}
    /\ UNCHANGED <<early, byUser, commands, refreshed, key, alive, crashes>>

\* The rest of _onHello, whether the socket is still open or not.
Verified(s) ==
    /\ s \in verifying
    /\ verifying' = verifying \ {s}
    /\ byUser' = byUser \cup {s}
    /\ Issue(Home[s], "set")
    /\ UNCHANGED <<socket, early, refreshed, key, alive, crashes>>

\* The client is cut off: no close, no pong.
Lose(s) ==
    /\ socket[s] = "open"
    /\ socket' = [socket EXCEPT ![s] = "lost"]
    /\ UNCHANGED <<verifying, early, byUser, commands, refreshed, key, alive, crashes>>

\* _onClose, which finds no user of a session that is not verified; a lost socket is
\* terminated by _reap.
Close(s) ==
    /\ socket[s] \in {"open", "lost"}
    /\ socket' = [socket EXCEPT ![s] = "closed"]
    /\ early' = early \cup ({s} \cap verifying)
    /\ byUser' = byUser \ {s}
    /\ IF At(Home[s]) = {s} THEN Issue(Home[s], "del") ELSE UNCHANGED commands
    /\ UNCHANGED <<verifying, refreshed, key, alive, crashes>>

Reap(s) == socket[s] = "lost" /\ Close(s)

\* Mutant of Refresh: the interval does not look at byUser.
RefreshAlways(g) ==
    /\ g \in alive \ refreshed
    /\ refreshed' = refreshed \cup {g}
    /\ Issue(g, "set")
    /\ UNCHANGED <<sessionVars, key, alive, crashes>>

\* for (const uid of gw.byUser.keys()) redis.set(..)
Refresh(g) ==
    /\ g \in alive \ refreshed
    /\ refreshed' = refreshed \cup {g}
    /\ IF At(g) # {} THEN Issue(g, "set") ELSE UNCHANGED commands
    /\ UNCHANGED <<sessionVars, key, alive, crashes>>

Redis(g) ==
    /\ commands[g] # << >>
    /\ commands' = [commands EXCEPT ![g] = Tail(@)]
    /\ key' = IF Head(commands[g]) = "set" THEN Lifetime ELSE 0
    /\ UNCHANGED <<sessionVars, refreshed, alive, crashes>>

\* A process ends, with its sockets, its tables and what it has not sent.
Crash(g) ==
    /\ g \in alive /\ crashes < MaxCrashes /\ crashes' = crashes + 1
    /\ alive' = alive \ {g}
    /\ byUser' = byUser \ At(g)
    /\ verifying' = {s \in verifying : Home[s] # g}
    /\ socket' = [s \in Sessions |-> IF Home[s] = g /\ socket[s] # "new" THEN "closed" ELSE socket[s]]
    /\ commands' = [commands EXCEPT ![g] = << >>]
    /\ UNCHANGED <<early, refreshed, key>>

\* The intervals have fired and Redis has kept up with them.
Tick ==
    /\ alive \subseteq refreshed /\ \A g \in Gateways : commands[g] = << >>
    /\ refreshed' = {}
    /\ key' = IF key > 0 THEN key - 1 ELSE 0
    /\ UNCHANGED <<sessionVars, commands, alive, crashes>>

Next ==
    \/ \E s \in Sessions : Hello(s) \/ Verified(s) \/ Lose(s) \/ Close(s)
    \/ \E g \in Gateways : Refresh(g) \/ Redis(g) \/ Crash(g)
    \/ Tick

\* Time passes, intervals fire, Redis and the verifier answer and dead sockets are reaped.
Fairness ==
    /\ WF_vars(Tick)
    /\ \A g \in Gateways : WF_vars(Refresh(g)) /\ WF_vars(Redis(g))
    /\ \A s \in Sessions : WF_vars(Reap(s)) /\ WF_vars(Verified(s))

Spec == Init /\ [][Next]_vars /\ Fairness

Connected == \E s \in Sessions : socket[s] = "open"

\* A socket closed before its HELLO was through, on a gateway that still runs.
Haunted == \E s \in early : Home[s] \in alive

\* The key follows the sockets: when the last of the sockets has connected or gone, it is
\* there for good if one is left - although the gateway of another one has deleted it - and
\* absent for good if none is, although the gateway that held one may have crashed
\* (lib/core/gateway.js:114-118, 269-278, lib/server.js:48-52, server.js:234-236).  A socket
\* that closed too early counts like one that is left, until its gateway ends.
PresenceFollows == <>[](Connected \/ Haunted <=> key > 0)
=============================================================================
