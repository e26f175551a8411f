------------------------------ MODULE MCLiveness ------------------------------
(***************************************************************************)
(* What must happen in the end, for TLC: a send is answered (Conversation- *)
(* Log), a message reaches a connected client (Reconnect), what is due is  *)
(* swept (Disappearing), a client comes back (Connection), the signs of    *)
(* typing and presence follow what they stand for (Typing, Presence).  A   *)
(* behaviour is about the one that `scenario` names, and only its steps    *)
(* are fair.  Connection's constants come from the cfg.                    *)
(***************************************************************************)
EXTENDS Connection

VARIABLES
    scenario,
    counter, stored, content, score, hash, task, node, found, acked, published,
    ops, crashes, losses,
    top, inMongo, writer, socket, greeting, cursor, read, targets, neighbour, subQueue, listening,
    presence, bus, inbox, frames, have, lastSeq, fetch, gaveUp, hasty, unheard,
    doc, cache, due, job, request, edited, announced, fails, requests,
    stopper, keyFrames, signFrames, typing, cleanup, events, keys,
    attached, verifying, early, byUser, commands, refreshed, key, alive, outages

logVars == <<counter, stored, content, score, hash, task, node, found, acked, published,
             ops, crashes, losses>>
reconnectVars == <<top, inMongo, writer, socket, greeting, cursor, read, targets, neighbour,
                   subQueue, listening, presence, bus, inbox, frames, have, lastSeq, fetch, gaveUp,
                   hasty, unheard>>
sweepVars == <<doc, cache, due, job, request, edited, announced, fails, requests>>
typingVars == <<stopper, keyFrames, signFrames, typing, cleanup, events, keys>>
presenceVars ==
    <<attached, verifying, early, byUser, commands, refreshed, key, alive, outages>>
livenessVars == <<scenario, logVars, reconnectVars, sweepVars, vars, typingVars,
                  presenceVars>>

-----------------------------------------------------------------------------
(* Three messages, sent one SEND at a time each, on two nodes.  One node    *)
(* dies, and its restart rewinds the counter while the other one serves,   *)
(* or Redis loses its data.  A SEND is made again as long as it has no     *)
(* ACK, at most SendsNeeded in all: one for every message, one more for    *)
(* the crash, and two more for the rewind, after which the numbers of two  *)
(* stored messages are taken.  The texts are alike, and so are the nodes:  *)
(* their names follow the order in which they are first used.              *)

Slots == {"t1", "t2"}
Texts == {"m1", "m2", "m3"}
SendsNeeded == 6
Earlier == [m1 |-> 0, m2 |-> 1, m3 |-> 2]

Log == INSTANCE ConversationLog WITH
    Messages <- Texts, Events <- {}, Gateways <- {"g1", "g2"}, Tasks <- Slots,
    Home <- [t \in Slots |-> IF t = "t1" THEN "g1" ELSE "g2"], Kinds <- {"send"}, CacheMax <- 2,
    LiveMax <- 2, MaxOps <- SendsNeeded, MaxCrashes <- 1, MaxLosses <- 1

SendAgain(u) ==
    /\ ~Log!InFlight(u) /\ ~Log!Acknowledged(u)
    /\ ops >= Earlier[u]
    /\ \E t \in Slots : (ops = 0 => t = "t1") /\ Log!BeginSend(t, u)

LogNext ==
    \/ \E u \in Texts : SendAgain(u)
    \/ \E t \in Slots : Log!Step(t)
    \/ Log!Fail /\ crashes' + losses' <= 1

(* Messages while a client connects: twice for one message, or once for    *)
(* two of them, beside a session of another member that comes and goes.    *)

Clients == INSTANCE Reconnect WITH
    Writers <- {"w1"}, MaxSessions <- 2, LiveMax <- 1, MaxMessages <- 2,
    counter <- top, stored <- inMongo, sock <- socket, down <- frames

Connecting == scenario \in {"reconnect", "company"}

ClientBounds ==
    \/ scenario = "reconnect" /\ top' <= 1 /\ neighbour' = "away"
    \/ scenario = "company" /\ socket'[2] = "new"

(* Two messages with a ttl, two nodes that sweep and one sweep that fails. *)

Sweeps == INSTANCE Disappearing WITH
    Timed <- {"m1", "m2"}, Sweepers <- {"n1", "n2"}, Requests <- {"r1"},
    Kinds <- {"delete"}, MaxFails <- 1, MaxRequests <- 0,
    published <- announced

(* Two keys, in one conversation or two; signs last longer than a pause.   *)

Signs == INSTANCE Typing WITH
    Convs <- {"a", "b"}, StopAfter <- 1, Expiry <- 2, MaxKeys <- 2,
    up <- keyFrames, down <- signFrames

(* Two sockets of the user on one gateway, one on another; one may crash.  *)

Devices == {"d1", "d2", "d3"}
Online == INSTANCE Presence WITH
    Gateways <- {"g1", "g2"}, Sessions <- Devices,
    Home <- [s \in Devices |-> IF s = "d3" THEN "g2" ELSE "g1"],
    Lifetime <- 3, MaxCrashes <- 1, socket <- attached, crashes <- outages

ASSUME LivenessAssumption ==
    /\ Sweeps!DisappearingAssumption
    /\ Signs!TypingAssumption /\ Online!PresenceAssumption

-----------------------------------------------------------------------------

LivenessInit ==
    /\ scenario \in {"log", "reconnect", "company", "sweeps", "connection", "typing", "presence"}
    /\ Log!Init /\ Clients!ReconnectInit /\ Sweeps!SweepInit /\ Init /\ Signs!Init /\ Online!Init
    /\ scenario = "sweeps" \/ cache = [m \in {"m1", "m2"} |-> Sweeps!Fresh]

LivenessNext ==
    /\ UNCHANGED scenario
    /\ \/ scenario = "log" /\ LogNext
       \/ scenario # "log" /\ UNCHANGED logVars
    /\ \/ Clients!ReconnectNext /\ ClientBounds
       \/ ~Connecting /\ UNCHANGED reconnectVars
    /\ \/ scenario = "sweeps" /\ Sweeps!SweepNext
       \/ scenario # "sweeps" /\ UNCHANGED sweepVars
    /\ \/ scenario = "connection" /\ Next
       \/ scenario # "connection" /\ UNCHANGED vars
    /\ \/ scenario = "typing" /\ Signs!Next
       \/ scenario # "typing" /\ UNCHANGED typingVars
    /\ \/ scenario = "presence" /\ Online!Next
       \/ scenario # "presence" /\ UNCHANGED presenceVars

\* A handler that has started runs on while its node does: every await is answered.  A client
\* that has no ACK connects again, to a node that is up, and sends what its queue holds.
LogFairness ==
    /\ \A t \in Slots : WF_logVars(scenario = "log" /\ Log!Step(t))
    /\ \A u \in Texts : WF_logVars(scenario = "log" /\ SendAgain(u))

\* Handlers run on, Redis and the socket deliver, HTTP requests are answered.
\* Connections need not be made, and may break.
ReconnectFairness ==
    /\ WF_reconnectVars(Connecting /\ Clients!Deliver)
    /\ WF_reconnectVars(Connecting /\ Clients!RedisExecutes)
    /\ WF_reconnectVars(Connecting /\ Clients!Fetched)
    /\ WF_reconnectVars(Connecting /\
           (Clients!Insert("w1") \/ Clients!Publish("w1") \/ Clients!QueueOffline("w1")))
    /\ \A s \in 1..2 :
          /\ WF_reconnectVars(Connecting /\ Clients!Hello(s))
          /\ WF_reconnectVars(Connecting /\ Clients!Receive(s))
          /\ WF_reconnectVars(Connecting /\ Clients!ConnectionCloses(s))

\* The interval keeps firing while the node runs, and an await comes back.
SweepFairness == \A s \in {"n1", "n2"} : WF_sweepVars(scenario = "sweeps" /\ Sweeps!Sweep(s))

\* Timers fire, sockets that are not cut off open and close, promises are settled and
\* frames on an open socket are served in their turn.
ConnectionFairness ==
    /\ WF_vars(scenario = "connection" /\ Start)
    /\ WF_vars(scenario = "connection" /\ TimerFires)
    /\ WF_vars(scenario = "connection" /\ Opens)
    /\ WF_vars(scenario = "connection" /\ TokenArrives)
    /\ WF_vars(scenario = "connection" /\ Closes)
    /\ WF_vars(scenario = "connection" /\ Hear)
    /\ WF_vars(scenario = "connection" /\ Verify)
    /\ WF_vars(scenario = "connection" /\ (ServeHello \/ ServeSend))

\* Time passes, and the timers that are due fire.
TypingFairness ==
    /\ WF_typingVars(scenario = "typing" /\ Signs!Tick)
    /\ \A c \in {"a", "b"} : WF_typingVars(scenario = "typing" /\ Signs!CleanupFires(c))

\* Time passes, intervals fire, Redis and the verifier answer and dead sockets are reaped.
PresenceFairness ==
    /\ WF_presenceVars(scenario = "presence" /\ Online!Tick)
    /\ \A g \in {"g1", "g2"} :
          /\ WF_presenceVars(scenario = "presence" /\ Online!Refresh(g))
          /\ WF_presenceVars(scenario = "presence" /\ Online!Redis(g))
    /\ \A s \in Devices :
          /\ WF_presenceVars(scenario = "presence" /\ Online!Reap(s))
          /\ WF_presenceVars(scenario = "presence" /\ Online!Verified(s))

LivenessSpec ==
    /\ LivenessInit /\ [][LivenessNext]_livenessVars
    /\ LogFairness /\ ReconnectFairness /\ SweepFairness /\ ConnectionFairness
    /\ TypingFairness /\ PresenceFairness

-----------------------------------------------------------------------------
(* The properties; what each says stands in its module, as it does for     *)
(* OneConnection and ComesBack.                                            *)

\* A SEND that is repeated until its ACK has come gets one, whatever crash, loss and rewound
\* counter come between (lib/core/storage.js:56-78, 239).
SendAnswered == Log!SendAnswered

\* A message above the cursor of a settled session reaches the client, unless the
\* connection breaks or the backfill fails (lib/core/gateway.js:222-226).
LiveMessagesArrive == Clients!LiveMessagesArrive

\* A message whose time has run out becomes a tombstone (lib/disappearing/storage.js:11-26).
DueIsSwept == Sweeps!DueIsSwept

\* A sign that somebody types does not stay (SyncClient.js:425-447, 736-747), and the
\* presence key follows the sockets, and those that closed too early
\* (lib/core/gateway.js:114-118, 269-278).
SignsFollow == Signs!TypingEnds /\ Online!PresenceFollows

=============================================================================
