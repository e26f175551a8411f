------------------------------ MODULE Reconnect ------------------------------
(***************************************************************************)
(* How the messages of one conversation reach ONE member, a client that    *)
(* connects, loses its connection and connects again: live broadcast,      *)
(* replay on HELLO, the HTTP backfill of a large gap, and the inbox of     *)
(* messages sent while it was away (lib/core/gateway.js, lib/core/engine.js, *)
(* SyncClient.js).                                                         *)
(*                                                                         *)
(* A message is its sequence number.  Writers are the handlers of other    *)
(* members' sends, each between two awaits; a connection of the client is  *)
(* a session.  Connections end without the server noticing at once, and    *)
(* the handler of a HELLO runs on when its socket is gone.  The gateway is *)
(* subscribed to the channel for as long as a session is interested in it, *)
(* and SUBSCRIBE takes its time (lib/fanout.js).  The stores keep their    *)
(* data and replay finds every stored message above the cursor             *)
(* (ConversationLog shows when it does not).                               *)
(***************************************************************************)
EXTENDS Integers, Sequences, FiniteSets

CONSTANTS
    Writers,
    MaxSessions,   \* bound of the model: connections the client makes, one after another
    LiveMax,       \* LIVE_MAX: the largest gap that is replayed over the socket
    MaxMessages    \* bound of the model

ASSUME ReconnectAssumption ==
    MaxSessions \in Nat /\ LiveMax \in Nat /\ MaxMessages \in Nat

Connections == 1..MaxSessions

VARIABLES
    counter,       \* Redis: conv:{id}:seq
    stored,        \* Mongo: the numbers of the stored messages
    writer,        \* per writer: where its _onSend is, and its number
    sock,          \* per session: "new", "open", "lost" (unnoticed) or "closed"
    greeting,      \* per session: where _onHello is
    cursor,        \* per session: the cursor its HELLO carried
    read,          \* per session: what _replay has read and will send
    targets,       \* convIndex: the client's sessions a broadcast is delivered to
    neighbour,     \* another member's session on the gateway: "away", "here" or "gone"
    subQueue,      \* SUBSCRIBE and UNSUBSCRIBE on their way to Redis, in order
    listening,     \* Redis: is the gateway subscribed to the channel
    presence,      \* Redis: the presence key of the member
    bus,           \* frames published and not yet delivered by the gateway
    inbox,         \* Redis: user:{id}:inbox
    down,          \* per session: frames on the socket
    have,          \* client: the messages it holds
    lastSeq,       \* client: conversation.lastSeq
    fetch,         \* client: _fetchGapViaHttp calls in progress, by cursor
    gaveUp,        \* history: the cursors of the calls that failed
    hasty,         \* history: sessions filed while a SUBSCRIBE of another was on its way
    unheard        \* history: messages published while the gateway was not subscribed

server == <<counter, stored, writer>>
sessions == <<sock, greeting, cursor, read, targets>>
subscription == <<neighbour, subQueue, listening, hasty>>
client == <<have, lastSeq, fetch, gaveUp>>
reconnectVars == <<server, sessions, subscription, presence, bus, unheard, inbox, down, client>>

Idle == [pc |-> "idle", n |-> 0]

Msg(n) == [type |-> "MSG", n |-> n]
SyncGap(from) == [type |-> "SYNC_GAP", n |-> from]

\* FanOut.interest has an entry for the conversation.  The index and the count change
\* together, so that the count is not a variable (GatewaySessions has both).
Interested == targets # {} \/ neighbour = "here"

Subscribe(who) == [op |-> "subscribe", by |-> who]
Unsubscribe == [op |-> "unsubscribe", by |-> 0]

\* The neighbour's place in `by`.
Neighbour == 0

Registered == {s \in Connections : sock[s] \in {"open", "lost"}}

\* Session.send: nothing is written to a socket that is known to be closed.
SendFrames(s, frames) ==
    down' = IF sock[s] = "open" THEN [down EXCEPT ![s] = @ \o frames] ELSE down

\* The messages above n, in their order.
Ascending(S) ==
    [i \in 1..Cardinality(S) |-> CHOOSE n \in S : Cardinality({m \in S : m <= n}) = i]

Frames(S) == [i \in 1..Cardinality(S) |-> Msg(Ascending(S)[i])]

Above(n) == {m \in stored : m > n}

ReconnectInit ==
    /\ counter = 0 /\ stored = {}
    /\ writer = [w \in Writers |-> Idle]
    /\ sock = [s \in Connections |-> "new"]
    /\ greeting = [s \in Connections |-> "none"]
    /\ cursor = [s \in Connections |-> 0]
    /\ read = [s \in Connections |-> {}]
    /\ targets = {} /\ presence = FALSE
    /\ neighbour = "away" /\ subQueue = << >> /\ listening = FALSE
    /\ hasty = {} /\ unheard = {}
    /\ bus = << >> /\ inbox = {}
    /\ down = [s \in Connections |-> << >>]
    /\ have = {} /\ lastSeq = 0 /\ fetch = {} /\ gaveUp = {}

-----------------------------------------------------------------------------
(***************************************************************************)
(* Another member sends: _onSend                                           *)
(***************************************************************************)

Alloc(w) ==
    /\ writer[w].pc = "idle" /\ counter < MaxMessages
    /\ counter' = counter + 1
    /\ writer' = [writer EXCEPT ![w] = [pc |-> "insert", n |-> counter + 1]]
    /\ UNCHANGED <<stored, sessions, subscription, presence, bus, unheard, inbox, down,
                   client>>

\* Mutant of Insert: a failed insert goes unnoticed.
InsertUnchecked(w) ==
    /\ writer[w].pc = "insert"
    /\ \E ok \in BOOLEAN : stored' = IF ok THEN stored \cup {writer[w].n} ELSE stored
    /\ writer' = [writer EXCEPT ![w].pc = "publish"]
    /\ UNCHANGED <<counter, sessions, subscription, presence, bus, unheard, inbox, down,
                   client>>

Insert(w) ==
    /\ writer[w].pc = "insert"
    /\ stored' = stored \cup {writer[w].n}
    /\ writer' = [writer EXCEPT ![w].pc = "publish"]
    /\ UNCHANGED <<counter, sessions, subscription, presence, bus, unheard, inbox, down,
                   client>>

\* fanout.publish: only a subscribed gateway hears it.
Publish(w) ==
    /\ writer[w].pc = "publish"
    /\ IF listening
       THEN bus' = Append(bus, writer[w].n) /\ UNCHANGED unheard
       ELSE unheard' = unheard \cup {writer[w].n} /\ UNCHANGED bus
    /\ writer' = [writer EXCEPT ![w].pc = "offline"]
    /\ UNCHANGED <<counter, stored, sessions, subscription, presence, inbox, down, client>>

\* queueOffline: xadd to the inbox of a member without a presence key.
QueueOffline(w) ==
    /\ writer[w].pc = "offline"
    /\ inbox' = IF presence THEN inbox ELSE inbox \cup {writer[w].n}
    /\ writer' = [writer EXCEPT ![w] = Idle]
    /\ UNCHANGED <<counter, stored, sessions, subscription, presence, bus, unheard, down,
                   client>>

\* deliverLocal
Deliver ==
    /\ bus # << >>
    /\ bus' = Tail(bus)
    /\ down' = [s \in Connections |-> IF s \in targets /\ sock[s] = "open"
                                   THEN Append(down[s], Msg(Head(bus))) ELSE down[s]]
    /\ UNCHANGED <<server, sessions, subscription, presence, unheard, inbox, client>>

-----------------------------------------------------------------------------
(***************************************************************************)
(* The client connects: _onHello, from the moment the token is verified    *)
(***************************************************************************)

Current == {s \in Connections : sock[s] = "open"}

\* byUser and the presence key are set; the HELLO carries the client's cursor.
ClientConnects(s) ==
    /\ Current = {} /\ sock[s] = "new"
    /\ \A r \in Connections : r < s => sock[r] # "new"
    /\ sock' = [sock EXCEPT ![s] = "open"]
    /\ greeting' = [greeting EXCEPT ![s] = "attach"]
    /\ cursor' = [cursor EXCEPT ![s] = lastSeq]
    /\ presence' = TRUE
    /\ UNCHANGED <<server, read, targets, subscription, bus, unheard, inbox, down, client>>

\* Mutant of HelloIndex: addInterest is called without an await.
HelloIndexUnawaited(s) ==
    /\ greeting[s] = "attach"
    /\ targets' = targets \cup {s}
    /\ greeting' = [greeting EXCEPT ![s] = "gap"]
    /\ subQueue' = IF Interested THEN subQueue ELSE Append(subQueue, Subscribe(s))
    /\ hasty' = IF Interested /\ subQueue # << >> THEN hasty \cup {s} ELSE hasty
    /\ UNCHANGED <<server, sock, cursor, read, neighbour, listening, presence, bus, unheard,
                   inbox, down, client>>

\* _indexAdd and `await fanout.addInterest(convId)`: the first one interested sends
\* SUBSCRIBE and waits for it; the others go on at once, even if it is still on its way.
HelloIndex(s) ==
    /\ greeting[s] = "attach"
    /\ targets' = targets \cup {s}
    /\ IF Interested
       THEN /\ greeting' = [greeting EXCEPT ![s] = "gap"]
            /\ hasty' = IF subQueue # << >> THEN hasty \cup {s} ELSE hasty
            /\ UNCHANGED subQueue
       ELSE /\ greeting' = [greeting EXCEPT ![s] = "subscribing"]
            /\ subQueue' = Append(subQueue, Subscribe(s))
            /\ UNCHANGED hasty
    /\ UNCHANGED <<server, sock, cursor, read, neighbour, listening, presence, bus, unheard,
                   inbox, down, client>>

\* Redis executes the next command; the handler that waits for it goes on.
RedisExecutes ==
    /\ subQueue # << >>
    /\ listening' = (Head(subQueue).op = "subscribe")
    /\ greeting' = [s \in Connections |->
                       IF greeting[s] = "subscribing" /\ Head(subQueue) = Subscribe(s)
                       THEN "gap" ELSE greeting[s]]
    /\ subQueue' = Tail(subQueue)
    /\ UNCHANGED <<server, sock, cursor, read, targets, neighbour, hasty, presence, bus,
                   unheard, inbox, down, client>>

\* A session of another member of the conversation is filed on this gateway, and leaves.
NeighbourComes ==
    /\ neighbour = "away"
    /\ neighbour' = "here"
    /\ subQueue' = IF Interested THEN subQueue ELSE Append(subQueue, Subscribe(Neighbour))
    /\ UNCHANGED <<server, sessions, listening, hasty, presence, bus, unheard, inbox, down,
                   client>>

NeighbourLeaves ==
    /\ neighbour = "here"
    /\ neighbour' = "gone"
    /\ subQueue' = IF targets = {} THEN Append(subQueue, Unsubscribe) ELSE subQueue
    /\ UNCHANGED <<server, sessions, listening, hasty, presence, bus, unheard, inbox, down,
                   client>>

\* Mutant of HelloGap: one message above the cursor is taken for none.
HelloGapOffByOne(s) ==
    /\ greeting[s] = "gap"
    /\ greeting' = [greeting EXCEPT ![s] =
                    IF counter <= cursor[s] + 1 \/ counter - cursor[s] > LiveMax
                    THEN "drain" ELSE "replay"]
    /\ IF counter - cursor[s] > LiveMax
       THEN SendFrames(s, <<SyncGap(cursor[s])>>)
       ELSE UNCHANGED down
    /\ UNCHANGED <<server, sock, cursor, read, targets, subscription, presence, bus, unheard,
                   inbox, client>>

\* onHello reads the counter: nothing to do, SYNC_GAP, or replay.
HelloGap(s) ==
    /\ greeting[s] = "gap"
    /\ greeting' = [greeting EXCEPT ![s] =
                    IF counter <= cursor[s] \/ counter - cursor[s] > LiveMax
                    THEN "drain" ELSE "replay"]
    /\ IF counter - cursor[s] > LiveMax
       THEN SendFrames(s, <<SyncGap(cursor[s])>>)
       ELSE UNCHANGED down
    /\ UNCHANGED <<server, sock, cursor, read, targets, subscription, presence, bus, unheard,
                   inbox, client>>

\* _replay: read what is stored above the cursor ...
HelloRead(s) ==
    /\ greeting[s] = "replay"
    /\ read' = [read EXCEPT ![s] = IF sock[s] = "open" THEN Above(cursor[s]) ELSE {}]
    /\ greeting' = [greeting EXCEPT ![s] = "send"]
    /\ UNCHANGED <<server, sock, cursor, targets, subscription, presence, bus, unheard, inbox,
                   down, client>>

\* ... and send it, when the answer is there.
HelloReplay(s) ==
    /\ greeting[s] = "send"
    /\ SendFrames(s, Frames(read[s]))
    /\ read' = [read EXCEPT ![s] = {}]
    /\ greeting' = [greeting EXCEPT ![s] = "drain"]
    /\ UNCHANGED <<server, sock, cursor, targets, subscription, presence, bus, unheard, inbox,
                   client>>

\* drainInbox: xrange and the sends.
HelloDrain(s) ==
    /\ greeting[s] = "drain"
    /\ SendFrames(s, Frames(inbox))
    /\ greeting' = [greeting EXCEPT ![s] = IF inbox = {} THEN "done" ELSE "trim"]
    /\ UNCHANGED <<server, sock, cursor, read, targets, subscription, presence, bus, unheard,
                   inbox, client>>

\* await redis.xtrim(key, 'MAXLEN', 0), whatever the sends returned.
HelloTrim(s) ==
    /\ greeting[s] = "trim"
    /\ inbox' = {}
    /\ greeting' = [greeting EXCEPT ![s] = "done"]
    /\ UNCHANGED <<server, sock, cursor, read, targets, subscription, presence, bus, unheard,
                   down, client>>

\* The connection breaks: what is on the wire is lost, and so is what is sent to it.
Drop(s) ==
    /\ sock[s] = "open"
    /\ sock' = [sock EXCEPT ![s] = "lost"]
    /\ down' = [down EXCEPT ![s] = << >>]
    /\ read' = [read EXCEPT ![s] = {}]
    /\ UNCHANGED <<server, greeting, cursor, targets, subscription, presence, bus, unheard,
                   inbox, client>>

\* Mutant of ConnectionCloses: the close of one session forgets the user's other session.
CloseUser(s) ==
    /\ sock[s] = "lost"
    /\ sock' = [sock EXCEPT ![s] = "closed"]
    /\ targets' = {}
    /\ subQueue' = IF targets # {} /\ neighbour # "here"
                   THEN Append(subQueue, Unsubscribe) ELSE subQueue
    /\ presence' = FALSE
    /\ UNCHANGED <<server, greeting, cursor, read, neighbour, listening, hasty, bus, unheard,
                   inbox, down, client>>

\* The gateway notices: _onClose.
ConnectionCloses(s) ==
    /\ sock[s] = "lost"
    /\ sock' = [sock EXCEPT ![s] = "closed"]
    /\ targets' = targets \ {s}
    /\ subQueue' = IF targets = {s} /\ neighbour # "here"
                   THEN Append(subQueue, Unsubscribe) ELSE subQueue
    /\ presence' = (presence /\ Registered # {s})
    /\ UNCHANGED <<server, greeting, cursor, read, neighbour, listening, hasty, bus, unheard,
                   inbox, down, client>>

-----------------------------------------------------------------------------
(***************************************************************************)
(* The client reads its socket                                             *)
(***************************************************************************)

\* _insertMsg, then _upsertConv(convId, { lastSeq: seq }).
ClientMsg(s) ==
    /\ down[s] # << >> /\ Head(down[s]).type = "MSG"
    /\ have' = have \cup {Head(down[s]).n}
    /\ lastSeq' = Head(down[s]).n
    /\ down' = [down EXCEPT ![s] = Tail(@)]
    /\ UNCHANGED <<server, sessions, subscription, presence, bus, unheard, inbox, fetch,
                   gaveUp>>

ClientGap(s) ==
    /\ down[s] # << >> /\ Head(down[s]).type = "SYNC_GAP"
    /\ fetch' = fetch \cup {Head(down[s]).n}
    /\ down' = [down EXCEPT ![s] = Tail(@)]
    /\ UNCHANGED <<server, sessions, subscription, presence, bus, unheard, inbox, have,
                   lastSeq, gaveUp>>

\* The answers are inserted one by one; lastSeq stays as it is.
FetchAnswered(from) ==
    /\ from \in fetch
    /\ have' = have \cup Above(from)
    /\ fetch' = fetch \ {from}
    /\ UNCHANGED <<server, sessions, subscription, presence, bus, unheard, inbox, down,
                   lastSeq, gaveUp>>

\* `gap fetch failed`: logged, not repeated.
FetchFailed(from) ==
    /\ from \in fetch
    /\ fetch' = fetch \ {from}
    /\ gaveUp' = gaveUp \cup {from}
    /\ UNCHANGED <<server, sessions, subscription, presence, bus, unheard, inbox, down, have,
                   lastSeq>>

-----------------------------------------------------------------------------
Write(w) == Alloc(w) \/ Insert(w) \/ Publish(w) \/ QueueOffline(w)

Hello(s) ==
    \/ HelloIndex(s) \/ HelloGap(s) \/ HelloRead(s)
    \/ HelloReplay(s) \/ HelloDrain(s) \/ HelloTrim(s)

Receive(s) == ClientMsg(s) \/ ClientGap(s)

Fetched == \E from \in fetch : FetchAnswered(from)

ReconnectNext ==
    \/ \E w \in Writers : Write(w)
    \/ Deliver
    \/ RedisExecutes \/ NeighbourComes \/ NeighbourLeaves
    \/ \E s \in Connections : \/ ClientConnects(s) \/ Hello(s) \/ Receive(s)
                             \/ Drop(s) \/ ConnectionCloses(s)
    \/ Fetched
    \/ \E from \in fetch : FetchFailed(from)

ReconnectSpec == ReconnectInit /\ [][ReconnectNext]_reconnectVars

-----------------------------------------------------------------------------
(***************************************************************************)
(* Properties                                                              *)
(***************************************************************************)

\* Types of the variables.
ReconnectTypeOK ==
    /\ counter \in 0..MaxMessages
    /\ stored \subseteq 1..MaxMessages
    /\ writer \in [Writers -> [pc : {"idle", "insert", "publish", "offline"}, n : 0..MaxMessages]]
    /\ sock \in [Connections -> {"new", "open", "lost", "closed"}]
    /\ greeting \in [Connections -> {"none", "attach", "subscribing", "gap", "replay", "send",
                                    "drain", "trim", "done"}]
    /\ cursor \in [Connections -> 0..MaxMessages]
    /\ read \in [Connections -> SUBSET stored]
    /\ targets \subseteq Connections /\ hasty \subseteq Connections
    /\ neighbour \in {"away", "here", "gone"}
    /\ subQueue \in Seq([op : {"subscribe", "unsubscribe"}, by : Nat])
    /\ listening \in BOOLEAN
    /\ unheard \subseteq stored
    /\ presence \in BOOLEAN
    /\ bus \in Seq(1..MaxMessages)
    /\ inbox \subseteq stored
    /\ down \in [Connections -> Seq([type : {"MSG", "SYNC_GAP"}, n : 0..MaxMessages])]
    /\ have \subseteq stored
    /\ lastSeq \in 0..MaxMessages
    /\ fetch \cup gaveUp \subseteq 0..MaxMessages

\* Where message n still is, for the client of session s.
OnItsWay(n, s) ==
    \/ \E w \in Writers : writer[w].n = n /\ writer[w].pc = "publish"
    \/ \E i \in 1..Len(bus) : bus[i] = n
    \/ \E i \in 1..Len(down[s]) : LET f == down[s][i]
                                  IN  IF f.type = "MSG" THEN f.n = n ELSE f.n < n
    \/ \E from \in fetch \cup gaveUp : from < n

\* addInterest waits for SUBSCRIBE only where it sends it (lib/fanout.js:17-21).  A
\* session that was filed while the SUBSCRIBE of another one was under way may have
\* read the stores before it was executed, and a message stored after that read and
\* published before the subscription reaches it by neither way.
Missed(s, n) == s \in hasty /\ n \in unheard

\* While a connection lasts, everything above the cursor of its HELLO is with
\* the client or on its way there: replay and live broadcast leave no message
\* between them, however sends overlap with the HELLO, with SUBSCRIBE and
\* UNSUBSCRIBE and with other sessions, because interest is registered before the
\* counter and the stores are read (lib/core/gateway.js:127-134).  The exceptions
\* are a failed backfill and what a hasty session misses.
NoGapWhileConnected ==
    \A s \in Connections :
        sock[s] = "open" /\ greeting[s] \in {"drain", "trim", "done"} =>
            \A n \in Above(cursor[s]) : n \in have \/ OnItsWay(n, s) \/ Missed(s, n)

\* The connection is up and its HELLO has been handled.
Settled(s) == sock[s] = "open" /\ greeting[s] = "done"

\* README.md:52-53: "on reconnect drainInbox + onHello gap-fill bring them fully
\* up to date": with a session that is through its HELLO and was not hasty, nothing
\* under way and no failed request, the client holds every stored message.
FullyUpToDate ==
    \A s \in Connections :
        Settled(s) /\ s \notin hasty /\ bus = << >> /\ down[s] = << >> /\ fetch \cup gaveUp = {}
            /\ (\A w \in Writers : writer[w].pc \in {"idle", "insert"})
                => stored \subseteq have

\* A message above the cursor of a settled session reaches the client, unless the
\* connection breaks, the HTTP request that was to bring it failed or a hasty
\* session missed it (lib/core/gateway.js:222-226, SyncClient.js:936-982).
LiveMessagesArrive ==
    \A n \in 1..MaxMessages, s \in Connections :
        (n \in stored /\ n > cursor[s] /\ Settled(s))
            ~> (n \in have \/ sock[s] # "open" \/ Missed(s, n) \/ \E from \in gaveUp : from < n)
=============================================================================
