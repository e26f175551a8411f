--------------------------- MODULE ConversationLog ---------------------------
(***************************************************************************)
(* The life of ONE conversation in the two stores of the server: the Mongo *)
(* collection `messages` and the Redis keys conv:{id}:seq, conv:{id}:cache *)
(* and conv:{id}:cache:docs (lib/core/storage.js, lib/core/engine.js).     *)
(*                                                                         *)
(* Every request is a task that runs one await at a time; tasks of all     *)
(* gateways interleave.  A node can crash between any two awaits, Redis    *)
(* can lose its data, and a node that starts rewinds the counter to the    *)
(* highest stored number (_rebuildRedisIfNeeded, which always ends in      *)
(* rebuildSeq).  Sequence numbers are drawn one at a time (SEQ_WINDOW = 1, *)
(* the default); SeqCounter models larger windows.                         *)
(*                                                                         *)
(* A request the engine refuses (not a member, not the author, window      *)
(* expired, target missing) changes no state and is not a step here.       *)
(***************************************************************************)
EXTENDS Integers, Sequences, FiniteSets

CONSTANTS
    Messages,      \* ULIDs of the messages clients send, edit, delete
    Events,        \* ULIDs of group operations
    Gateways,
    Tasks,         \* slots for requests in flight
    Home,          \* the gateway each slot runs on
    Kinds,         \* the kinds of request of a run
    CacheMax,      \* CACHE_MAX: members the sorted set is trimmed to
    LiveMax,       \* LIVE_MAX: the largest gap that is replayed
    MaxOps,        \* bound of the model: requests started
    MaxCrashes,    \* bound of the model: node crashes
    MaxLosses      \* bound of the model: losses of the Redis data

ASSUME LogAssumption ==
    /\ Messages \cap Events = {}
    /\ Home \in [Tasks -> Gateways]
    /\ Kinds \subseteq {"send", "edit", "delete", "react", "group"}
    /\ CacheMax \in Nat \ {0}
    /\ LiveMax \in Nat
    /\ MaxOps \in Nat /\ MaxCrashes \in Nat /\ MaxLosses \in Nat

VARIABLES
    counter,       \* Redis: conv:{id}:seq
    stored,        \* Mongo: the `seq` of every document, 0 if there is none
    content,       \* Mongo: the fields of a document that can change
    score,         \* Redis: the sorted set, 0 for a ULID that is not in it
    hash,          \* Redis: the companion hash, ULID -> content
    task,          \* the requests in flight
    node,          \* per gateway: "up", "down" or "starting"
    found,         \* per starting gateway: the highest number it aggregated
    acked,         \* history: <<ulid, number>> of every ACK frame
    published,     \* history: the frames published, in the order of PUBLISH
    ops, crashes, losses

redisVars == <<counter, score, hash>>
mongoVars == <<stored, content>>
nodeVars  == <<node, found>>
bounds    == <<ops, crashes, losses>>
vars == <<redisVars, mongoVars, task, nodeVars, acked, published, bounds>>

Ulids == Messages \cup Events

NoText == -1

\* A text is identified by the number of the edit that wrote it, 0 for the
\* payload the message was sent with.
Original == [text |-> 0, editSeq |-> 0, deleteSeq |-> 0, reactSeq |-> 0]

Content == [text : Nat \cup {NoText}, editSeq : Nat, deleteSeq : Nat, reactSeq : Nat]

Idle == [pc |-> "idle", kind |-> "none", ulid |-> "none", seq |-> 0, copy |-> Original]

Deleted(c) == c.deleteSeq > 0

\* Mutant of Patched: the two values of a delete are swapped.
PatchedSwapped(c, kind, n) ==
    CASE kind = "edit"   -> [c EXCEPT !.text = n, !.editSeq = n]
      [] kind = "delete" -> [c EXCEPT !.text = n, !.deleteSeq = NoText]
      [] kind = "react"  -> [c EXCEPT !.reactSeq = n]

\* The fields an edit or a delete sets and unsets, in Mongo ($set, $unset) and
\* in the cached JSON (patchFields, unsetFields) alike.
Patched(c, kind, n) ==
    CASE kind = "edit"   -> [c EXCEPT !.text = n, !.editSeq = n]
      [] kind = "delete" -> [c EXCEPT !.text = NoText, !.deleteSeq = n]
      [] kind = "react"  -> [c EXCEPT !.reactSeq = n]

StoredSeqs == {stored[u] : u \in Ulids} \ {0}

IsHighest(n, S) == n \in S /\ \A m \in S : m <= n

\* 0 for the empty set.
Highest(S) == IF \E n \in S : IsHighest(n, S) THEN CHOOSE n \in S : IsHighest(n, S) ELSE 0

Init ==
    /\ counter = 0
    /\ stored = [u \in Ulids |-> 0]
    /\ content = [u \in Ulids |-> Original]
    /\ score = [u \in Ulids |-> 0]
    /\ hash = [u \in {} |-> Original]
    /\ task = [t \in Tasks |-> Idle]
    /\ node = [g \in Gateways |-> "up"]
    /\ found = [g \in Gateways |-> 0]
    /\ acked = {}
    /\ published = << >>
    /\ ops = 0 /\ crashes = 0 /\ losses = 0

-----------------------------------------------------------------------------
(***************************************************************************)
(* Requests arrive                                                         *)
(***************************************************************************)

Accepted(kind, u) ==
    [pc |-> "alloc", kind |-> kind, ulid |-> u, seq |-> 0, copy |-> Original]

Begin(t, kind, u) ==
    /\ kind \in Kinds
    /\ task[t].pc = "idle"
    /\ node[Home[t]] = "up"
    /\ ops < MaxOps
    /\ ops' = ops + 1
    /\ task' = [task EXCEPT ![t] = Accepted(kind, u)]
    /\ UNCHANGED <<redisVars, mongoVars, nodeVars, acked, published, crashes, losses>>

\* SEND, the first time or again: a client repeats it until it sees the ACK.
BeginSend(t, u) == u \in Messages /\ Begin(t, "send", u)

\* GROUP_OP, after the membership was changed.
BeginGroupEvent(t, u) == u \in Events /\ Begin(t, "group", u)

\* EDIT, DELETE and REACT once they have read their target: an edit wants one
\* that is not deleted, the others take any.
BeginEdit(t, u) ==
    /\ u \in Messages /\ stored[u] # 0
    /\ ~Deleted(content[u])
    /\ Begin(t, "edit", u)

BeginDelete(t, u) == u \in Messages /\ stored[u] # 0 /\ Begin(t, "delete", u)

BeginReact(t, u) == u \in Messages /\ stored[u] # 0 /\ Begin(t, "react", u)

-----------------------------------------------------------------------------
(***************************************************************************)
(* Requests in flight: one action per await                                *)
(***************************************************************************)

GoTo(t, pc) == task' = [task EXCEPT ![t].pc = pc]

Finish(t) == task' = [task EXCEPT ![t] = Idle]

AfterAlloc(kind) == IF kind \in {"send", "group"} THEN "insert" ELSE "update"

\* const seq = await this.seq(convId)
Alloc(t) ==
    /\ task[t].pc = "alloc"
    /\ counter' = counter + 1
    /\ task' = [task EXCEPT ![t].seq = counter + 1, ![t].pc = AfterAlloc(task[t].kind)]
    /\ UNCHANGED <<score, hash, mongoVars, nodeVars, acked, published, bounds>>

\* Mutants of Collides: the numbers are not unique; numbers are refused when a
\* higher one was stored first.
CollidesOnUlid(t) == stored[task[t].ulid] # 0

CollidesWhenLate(t) ==
    stored[task[t].ulid] # 0 \/ \E n \in StoredSeqs : task[t].seq <= n

\* Both unique indexes: _id and {convId, seq}.
Collides(t) == stored[task[t].ulid] # 0 \/ task[t].seq \in StoredSeqs

Store(t) ==
    /\ stored' = [stored EXCEPT ![task[t].ulid] = task[t].seq]
    /\ content' = [content EXCEPT ![task[t].ulid] = Original]

\* await this.col.insertOne(doc), accepted
Insert(t) ==
    /\ task[t].pc = "insert"
    /\ ~Collides(t)
    /\ Store(t)
    /\ GoTo(t, IF task[t].kind = "send" THEN "cache" ELSE "publish")
    /\ UNCHANGED <<redisVars, nodeVars, acked, published, bounds>>

\* Mutant of InsertRefused: ingest does not look the ULID up either.
InsertFails(t) ==
    /\ task[t].pc = "insert"
    /\ Collides(t)
    /\ Finish(t)
    /\ UNCHANGED <<redisVars, mongoVars, nodeVars, acked, published, bounds>>

\* insertOne fails with 11000.  ingest looks the ULID up; groupEvent has no
\* catch, and its request ends with an ERR frame.
InsertRefused(t) ==
    /\ task[t].pc = "insert"
    /\ Collides(t)
    /\ IF task[t].kind = "send" THEN GoTo(t, "lookup") ELSE Finish(t)
    /\ UNCHANGED <<redisVars, mongoVars, nodeVars, acked, published, bounds>>

\* const w = await this.col.findOne({ _id: ulid }): the earlier copy, whose
\* number is acknowledged.
Lookup(t) ==
    /\ task[t].pc = "lookup"
    /\ stored[task[t].ulid] # 0
    /\ task' = [task EXCEPT ![t].seq = stored[task[t].ulid], ![t].pc = "reack"]
    /\ UNCHANGED <<redisVars, mongoVars, nodeVars, acked, published, bounds>>

\* ... or null, when it was the number that collided: w.seq throws, ERR 500.
LookupNull(t) ==
    /\ task[t].pc = "lookup"
    /\ stored[task[t].ulid] = 0
    /\ Finish(t)
    /\ UNCHANGED <<redisVars, mongoVars, nodeVars, acked, published, bounds>>

\* Mutant of Trimmed: zremrangebyrank(key, 0, -CACHE_MAX).
TrimmedOneMore(sc) ==
    [u \in Ulids |-> IF Cardinality({v \in Ulids : sc[v] > sc[u]}) < CacheMax - 1
                     THEN sc[u] ELSE 0]

\* zremrangebyrank(key, 0, -(CACHE_MAX + 1)) keeps the CacheMax highest.
Trimmed(sc) ==
    [u \in Ulids |-> IF Cardinality({v \in Ulids : sc[v] > sc[u]}) < CacheMax
                     THEN sc[u] ELSE 0]

\* Mutant of CacheMsg: the score is the counter, read again.
CacheMsgLate(t) ==
    /\ task[t].pc = "cache"
    /\ score' = Trimmed([score EXCEPT ![task[t].ulid] = counter])
    /\ hash' = [u \in DOMAIN hash \cup {task[t].ulid} |->
                   IF u = task[t].ulid THEN Original ELSE hash[u]]
    /\ GoTo(t, "ack")
    /\ UNCHANGED <<counter, mongoVars, nodeVars, acked, published, bounds>>

\* await this._cacheMsg(convId, seq, doc): the document as it was INSERTED.
\* The companion hash is not trimmed.
CacheMsg(t) ==
    /\ task[t].pc = "cache"
    /\ score' = Trimmed([score EXCEPT ![task[t].ulid] = task[t].seq])
    /\ hash' = [u \in DOMAIN hash \cup {task[t].ulid} |->
                   IF u = task[t].ulid THEN Original ELSE hash[u]]
    /\ GoTo(t, "ack")
    /\ UNCHANGED <<counter, mongoVars, nodeVars, acked, published, bounds>>

\* s.send(ackFrame), followed by the broadcast unless it was a duplicate.
Ack(t) ==
    /\ task[t].pc \in {"ack", "reack"}
    /\ acked' = acked \cup {<<task[t].ulid, task[t].seq>>}
    /\ IF task[t].pc = "ack" THEN GoTo(t, "publish") ELSE Finish(t)
    /\ UNCHANGED <<redisVars, mongoVars, nodeVars, published, bounds>>

\* await this.col.updateOne({ _id: targetUlid, convId }, ..)
Update(t) ==
    /\ task[t].pc = "update"
    /\ content' = [content EXCEPT ![task[t].ulid] = Patched(@, task[t].kind, task[t].seq)]
    /\ GoTo(t, IF task[t].kind = "react" THEN "publish" ELSE "hget")
    /\ UNCHANGED <<redisVars, stored, nodeVars, acked, published, bounds>>

\* updateCachedDoc: const raw = await redis.hget(..); if (!raw) return
PatchRead(t) ==
    /\ task[t].pc = "hget"
    /\ IF task[t].ulid \in DOMAIN hash
       THEN task' = [task EXCEPT ![t].copy = hash[task[t].ulid], ![t].pc = "hset"]
       ELSE GoTo(t, "publish")
    /\ UNCHANGED <<redisVars, mongoVars, nodeVars, acked, published, bounds>>

\* await redis.hset(..): the copy that was read, patched.
PatchWrite(t) ==
    /\ task[t].pc = "hset"
    /\ hash' = [u \in DOMAIN hash \cup {task[t].ulid} |->
                   IF u = task[t].ulid
                   THEN Patched(task[t].copy, task[t].kind, task[t].seq)
                   ELSE hash[u]]
    /\ GoTo(t, "publish")
    /\ UNCHANGED <<counter, score, mongoVars, nodeVars, acked, published, bounds>>

\* fanout.publish(convId, frame)
Publish(t) ==
    /\ task[t].pc = "publish"
    /\ published' = Append(published,
                       [kind |-> task[t].kind, ulid |-> task[t].ulid, seq |-> task[t].seq])
    /\ Finish(t)
    /\ UNCHANGED <<redisVars, mongoVars, nodeVars, acked, bounds>>

-----------------------------------------------------------------------------
(***************************************************************************)
(* Nodes and Redis fail                                                    *)
(***************************************************************************)

\* The process dies: its requests stop where they are.
Crash(g) ==
    /\ node[g] = "up"
    /\ crashes < MaxCrashes
    /\ crashes' = crashes + 1
    /\ node' = [node EXCEPT ![g] = "down"]
    /\ task' = [t \in Tasks |-> IF Home[t] = g THEN Idle ELSE task[t]]
    /\ UNCHANGED <<redisVars, mongoVars, found, acked, published, ops, losses>>

\* init(), first half of rebuildSeq: aggregate the highest number in Mongo.
StartRead(g) ==
    /\ node[g] = "down"
    /\ node' = [node EXCEPT ![g] = "starting"]
    /\ found' = [found EXCEPT ![g] = Highest(StoredSeqs)]
    /\ UNCHANGED <<redisVars, mongoVars, task, acked, published, bounds>>

\* second half: SET conv:{id}:seq, only for a conversation with documents.
StartSet(g) ==
    /\ node[g] = "starting"
    /\ node' = [node EXCEPT ![g] = "up"]
    /\ counter' = IF found[g] > 0 THEN found[g] ELSE counter
    /\ UNCHANGED <<score, hash, mongoVars, task, found, acked, published, bounds>>

\* Redis comes back empty.
RedisLoss ==
    /\ losses < MaxLosses
    /\ losses' = losses + 1
    /\ counter' = 0
    /\ score' = [u \in Ulids |-> 0]
    /\ hash' = [u \in {} |-> Original]
    /\ UNCHANGED <<mongoVars, task, nodeVars, acked, published, ops, crashes>>

-----------------------------------------------------------------------------
Arrive(t) ==
    \E u \in Ulids : \/ BeginSend(t, u)
                     \/ BeginGroupEvent(t, u)
                     \/ BeginEdit(t, u)
                     \/ BeginDelete(t, u)
                     \/ BeginReact(t, u)

Step(t) ==
    \/ Alloc(t)
    \/ Insert(t)
    \/ InsertRefused(t)
    \/ Lookup(t)
    \/ LookupNull(t)
    \/ CacheMsg(t)
    \/ Ack(t)
    \/ Update(t)
    \/ PatchRead(t)
    \/ PatchWrite(t)
    \/ Publish(t)

Fail == \/ \E g \in Gateways : Crash(g) \/ StartRead(g) \/ StartSet(g)
        \/ RedisLoss

Next == (\E t \in Tasks : Arrive(t) \/ Step(t)) \/ Fail

Spec == Init /\ [][Next]_vars

-----------------------------------------------------------------------------
(***************************************************************************)
(* Reads                                                                   *)
(***************************************************************************)

\* rangeFromCache and range, joined by _replay: the cache if it has anything
\* above the cursor, Mongo otherwise.  What is replayed is a set of records
\* [ulid, seq, content]; batches of 200 are larger than any gap (LIVE_MAX).
CacheRange(from) ==
    {[ulid |-> u, seq |-> score[u], content |-> hash[u]] :
        u \in {v \in DOMAIN hash : score[v] > from}}

MongoRange(from) ==
    {[ulid |-> u, seq |-> stored[u], content |-> content[u]] :
        u \in {v \in Ulids : stored[v] > from}}

Replay(from) ==
    IF CacheRange(from) # {} THEN CacheRange(from) ELSE MongoRange(from)

\* onHello, onSyncReq: the cursors that are answered with a replay; a larger
\* gap is answered with SYNC_GAP, a cursor at or beyond the counter not at all.
Replayable(from) == from < counter /\ counter - from <= LiveMax

-----------------------------------------------------------------------------
(***************************************************************************)
(* Properties                                                              *)
(***************************************************************************)

PCs == {"idle", "alloc", "insert", "lookup", "cache", "ack", "reack",
        "update", "hget", "hset", "publish"}

Frames == [kind : Kinds, ulid : Ulids, seq : Nat]

\* Types of the variables.
TypeOK ==
    /\ counter \in Nat
    /\ stored \in [Ulids -> Nat]
    /\ content \in [Ulids -> Content]
    /\ score \in [Ulids -> Nat]
    /\ DOMAIN hash \subseteq Ulids /\ \A u \in DOMAIN hash : hash[u] \in Content
    /\ task \in [Tasks -> [pc : PCs, kind : Kinds \cup {"none"}, ulid : Ulids \cup {"none"},
                           seq : Nat, copy : Content]]
    /\ node \in [Gateways -> {"up", "down", "starting"}]
    /\ found \in [Gateways -> Nat]
    /\ acked \subseteq (Ulids \X Nat)
    /\ published \in Seq(Frames)
    /\ ops \in Nat /\ crashes \in Nat /\ losses \in Nat

\* The members have been told that u exists (MSG or GROUP_EVT).
Announced == {published[i].ulid : i \in {j \in 1..Len(published) :
                                            published[j].kind \in {"send", "group"}}}

Log == INSTANCE OrderedLog WITH
           log <- stored, acknowledged <- acked, broadcast <- Announced

\* ingest is idempotent on the ULID (lib/core/storage.js:56-78): whatever the
\* interleaving of resends, crashes and restarts, a message keeps the first
\* number it was stored under, every ACK carries that number and only one of
\* the copies is broadcast.
LogSpec == Log!Spec

\* The cache never invents: its sorted set holds stored documents under their
\* own number, each with its copy in the hash (lib/core/storage.js:10-17).
CacheFaithful ==
    \A u \in Ulids : score[u] # 0 => score[u] = stored[u] /\ u \in DOMAIN hash

(***************************************************************************)
(* The inductive invariant behind LogSpec.                                 *)
(***************************************************************************)

\* t has stored its document and is on its way to the broadcast.
Fresh(t) == task[t].kind \in {"send", "group"} /\ task[t].pc \in {"cache", "ack", "publish"}

\* A request in flight names an entry, patches come from edit, delete, react,
\* inserts from send and group, and every number drawn is positive.
TaskShape ==
    \A t \in Tasks :
        /\ task[t].pc # "idle" => task[t].ulid \in Ulids /\ task[t].kind \in Kinds
        /\ task[t].pc \in {"update", "hget", "hset"} => task[t].kind \in {"edit", "delete", "react"}
        /\ task[t].pc \in {"insert", "lookup", "cache", "ack", "reack"} => task[t].kind \in {"send", "group"}
        /\ task[t].pc \notin {"idle", "alloc"} => task[t].seq # 0

NumbersDistinct ==
    \A u, v \in Ulids : u # v /\ stored[u] # 0 => stored[u] # stored[v]

\* The requests that will acknowledge or broadcast hold the stored number.
HoldersAgree ==
    \A t \in Tasks : Fresh(t) \/ task[t].pc = "reack" => stored[task[t].ulid] = task[t].seq

\* An entry is broadcast by one request only, which has not done it yet.
OneBroadcaster ==
    \A t \in Tasks : Fresh(t) =>
        /\ task[t].ulid \notin Announced
        /\ \A s \in Tasks : Fresh(s) /\ task[s].ulid = task[t].ulid => s = t

AnnouncedIsStored == \A u \in Announced : u \in Ulids /\ stored[u] # 0

IInv ==
    /\ TypeOK
    /\ TaskShape
    /\ NumbersDistinct
    /\ HoldersAgree
    /\ OneBroadcaster
    /\ AnnouncedIsStored
    /\ CacheFaithful
-----------------------------------------------------------------------------
\* Nothing has rewound the counter yet.
Undisturbed == crashes = 0 /\ losses = 0

\* No two frames of the conversation carry the same number, control frames
\* included (test/concurrency.test.js:100, test/features.test.js:313).
FrameNumbersUnique ==
    \A i, j \in 1..Len(published) : i # j => published[i].seq # published[j].seq

\* The tail of ingest is done for u: it is in the cache if it ever will be.
Settled(u) ==
    /\ stored[u] # 0
    /\ \A t \in Tasks : ~(task[t].ulid = u /\ task[t].pc \in {"insert", "cache"})

\* Replay from the cache instead of Mongo loses no message for any cursor the
\* engine answers with a replay (lib/core/engine.js:50-70), with CACHE_MAX not
\* below LIVE_MAX, as long as no node dies between the insert and the cache.
MessagesReplayed ==
    Undisturbed =>
        \A from \in 0..counter : Replayable(from) =>
            \A u \in Messages : Settled(u) /\ stored[u] > from =>
                \E m \in Replay(from) : m.ulid = u /\ m.seq = stored[u]

InFlight(u) == \E t \in Tasks : task[t].kind = "send" /\ task[t].ulid = u
Acknowledged(u) == \E a \in acked : a[1] = u

\* A SEND that is repeated until its ACK has come gets one in the end: when the node
\* died before it answered, with the message stored or not, and when the number it drew
\* had been given to another message before the counter was rewound, which is answered
\* with ERR 500 (lib/core/storage.js:56-78, 239).
SendAnswered == \A u \in Messages : InFlight(u) ~> Acknowledged(u)
=============================================================================
