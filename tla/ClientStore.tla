----------------------------- MODULE ClientStore -----------------------------
(***************************************************************************)
(* The browser's copy of one conversation (sdk/SyncClient.js, OutQueue.js, *)
(* IdbStore.js): the message map, the ulid index, the array the list is    *)
(* drawn from, the queue of unacknowledged sends and what IndexedDB keeps  *)
(* across a reload of the page.                                            *)
(*                                                                         *)
(* Own messages are shown at once under a pending number and move to the   *)
(* server's number when their MSG frame arrives.  The server is its        *)
(* numbering of messages, and any frame it has sent may arrive at any time *)
(* and more than once: an ACK comes on the socket and the MSG of the same  *)
(* message over pub/sub, a re-sent SEND is acknowledged again, and HELLO   *)
(* and SYNC_REQ replay what was delivered before.  The conversation is a   *)
(* DM: its other member's receipts set the status of own messages.         *)
(* Payloads, edits, deletions and reactions, which change a record in      *)
(* place, and the list of conversations are left out.                      *)
(***************************************************************************)
EXTENDS Integers, SequencesExt

CONSTANTS
    Texts,         \* ulids of the texts the user sends
    Attachments,   \* ulids of the attachments the user sends
    Theirs,        \* ulids of the other member's messages
    Expirable,     \* ulids of the messages sent with a timer
    QueueMax,      \* maxSize of the OutQueue
    MaxPageLoads,  \* bound of the model
    InView         \* the conversation is open in the chat pane

\* What the parameters have to be: assumed here and for the instances.
StoreParametersOK ==
    /\ IsFiniteSet(Texts \cup Attachments \cup Theirs)
    /\ Texts \cap Attachments = {} /\ Theirs \cap (Texts \cup Attachments) = {}
    /\ QueueMax \in Nat \ {0} /\ MaxPageLoads \in Nat /\ InView \in BOOLEAN
ASSUME StoreAssumption == StoreParametersOK

VARIABLES
    seqOf,     \* server: the number of each stored message, 0 before it is stored
    store,     \* client memory: _msgs, _ulidIdx and _msgArrays of the conversation
    shownLast, \* conversation.lastSeq
    queue,     \* OutQueue._q, by ulid
    pending,   \* _pendingSeq: the number the next own text is shown under
    kept,      \* IndexedDB: messages by number, the read cursor, lastSeq
    drawn,     \* ChatPane: messages.length when its effect last ran
    acked,     \* history: own messages whose ACK was handled
    lapsed,    \* history: unacknowledged texts a drain found older than ttlMs
    renumbered,  \* history: an EXPIRED changed the number in a record since the page was loaded
    pageLoads

storeVars == <<seqOf, store, shownLast, queue, pending, kept, drawn, acked, lapsed, renumbered,
               pageLoads>>

Own == Texts \cup Attachments
Ulids == Own \cup Theirs
Counter == Cardinality({u \in Ulids : seqOf[u] > 0})

\* Date.now() is above every server number, -Date.now() below.
Now == Cardinality(Ulids) + 1

Rank == [pending |-> 0, sent |-> 1, delivered |-> 2, read |-> 3, received |-> 0]

Rec(u, seq, status) == [ulid |-> u, seq |-> seq, status |-> status]

EmptyStore == [map |-> << >>, idx |-> << >>, arr |-> << >>]

-----------------------------------------------------------------------------
(***************************************************************************)
(* The store                                                               *)
(***************************************************************************)

Places(arr) == (0..Len(arr)) \X (0..Len(arr))

\* The loop of _binaryInsert: where a record with number n belongs.
PlaceFor(arr, n) ==
    LET low[p \in Places(arr)] ==
            LET mid == (p[1] + p[2]) \div 2
            IN  IF p[1] >= p[2] THEN p[1]
                ELSE IF arr[mid + 1].seq < n THEN low[<<mid + 1, p[2]>>] ELSE low[<<p[1], mid>>]
    IN  low[<<0, Len(arr)>>] + 1

\* _binaryInsert: a record with this number is replaced.
BinaryInsert(arr, m) ==
    LET at == PlaceFor(arr, m.seq)
    IN  IF at <= Len(arr) /\ arr[at].seq = m.seq
        THEN ReplaceAt(arr, at, m) ELSE InsertAt(arr, at, m)

\* _binaryFind: the index, 0 for "not found".
BinaryFind(arr, n) ==
    LET find[p \in (1..Len(arr) + 1) \X (0..Len(arr))] ==
            LET mid == (p[1] + p[2]) \div 2
            IN  IF p[1] > p[2] THEN 0
                ELSE IF arr[mid].seq = n THEN mid
                ELSE IF arr[mid].seq < n THEN find[<<mid + 1, p[2]>>] ELSE find[<<p[1], mid - 1>>]
    IN  find[<<1, Len(arr)>>]

Put(f, n, m) == [x \in DOMAIN f \cup {n} |-> IF x = n THEN m ELSE f[x]]

\* _insertMsg: an entry of the same ulid under another number is taken out first.
InsertInto(st, m) ==
    LET old == IF m.ulid \in DOMAIN st.idx THEN st.idx[m.ulid] ELSE m.seq
        at == IF old # m.seq THEN BinaryFind(st.arr, old) ELSE 0
        others == IF old # m.seq THEN Restrict(st.map, DOMAIN st.map \ {old}) ELSE st.map
    IN  [map |-> Put(others, m.seq, m),
         idx |-> Put(st.idx, m.ulid, m.seq),
         arr |-> BinaryInsert(IF at # 0 THEN RemoveAt(st.arr, at) ELSE st.arr, m)]

\* The records ms, by number, are inserted one after another.
InsertAll(st, ms, top) ==
    LET after[n \in 0..top] ==
            IF n = 0 THEN st
            ELSE IF n \in DOMAIN ms THEN InsertInto(after[n - 1], ms[n]) ELSE after[n - 1]
    IN  after[top]

\* _patchMsg: the records under the numbers of ms are replaced, in the map and in the array.
PatchAll(st, ms) ==
    [st EXCEPT !.map = [n \in DOMAIN @ |-> IF n \in DOMAIN ms THEN ms[n] ELSE @[n]],
               !.arr = [i \in 1..Len(@) |-> IF @[i].seq \in DOMAIN ms /\ BinaryFind(@, @[i].seq) = i
                                            THEN ms[@[i].seq] ELSE @[i]]]

PatchMsg(st, n, m) == PatchAll(st, [k \in {n} |-> m])

\* putMessage of each of the records ms, which goes by the number in the record.
PutAll(f, ms) ==
    LET by == [n \in {ms[k].seq : k \in DOMAIN ms} |-> CHOOSE m \in Range(ms) : m.seq = n]
    IN  [n \in DOMAIN f \cup DOMAIN by |-> IF n \in DOMAIN by THEN by[n] ELSE f[n]]

Shown(u) == u \in DOMAIN store.idx /\ store.idx[u] \in DOMAIN store.map

StatusOf(u) == store.map[store.idx[u]].status

StoreInit ==
    /\ seqOf = [u \in Ulids |-> 0]
    /\ store = EmptyStore /\ shownLast = 0 /\ queue = << >> /\ pending = Now
    /\ kept = [msgs |-> << >>, cursor |-> 0, lastSeq |-> 0]
    /\ drawn = 0 /\ acked = {} /\ lapsed = {} /\ renumbered = FALSE /\ pageLoads = 0

-----------------------------------------------------------------------------
(***************************************************************************)
(* The user                                                                *)
(***************************************************************************)

InsertNew(m) ==
    /\ store' = InsertInto(store, m)
    /\ kept' = [kept EXCEPT !.msgs = Put(@, m.seq, m)]

\* Mutants of Push: the capacity is off by one, one way and the other.
PushLate(q, u) == Append(IF Len(q) > QueueMax THEN Tail(q) ELSE q, u)
PushEarly(q, u) == Append(IF Len(q) + 1 >= QueueMax /\ q # << >> THEN Tail(q) ELSE q, u)

\* OutQueue.push: at capacity the oldest entry is dropped.
Push(q, u) == Append(IF Len(q) >= QueueMax THEN Tail(q) ELSE q, u)

Created == {u \in Own : \E n \in DOMAIN kept.msgs : kept.msgs[n].ulid = u}

\* sendMessage
SendMessage(u) ==
    /\ u \in Texts \ Created
    /\ InsertNew(Rec(u, pending, "pending"))
    /\ pending' = pending + 1
    /\ queue' = Push(queue, u)
    /\ UNCHANGED <<seqOf, shownLast, drawn, acked, lapsed, renumbered, pageLoads>>

\* sendAttachment: shown under -Date.now().
SendAttachment(u) ==
    /\ u \in Attachments \ Created
    /\ InsertNew(Rec(u, -(Now + Cardinality(Created)), "pending"))
    /\ queue' = Push(queue, u)
    /\ UNCHANGED <<seqOf, shownLast, pending, drawn, acked, lapsed, renumbered, pageLoads>>

\* The last entry that is not pending and has a positive number.
LastReal ==
    LET real == {i \in 1..Len(store.arr) : store.arr[i].status # "pending" /\ store.arr[i].seq > 0}
    IN  IF real = {} THEN 0 ELSE store.arr[Max(real)].seq

\* ChatPane's effect runs when the number of messages has changed, and calls
\* sendRead(lastReal.seq).
ReadEffect ==
    /\ InView /\ Len(store.arr) # drawn
    /\ drawn' = Len(store.arr)
    /\ kept' = IF LastReal = 0 THEN kept ELSE [kept EXCEPT !.cursor = LastReal]
    /\ UNCHANGED <<seqOf, store, shownLast, queue, pending, acked, lapsed, renumbered, pageLoads>>

\* The records _loadFromIdb reads, from number 0 up, and the texts among them it queues again.
Stored == Restrict(kept.msgs, {n \in DOMAIN kept.msgs : n >= 0})
Unsent == {n \in DOMAIN Stored : Stored[n].status = "pending" /\ Stored[n].ulid \in Texts}

Requeued(ms, ns, top) ==
    LET again[n \in 0..top] ==
            IF n = 0 THEN << >>
            ELSE IF n \in ns THEN Push(again[n - 1], ms[n].ulid) ELSE again[n - 1]
    IN  again[top]

\* The page is left and opened again: destroy, start, _loadFromIdb.  The cursor kept by
\* sendRead stands in for lastSeq.
ReloadPage ==
    /\ pageLoads < MaxPageLoads
    /\ pageLoads' = pageLoads + 1
    /\ store' = InsertAll(EmptyStore, Stored, pending)
    /\ queue' = Requeued(Stored, Unsent, pending)
    /\ shownLast' = IF kept.cursor # 0 THEN kept.cursor ELSE kept.lastSeq
    /\ pending' = pending + 1
    /\ drawn' = 0 /\ renumbered' = FALSE
    /\ UNCHANGED <<seqOf, kept, acked, lapsed>>

\* Mutant of Live: the comparison is the wrong way round.
LiveSwapped(q, old) ==
    LET live[n \in 0..Len(q)] ==
            IF n = 0 THEN << >>
            ELSE IF q[n] \in old THEN Append(live[n - 1], q[n]) ELSE live[n - 1]
    IN  live[Len(q)]

\* OutQueue.drain: the entries that are not past ttlMs.
Live(q, old) ==
    LET live[n \in 0..Len(q)] ==
            IF n = 0 THEN << >>
            ELSE IF q[n] \in old THEN live[n - 1] ELSE Append(live[n - 1], q[n])
    IN  live[Len(q)]

\* The connection opens, or the page is loaded and it is open: what is left is sent.  Ages are
\* left open, but what was past ttlMs before is so again when a reload has queued it, and so is a
\* text that was sent before another one that is, under a lower number.
Drain ==
    /\ \E old \in SUBSET Range(queue) :
          /\ old # {} /\ lapsed \cap Range(queue) \subseteq old
          /\ \A m, n \in DOMAIN kept.msgs :
                Now <= m /\ m < n /\ kept.msgs[n].ulid \in lapsed \cup old =>
                    kept.msgs[m].ulid \notin Range(queue) \ old
          /\ lapsed' = lapsed \cup (old \cap Texts)
          /\ queue' = Live(queue, old)
    /\ UNCHANGED <<seqOf, store, shownLast, pending, kept, drawn, acked, renumbered, pageLoads>>

-----------------------------------------------------------------------------
(***************************************************************************)
(* The server and its frames                                               *)
(***************************************************************************)

\* A send reaches the server, from this client's socket or the other member's.
ServerStores(u) ==
    /\ seqOf[u] = 0 /\ u \in Theirs \cup Created
    /\ seqOf' = [seqOf EXCEPT ![u] = Counter + 1]
    /\ UNCHANGED <<store, shownLast, queue, pending, kept, drawn, acked, lapsed, renumbered,
                   pageLoads>>

\* Mutant of Acknowledged: the number of the ACK goes into the record.
AcknowledgedWithSeq(u, m) == [m EXCEPT !.status = "sent", !.seq = seqOf[u]]

\* The patch of an ACK leaves the number alone: the record's place in the array
\* depends on it until the MSG frame moves it.
Acknowledged(u, m) == [m EXCEPT !.status = "sent"]

\* T.ACK; OutQueue.remove takes out the first entry of the ulid.
Ack(u) ==
    /\ u \in Own /\ seqOf[u] > 0
    /\ queue' = RemoveFirst(queue, u)
    /\ acked' = acked \cup {u} /\ lapsed' = lapsed \ {u}
    /\ shownLast' = seqOf[u]
    /\ IF Shown(u)
       THEN LET n == store.idx[u]
                m == Acknowledged(u, store.map[n])
            IN  /\ store' = PatchMsg(store, n, m)
                /\ kept' = [kept EXCEPT !.msgs = Put(@, m.seq, m), !.lastSeq = seqOf[u]]
       ELSE /\ kept' = [kept EXCEPT !.lastSeq = seqOf[u]]
            /\ UNCHANGED store
    /\ UNCHANGED <<seqOf, pending, drawn, renumbered, pageLoads>>

\* T.MSG: an own message keeps the status it has.
Msg(u) ==
    /\ seqOf[u] > 0
    /\ LET status == IF u \in Theirs THEN "received"
                     ELSE IF Shown(u) THEN StatusOf(u) ELSE "sent"
           m == Rec(u, seqOf[u], status)
       IN  /\ store' = InsertInto(store, m)
           /\ kept' = [kept EXCEPT !.msgs = Put(@, m.seq, m), !.lastSeq = m.seq]
    /\ shownLast' = seqOf[u]
    /\ UNCHANGED <<seqOf, queue, pending, drawn, acked, lapsed, renumbered, pageLoads>>

\* T.RECEIPT of the other member: own messages up to n, in array order until the
\* first above n, never to a lower rank.
Receipt(n, status) ==
    /\ n \in 1..Counter
    /\ LET arr == store.arr
           walked == {i \in 1..Len(arr) : \A j \in 1..i : arr[j].seq <= n}
           raised == {i \in walked : arr[i].ulid \in Own /\ Rank[arr[i].status] < Rank[status]}
           new == [k \in {arr[i].seq : i \in raised} \cap DOMAIN store.map |->
                      [store.map[k] EXCEPT !.status = status]]
       IN  /\ DOMAIN new # {}
           /\ store' = PatchAll(store, new)
           /\ kept' = [kept EXCEPT !.msgs = PutAll(@, new)]
    /\ UNCHANGED <<seqOf, shownLast, queue, pending, drawn, acked, lapsed, renumbered, pageLoads>>

\* T.EXPIRED: the record gets the server's number and stays under its key.
Expired(u) ==
    /\ u \in Expirable /\ seqOf[u] > 0 /\ Shown(u)
    /\ LET n == store.idx[u]
           m == [store.map[n] EXCEPT !.seq = seqOf[u]]
       IN  /\ store' = PatchMsg(store, n, m)
           /\ kept' = [kept EXCEPT !.msgs = Put(@, m.seq, m)]
           /\ renumbered' = (renumbered \/ n # m.seq)
    /\ UNCHANGED <<seqOf, shownLast, queue, pending, drawn, acked, lapsed, pageLoads>>

\* A page of _fetchGapViaHttp: the messages above a number, inserted one by one, own ones as sent.
PageAbove(from) ==
    [n \in {seqOf[u] : u \in Ulids} \ 0..from |->
        LET u == CHOOSE v \in Ulids : seqOf[v] = n
        IN  Rec(u, n, IF u \in Own THEN "sent" ELSE "received")]

GapPage(from) ==
    /\ DOMAIN PageAbove(from) # {}
    /\ store' = InsertAll(store, PageAbove(from), Counter)
    /\ kept' = [kept EXCEPT !.msgs = PutAll(@, PageAbove(from))]
    /\ UNCHANGED <<seqOf, shownLast, queue, pending, drawn, acked, lapsed, renumbered, pageLoads>>

-----------------------------------------------------------------------------
User ==
    \/ \E u \in Own : SendMessage(u) \/ SendAttachment(u)
    \/ ReadEffect
    \/ ReloadPage
    \/ Drain

Frames ==
    \/ \E u \in Ulids : Ack(u) \/ Msg(u) \/ Expired(u)
    \/ \E n \in 1..Counter, status \in {"delivered", "read"} : Receipt(n, status)
    \/ \E from \in 0..Counter : GapPage(from)

StoreNext == User \/ Frames \/ \E u \in Ulids : ServerStores(u)

StoreSpec == StoreInit /\ [][StoreNext]_storeVars

-----------------------------------------------------------------------------
(***************************************************************************)
(* Properties                                                              *)
(***************************************************************************)

Recs == [ulid : Ulids, seq : Int, status : DOMAIN Rank]

\* Types of the variables; the queue stays within its capacity
\* (sdk/OutQueue.js:20-27).
StoreTypeOK ==
    /\ seqOf \in [Ulids -> 0..Cardinality(Ulids)]
    /\ DOMAIN store.map \subseteq Int /\ \A n \in DOMAIN store.map : store.map[n] \in Recs
    /\ DOMAIN store.idx \subseteq Ulids /\ \A u \in DOMAIN store.idx : store.idx[u] \in Int
    /\ store.arr \in Seq(Recs)
    /\ DOMAIN kept.msgs \subseteq Int /\ \A n \in DOMAIN kept.msgs : kept.msgs[n] \in Recs
    /\ queue \in Seq(Own) /\ Len(queue) <= QueueMax
    /\ acked \subseteq Own /\ lapsed \subseteq Texts
    /\ drawn \in Nat /\ pending \in Nat /\ renumbered \in BOOLEAN
    /\ pageLoads \in 0..MaxPageLoads

\* The array has the records of the map, each once and in the order of the numbers; a record is
\* under its number, and a ulid leads to its one record.
Consistent(st) ==
    /\ \A i, j \in 1..Len(st.arr) : i < j => st.arr[i].seq < st.arr[j].seq
    /\ \A i \in 1..Len(st.arr) : st.arr[i].seq \in DOMAIN st.map
    /\ \A n \in DOMAIN st.map : \E i \in 1..Len(st.arr) : st.arr[i] = st.map[n]
    /\ \A n \in DOMAIN st.map : st.map[n].seq = n
    /\ \A n \in DOMAIN st.map : st.map[n].ulid \in DOMAIN st.idx /\ st.idx[st.map[n].ulid] = n
    /\ \A u \in DOMAIN st.idx : st.idx[u] \in DOMAIN st.map /\ st.map[st.idx[u]].ulid = u

\* The three structures agree whatever the order of frames, until an EXPIRED finds a message
\* under another number than the server's: no message has two bubbles, also when it is promoted
\* (SyncClient.js:634-669).
StoreConsistent == ~renumbered => Consistent(store)

\* A text the user sent stays in the OutQueue until its ACK, through reloads and
\* whatever its MSG frame and the backfill do to its record in the meantime, unless more messages
\* were created than the queue takes or a drain found it older than ttlMs (sdk/OutQueue.js:2-5 and
\* 40-46, SyncClient.js:208-217).
UnackedIsQueued ==
    Cardinality(Created) <= QueueMax =>
        \A u \in (Created \cap Texts) \ (acked \cup lapsed) : \E i \in 1..Len(queue) : queue[i] = u

=============================================================================
