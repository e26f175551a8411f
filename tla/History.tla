-------------------------------- MODULE History --------------------------------
(***************************************************************************)
(* How ONE client obtains the older messages of ONE conversation: the      *)
(* bounded cache in front of Mongo, HELLO and SYNC_REQ, the HTTP backfill  *)
(* that follows a SYNC_GAP, scrolling back (useNdePaginatedMessages,       *)
(* SyncClient.loadMoreMessages), and what IndexedDB keeps across reloads   *)
(* (IdbStore).                                                             *)
(*                                                                         *)
(* The server's part of a request is one step here; ConversationLog and    *)
(* Reconnect have the interleavings.  Messages arrive in number order;     *)
(* edits, reactions and other control frames only use up numbers.          *)
(***************************************************************************)
EXTENDS Integers, Sequences, FiniteSetsExt

CONSTANTS
    CacheMax,      \* CACHE_MAX
    LiveMax,       \* LIVE_MAX
    PageMax,       \* limit of an HTTP page
    ScrollMax,     \* limit (pageSize) of loadMoreMessages
    MinKeep,       \* MIN_MSGS_KEEP
    MaxNumber, MaxDrops, MaxReloads, MaxScrolls      \* bounds of the model

\* What the parameters have to be, for instances with other parameters too.
HistoryParametersOK ==
    /\ {CacheMax, LiveMax, PageMax, ScrollMax, MinKeep} \subseteq Nat \ {0}
    /\ {MaxNumber, MaxDrops, MaxReloads, MaxScrolls} \subseteq Nat

ASSUME HistoryAssumption == HistoryParametersOK

VARIABLES
    top,           \* conv:{id}:seq
    stored,        \* Mongo: numbers of the messages
    cached,        \* Redis: numbers in the sorted set
    online,        \* the socket is open and its HELLO handled
    wire,          \* frames on their way: [type, seq]
    mem,           \* numbers of the messages shown
    idb,           \* numbers of the messages in IndexedDB
    lastSeq,       \* the conversation's lastSeq, kept in IndexedDB too
    fetches,       \* the backfills under way: [from, cursor]
    hasMore,       \* useNdePaginatedMessages
    timers,        \* its pending timeouts: the length each saw, and whether SYNC_REQ went out
    sought,        \* history: the oldest message shown when SYNC_REQ went out, in this page load
    prune,         \* retention of this page load has not run yet
    drops, reloads, scrolls

client == <<mem, idb, lastSeq, fetches, hasMore, timers, sought, prune>>
server == <<top, stored, cached>>
historyVars == <<top, stored, cached, online, wire, mem, idb, lastSeq, fetches, hasMore, timers,
                 sought, prune, drops, reloads, scrolls>>

Above(S, n) == {x \in S : x > n}
Below(S, n) == {x \in S : x < n}

\* The k smallest and the k largest of a set of numbers.
Smallest(S, k) == {x \in S : Cardinality(Below(S, x)) < k}
Largest(S, k) == {x \in S : Cardinality(Above(S, x)) < k}

HistoryInit ==
    /\ top = 0 /\ stored = {} /\ cached = {}
    /\ online = TRUE /\ wire = << >>
    /\ mem = {} /\ idb = {} /\ lastSeq = 0 /\ fetches = {}
    /\ hasMore = TRUE /\ timers = {} /\ sought = {} /\ prune = FALSE
    /\ drops = 0 /\ reloads = 0 /\ scrolls = 0

-----------------------------------------------------------------------------
(***************************************************************************)
(* The server                                                              *)
(***************************************************************************)

Trimmed(S) == Largest(S, CacheMax)

\* A batch: the cache's answer if it has one, else Mongo's.
Batch(from, limit) ==
    IF Above(cached, from) # {} THEN Smallest(Above(cached, from), limit)
    ELSE Smallest(Above(stored, from), limit)

\* _replay asks for batches until one is short: all of Batch without a limit, in order.
Replay(from) ==
    LET all == Batch(from, Cardinality(stored))
    IN  [i \in 1..Cardinality(all) |->
            [type |-> "MSG", seq |-> CHOOSE n \in all : Cardinality(Below(all, n)) = i - 1]]

\* onHello, onSyncReq
Answer(from) ==
    IF top - from > LiveMax THEN << [type |-> "SYNC_GAP", seq |-> from] >> ELSE Replay(from)

Message ==
    /\ top < MaxNumber
    /\ top' = top + 1
    /\ stored' = stored \cup {top'}
    /\ cached' = Trimmed(cached \cup {top'})
    /\ wire' = IF online THEN Append(wire, [type |-> "MSG", seq |-> top']) ELSE wire
    /\ UNCHANGED <<online, client, drops, reloads, scrolls>>

\* A control frame: its number is used up, lastSeq is not touched by it.
Control ==
    /\ top < MaxNumber
    /\ top' = top + 1
    /\ UNCHANGED <<stored, cached, online, wire, client, drops, reloads, scrolls>>

-----------------------------------------------------------------------------
(***************************************************************************)
(* The client                                                              *)
(***************************************************************************)

Drop ==
    /\ online /\ drops < MaxDrops
    /\ drops' = drops + 1
    /\ online' = FALSE /\ wire' = << >>
    /\ UNCHANGED <<server, client, reloads, scrolls>>

\* HELLO with the cursor, and its answer.
Hello ==
    /\ ~online
    /\ online' = TRUE
    /\ wire' = Answer(lastSeq)
    /\ UNCHANGED <<server, client, drops, reloads, scrolls>>

Receive ==
    /\ wire # << >>
    /\ wire' = Tail(wire)
    /\ LET f == Head(wire)
       IN  \/ /\ f.type = "MSG"
              /\ mem' = mem \cup {f.seq} /\ idb' = idb \cup {f.seq}
              /\ lastSeq' = f.seq
              /\ UNCHANGED fetches
           \/ /\ f.type = "SYNC_GAP"
              /\ fetches' = fetches \cup {[from |-> f.seq, cursor |-> f.seq]}
              /\ UNCHANGED <<mem, idb, lastSeq>>
    /\ UNCHANGED <<server, online, hasMore, timers, sought, prune, drops, reloads, scrolls>>

\* Mutant of LastPage: the loop goes on only when there is more than a full page.
LastPageTooEarly(page) == Cardinality(page) <= PageMax

\* hasMore of an HTTP answer is false.
LastPage(page) == Cardinality(page) < PageMax

\* One turn of the loop of _fetchGapViaHttp.  It inserts; lastSeq stays.
FetchPage(f) ==
    /\ f \in fetches
    /\ LET page == Batch(f.cursor, PageMax)
       IN  /\ mem' = mem \cup page /\ idb' = idb \cup page
           /\ fetches' = IF LastPage(page) THEN fetches \ {f}
                         ELSE (fetches \ {f}) \cup {[f EXCEPT !.cursor = Max(page)]}
    /\ UNCHANGED <<server, online, wire, lastSeq, hasMore, timers, sought, prune, drops, reloads,
                   scrolls>>

\* The request fails; nothing asks again.
FetchFailed(f) ==
    /\ f \in fetches /\ drops < MaxDrops
    /\ drops' = drops + 1
    /\ fetches' = fetches \ {f}
    /\ UNCHANGED <<server, online, wire, mem, idb, lastSeq, hasMore, timers, sought, prune, reloads,
                   scrolls>>

\* Mutant of Window: the page ends at the oldest message instead of before it.
WindowShort(oldest) == IF oldest > ScrollMax THEN oldest - 1 ELSE 0

\* loadMoreMessages asks for what follows this number.
Window(oldest) == IF oldest > ScrollMax THEN oldest - ScrollMax ELSE 0

\* loadMore: a page of IndexedDB, or SYNC_REQ if that has nothing older.  `loading` is over when
\* the request is out, so the next page may be asked for at once.
LoadMore ==
    /\ hasMore /\ scrolls < MaxScrolls
    /\ scrolls' = scrolls + 1
    /\ IF mem = {} \/ Min(mem) <= 1
       THEN hasMore' = FALSE /\ UNCHANGED <<wire, mem, timers, sought>>
       ELSE LET page == Largest(Below(idb, Min(mem)), ScrollMax)
                asks == page = {} /\ online
            IN  /\ mem' = mem \cup page
                /\ timers' = IF page = {} THEN timers \cup {[seen |-> Cardinality(mem), asked |-> online]}
                             ELSE timers
                /\ wire' = IF asks THEN wire \o Answer(Window(Min(mem))) ELSE wire
                /\ sought' = IF asks THEN sought \cup {Min(mem)} ELSE sought
                /\ UNCHANGED hasMore
    /\ UNCHANGED <<server, online, idb, lastSeq, fetches, prune, drops, reloads>>

\* Three seconds later, whatever is still on its way.
Timeout(t) ==
    /\ t \in timers
    /\ timers' = timers \ {t}
    /\ hasMore' = (hasMore /\ Cardinality(mem) # t.seen)
    /\ UNCHANGED <<server, online, wire, mem, idb, lastSeq, fetches, sought, prune, drops, reloads,
                   scrolls>>

\* _loadFromIdb reads every record above 0.
Loaded == idb

\* The page is loaded anew: what was in flight is gone.
Reload ==
    /\ reloads < MaxReloads
    /\ reloads' = reloads + 1
    /\ online' = FALSE /\ wire' = << >> /\ fetches' = {}
    /\ mem' = Loaded
    /\ hasMore' = TRUE /\ timers' = {} /\ sought' = {} /\ prune' = TRUE
    /\ UNCHANGED <<server, idb, lastSeq, drops, scrolls>>

\* _pruneConv, in the background: what is older than `cut`, but for the last MinKeep.
Prune(cut) ==
    /\ prune
    /\ prune' = FALSE
    /\ idb' = Largest(idb, MinKeep) \cup Above(idb, cut)
    /\ UNCHANGED <<server, online, wire, mem, lastSeq, fetches, hasMore, timers, sought, drops,
                   reloads, scrolls>>

-----------------------------------------------------------------------------
HistoryNext ==
    \/ Message \/ Control
    \/ Drop \/ Hello \/ Receive
    \/ \E f \in fetches : FetchPage(f) \/ FetchFailed(f)
    \/ LoadMore
    \/ \E t \in timers : Timeout(t)
    \/ Reload
    \/ \E cut \in 1..MaxNumber : Prune(cut)

HistorySpec == HistoryInit /\ [][HistoryNext]_historyVars

-----------------------------------------------------------------------------
(***************************************************************************)
(* Properties                                                              *)
(***************************************************************************)

\* Types; nothing is shown, kept or cached that is not stored.
HistoryTypeOK ==
    /\ top \in 0..MaxNumber /\ stored \subseteq 1..top
    /\ cached \subseteq stored /\ Cardinality(cached) <= CacheMax
    /\ online \in BOOLEAN /\ hasMore \in BOOLEAN /\ prune \in BOOLEAN
    /\ mem \subseteq stored /\ idb \subseteq stored
    /\ lastSeq \in stored \cup {0}
    /\ \A f \in fetches : f.from \in 0..top /\ f.cursor \in f.from..top

\* A backfill that is over has brought everything above its start, however many
\* messages came in while it ran, as long as the cache can hold that much
\* (server.js:193-217, SyncClient.js:936-982).
BringsAll ==
    \A f \in fetches :
        /\ FetchPage(f) /\ LastPage(Batch(f.cursor, PageMax))
        /\ Cardinality(Above(stored, f.from)) <= CacheMax
        => Above(stored, f.from) \subseteq mem'

RecentBackfilled == [][BringsAll]_historyVars

\* The messages among the ScrollMax numbers before one, and after it.
Near(oldest) == Above(stored, oldest - ScrollMax)

\* Everything that was asked for has come, and nothing failed.
AllCame == wire = << >> /\ fetches = {} /\ drops = 0

\* What scrolling back asked the server for is shown when it has come, by a replay or by a
\* backfill, also if the timer has given up before, if the cache reaches that far.
SoughtIsShown ==
    AllCame => \A oldest \in sought : Near(oldest) \subseteq cached => Near(oldest) \subseteq mem

\* The timer that gives up when the answer has come is right: no message is left among the
\* ScrollMax numbers before the oldest one shown.
LeavesNone ==
    \A t \in timers :
        /\ Timeout(t) /\ t.asked /\ hasMore /\ ~hasMore'
        /\ AllCame /\ Near(Min(mem)) \subseteq cached
        => \A n \in Near(Min(mem)) : n >= Min(mem)

\* Both, at every step (useNdePaginatedMessages.js:35-58, SyncClient.js:915-932).  A timer that
\* fires while the answer is on its way gives up too early: hasMore stays false though older
\* messages come in.
ScrollSeesWindow == [][SoughtIsShown' /\ LeavesNone]_historyVars

=============================================================================
