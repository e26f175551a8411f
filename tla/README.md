# teamchat: a verification project

teamchat is a chat system in JavaScript: a sync engine on Node with Redis and MongoDB
(`nde-syncengine-v3-pkg 2/`, below **pkg**) and a browser client (`frontend/src/`, below **fe**).
This directory has TLA+ modules of its protocol, configurations that check them with TLC, and proofs
that TLAPS checks.

Everything is written from the code. Paths in the modules' comments are relative to pkg for
`lib/...`, `server.js`, `test/...`, `README.md` and `PARITY-AUDIT.md`, and to fe for
`SyncClient.js`, `IdbStore.js`, `OutQueue.js`, `CryptoStore.js`, `WsClient.js`, `ChatPane.jsx`,
`Sidebar.jsx`, `Composer.jsx`, `PollCard.jsx` and the hooks. The `*_PLAN.md` documents stand at the
root.

Contents:

1. The system
2. The modules
3. The runs
4. Bounds, symmetry, scenarios, fairness
5. What is proved
6. Where the code departs from its documents
7. What is not modelled, and what abstracts what
8. Plan

## 1. The system

Several gateway processes (`lib/server.js`, `server.js`) serve WebSockets. They share one Redis
(counter, cache, member sets, pub/sub, inbox streams, presence) and one MongoDB (messages,
conversations, users). Every handler is an `async` function: it runs without interruption from one
`await` to the next and everything else may run in between, in the same process and in others. There
are no transactions and no locks. So the questions are, nearly everywhere: what may happen between
two awaits, and what is left when a process or a connection dies there.

| Part | Code | State | Operations |
|---|---|---|---|
| Sequence counter | `lib/common/seq.js` | `conv:{id}:seq` in Redis; a window per node | `nextSeq`, `SeqBatcher.next` |
| Message store | `lib/core/storage.js`, `lib/core/engine.js` | `messages` in Mongo (unique on ulid and on number); `conv:{id}:cache`, `cache:docs` in Redis (500 newest) | `ingest`, `edit`, `deleteForEveryone`, `react`, `groupEvent`, `range`, `rangeFromCache`, `_replay`, `rebuildSeq` |
| Membership | the same, `server.js` | `conv:{id}:members`, `:admins`, `user:{id}:convs` in Redis; the document in `conversations` | `addMember`, `removeMember`, `setAdmin`, `groupOp`, POST `/conversations`, `_rebuildRedisIfNeeded` |
| Receipts | `lib/core/storage.js`, `gateway.js` | buffer of cursors per node (200 ms), `cursors` in Mongo | `setCursor`, `_flushCursors`, `receiptAgg`, `_onReceipt` |
| Gateway sessions, fan-out | `lib/core/gateway.js`, `lib/fanout.js` | `byUser`, `convIndex`, interest counts, Redis subscriptions | `_onConnect`, `_onHello`, `_onClose`, `pushConvToOnlineMembers`, `_onGroupOp` (kick), `addInterest`, `removeInterest` |
| Offline delivery | `gateway.js`, `engine.js` | `inbox:{user}` stream, presence key | `queueOffline`, `drainInbox`, `deliverLocal`, `onHello` |
| Load of a socket | `Session` in `gateway.js` | token bucket, bytes that wait | `allow`, `send`, `_guard` |
| Typing, presence | `gateway.js`, `lib/server.js`, fe `SyncClient.js` | presence key with its lifetime; timers of author and viewer | `_onTyping`, `sendTyping`, TYPING_EVT; HELLO, `_onClose`, `_reap`, the heartbeat |
| Slices | `lib/pin`, `lib/poll`, `lib/viewonce`, `lib/disappearing`, `lib/subject`, `lib/convtimer`, `lib/portability` | a set, a map of votes, `viewedBy`, `ttlAt`, ... | one handler each; the sweep; import and export |
| Connection | fe `ws/WsClient.js` | socket, reconnect timer, ping interval, count of refusals | `connect`, `onopen`, `onclose`, `reconnect`, `notifyAuthFailed`, `destroy` |
| Client store | fe `sdk/SyncClient.js`, `OutQueue.js` | map, ulid index, sorted array, pending set, queue; `lastMsg`, `lastSeq`, `lastReadSeq` of a conversation | `sendMessage`, `sendAttachment`, `toggleReact`, `_dispatch` (ACK, MSG, EDITED, DELETED, REACTED, RECEIPT, EXPIRED, SYNC_GAP, SUBJECT_SET, ...), `_fetchGapViaHttp`, `loadMoreMessages` |
| Client persistence | fe `sdk/IdbStore.js`, `CryptoStore.js` | IndexedDB: messages, conversations, cursors | `putMessage`, `putConversation`, `setCursor`, upgrade, retention |
| User interface | fe `components/`, `hooks/` | what is in view | READ on view, rows and badges of the sidebar, keys in the composer, clicks on a poll, scrolling back |
| Accounts, metrics, media, wiring, fakes | `lib/users`, `lib/auth`, ... | tokens, TTL keys, counters | see section 7 |

**How a message travels.** `sendMessage` shows a message under a *pending number* (the time of day,
above every number of the server; for an attachment its negative), writes it to IndexedDB and pushes
a SEND to the `OutQueue`. The gateway checks membership and calls `ingest`: draw a number, insert
into Mongo (a refused insert is taken for a repeated ULID), fill the cache, ACK, publish `MSG` on
the conversation's channel. Every gateway with a socket interested in the conversation gets it and
sends it to its sockets; members without presence get it into their inbox. A client that connects
sends HELLO with its `lastSeq`; the gateway files the session, and for each conversation either
replays what is above (cache first, Mongo if the cache has nothing) or, above `LIVE_MAX`, sends
SYNC_GAP, on which the client fetches pages over HTTP. Then the inbox is drained and trimmed.

**What is hard**, and where the modules look:

- *interleaving at awaits*: two sends, an edit beside a delete, a HELLO beside the close of its own
  socket, two sweeps, two votes, two pins, an add beside a remove;
- *order*: a number is drawn before its message is inserted and published, so numbers are not the
  order of arrival; ACK (socket) and MSG (pub/sub) of one message race;
- *crashes and partial failure*: Mongo done and Redis not, counter rewound at a start, buffer lost,
  tab closed with writes under way;
- *repetition*: SEND is repeated until acknowledged, HELLO replays what was delivered, the inbox
  sends a frame again that the replay has already replaced by a tombstone;
- *absence*: a client hears of an edit, a vote, a new subject or a new timer once, when it is made;
  what it learns later depends on the way on which it gets the message again;
- *bounded things*: cache of 500, pages of 100 and 50, queue, pin limit, windows of numbers, the
  token bucket of a socket and what it keeps waiting;
- *derived numbers*: the badge is a difference of two numbers that four kinds of frames, two devices
  and a reload set;
- *liveness*: a SEND is answered, a message arrives, what is due is swept, a client comes back, a
  sign of typing goes away, presence follows the sockets.

What makes each part correct is said by its properties (section 3); the hazards they are aimed at
are listed with their lines in `PROJECT.json`.

## 2. The modules

| Module | Models | State and actions against the code |
|---|---|---|
| `SeqCounter` | `seq.js` on several nodes | `counter` is the Redis key; `window` the node's entry; `asked`/`replies` the callers between `incrby` and its answer. `NextFromWindow`, `NextAsk`, `NextResume` are the stretches of `SeqBatcher.next`; `Stop` a clean SIGTERM that drops the window |
| `OrderedLog` | what the store promises (abstract) | a message is accepted once under a number no other has, acknowledged with it, broadcast at most once |
| `ConversationLog` | `CoreStore` and `CoreEngine` for one conversation | a request is a task with a program counter, one action per await: `Alloc`, `Insert` or `InsertRefused`, `Lookup`, `CacheMsg`, `Ack`, `Update`, `PatchRead`, `PatchWrite`, `Publish`; `Crash`, `StartRead`, `StartSet` (the rewind) and `RedisLoss`. `Replay` is the operator `_replay` |
| `GatewaySessions` | the tables of one gateway process | `registered`, `index` and `interest` are `byUser`, `convIndex` and the interest count; `commands` what was sent to Redis and is not executed; HELLO in its four stretches, close in two, the loops of push and kick one session at a time; `GroupAdd`, which looks at no session |
| `Reconnect` | how messages reach one member | writers, sessions with their HELLO handler (its replay reads in one step and sends in another), bus, inbox, frames on the way, `have`, `lastSeq`, the HTTP fetch; `subQueue` is SUBSCRIBE and UNSUBSCRIBE on their way to Redis, `neighbour` the session of another member on the same gateway, which shares the subscription; connections break unnoticed, handlers run on |
| `Replica` | one message and a client's copy of it | the document, `_onSend`, edits, deletions, expiries and reactions in flight; bus, inbox, frames; the answer of HELLO, of SYNC_REQ and of the HTTP page, which read the document at one moment and send it at a later one (`hand`, `page`); the cursor, taken when HELLO is sent; the record that is shown |
| `Throttle` | what one socket may cost | `tokens`, `lastRefill`, `buffered` are the fields of `Session` and `ws.bufferedAmount`; an observer counts what is served |
| `Receipts` | receipts of a group | buffers, flushes under way, stored cursors, `receiptAgg` in its awaits, the author's status |
| `Membership` | members, admins, creation | `has` is the five copies (three sets in Redis, two arrays of the document in Mongo); group operations and POST one write at a time; crash, Redis loss, the start that rebuilds |
| `ClientStore` | the browser's store | `store` has map, index, array, with the two binary searches of the code; frames in any order and repeated; `queue` is the OutQueue, which drops what is older than its TTL when it is drained (`Drain`); a reload builds both again from `kept`, the disk |
| `ConvList` | the row of a conversation | `lastMsg`, `newest`, `lastReadSeq` are the conversation's lastMsg, lastSeq and lastReadSeq, `readCursor` the cursor in IndexedDB; `recs` the records by ulid, `idbRecs` those on disk by number, where a message that got its number is under both; messages by others, by an own device, by this one, sent once or again; edits and deletions; the pane that reads; breaks; a reload that shows the last record of each message on disk |
| `History` | how a client gets older messages | bounded cache, replay, gap pages, scrolling with its timers, which fire whatever is on its way, reload, retention |
| `Persistence` | IndexedDB | writes that are encrypted side by side and stored in the order their transactions open; closing, another user, upgrades |
| `Connection` | `WsClient` and the first frames | sockets, timers, token promise, refusals, `destroy`, the queue drained behind HELLO |
| `Typing` | signs of typing | the author's one timer, frames on either connection, the viewer's timer for each conversation; time is counted down |
| `Presence` | the presence key | sockets on several gateways, which may close while the token of their HELLO is verified; the commands of each gateway on their way to Redis, lifetime in intervals, crashes |
| `Settings` | subject, timer | the value in Redis, requests in their awaits, pub/sub, what a HELLO reads and sends, what the client shows |
| `Pins`, `Polls`, `Disappearing` | three slices | each handler one await at a time; the devices' state where frames may overtake each other |
| `ViewOnce` | a view-once message | `consume` one await at a time; the HELLO of a device, which reads the message, sends it, and then drains and trims the inbox with the frame of the SEND |
| `Portability` | import and export | parser and writer line by line; both jobs beside members who write; a message gets its number in one step and is inserted in another, so an export may pass over it |
| `MCDelivery`, `MCConversation`, `MCClient`, `MCFeatures`, `MCLiveness` | runs of several modules | see section 4, *scenarios* |
| `MCConversationLog` | the log with symmetry | |
| `SeqCounter_proofs`, `ConversationLog_proofs`, `Delivery_proofs` (`GatewaySessions`, `Throttle`, `Reconnect`), `Messages_proofs` (`History`, `ClientStore`, `ConvList`), `Conversation_proofs` (`Membership`, `Receipts`), `Features_proofs`, `Replica_proofs`, `Client_proofs` | theorems | section 5 |

A module looks at one conversation (or poll, or browser): nothing in the code joins two
conversations except the loop of HELLO over them and the queue of the client. The modules meet where
the code does: `ConversationLog` implements `OrderedLog`; `Reconnect` takes from the log that a
stored message is found by a replay, which `MessagesReplayed` shows with its conditions;
`SeqCounter` says what `ConversationLog`'s `Alloc` may assume (unique numbers while Redis keeps its
counter), and `ConversationLog` what a restart does to that; `Replica` takes the sessions of
`Reconnect` with fewer steps and follows the content of a message, where `Reconnect` follows its
arrival; `Presence` says when the key is there that `Reconnect` and `Replica` look at; `Persistence`
refines the synchronous writes of `ClientStore`, `ConvList` and `History`.

Constants, with their named assumptions, are as weak as the code allows; the assumptions of modules
that are only instantiated are definitions (`TypingAssumption`, `PresenceAssumption`) which the MC
module assumes for its instances. Definitions whose names extend another's (`CacheMsgLate` before
`CacheMsg`) are mutants: the definition as a plausible bug would have it. They are used by no
specification; `PROJECT.json` says which property each one breaks.

## 3. The runs

Passing runs (states are distinct states, times for two workers):

| Run | Checks | Shows |
|---|---|---|
| `seq_counter` (13 k) | `NeverIssuedTwice` | No number is issued twice although callers overlap in `next()` and each reply overwrites the window: a window that is thrown away only leaves a gap. |
| `log` (0.4 M, 10 s) | `CacheFaithful`, `MessagesReplayed`, `LogSpec` | Whatever fails, a cached entry carries the number Mongo has. A message whose `ingest` is over is in every replay its cursor asks for, as long as no node died between insert and cache. The log is an `OrderedLog` through crashes, rewinds and losses, thanks to the unique index: a rewound counter costs a SEND its answer, never a message its number. |
| `delivery` (6.4 M, 170 s) | `IndexedHearBroadcasts`, `MembersAreIndexed`, `LoadIsBounded`, `NoGapWhileConnected` | No socket in the index loses the subscription because another one left, in whatever order handlers and Redis commands run. Every socket whose HELLO or push met its user as a member is in the index until that user is removed, because `byUser` is filled before the user's conversations are read. A socket has no more served in any period than a bucket and its refill, and no more waiting than the limit and one frame. While a connection lasts, every stored message above the HELLO's cursor is had, on its way, or will be sent by a handler under way: attaching *before* replaying closes the window between them, unless the session was attached while the SUBSCRIBE of another one was still on its way to Redis. |
| `conversation` (2.4 M, 100 s) | `TicksAreEarned`, `ReceiptsKept`, `CleanUsersAgree`, `EventsTellMembers`, `CreatedIsComplete` | A tick never claims more members than have seen a message, with several devices and a former member. A receipt is in Mongo or in a buffer until the process that holds it dies. Redis, Mongo and the clients agree about each user no two operations overlapped on, crashes included. Two POSTs for one DM end in a complete one. |
| `client` (2.2 M, 150 s) | `StoreConsistent`, `UnackedIsQueued`, `NoHole`, `StoredIsCurrent`, `RowIsCurrent`, `RecentBackfilled`, `ScrollSeesWindow` | Map, index and array agree and a message is shown once, in every order of ACK, MSG, receipts, pages and a reload. A text stays queued until its ACK, a drain after its TTL or more messages than the queue takes. The cursor of a HELLO stands for messages the client has, if sessions ended with their writes done and the records there can be read. Without encryption a record on disk is what was shown. The preview of a row is its newest message as the bubble shows it, until a reload has put an own text under its pending number again, and the badge is no less than what waits to be read. A backfill leaves no hole above its start that the cache could fill. What scrolling back asked for is shown when everything has come, and a timer that gives up then is right to. |
| `features` (6.1 M, 160 s) | `PinsBounded`, `CopiesAgree`, `ViewedIsErased`, `VotesCount`, `SettingsAgree`, `CleanCopiesAgree`, `ExpiryReachesAll`, `ExportsAreFaithful` | Pins exceed the limit by no more than the requests that can overlap. VIEWED is sent when the payload is out of Mongo, and with nothing on its way no device shows it that heard the last VIEWED with no older copy still to come and was not given the payload since, from the cache or the inbox. Votes of different users do not undo each other, and while no two overlap the last tally is what everyone shows. A client shows the text, the tombstone, the reactions, the subject and the timer that are stored, if it was there when they changed, with no older copy in the hands of a replay, or has read them since. Tombstones survive sweeps of two nodes beside deletions, in Mongo and in the cache, and what is expired is announced. An export has every message it began with once although others write, and reads back as those messages, senders and media in their places. |
| `liveness` (0.14 M, 90 s) | `OneConnection`, `ComesBack`, `SendAnswered`, `LiveMessagesArrive`, `DueIsSwept`, `SignsFollow` | Section 4, *fairness*. |

Each passing run also checks the types of its module (`TypeOK`, or `...TypeOK` for all modules of a
run), except `liveness`. Some properties are conjunctions of two named promises, which together are
what the feature owes: `ViewedIsErased` (gone from Mongo, gone from the devices), `VotesCount`
(kept, shown), `ExpiryReachesAll` (tombstones stay, everybody is told), `ExportsAreFaithful`
(complete, read back), `SignsFollow` (typing of `Typing`, presence of `Presence`).

Runs that are expected to end in a violation, one for each of five statements the repository makes
and its code does not keep:

| Run | Statement | What happens |
|---|---|---|
| `log_reuse` | `FrameNumbersUnique` | After a restart numbers of edits, deletes and reactions are issued again. |
| `reconnect_up_to_date` | `FullyUpToDate` | A message is skipped for good when a live frame overtakes the replay and the connection breaks. |
| `deleted_stays_deleted` | `DeletedStaysDeleted` | A message that was queued for an absent user and then deleted comes back with its text: the inbox is drained after the replay has sent the tombstone. |
| `view_once_once` | `ConsumedOnce` | Two devices of one user both view a view-once message. |
| `connection_token` | `ComesBack`, with the rejection that `server.js` sends | A client with an expired token stays connected without a session. |

## 4. Bounds, symmetry, scenarios, fairness

**Bounds** are constants whose names begin with `Max`, or parameters of the code made small
(`CacheMax`, `LiveMax`, `PageMax`, `PinMax`, `QueueMax`). They stand in guards of the actions that
begin something new (a request, a connection, a crash), so what has begun always runs to its end.
Why they suffice:

- interleavings are between *two* handlers (and a crash): no guard in the code looks at more than
  one other request. Three operations let a third one find what two have left;
- `Replica` has one request and one SYNC_REQ at a time, but a request is three steps and HELLO,
  SYNC_REQ and the HTTP page, two steps each, interleave with all of them; two requests let one be
  lost and the next one be heard;
- `ViewOnce` has one device: devices do nothing to each other, and what one of them hears, has
  missed or has in its inbox is free;
- a bucket of two tokens that fills in four ticks: empty, full and half a token are reached, and the
  theorem removes the numbers;
- two gateways: a node does not know how many others there are;
- the theorems of section 5 remove every bound from the properties they state;
- a cache of two or three, pages of two and five or six numbers make every limit reached and passed,
  with at least one number on both sides of it; `CacheMax` is not below `LiveMax`, as in the code;
- two connections: what a client keeps from one to the next is `lastSeq` and `have`, and the second
  connection starts in every state the first can leave. Two messages: one that a HELLO reads and one
  that is published beside it;
- in the log of `liveness`, three messages on two nodes with one crash or one loss of Redis: the
  restart of one node rewinds the counter under the other one. Six SENDs are enough for the ACKs of
  all three: one for each, one more that the crash takes, and two more that meet a number which is
  taken.

Every run may stop (bounds are used up, nobody need send anything), so deadlock is not checked; that
handlers do not get stuck is what `liveness` shows.

**Symmetry** is used in runs without temporal properties that would make it unsound: messages of
`MCConversationLog` (ULIDs are only compared, and the abstract specification is safety only and
treats them alike), the sessions of one user and the writers in `MCDelivery`
(`SameDevicesAndWriters`).

**Parameters.** `MCDelivery`, `MCConversation`, `MCClient`, `MCFeatures` and `MCLiveness` EXTEND the
modules a theorem is about (whose definitions have different names for this), so their constants
stand in the .cfg and their assumptions are evaluated; modules whose names clash with those are
instances, with their parameters in the MC module.

**Scenarios.** `MCDelivery`, `MCConversation`, `MCClient`, `MCFeatures` and `MCLiveness` check
several modules, or one module with two sets of parameters, in one run: a variable `scenario` is
chosen at the start, the module it names takes steps, and the variables of the others keep their
initial value. It is a disjoint union of state spaces, not a composition: the modules of one run
share no state (the slices share only the counter, which is `SeqCounter`'s), or look at the same
structures at different depth (the client). A property that is claimed for one set of parameters is
guarded by the scenario; the parameters it does not hold for are in section 6.

The scenarios are: *sessions*, *throttle*, *reconnect*; *receipts* (four devices, two gateways),
*receipts, a crash* (two devices, on one gateway); *group* (all operations, one crash), *direct*
(both parties create); *shows* and *queues* (`ClientStore`), *backfills* and *scrolls* (`History`),
*disk* (`Persistence`), *rows* (`ConvList`); *pins*, *view once* (the message in the cache or not),
*polls*, *sweeps*, *portability*, *contents* (`Replica`), *settings* (the subject or the timer); and
*log*, *reconnect* (two connections, one message), *company* (one connection, two messages, and a
neighbour whose session comes and goes), *sweeps*, *connection*, *typing*, *presence* for liveness.

**Fairness** (`MCLiveness`) is weak fairness of:

- each step of a handler that has begun, since an await on Redis, Mongo or `fetch` is answered
  (`LogFairness`, `ReconnectFairness`); a failed answer is an action of its own;
- the repetition of a SEND that has no ACK (`SendAgain`): the client connects again and sends what
  its queue holds. It is checked with one crash or one loss of Redis;
- `RedisExecutes` (SUBSCRIBE and UNSUBSCRIBE), `Deliver` (Redis pub/sub while subscribed), `Receive`
  and `Hear` (frames on an open socket, in order), `ConnectionCloses` (a broken socket's handler
  runs: ping and TCP see to it);
- the sweep of each node, because `setInterval` fires every 30 s and an interval that fails is
  swallowed and fires again;
- timers of `WsClient`, the opening and closing of sockets, the token's promise;
- the passing of time and the viewer's timers that are due (`TypingFairness`). The author's timer
  and all frames may fail for ever: the sign goes away without them;
- the passing of time, the heartbeat of each gateway that runs, Redis, the verifier of a token, and
  `_reap` of a socket that is lost (`PresenceFairness`). A tick is an interval, so `Tick` waits for
  the intervals that have not fired and for Redis; no user has to connect or leave.

Nothing that depends on a user or on the network's mercy is fair: but for the repeated SEND no
connection has to be made or to last and no request has to be sent, `destroy` and retention are
free. Failures are bounded (two cut connections, two stale tokens, one failing sweep, one crash or
loss): with unbounded ones nothing has to arrive. `ComesBack` is checked with `Rejection =
"UNAUTH"`, the answer of `lib/auth`, and refuted in `connection_token` with the one of `server.js`.

## 5. What is proved

With TLAPS, for all values of the constants: any sets of users, nodes, requests, devices and
messages (finite ones where something is counted), any cache, bucket, window and limit, any number
of operations, crashes and lost connections.

| Theorem | Says |
|---|---|
| `SeqCounter_proofs!TypeCorrect` | `[]TypeOK` |
| `SeqCounter_proofs!UniqueNumbers` | `[]NeverIssuedTwice` |
| `SeqCounter_proofs!GatewayMonotonic` | `[]MonotonicPerGateway`: one node's numbers rise in the order it hands them out |
| `ConversationLog_proofs!TypeCorrect` | `[]TypeOK` |
| `ConversationLog_proofs!CacheIsFaithful` | `[]CacheFaithful` |
| `ConversationLog_proofs!ImplementsOrderedLog` | `LogSpec`: the detailed log implements `OrderedLog` |
| `ConversationLog_proofs!NothingMissedInReplay` | `[]MessagesReplayed`, if `LiveMax <= CacheMax` |
| `Delivery_proofs!TypeCorrect`, `RateTypeCorrect` | `[]TypeOK`, `[]RateTypeOK`: in particular the bucket is never fuller than its brim nor emptier than nothing |
| `Delivery_proofs!IndexHears` | `[]IndexedHearBroadcasts` |
| `Delivery_proofs!MembersIndexed` | `[]MembersAreIndexed` |
| `Delivery_proofs!SocketLoadBounded` | `[]LoadIsBounded` |
| `Delivery_proofs!ReconnectTypeCorrect` | `[]ReconnectTypeOK` |
| `Delivery_proofs!ReplayMeetsLive` | `[]NoGapWhileConnected` |
| `Conversation_proofs!MembershipTypeCorrect` | `[]TypeOK` |
| `Conversation_proofs!CleanAgreement` | `[]CleanUsersAgree` |
| `Conversation_proofs!ClientsAreTold` | `[]EventsTellMembers` |
| `Conversation_proofs!CreationsComplete` | `[]CreatedIsComplete`, of a direct conversation, without crashes |
| `Conversation_proofs!ReceiptsTypeCorrect` | `[]ReceiptsTypeOK` |
| `Conversation_proofs!NoReceiptLost` | `[]ReceiptsKept` |
| `Conversation_proofs!TicksEarned` | `[]TicksAreEarned` |
| `Features_proofs!PinsTypeCorrect`, `LimitIsNearlyKept`, `CopiesStayEqual` | `[]TypeOK`, `[]PinsBounded`, `[]CopiesAgree` of `Pins` |
| `Features_proofs!ViewOnceTypeCorrect`, `ViewedErased` | `[]ViewOnceTypeOK`, `[]ViewedIsErased` |
| `Features_proofs!PollsTypeCorrect`, `VotesCounted` | `[]PollsTypeOK`, `[]VotesCount` |
| `Features_proofs!SweepTypeCorrect`, `ExpiryReaches` | `[]SweepTypeOK`, `[]ExpiryReachesAll` |
| `Features_proofs!SettingTypeCorrect`, `SettingsSettle` | `[]SettingTypeOK`, `[]SettingsAgree` |
| `Features_proofs!PortabilityTypeCorrect` | `[]PortabilityTypeOK` |
| `Features_proofs!ExportComplete` | `[]ExportIsComplete`, whatever members write |
| `Features_proofs!ExportsFaithful` | `[]ExportsAreFaithful`, whatever members write and the imported text is |
| `Replica_proofs!ReplicaTypeCorrect` | `[]ReplicaTypeOK` |
| `Replica_proofs!CopiesAgreeWhenClean` | `[]CleanCopiesAgree` |
| `Client_proofs!TypeCorrect` | `[]TypeOK` |
| `Client_proofs!NeverTwoConnections` | `[]OneConnection` |
| `Client_proofs!DiskTypeCorrect` | `[]DiskTypeOK` of `Persistence` |
| `Client_proofs!NoHoleLeft` | `[]NoHole` |
| `Client_proofs!StoredStaysCurrent` | `[]StoredIsCurrent` |
| `Messages_proofs!HistoryTypeCorrect` | `[]HistoryTypeOK` |
| `Messages_proofs!BackfillLeavesNoHole` | `[]RecentBackfilled` |
| `Messages_proofs!ScrollingSees` | `[]ScrollSeesWindow` |
| `Messages_proofs!StoreTypeCorrect` | `[]StoreTypeOK` |
| `Messages_proofs!StoreStaysOne` | `[]StoreConsistent` |
| `Messages_proofs!TextsStayQueued` | `[]UnackedIsQueued` |
| `Messages_proofs!RowTypeCorrect` | `[]RowTypeOK` |
| `Messages_proofs!RowStaysCurrent` | `[]RowIsCurrent` |

They assume the modules' named assumptions, which TLC evaluates in the runs: ranges of the numeric
constants; for the log that messages and events are different ULIDs and that requests have a home
among the gateways; for sessions, pins, polls, receipts and settings finite sets where the code
counts or the proof does; for texts that a line has a token and a header one more, the name or the
notice. `NothingMissedInReplay` has a hypothesis of its own: the cache is not smaller than the gap
that is answered with a replay, 500 (`lib/core/storage.js:22`) against 100
(`lib/core/engine.js:11`).

**SeqCounter.** `NeverIssuedTwice` is not inductive: it says nothing of numbers not yet issued. A
node *owns* a number if it is in its window behind the current one or in a block that Redis has
granted and no caller has picked up (`Owns`). The invariant `IInv` adds: a number has at most one
owner and an owned number is not issued (`OwnedOnceAndFresh`); blocks and window of a node are in
rising order (`WindowsInOrder`); what a node has issued is behind its window (`IssuedBehindWindow`);
the counter covers everything; a stopped node owns nothing. `RedisIncrBy` gives numbers above the
counter, so of nobody; `NextResume` swaps a window for the first block, which drops ownership of the
rest of the window but never adds one.

**ConversationLog.** `CacheFaithful` needs that a task at `"cache"` holds a number that is stored
under its ULID, which in turn needs that the number of a stored message never changes. The
refinement maps `stored`, `acked` and the messages among `published`; `Store` is `Accept`, `Ack` is
`Acknowledge`, `Publish` of a send is `Broadcast`, everything else stutters. The invariant needed
says that stored numbers are distinct (`NumbersDistinct`), that a request past its insert or lookup
holds the stored number (`HoldersAgree`), that at most one request of a message will ever publish it
and none if it has been published (`OneBroadcaster`), and that what was published is stored
(`AnnouncedIsStored`). `MessagesReplayed` says nothing of what is not cached; `CachedOrOld` does: a
stored message is cached, or the request that stored it has yet to cache it, or `CacheMax` newer
numbers were drawn. The trim keeps the `CacheMax` largest of a set, so each message it drops has
`CacheMax` cached numbers above it, all of them drawn (`NumbersDrawn`): a cardinality and no
induction. A cursor that far behind is not answered with a replay.

**GatewaySessions.** `IndexedHearBroadcasts` looks at the subscription, which lags behind:
`Commanded` says that the *last* command under way, or Redis when there is none, agrees with the
count, and `Counted` that the count is no less than the index (a HELLO and a push may both count a
session, and nobody takes it out twice). `MembersAreIndexed` needs the life of a session: one that
is registered is open or closing (`Lifecycle`), one that has the conversation is in the index until
its close is over (`Filed`), a HELLO that found a member will attach (`Attached`), a push has
settled the sessions it has passed (`Pushed`: those it has not seen were there when it read
`byUser`, or find the membership themselves), and nobody counts as a member while a removal of
theirs is under way (`Removed`).

**Throttle.** `NoBurst` bounds what was served since an observer began by the bucket and the time
that has passed, and is not inductive: the bucket may be full when the bound is nearly used up.
`Paid` says that what was served *and what the bucket holds* was paid by one bucket and the refills
since, where a refill before the observer began pays for nothing; `Serve` moves a token from one to
the other, `Refilled` adds at most the time since the last refill. `BufferBounded` is inductive.

**Reconnect.** The invariant has two halves. `Subscribed` is about the gateway: an open session past
`_indexAdd` is a target (`Filing`); if anybody is interested the last command on its way, or Redis
when there is none, says SUBSCRIBE (`LastSubscribes`); the SUBSCRIBE of a session that waits for it
is the last command, for nobody can give up the interest before that session does (`Waiting`); so
when it goes on the gateway is subscribed and nothing is on its way that could change that
(`Hears`), unless the session was *hasty*: another one's SUBSCRIBE was on its way when it was filed.
`Moving` is about the messages: only stored ones travel (`TravelStored`), writers past their insert
have stored (`WritersDrawn`), and a session that has read the stores has been promised everything
else above its cursor (`Promised`). The step that matters is `HelloRead`: what is stored at that
moment is in the answer, and what is stored later is published later still, to a session that hears
it.

**Membership.** A clean user is one no two overlapping or interrupted operations were about. The
proof follows the one request that is about them (`Alone`): `Halfway` says for each of its places
which of the five stores have its value already, by what is left of its list of writes (`Coming`),
whose direction never changes (`OwnWrites`); a starting node that has read a clean user's document
holds what Mongo still says (`Undisturbed`). When nobody is about them the five stores and the
clients agree (`Settled`). `CreationsComplete` is about users whose operations do overlap: two
parties who create their DM beside each other. `DirectInv` says that a creator still writing leaves
no party out that is not in the store already, and that once a member is there (so that a second
creator finds one and writes nothing) whoever is missing somewhere is about to be written there by
somebody.

**Receipts.** `ReceiptsKept` (in Mongo, in a buffer, or in a write under way) and `TicksAreEarned`
are inductive beside each other with `NothingAhead`: no buffer, write, stored cursor or cursor in
the hands of `receiptAgg` is above what the device has said, as long as no process died. That the
count of the cursors found is no more than the members who said so is a cardinality of subsets.

**Pins.** `PinsBounded` counts: the set is no larger than the limit plus the requests that have
passed the check and not yet added; this needs cardinalities of finite sets. `CopiesAgree` needs the
state of a request in flight on a message to determine which copies it has reached.

**ViewOnce.** `Purged`: who is about to publish VIEWED has unset the payload. `ErasureComes`: once
somebody was told, no HELLO of a device still holds the content, and behind every copy that is on
the way to it or shown there is a VIEWED, since frames keep their order; or else the device is one
of the `unaware`: it missed the last VIEWED, or its copy was read before and sent after it, or came
later from the cache or the inbox.

**Polls.** `VoteComes`: the vote of a clean voter is stored, or in the hands of the one request that
is theirs. `TallyComes`: while no two votes overlap, the last frame on the way to a device, or what
it shows, is the tally of the stored votes, unless a request has yet to publish that tally.

**Disappearing.** `SweepPlaces` ties a sweeper's place to its list. `Announced`: an expired message
is published, on a list to be, or in a sweeper's hands. `Buried`: a message whose payload is gone
has a tombstone in the cache, or somebody is at work who will write one; two who patch the cached
document beside each other both write a document without payload, so the order does not matter.

**Settings.** `OnItsWay`: with one request at a time, the last event, or else the last frame on the
socket, or else the screen is the stored setting, unless a request has yet to publish it; a session
that is not described to yet will be.

**Replica.** `CleanCopiesAgree` looks at a client with nothing on its way. `CopyInv` follows what
is: for the text (`TextSettles`), for the end (`EndSettles`) and for the reaction of each user
(`ReactionsSettle`), the *last* frame that speaks of it, on the bus or else on the socket, says what
the document says; if there is none the copy does, or a page that has been read and will replace it
(`PageIsRight`); and a change that is stored and not announced has yet to say it. Each of the three
is about different frames, which is why a deletion and a reaction may be under way together. A
replay reads and sends in two steps. When it reads, the bus either speaks of the matter, and then
ends with what is stored, or will when the update is announced, or says nothing; from then to the
send (`Taken`) what it holds is right, as is a page, because a change that begins meanwhile is not a
clean one (`HandIsRight`, `PageIsRight`, `InTurn`). Without that condition a frame of the change
overtakes the older copy, which then replaces it for good (section 6). The inbox holds the text of
the SEND, which is right while nothing changed (`StillOriginal`): this is the condition that
`deleted_stays_deleted` violates.

**Connection.** `OthersAreOver`: every socket but the last one made is closed or not made yet. A
timer runs only when the last one has closed (`TimerReplaces`), so what it makes is alone.

**Persistence.** A message is *kept* if the database has it or a write of it is under way (`Kept`).
`NoHole` looks at a session; between two sessions everything must be in the database for it to hold
again. `WholeDisk` says so of a database that is `intact`: nothing at or below a kept message, a
cursor or a lastSeq is missing, in the stored records and in the writes under way alike
(`NoneMissing`), for a load takes whichever of them came last; all is under one key; a session shows
exactly what is kept, and a stored conversation record, without which a load takes nothing, is there
or on its way (`InStep`). Encrypted writes may be stored in any order because `Apply` does not
change `Kept`. `StoredIsCurrent` needs that the *last* write under way of a message has what is
shown (`Current`): without encryption `Apply` takes the first of a store, so the last one stays the
last, and a load, which writes back all it shows, comes after what a session before it left under
way.

**History.** The cache is the `CacheMax` largest numbers stored (`HistoryTyped`), so what a cursor
asks for and the cache lacks is older than the whole cache. `FetchesBring` says of the frames on
their way that a SYNC_GAP names a cursor with which the first page brings everything stored above,
and of a backfill that what it has yet to ask for, with what the client has, is everything: a page
is an initial segment of the answer, so what it leaves out is above its last number, which is the
next cursor, and a short page has left out nothing. `SoughtComes`: of every window that was asked
for, whatever is missing is in a frame, behind a SYNC_GAP or in a backfill, whether its timer has
fired or not, as long as nothing failed; so with nothing on its way it is there. `TimersKnow`: a
timer whose length is still that of the list stands for a window that was asked for; so when it
gives up with nothing on its way there was nothing. Pages and caches are the smallest or largest of
a set, by rank: that there are exactly so many of them needs the principle of the least number,
which follows from the well-founded order of the naturals (`LeastExists`, `Ranks`).

**ClientStore.** The binary searches and the loops over records are recursive functions. That the
searches are right in a sorted array (`PlaceRight`, `FindRight`) and that a loop keeps what each of
its turns keeps is an induction over the stretch still to be searched, or the number reached; it is
done by the least counterexample, for which the least number is enough. `StoreConsistent` is not
inductive, for a reload builds the three structures from the disk, where one message may be under
two numbers, and a frame may find its message under either. `StoreInv` says what is known of the
disk (`Known`: below the clock a record is under the number the server gave its message; above it
are pending numbers that were drawn, of texts; negative ones are those of attachments) and that
memory agrees with it (`Sound`): whatever map and index have under a number the disk has there too.
Only then does it say that the three are one (`Filed`), until an EXPIRED has renumbered a record;
the other parts survive that. A record that moves leaves its old number before it takes the new one,
which no other message has, since the server's numbers are distinct and below the clock.
`UnackedIsQueued` needs which entries a push at capacity drops: `QueuedInv` says that the queue
*ends with* messages among which every text is that is neither acknowledged nor lapsed (`EndsWith`),
as many entries as messages; a drain takes out the lapsed ones and keeps the order. So while no more
were created than fit, what is dropped is in front of them. A reload finds every such text pending
on disk, since no frame but its ACK takes `pending` off the record under its pending number, which
stays there.

**ConvList.** `RowIsCurrent` speaks of what is shown, and of the badge only when nothing is under
way. `RowInv` says what is. A frame that tells a number (an ACK or a MSG) sets lastSeq to its own,
higher or not, so lastSeq *will have been* that of a message (`Reached`) if the last such frame
tells it or a higher one, or none is on its way and lastSeq is there already; a message whose
deletion comes counts for nothing (`NewestComes`). The text of a message is that of the last EDITED
on its way (`LastEdit`), or else that of every MSG of it and of its record (`TextComes`); no MSG
follows an EDITED or, unless it comes from the inbox, a DELETED of its message (`FramesInOrder`), so
a preview that is kept while its message comes again has the text and the tombstone of the bubble. A
HELLO is the step that matters: its answer is the replay, by number, and then the inbox, which holds
the newest message if it holds any (`InboxFits`), so the last frame told is the newest
(`Answering`). A record is on disk under the number it is shown with (`RecsFit`), and a number
determines its message: hence a reload either shows the same records, with the same preview, or has
put an own text under its pending number (`Loading`).

**Portability.** The parser and the writer are recursive functions over lines and messages
(`Reading`, `Listing`); that such a function exists (`ReadingSteps`, `ListingSteps`), and what holds
of each of its values, is shown by the least counterexample. What the parser returns is in a form
that the writer keeps (`TextIsRead`, `ReadMessages`): trimmed, no line but the first is a header,
the media are those found in the body. What the log holds has that form or is a text without a
medium (`WrittenMessages`). Of a text one empty line is written (`BodyOf`), whatever its words, and
of a medium its marker or its name, none of which opens a message; that is why nothing need be
assumed of what members write. The lines of one such message are read back as that message
(`LinesAgain`), wherever they stand in a text (`BlockRead`), and the empty line behind the last one
changes nothing (`EmptyLineRead`). `Begun` is what is inductive: of every text that *begins with*
the lines of the first n messages, those that are listed have been read when these lines have, each
in its place. That an export is complete is an invariant of the two jobs (`PortabilityInv`): what
was passed over is an initial segment of the numbers (`LogAndListing`), in which what was stored
when the export began is listed, and a short page ends at the end of the log; the number an import
has drawn is its own (`Import`), so no insert touches what was there.

**Only model-checked**: every liveness property (TLAPS does not prove liveness under fairness, nor
`ENABLED`), and the type invariants that the MC modules put together from those of their modules,
which are proved one by one. No module declares a RECURSIVE operator.

## 6. Where the code departs from its documents

Each of these was met while modelling: a property that a comment, a test or a document states was
refuted by TLC with the modules here (or, where parameters differ, with the instance that has them:
a crash, two gateways with windows, encryption, a second user), or, for the words of an export,
could not be stated of what the code writes. Five stay as runs. The others are written down so that
the conditions of the passing properties can be understood: where a property is guarded (`clean`
users, one vote at a time, no crash), this is why.

**Counter and log**

- `lib/common/seq.js:39`. With SEQ_WINDOW > 1 two gateways hold windows of one conversation at the
  same time (routing is "sticky by userId", lib/server.js:3, so members of one conversation write
  through different gateways); their numbers interleave: 3 can be issued before 1. README.md:28-29
  says "`SEQ_WINDOW>1` enables sequence batching for very hot conversations (monotonic, may gap)",
  and lib/common/seq.js:16-17 rests it on "a single gateway owns a conversation's writes at a time
  via sticky routing".
- `lib/core/storage.js:239` (run `log_reuse`). rebuildSeq sets the counter to the highest `seq` of a
  stored document. Edits, deletes and reactions drew higher numbers that are in no `seq` field, so
  the next frame repeats one of theirs. test/features.test.js:313 claims "no seq collision after
  recovery" and test/concurrency.test.js:100 "100 mixed ops produce a monotonic control-seq stream".
- `lib/core/storage.js:71`. A node dies after insertOne and before the cache is filled and the frame
  published. The client repeats its SEND, ingest reports a duplicate, the ACK is sent and nothing is
  broadcast; a replay that the cache answers does not contain the message either. PARITY-AUDIT.md:12
  claims "At-least-once + idempotent send (dedup on ULID)".
- `lib/core/storage.js:198`. groupEvent stores the event in Mongo and not in the cache; _replay
  takes the cache's answer whenever it is not empty, so events next to a cached message are not
  replayed. test/features.test.js:259 claims "group system events appear in ordered log on sync".
- `lib/core/storage.js:96`. updateCachedDoc reads the cached JSON, awaits, and writes it back
  patched. An edit that read it before a delete wrote its tombstone overwrites the tombstone, and
  replay sends the message. test/features.test.js:168 claims "deleted message replays as DELETED
  tombstone on sync".
- `lib/core/storage.js:147`. edit draws its number and then updates the document without comparing
  editSeq: two edits can reach Mongo in the opposite order of their numbers.
  test/features.test.js:317 claims "Concurrent edit ordering (last-writer-wins by seq)".

**Sessions and delivery**

- `lib/core/gateway.js:128`. _onHello goes on after its awaits when the socket has closed in the
  meantime: it fills byUser, convIndex and the interest count, and no _onClose will ever empty them.
  lib/fanout.js:3-5 says "A gateway subscribes to conv:{id} only while it holds >=1 local socket
  interested in it".
- `sdk/SyncClient.js:317` (run `reconnect_up_to_date`). The handler of MSG sets lastSeq to the
  number of whatever frame comes; a live frame that is sent between addInterest and the replay
  raises it above messages the client does not have, and if the connection breaks then, the next
  HELLO carries that cursor. README.md:52-54 says "on reconnect `drainInbox` + `onHello` gap-fill
  bring them fully up to date".
- `lib/core/gateway.js:252` (run `deleted_stays_deleted`). _onHello replays a deleted message as
  DELETED and then drains the inbox, which holds the frame of the SEND as it was (queueOffline): the
  client puts the text back in the place of the tombstone, its cursor is above the message from then
  on and nothing corrects it. test/features.test.js:172 says of such a message "D1 should replay as
  tombstone, not original text".
- `lib/core/engine.js:37`. A HELLO replays what is above the cursor, by the number of the message.
  Edits, deletions, expiries and reactions of older messages, made while the client was away, have
  numbers of their own above the cursor and are not sent. PARITY-AUDIT.md:14 claims "Reconnect
  convergence + gap fill".
- `lib/core/gateway.js:34`. A frame to a socket with too much in its buffer is dropped, ACK and MSG
  too, and nobody takes note: the session has a gap while its connection lasts. NoGapWhileConnected
  and LiveMessagesArrive hold for sockets below the limit. README.md:38 lists "per-socket
  backpressure" as a feature.
- `sdk/SyncClient.js:565`. A SEND that the bucket refuses is answered with ERR alone: the text stays
  pending until the queue is drained on another connection; and a drain of more than 30 texts is
  refused from the 31st on. The comment there says "no immediate retry needed; server will unblock
  automatically".
- `lib/fanout.js:20`. addInterest waits for SUBSCRIBE only where it sends it. A second session that
  is filed while the SUBSCRIBE of the first is on its way reads the counter and the stores at once;
  what is stored after that and published before the subscription reaches it neither by the replay
  nor live, and its next frame takes lastSeq past it. README.md:53-54 says "on reconnect
  `drainInbox` + `onHello` gap-fill bring them fully up to date".

**Typing and presence**

- `sdk/SyncClient.js:235`. PRESENCE is sent right behind HELLO, whose handler has filed no
  conversation yet, so that it is told to nobody; and nobody sends "offline" for a tab that dies.
  CLIENT_SDK_PLAN.md:630 says "Dot shows green/grey".
- `sdk/SyncClient.js:836`. There is one timer for all conversations: who types in one and then in
  another within three seconds never sends the stop of the first, whose sign stays until it expires
  with the viewer. CLIENT_SDK_PLAN.md:629 has `typing()` show "is typing…".
- `lib/core/gateway.js:114`. A socket that closes while _onHello awaits the verifier has no user yet
  when _onClose runs; the handler then enters the session in byUser, and the heartbeat
  (server.js:234-236, lib/server.js:48-52) keeps the presence key until the gateway ends. The user's
  messages are not queued for the inbox in that time. README.md:52-53 says "while a recipient is
  disconnected (server up), messages queue to their Redis Stream inbox".

**Content and the list of conversations**

- `lib/core/engine.js:54`. _replay reads a batch in one await and sends it in another; an EDITED or
  DELETED that is delivered in between comes before the older MSG, which then replaces the record
  for good. PARITY-AUDIT.md:14 claims "Reconnect convergence + gap fill".
- `sdk/SyncClient.js:309`. A message that is replayed by HELLO or SYNC_REQ replaces the record with
  one without reactions, pin, view or poll tally, since MSG has none of them. :302-305 carry over
  the status of own messages only. PARITY-AUDIT.md:22 lists "Reactions (one per user)".
- `sdk/SyncClient.js:821`. A reaction toggled while the socket is closed is shown and never sent.
  The comment says "server echo will arrive and overwrite".
- `sdk/SyncClient.js:202`. After a reload the read cursor is taken for lastSeq, so the badge is 0
  until the replay has come. UNREAD_COUNT_PLAN.md:315 says "Page refresh | counts correct before WS
  reconnects".
- `sdk/SyncClient.js:281`. The ACK of a SEND that was repeated carries the old number and takes
  lastSeq back below messages that have come since: the badge misses them. So do MSG frames of the
  inbox (317) and the next join (joinConv). UNREAD_COUNT_PLAN.md:60 says of lastSeq "it is always
  current".
- `sdk/SyncClient.js:283`. The ACK of an own message moves lastReadSeq over messages of others with
  lower numbers, seen or not. UNREAD_COUNT_PLAN.md:319 says "count = exact unread count".
- `sdk/SyncClient.js:187`. Group events, edits, reactions and votes take numbers, so the difference
  is no count of messages: a first message in a new conversation, behind the events that made it,
  shows a larger one. UNREAD_COUNT_PLAN.md:318 says "count = 1 on first message".
- `sdk/SyncClient.js:655`. A replayed message that was edited while the client was away has the
  number it had, which is not above that of lastMsg: the bubble is new and the preview old. The
  comment at :717 says "Keep lastMsg in conv in sync".

**Subject and timer**

- `lib/core/gateway.js:143`. The timer and the description are told to nobody who was not there
  (ConvTimerStore.get is never called), and the subject only for conversations a HELLO does not
  name. A client that was away goes on with the old timer, which its composer puts on new messages
  (Composer.jsx:29). PARITY-AUDIT.md:50-51 says "set a chat-wide timer that new messages inherit".
- `lib/subject/wire.js:7`. Redis is set in one await and the frame published in another: of two
  overlapping settings the clients may show one and a later HELLO the other. An older subject read
  by _pushConvMeta may be sent behind a newer frame. PARITY-AUDIT.md:52-53 says "emitted as ordered
  system messages so they appear in-line on sync".
- `server.js:149`. The subject given at the creation is written to Redis only, and the copies of
  subject and timer in Mongo are never read: after a loss of the Redis data they are gone. The
  comment at lib/subject/storage.js:5 says "write-through persistence".
- `lib/core/gateway.js:202`. The loop that takes a removed member out of the index runs behind the
  awaits of the operation: if the user is added again meanwhile, the session is detached although it
  is a member's, until its next HELLO. The passing property speaks of members nobody is removing.
  lib/fanout.js:3-5 says "A gateway subscribes to conv:{id} only while it holds >=1 local socket
  interested in it".

**Client store**

- `sdk/OutQueue.js:42`. drain drops what is older than 24 hours (OFFLINE_MESSAGES_PLAN.md:99 says
  so) and tells nobody: the message stays pending on the screen and on disk, and every reload queues
  it again to be dropped again. MESSAGE_STATUS_PLAN.md:249 says "Message stays 'pending' in IDB. On
  reconnect, OutQueue resends → new ACK → 'sent'".
- `sdk/SyncClient.js:789`. sendAttachment stores the pending message under a negative number;
  _loadFromIdb reads from number 0 and queues only texts again, so an attachment that was not
  acknowledged before a reload is never sent. sdk/OutQueue.js:2-4 says "Outbound message queue for
  offline durability. Buffers SEND frames until ACK'd, replaying on WS reconnect."
- `sdk/SyncClient.js:652`. When a message moves from its pending number to the server's, its entry
  is taken out of the map and not out of IndexedDB, where both stay. A reload inserts them in the
  order of the numbers, so an own text that was shown in its place is at the end again, under its
  pending number; if MSG came before ACK that record is still pending, the text is queued again
  although it was acknowledged, and OutQueue.remove (sdk/OutQueue.js:29) takes one entry where a
  text is queued twice. OFFLINE_MESSAGES_PLAN.md:70-71 says "server ACKs → status changes to 'sent'
  → MSG arrives → seq promoted".
- `sdk/SyncClient.js:500`. The handler of EXPIRED patches the number of a record in place. If the
  message is still shown under its pending number (its MSG frame was missed) the array is not sorted
  any more and the record's key and number differ. sdk/SyncClient.js:609 calls it "a seq-sorted
  array", and :274-276 says that such a patch breaks the binary search.
- `sdk/SyncClient.js:280`. The handler of ACK sets the status to "sent" whatever it was; the ACK of
  a SEND that was repeated after its MSG was received and read takes the tick back.
  MESSAGE_STATUS_PLAN.md:16 says "Status can only advance, never go backwards".
- `components/ChatPane.jsx:54`. An acknowledged own message keeps its pending number until its MSG
  frame comes, but is not "pending" any more; if the number of messages changes in between, the
  pending number is sent as READ and kept as the cursor. The comment at components/ChatPane.jsx:53
  says "Only send read for real server messages, not pending".

**Receipts**

- `lib/core/storage.js:232`. receiptAgg counts every member with a cursor, the sender included, and
  the client compares with total - 1. MESSAGE_STATUS_PLAN.md:164 says blue "only when ALL other
  members have read".
- `lib/core/storage.js:131`. _flushCursors clears the buffer before the bulkWrite; between the two
  awaits of receiptAgg an entry is neither in what find returned nor in the buffer. The comment at
  lib/core/storage.js:205 says "Merges in-flight cursor buffer so callers see current state
  immediately".
- `lib/core/gateway.js:186`. The counts are taken for the number of the receipt only. Members whose
  last receipts name different messages have all read the lower one, and no count for it is made.
  MESSAGE_STATUS_PLAN.md:162 gives as the defect to be fixed that group messages do not change their
  tick "even after everyone has read them".

**Membership**

- `server.js:144`. The creation adds the members one await after another; addMember upserts the
  document, so after a crash in between it exists with some of the members, and a repeated request
  returns it as it is. The comment at server.js:143 says "Idempotent: check if conv already exists
  (DM case)".
- `lib/core/storage.js:175`. addMember and removeMember write Redis and then Mongo without a common
  order; an add and a remove of one user that overlap leave the user a member in one store only,
  until the rebuild of a later start takes Mongo's word. The comment at lib/core/storage.js:170 says
  "membership — Redis hot set + write-through to conversations collection".
- `lib/core/engine.js:121`. A self-join counts the members in one await and adds in the next; two
  users who join an empty conversation both count 0 and both become admins. The comment at
  lib/core/engine.js:118 says "bootstrap new conv as first admin".
- `lib/core/storage.js:249`. _rebuildRedisIfNeeded skips a conversation whose member set exists;
  when Redis lost its data under a running node, any addMember before the next start makes the set
  exist with one member. The comment at lib/core/storage.js:245 says "auto-rebuild Redis membership
  + seq from MongoDB on cold start".
- `lib/core/engine.js:135`. groupEvent is behind the awaits of the writes: after a crash between
  them the member is in the stores and nobody is told, and two operations that overlap may be
  published in the other order than they were written. test/features.test.js:259 claims "group
  system events appear in ordered log on sync".

**Pins, polls, view-once**

- `lib/pin/engine.js:22`. pinCount and the sadd of setPin are two awaits apart.
  PARITY-AUDIT.md:39-40 claims "pin/unpin with the WhatsApp cap of 3 per chat".
- `lib/pin/storage.js:26`. setPin writes the set, the conversation and the message in three awaits:
  a pin and an unpin of one message that overlap, or a write that fails, leave them different. The
  comment at lib/pin/storage.js:11 says "write-through persistence".
- `lib/viewonce/storage.js:15`. consume unsets the payload in Mongo and leaves the cached document,
  so the replay of a HELLO that the cache answers sends the content after the view. The comment at
  sdk/SyncClient.js:492 says "Erase content for everyone once at least one party has viewed".
- `lib/core/gateway.js:251`. drainInbox sends the frame of the SEND as it was queued, payload and
  all, behind the replay of the purged document: a device whose user was away shows the content
  again after the last view. The comment at sdk/SyncClient.js:492 says "Erase content for everyone
  once at least one party has viewed".
- `lib/viewonce/storage.js:12` (run `view_once_once`). The check of viewedBy and the $push are two
  awaits apart, and $push takes duplicates: two requests of one user are both granted.
  PARITY-AUDIT.md:45-46 claims "exactly-once consumption; ... second view rejected".
- `lib/viewonce/storage.js:15`. $push and $unset are two updates. After a crash between them every
  further request of that user is refused as already viewed, and the payload remains.
  PARITY-AUDIT.md:45-46 claims "payload purged server-side after the first view".
- `sdk/SyncClient.js:477`. vote() takes the tally in one await and publishes it in another, and
  POLL_TALLY is applied without looking at its number, so an older tally can overwrite a newer one
  and remain. PARITY-AUDIT.md:43-44 says "The server is the source of truth for the tally (clients
  never compute it)".
- `lib/poll/wire.js:17`. POLL_TALLY is published and neither queued nor replayed, and a poll
  replayed as MSG has no poll data: after a reconnect a device shows an old tally or no poll.
  PARITY-AUDIT.md:14 claims "Reconnect convergence + gap fill".
- `components/PollCard.jsx:13`. `voters` is the number of voters (lib/poll/storage.js:36), the card
  reads voters[userId]: myVotes is always empty, a second click sends the same vote and a
  multi-select poll keeps one choice. PARITY-AUDIT.md:42-43 claims "single- and multi-select, vote
  replacement, retraction".

**Disappearing messages**

- `lib/disappearing/storage.js:18`. sweep reads the documents first and then updates each one
  whatever has become of it: two nodes (lib/server.js:55-60, "for conversations this node holds
  sockets for") expire a message twice, with two numbers and two EXPIRED frames. The comment at
  lib/disappearing/storage.js:10 says "Idempotent."
- `lib/disappearing/wire.js:7`. runSweep publishes when the whole list is done; an exception at a
  later message is swallowed by the interval and the messages already expired are skipped by every
  further sweep, so EXPIRED is never sent for them. PARITY-AUDIT.md:47-49 says "the engine actually
  tombstones expired messages, broadcasts `EXPIRED`".
- `lib/disappearing/storage.js:21`. When the node dies after the update in Mongo the cached document
  keeps its payload; later sweeps skip the message because Mongo says expired, and replay sends the
  original MSG. The comment at lib/disappearing/storage.js:19 says "Update cache so replay sends
  EXPIRED tombstone, not the original MSG".
- `lib/common/errors.js:35`. requireTarget refuses deleted messages only, so an expired message can
  be edited within the edit window and has a payload again, which no sweep will clear.
  test/features2.test.js:173 claims "expired message swept -> EXPIRED frame + payload cleared".

**History**

- `server.js:204`. The gap endpoint asks the cache first and Mongo only when the cache has nothing
  at all; the cache holds the newest 500 messages, so a client whose gap is larger gets those and
  never the ones between its cursor and the oldest cached one. PARITY-AUDIT.md:15 claims "Cold-start
  REST handoff (large gap)".
- `sdk/SyncClient.js:929`. loadMoreMessages asks for the numbers from oldest - limit on; when edits,
  reactions and the like took all of them nothing new comes within 3 s and hasMore becomes false
  although older messages exist. useNdePaginatedMessages.js:8-10 says it "fetches from IDB first,
  then asks the server if IDB is exhausted".
- `useNdePaginatedMessages.js:50`. The timer of 3 s fires whatever is on its way; an answer that is
  later than that, behind a backfill for instance, finds hasMore false, and nothing sets it to true
  again although it brings older messages. The comment at useNdePaginatedMessages.js:49 says "Wait
  briefly for the server response before marking as exhausted".
- `sdk/SyncClient.js:970`. _fetchGapViaHttp inserts the messages and does not raise lastSeq, so the
  unread count leaves them out until another frame comes. UNREAD_COUNT_PLAN.md:60 says of lastSeq
  "it is always current".

**Connection**

- `server.js:70` (run `connection_token`). The WebSocket server of server.js authenticates with
  UserStore.verify, which throws what jose throws; its code is a string such as ERR_JWT_EXPIRED and
  is sent as the ERR code (lib/core/gateway.js:69), so the comparison with 401 at
  sdk/SyncClient.js:561 fails, a toast is shown and the socket stays open without a session.
  CLIENT_SDK_PLAN.md:646 says "Token refresh | expire token | reconnect attempt | Re-issues token,
  reconnects".
- `ws/WsClient.js:37`. onopen sets _authFailCount to 0 before the HELLO is sent, and there is at
  most one UNAUTH per connection, so the count never passes 1 and the branch that gives up is never
  taken. The comment at ws/WsClient.js:9 says "Give up after 3 consecutive UNAUTH errors".
- `ws/WsClient.js:42`. onopen goes on after `await getToken()` without looking at the socket: an
  interval started after onclose is never cleared, or its handle is overwritten by that of the next
  socket. CLIENT_SDK_PLAN.md:148 says "destroy() { /* close WsClient, clear timers */ }".
- `sdk/SyncClient.js:236`. The queue is drained when the socket opens, behind HELLO and before the
  server has verified the token; frames are served concurrently, so the SEND is refused with
  NOT_MEMBER (lib/core/engine.js:73) and stays queued until another reconnect.
  MESSAGE_STATUS_PLAN.md:249 says "On reconnect, OutQueue resends → new ACK → 'sent'".

**Persistence**

- `sdk/IdbStore.js:146`. putMessage encrypts before it opens its transaction and is not awaited: of
  two patches of one message the first may be written last, and a reload shows it.
  MESSAGE_STATUS_PLAN.md:258 relies on "Status from IDB is preserved (IDB was written on each
  `_patchMsg`)".
- `sdk/SyncClient.js:803`. The cursor and the conversation record are written without waiting for
  the messages below them: when the tab closes between the two the next HELLO carries a lastSeq for
  messages that are neither stored nor sent again. CLIENT_SDK_PLAN.md:306 says "If IDB enabled: load
  cursors from IDB (real lastSeq, not 0)".
- `sdk/SyncClient.js:203`. The database is shared by the users of a browser and cursors are neither
  keyed by user nor encrypted: the next user's lastSeq is the earlier one's, for messages whose
  records that user cannot decrypt. CLIENT_SDK_PLAN.md:306 says "If IDB enabled: load cursors from
  IDB (real lastSeq, not 0)".
- `sdk/SyncClient.js:203`. Without a cursor the load takes conv.lastSeq, which the upgrade keeps:
  the server sends only what is above it. IdbStore.js:61-62 says "Clear cursors so the server
  resends all messages on next HELLO".

**Import and export**

- `lib/portability/engine.js:86`. The driver returns a payload as a bson.Binary
  (lib/core/engine.js:14-21 and server.js:164-168 convert it), whose `length` is a function;
  Buffer.from makes an empty buffer of that, so the export has the header of each text and none of
  its words. test/portability.test.js:131 says "import -> export -> re-import yields identical
  message count & bodies"; its fake returns the Buffer it was given.
- `lib/portability/engine.js:60`. The cursor is the highest number seen. A message that has a lower
  one, drawn but not inserted yet (lib/core/storage.js:59-67), is in no later batch, so an export
  may have a message and not one before it. `ExportIsComplete` speaks of what was stored when it
  began. test/portability.test.js:131 as above.
- `lib/portability/engine.js:86` and `lib/portability/whatsapp.js:47`, were the words written: a
  line of a text that begins with a time stamp would be read back as a message of somebody else, and
  an imported text with the phrase of an omitted medium in it is exported as "<Media omitted>" even
  so. test/portability.test.js:138 says "text bodies survive (media render as placeholders both
  ways)".
- `lib/portability/engine.js:38`. Every call mints new ULIDs, so nothing recognises the messages an
  earlier, failed call has already ingested. PARITY-AUDIT.md:12 claims "At-least-once + idempotent
  send (dedup on ULID)", and README.md:47 "Messages replay through normal ingest".

## 7. What is not modelled, and what abstracts what

Not modelled:

- **Accounts and tokens** beyond "a token is valid or not when it is verified": registration is one
  insert under a unique index, login one lookup and a hash, and `server.js` does not use the token
  cache of `lib/auth`; there is no state here that two steps could get wrong;
- the **PRESENCE frame** of a client, which is passed on and kept by nobody (section 6 says when it
  is sent);
- **preferences and search** of the client: one record and one filter, each in one step;
- **metrics** and their endpoint, **encodings** (frames, ULIDs, error codes), the dispatch table,
  the fakes of the tests and the development server, which is a second `server.js` over them;
- **rendering**, and the **media upload**, whose endpoints are not in the repository;
- **time stamps** in the retention of IndexedDB, which prunes imported messages from the middle of a
  conversation because theirs are old; `History` prunes by number.

Abstractions that a reader should know of:

- `ConversationLog`: payloads are "original", "edited by number n", "tombstone". A rebuild by a
  start is two steps (find the highest number, set the counter) though it loops over conversations.
  A request that is refused changes nothing and is not a step.
- `Replica`: one message and one client; the cached document is the stored one but for its
  reactions, which the code never caches. Pins, views and tallies of a record are left to the
  slices. The SYNC_REQs in flight are as many as `Syncs` has members (one in the run, any set in the
  theorem).
- `ConvList`: frames come in the order in which they were sent and a HELLO is answered in one step,
  since a row only depends on the frames; messages are texts without attachments, and the user has
  one device besides this one.
- `Throttle`: tokens are counted in units and the clock in ticks that refill one unit, so that there
  are no fractions; the code's tokens are a floating-point number.
- `Typing`: the time at which a sign expires is counted down by the viewer's clock, so `Expiry` may
  be anything, as clocks differ.
- `Presence`: a tick is the interval of 20 s; time does not pass while a command is on its way. A
  session that was entered after its socket closed counts as one that is there (section 6).
- `Settings`: the setter is allowed to set; the copy in Mongo, which nobody reads, and the
  description are left out.
- `Receipts`: a device has one receipt handler under way at a time; the count reaches the author at
  once, since a client only raises a status.
- `Membership`: the rebuild of one conversation from its document is one step after the two reads
  that decide on it (the code sends it as one pipeline). Event numbers are the log's matter.
- `ClientStore` and `History` write IndexedDB synchronously; `Persistence` has the asynchrony, and
  no array or queue. Edits and reactions, which patch a record without moving it, are in `Replica`.
  The ages of queued texts are left open: a drain may find any of them too old, but with one also
  those that were sent before it.
- `History`: messages arrive in the order of their numbers (`Reconnect` has the other orders);
  retention goes by count, not by time stamp.
- `Reconnect`: one client, the cache does not lack a stored message; the other sessions of the
  gateway are one neighbour. Nothing is said of what a hasty session misses (section 6).
- `Disappearing`: the numbers of EXPIRED frames are left out; a message becomes due once. A node
  sweeps the conversations it holds sockets for (server.js:239-244); the sweepers are such nodes,
  and without one nothing is swept.
- `Connection`: presence and ping frames are left out, the ping interval is kept as something that
  must not be left running; delays have no lengths.
- `Portability`: time stamps, locales and the wording of notices are left out; a line is a sequence
  of tokens, so what matters is which lines read as a header. The words of a text are not compared,
  since they are not written (section 6).
- `MCLiveness`: a message of the log has one SEND in flight at a time (the safety run has two).
- Redis and Mongo are linearizable and their commands atomic, which is what one primary of each
  gives; pub/sub drops what is published while nobody is subscribed. These are external, modelled
  from how the code uses them.

## 8. Plan

Done: the modules of section 2, in the order counter, log, sessions, reconnect, client store,
receipts, membership, slices, history, connection, persistence, portability; then content of a
message, load of a socket, typing, presence, the list of conversations, subject and timer; the runs
of section 3; the theorems of section 5.

Next, in this order:

1. `Reconnect` as an implementation of an abstract delivery specification (a member's copy is a
   growing subset of the log), and `Persistence` as one of `ClientStore`'s synchronous disk.
2. **Composition of Membership and GatewaySessions**: who is promoted or added again while a loop
   over the sessions is under way.
3. **Retention by time stamp**, with imported messages in the middle of a conversation.
