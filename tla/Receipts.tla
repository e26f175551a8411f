------------------------------ MODULE Receipts ------------------------------
(***************************************************************************)
(* DELIVERED and READ receipts of one group conversation: each gateway     *)
(* buffers the cursors of its sockets for 200 ms and writes them to Mongo  *)
(* in bulk; every receipt also recounts how many members have seen the     *)
(* message it names, and the author's client turns the counts into a tick  *)
(* (lib/core/storage.js, gateway._onReceipt, SyncClient.js).               *)
(*                                                                         *)
(* A receipt for n says "everything up to n".  The messages exist and the  *)
(* members do not change.  Redis delivers the counts to the author's       *)
(* client at once: the client only ever raises a status, so their order    *)
(* and delay do not matter.                                                *)
(***************************************************************************)
EXTENDS Integers, FiniteSets, Sequences

CONSTANTS
    Readers,       \* the users who send receipts
    Members,       \* the members of the group: more than two
    Author,        \* the member whose ticks are watched
    Devices,
    UserOf,        \* the user a device belongs to
    Processes,     \* the gateways
    GatewayOf,     \* the gateway a device's socket is on
    Messages,      \* the numbers of the conversation's messages
    Own,           \* those that Author sent
    MaxReceipts,   \* bound of the model: receipts in a behaviour
    MaxDeaths      \* bound of the model

ASSUME ReceiptsAssumption ==
    /\ Members \subseteq Readers /\ Author \in Members
    /\ IsFiniteSet(Members) /\ Cardinality(Members) > 2
    /\ UserOf \in [Devices -> Readers] /\ GatewayOf \in [Devices -> Processes]
    /\ Messages \subseteq Nat \ {0} /\ Own \subseteq Messages
    /\ MaxReceipts \in Nat /\ MaxDeaths \in Nat

VARIABLES
    buffer,        \* per gateway: _cursorBuffer, the entry [d, kind, n] per device and kind
    timer,         \* per gateway: is _cursorTimer set
    writing,       \* per gateway: the updates of bulkWrites in progress
    cursor,        \* Mongo: deliveredSeq and readSeq of each device, 0 if absent
    handler,       \* per device: where its _onReceipt is
    status,        \* the author's client: the status of its messages
    heard,         \* history: the highest receipt a device sent and no crash lost
    receipts, deaths

receiptVars == <<buffer, timer, writing, cursor, handler, status, heard, receipts, deaths>>

Kinds == {"delivered", "read"}

NoCursor == [delivered |-> 0, read |-> 0]

NoReceipt == [pc |-> "idle", kind |-> "read", n |-> 0, found |-> [d \in Devices |-> NoCursor]]

Larger(a, b) == IF a >= b THEN a ELSE b

Rank == [sent |-> 1, delivered |-> 2, read |-> 3]

ReceiptsInit ==
    /\ buffer = [g \in Processes |-> {}]
    /\ timer = [g \in Processes |-> FALSE]
    /\ writing = [g \in Processes |-> {}]
    /\ cursor = [d \in Devices |-> NoCursor]
    /\ handler = [d \in Devices |-> NoReceipt]
    /\ status = [m \in Own |-> "sent"]
    /\ heard = [d \in Devices |-> NoCursor]
    /\ receipts = 0 /\ deaths = 0

-----------------------------------------------------------------------------
(***************************************************************************)
(* _onReceipt                                                              *)
(***************************************************************************)

\* Mutant of Buffered: one entry per device, whatever its kind.
BufferedPerDevice(buf, e) ==
    IF \E f \in buf : f.d = e.d /\ f.n >= e.n
    THEN buf ELSE {f \in buf : f.d # e.d} \cup {e}

\* setCursor: an entry gives way to a higher one of its device and kind.
Buffered(buf, e) ==
    IF \E f \in buf : f.d = e.d /\ f.kind = e.kind /\ f.n >= e.n
    THEN buf ELSE {f \in buf : f.d # e.d \/ f.kind # e.kind} \cup {e}

\* The frame arrives: setCursor, whose promise resolves at once, arms the timer
\* with the first entry; then the RECEIPT is published, which clients of groups
\* ignore.
Receive(d, kind, n) ==
    LET g == GatewayOf[d]
        new == Buffered(buffer[g], [d |-> d, kind |-> kind, n |-> n])
    IN  /\ handler[d].pc = "idle" /\ receipts < MaxReceipts
        /\ buffer' = [buffer EXCEPT ![g] = new]
        /\ timer' = [timer EXCEPT ![g] = @ \/ new # buffer[g]]
        /\ heard' = [heard EXCEPT ![d][kind] = Larger(@, n)]
        /\ handler' = [handler EXCEPT ![d] = [NoReceipt EXCEPT !.pc = "find", !.kind = kind, !.n = n]]
        /\ receipts' = receipts + 1
        /\ UNCHANGED <<writing, cursor, status, deaths>>

\* receiptAgg, await this.cursors.find({ convId })
Find(d) ==
    /\ handler[d].pc = "find"
    /\ handler' = [handler EXCEPT ![d].pc = "count", ![d].found = cursor]
    /\ UNCHANGED <<buffer, timer, writing, cursor, status, heard, receipts, deaths>>

\* The cursors found, with the entries this gateway still buffers merged in.
Merged(g, found) ==
    [d \in Devices |-> [kind \in Kinds |->
        LET entries == {e \in buffer[g] : e.d = d /\ e.kind = kind}
        IN  IF entries = {} THEN found[d][kind]
            ELSE Larger(found[d][kind], (CHOOSE e \in entries : TRUE).n)]]

\* Mutant of Counted: whoever has a cursor counts, member or not.
CountedAnyone(cur, kind, n) ==
    Cardinality({u \in Readers : \E d \in Devices :
        UserOf[d] = u /\ (cur[d].read >= n \/ (kind = "delivered" /\ cur[d].delivered >= n))})

\* perUser: a member has read if one of its devices has; reading is receiving.
Counted(cur, kind, n) ==
    Cardinality({u \in Members : \E d \in Devices :
        UserOf[d] = u /\ (cur[d].read >= n \/ (kind = "delivered" /\ cur[d].delivered >= n))})

\* SyncClient, RECEIPT_AGG: the threshold is everyone but the sender; own
\* messages up to n rise to the new status.
Raised(n, delivered, read) ==
    LET threshold == Cardinality(Members) - 1
        new == IF read >= threshold THEN "read"
               ELSE IF delivered >= threshold THEN "delivered" ELSE "sent"
    IN  [m \in Own |-> IF m <= n /\ Rank[status[m]] < Rank[new] THEN new ELSE status[m]]

\* receiptAgg resumes with the cursors, counts, and the counts are published.
Aggregate(d) ==
    /\ handler[d].pc = "count"
    /\ LET cur == Merged(GatewayOf[d], handler[d].found)
           n == handler[d].n
       IN  status' = Raised(n, Counted(cur, "delivered", n), Counted(cur, "read", n))
    /\ handler' = [handler EXCEPT ![d] = NoReceipt]
    /\ UNCHANGED <<buffer, timer, writing, cursor, heard, receipts, deaths>>

-----------------------------------------------------------------------------
(***************************************************************************)
(* _flushCursors                                                           *)
(***************************************************************************)

\* The timer fires: the buffer is emptied, then `await bulkWrite(ops)`.
Flush(g) ==
    /\ timer[g]
    /\ timer' = [timer EXCEPT ![g] = FALSE]
    /\ writing' = [writing EXCEPT ![g] = @ \cup buffer[g]]
    /\ buffer' = [buffer EXCEPT ![g] = {}]
    /\ UNCHANGED <<cursor, handler, status, heard, receipts, deaths>>

\* $max: { [field]: seq }
Written(old, n) == Larger(old, n)

\* Mongo applies one of the updates; bulkWrite is unordered.
WriteCursor(g, e) ==
    /\ e \in writing[g]
    /\ writing' = [writing EXCEPT ![g] = @ \ {e}]
    /\ cursor' = [cursor EXCEPT ![e.d][e.kind] = Written(@, e.n)]
    /\ UNCHANGED <<buffer, timer, handler, status, heard, receipts, deaths>>

\* The process dies, with its buffer, its handlers and the updates that Mongo
\* did not get.
GatewayDies(g) ==
    /\ deaths < MaxDeaths
    /\ deaths' = deaths + 1
    /\ \E sent \in SUBSET writing[g] :
          /\ writing' = [writing EXCEPT ![g] = sent]
          /\ heard' = [d \in Devices |-> [kind \in Kinds |->
                LET kept == {e.n : e \in {f \in sent : f.d = d /\ f.kind = kind}}
                                \cup {cursor[d][kind]}
                IN  IF GatewayOf[d] # g THEN heard[d][kind]
                    ELSE CHOOSE n \in kept : \A m \in kept : m <= n]]
    /\ buffer' = [buffer EXCEPT ![g] = {}]
    /\ timer' = [timer EXCEPT ![g] = FALSE]
    /\ handler' = [d \in Devices |-> IF GatewayOf[d] = g THEN NoReceipt ELSE handler[d]]
    /\ UNCHANGED <<cursor, status, receipts>>

-----------------------------------------------------------------------------
OnReceipt(d) == Find(d) \/ Aggregate(d)

Flushing(g) == Flush(g) \/ \E e \in writing[g] : WriteCursor(g, e)

ReceiptsNext ==
    \/ \E d \in Devices, kind \in Kinds, n \in Messages : Receive(d, kind, n)
    \/ \E d \in Devices : OnReceipt(d)
    \/ \E g \in Processes : Flushing(g) \/ GatewayDies(g)

ReceiptsSpec == ReceiptsInit /\ [][ReceiptsNext]_receiptVars

-----------------------------------------------------------------------------
(***************************************************************************)
(* Properties                                                              *)
(***************************************************************************)

Entries == [d : Devices, kind : Kinds, n : Messages]

Cursors == [Devices -> [Kinds -> Messages \cup {0}]]

\* Types of the variables; a buffer holds one entry per device and kind, and
\* never without a timer that will write it (lib/core/storage.js:116-124).
ReceiptsTypeOK ==
    /\ DOMAIN buffer = Processes /\ DOMAIN writing = Processes
    /\ \A g \in Processes :
          /\ buffer[g] \subseteq Entries /\ writing[g] \subseteq Entries
          /\ \A e, f \in buffer[g] : e.d = f.d /\ e.kind = f.kind => e = f
          /\ buffer[g] # {} => timer[g]
    /\ timer \in [Processes -> BOOLEAN]
    /\ cursor \in Cursors /\ heard \in Cursors
    /\ handler \in [Devices -> [pc : {"idle", "find", "count"}, kind : Kinds,
                                n : Messages \cup {0}, found : Cursors]]
    /\ status \in [Own -> {"sent", "delivered", "read"}]
    /\ receipts \in Nat /\ deaths \in Nat

\* A receipt that no crash destroyed is in the buffer, in a bulkWrite or in
\* Mongo: a READ is not lost to a DELIVERED that follows it, nor to the flush
\* (lib/core/storage.js:116-143).
ReceiptsKept ==
    \A d \in Devices, kind \in Kinds : heard[d][kind] > cursor[d][kind] =>
        \E e \in buffer[GatewayOf[d]] \cup writing[GatewayOf[d]] :
            e.d = d /\ e.kind = kind /\ e.n >= heard[d][kind]

\* The members that have really seen message m, in the given way.
SeenBy(m, kind) ==
    {u \in Members : \E d \in Devices : UserOf[d] = u /\
        (heard[d].read >= m \/ (kind = "delivered" /\ heard[d].delivered >= m))}

\* A tick is never ahead of the members: one fewer than all have really read
\* (or received) a message before its status says so, across devices, gateways
\* and the receipts of people who are not members (PARITY-AUDIT.md:55-57).
TicksAreEarned ==
    deaths = 0 => \A m \in Own :
        status[m] # "sent" => Cardinality(SeenBy(m, status[m])) >= Cardinality(Members) - 1

=============================================================================
