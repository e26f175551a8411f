------------------------------- MODULE ConvList -------------------------------
(***************************************************************************)
(* The row of ONE conversation in the sidebar: the preview of its newest   *)
(* message and the badge of unread ones, which the client derives from     *)
(* conv.lastMsg, conv.lastSeq and conv.lastReadSeq and never counts        *)
(* (SyncClient.js, useNdeUnread.js, ChatPane.jsx, Sidebar.jsx).            *)
(*                                                                         *)
(* The user has another device, too.  Frames come in the order in which    *)
(* they were sent, and one HELLO is answered at once; Reconnect and        *)
(* ClientStore show the other orders.  Messages are texts; what expires is *)
(* like what is deleted.                                                   *)
(***************************************************************************)
EXTENDS Integers, SequencesExt

CONSTANTS
    MaxNumbers,    \* bound of the model: the numbers of the conversation's counter
    MaxTexts,      \* bound of the model: texts sent on this device
    MaxBreaks      \* bound of the model: connections that break, pages that are reloaded

\* What the parameters have to be: assumed here.
RowParametersOK == {MaxNumbers, MaxTexts, MaxBreaks} \subseteq Nat
ASSUME RowAssumption == RowParametersOK

VARIABLES
    counter,       \* Redis: the last number
    posts,         \* Mongo: the messages, by number
    inbox,         \* Redis: the numbers of the messages queued for the user
    conn,          \* the session of this device is through its HELLO
    frames,        \* frames on its socket
    recs,          \* client: the records, by ulid
    idbRecs,       \* IndexedDB: the records, by number
    lastMsg,       \* conv.lastMsg
    newest,        \* conv.lastSeq
    lastReadSeq,   \* conv.lastReadSeq
    readCursor,    \* IndexedDB: the cursor kept by sendRead, 0 if none
    pane,          \* the conversation is open
    seenLength,    \* ChatPane: messages.length when its effect last ran
    texts,         \* texts that were sent on this device
    readUpTo,      \* history: the number up to which the user has read, anywhere
    misheard,      \* history: messages whose edit or deletion the preview cannot have
    late,          \* history: a repeated ACK has taken lastSeq back
    outrun,        \* history: an own text got its number when newer messages were shown
    returned,      \* history: a reload has put an own text under its pending number again
    breaks

rowServer == <<counter, posts, inbox>>
rowShown == <<recs, idbRecs, lastMsg>>
rowHistory == <<readUpTo, misheard, late, outrun, returned>>
rowVars == <<rowServer, conn, frames, rowShown, newest, lastReadSeq, readCursor, pane, seenLength,
             texts, rowHistory, breaks>>

\* Date.now() is above every number; an own text is shown under it at first.
DateNow == MaxNumbers + 1

NoMsg == [id |-> 0, seq |-> 0, text |-> 0, gone |-> FALSE]

Larger(a, b) == IF a > b THEN a ELSE b

Keep(f, n, m) == [x \in DOMAIN f \cup {n} |-> IF x = n THEN m ELSE f[x]]

RowInit ==
    /\ counter = 0 /\ posts = << >> /\ inbox = {}
    /\ conn = FALSE /\ frames = << >> /\ recs = << >> /\ idbRecs = << >>
    /\ lastMsg = NoMsg /\ newest = 0 /\ lastReadSeq = 0 /\ readCursor = 0
    /\ pane = FALSE /\ seenLength = 0 /\ texts = 0
    /\ readUpTo = 0 /\ misheard = {} /\ late = FALSE /\ outrun = FALSE /\ returned = FALSE
    /\ breaks = 0

-----------------------------------------------------------------------------
(***************************************************************************)
(* The server                                                              *)
(***************************************************************************)

FrameOf(type, n, id, text) == [type |-> type, n |-> n, id |-> id, text |-> text]

Emit(fs) == frames' = IF conn THEN frames \o fs ELSE frames

\* A message is stored and published; on this device by a repeated SEND, too.
PostText(id, by, before) ==
    /\ counter < MaxNumbers /\ counter' = counter + 1
    /\ posts' = Keep(posts, counter + 1, [id |-> id, by |-> by, text |-> 1, gone |-> FALSE])
    /\ Emit(Append(before, FrameOf("MSG", counter + 1, id, 1)))

\* Once the presence key is gone what is sent is queued until a device comes back.
OtherSends ==
    /\ PostText(counter + 1, "other", << >>)
    /\ \E queued \in BOOLEAN :
          /\ IF conn THEN ~queued ELSE inbox # {} => queued
          /\ inbox' = IF queued THEN inbox \cup {counter + 1} ELSE inbox
    /\ UNCHANGED <<conn, rowShown, newest, lastReadSeq, readCursor, pane, seenLength, texts,
                   rowHistory, breaks>>

\* The other device is connected: it has drained the inbox.
SentElsewhere ==
    /\ PostText(counter + 1, "user", << >>)
    /\ inbox' = {} /\ readUpTo' = counter + 1
    /\ UNCHANGED <<conn, rowShown, newest, lastReadSeq, readCursor, pane, seenLength, texts,
                   misheard, late, outrun, returned, breaks>>

\* The author edits or deletes; the event takes a number of its own.
ChangePost(n, type) ==
    /\ counter < MaxNumbers /\ counter' = counter + 1
    /\ n \in DOMAIN posts /\ ~posts[n].gone
    /\ posts' = [posts EXCEPT ![n] = IF type = "DELETED" THEN [@ EXCEPT !.gone = TRUE]
                                     ELSE [@ EXCEPT !.text = counter + 1]]
    /\ Emit(<<FrameOf(type, counter + 1, posts[n].id, counter + 1)>>)
    /\ misheard' = IF conn \/ type = "DELETED" THEN misheard ELSE misheard \cup {posts[n].id}
    /\ UNCHANGED <<inbox, conn, rowShown, newest, lastReadSeq, readCursor, pane, seenLength,
                   texts, readUpTo, late, outrun, returned, breaks>>

\* READ of the other device: RECEIPT of the user.
ReadElsewhere(n) ==
    /\ n \in DOMAIN posts /\ n > readUpTo
    /\ readUpTo' = n /\ inbox' = {}
    /\ Emit(<<FrameOf("RECEIPT", n, 0, 0)>>)
    /\ UNCHANGED <<counter, posts, conn, rowShown, newest, lastReadSeq, readCursor, pane,
                   seenLength, texts, misheard, late, outrun, returned, breaks>>

\* The SEND arrives, now or when the queue is drained.
ServeSend(id) ==
    /\ conn /\ id \in DOMAIN recs /\ recs[id].pending
    /\ \A n \in DOMAIN posts : posts[n].id # id
    /\ PostText(id, "user", <<FrameOf("ACK", counter + 1, id, 0)>>)
    /\ UNCHANGED <<inbox, conn, rowShown, newest, lastReadSeq, readCursor, pane, seenLength, texts,
                   rowHistory, breaks>>

\* A repeated SEND is acknowledged again.
ServeAgain(id) ==
    /\ conn /\ frames = << >> /\ id \in DOMAIN recs /\ recs[id].pending
    /\ \E n \in DOMAIN posts : posts[n].id = id /\ Emit(<<FrameOf("ACK", n, id, 0)>>)
    /\ UNCHANGED <<rowServer, conn, rowShown, newest, lastReadSeq, readCursor, pane, seenLength,
                   texts, rowHistory, breaks>>

InOrder(S) == [i \in 1..Cardinality(S) |-> CHOOSE n \in S : Cardinality({k \in S : k < n}) = i - 1]

\* _replay: what is above the cursor, a deleted message as its tombstone.
Replayed ==
    LET above == InOrder({n \in DOMAIN posts : n > newest})
    IN  [i \in DOMAIN above |->
            LET n == above[i]
            IN  IF posts[n].gone THEN FrameOf("DELETED", n, posts[n].id, 0)
                ELSE FrameOf("MSG", n, posts[n].id, posts[n].text)]

\* The inbox has the SENDs as they were; only messages of others are queued.
Drained == [i \in DOMAIN InOrder(inbox) |-> FrameOf("MSG", InOrder(inbox)[i], InOrder(inbox)[i], 1)]

\* HELLO is answered with the replay and the inbox.
ConnectRow ==
    /\ ~conn /\ conn' = TRUE
    /\ frames' = Replayed \o Drained
    /\ inbox' = {}
    /\ UNCHANGED <<counter, posts, rowShown, newest, lastReadSeq, readCursor, pane, seenLength,
                   texts, rowHistory, breaks>>

-----------------------------------------------------------------------------
(***************************************************************************)
(* The store                                                               *)
(***************************************************************************)

\* Mutant of Preview: a message that is promoted to its number leaves it alone.
PreviewUnpromoted(m) ==
    IF lastMsg = NoMsg \/ m.seq > lastMsg.seq
    THEN [id |-> m.id, seq |-> m.seq, text |-> m.text, gone |-> FALSE]
    ELSE lastMsg

Promoted(m) == lastMsg.id = m.id /\ m.id \in DOMAIN recs /\ recs[m.id].seq # m.seq

\* _insertMsg: the newest message, and the one that is shown and gets its number.
Preview(m) ==
    IF lastMsg = NoMsg \/ m.seq > lastMsg.seq \/ Promoted(m)
    THEN [id |-> m.id, seq |-> m.seq, text |-> m.text, gone |-> FALSE]
    ELSE lastMsg

\* A record that is moved stays on disk under the number it had.
InsertRec(m) ==
    /\ recs' = Keep(recs, m.id, m) /\ idbRecs' = Keep(idbRecs, m.seq, m)
    /\ lastMsg' = Preview(m)

\* _patchByUlid, _patchMsg: m is the record as patched, p the preview if it is of this message.
PatchRec(id, m, p) ==
    IF id \in DOMAIN recs
    THEN /\ recs' = [recs EXCEPT ![id] = m] /\ idbRecs' = Keep(idbRecs, recs[id].seq, m)
         /\ lastMsg' = IF lastMsg.id = id THEN p ELSE lastMsg
    ELSE UNCHANGED rowShown

RecordOf(id, n, text, pending) ==
    [id |-> id, seq |-> n, text |-> text, gone |-> FALSE, pending |-> pending]

\* A message with a higher number is shown.
Outdated(n) == \E id \in DOMAIN recs : n < recs[id].seq /\ recs[id].seq < DateNow

\* T.ACK: the record keeps its pending number; what is below it counts as read.
HandleAck(f) ==
    /\ PatchRec(f.id, [recs[f.id] EXCEPT !.pending = FALSE], lastMsg)
    /\ newest' = f.n
    /\ lastReadSeq' = Larger(lastReadSeq, f.n)
    /\ readUpTo' = Larger(readUpTo, f.n)
    /\ late' = (late \/ f.n < newest)
    /\ UNCHANGED outrun

\* T.MSG: an own message stays pending until its ACK.
HandleMsg(f) ==
    LET m == RecordOf(f.id, f.n, f.text, f.id \in DOMAIN recs /\ recs[f.id].pending)
    IN  /\ InsertRec(m)
        /\ newest' = f.n
        /\ late' = (late /\ Outdated(f.n))
        /\ outrun' = (Outdated(f.n) /\ (outrun \/ Promoted(m)))
        /\ UNCHANGED <<lastReadSeq, readUpTo>>

HandleEdited(f) ==
    /\ PatchRec(f.id, [recs[f.id] EXCEPT !.text = f.text], [lastMsg EXCEPT !.text = f.text])
    /\ UNCHANGED <<newest, lastReadSeq, readUpTo, late, outrun>>

HandleDeleted(f) ==
    /\ PatchRec(f.id, [recs[f.id] EXCEPT !.gone = TRUE], [lastMsg EXCEPT !.gone = TRUE])
    /\ UNCHANGED <<newest, lastReadSeq, readUpTo, late, outrun>>

HandleReceipt(f) ==
    /\ lastReadSeq' = Larger(lastReadSeq, f.n)
    /\ UNCHANGED <<rowShown, newest, readUpTo, late, outrun>>

HandleFrame ==
    /\ frames # << >> /\ frames' = Tail(frames)
    /\ LET f == Head(frames)
       IN  \/ f.type = "ACK" /\ HandleAck(f)
           \/ f.type = "MSG" /\ HandleMsg(f)
           \/ f.type = "EDITED" /\ HandleEdited(f)
           \/ f.type = "DELETED" /\ HandleDeleted(f)
           \/ f.type = "RECEIPT" /\ HandleReceipt(f)
    /\ UNCHANGED <<rowServer, conn, readCursor, pane, seenLength, texts, misheard, returned,
                   breaks>>

-----------------------------------------------------------------------------
(***************************************************************************)
(* The user                                                                *)
(***************************************************************************)

\* sendMessage, from the pane or by forwarding: shown at once.
SendHere ==
    /\ texts < MaxTexts /\ texts' = texts + 1
    /\ InsertRec(RecordOf(DateNow + texts, DateNow + texts, 1, TRUE))
    /\ UNCHANGED <<rowServer, conn, frames, newest, lastReadSeq, readCursor, pane, seenLength,
                   rowHistory, breaks>>

RealSeqs == {0} \cup {recs[id].seq : id \in {i \in DOMAIN recs : ~recs[i].pending}}

LastRealSeq == Max(RealSeqs)

\* ChatPane's effect, when the number of messages has changed: sendRead(lastReal.seq).
ReadPane ==
    /\ pane /\ Cardinality(DOMAIN recs) # seenLength
    /\ seenLength' = Cardinality(DOMAIN recs)
    /\ IF LastRealSeq = 0 THEN UNCHANGED <<lastReadSeq, readCursor, readUpTo>>
       ELSE /\ lastReadSeq' = LastRealSeq /\ readCursor' = LastRealSeq
            /\ readUpTo' = Larger(readUpTo, Max(RealSeqs \cap 0..counter))
    /\ UNCHANGED <<rowServer, conn, frames, rowShown, newest, pane, texts, misheard, late,
                   outrun, returned, breaks>>

Select ==
    /\ pane' = ~pane /\ seenLength' = 0
    /\ UNCHANGED <<rowServer, conn, frames, rowShown, newest, lastReadSeq, readCursor, texts,
                   rowHistory, breaks>>

\* The connection breaks: what is on the socket is lost.
Lost ==
    /\ breaks < MaxBreaks /\ breaks' = breaks + 1
    /\ conn' = FALSE /\ frames' = << >>

EditsLost == {frames[i].id : i \in {j \in 1..Len(frames) : frames[j].type = "EDITED"}}

Break ==
    /\ conn /\ Lost
    /\ misheard' = misheard \cup EditsLost
    /\ UNCHANGED <<rowServer, rowShown, newest, lastReadSeq, readCursor, pane, seenLength, texts,
                   readUpTo, late, outrun, returned>>

\* _loadFromIdb inserts the records in the order of their numbers: the last one of a message
\* stays, and the last one of all is the preview if it is newer or replaces one of its message.
LoadedRec(id) == idbRecs[Max({n \in DOMAIN idbRecs : idbRecs[n].id = id})]

TopLoaded == idbRecs[Max(DOMAIN idbRecs)]

PreviewLoaded ==
    /\ DOMAIN idbRecs # {}
    /\ \/ TopLoaded.seq > lastMsg.seq
       \/ \E n \in DOMAIN idbRecs : n # TopLoaded.seq /\ idbRecs[n].id = TopLoaded.id

\* The page is reloaded: the cursor that is kept stands in for lastSeq.
ReloadRow ==
    /\ Lost
    /\ recs' = [id \in DOMAIN recs |-> LoadedRec(id)]
    /\ lastMsg' = IF PreviewLoaded
                  THEN [id |-> TopLoaded.id, seq |-> TopLoaded.seq, text |-> TopLoaded.text,
                        gone |-> FALSE]
                  ELSE lastMsg
    /\ misheard' = misheard \cup EditsLost
                   \cup (IF PreviewLoaded /\ TopLoaded.gone THEN {TopLoaded.id} ELSE {})
    /\ returned' = (returned \/ recs' # recs)
    /\ newest' = IF readCursor # 0 THEN readCursor ELSE newest
    /\ seenLength' = 0
    /\ UNCHANGED <<rowServer, idbRecs, lastReadSeq, readCursor, pane, texts, readUpTo, late,
                   outrun>>

-----------------------------------------------------------------------------
RowNext ==
    \/ OtherSends \/ SentElsewhere \/ SendHere
    \/ \E n \in DOMAIN posts :
          ReadElsewhere(n) \/ \E type \in {"EDITED", "DELETED"} : ChangePost(n, type)
    \/ \E id \in DOMAIN recs : ServeSend(id) \/ ServeAgain(id)
    \/ HandleFrame \/ ReadPane \/ Select \/ ConnectRow \/ Break \/ ReloadRow

RowSpec == RowInit /\ [][RowNext]_rowVars

-----------------------------------------------------------------------------
(***************************************************************************)
(* Properties                                                              *)
(***************************************************************************)

Records == [id : Nat, seq : Nat, text : Nat, gone : BOOLEAN, pending : BOOLEAN]

\* Types of the variables.
RowTypeOK ==
    /\ counter \in 0..MaxNumbers /\ DOMAIN posts \subseteq 1..counter
    /\ inbox \subseteq DOMAIN posts
    /\ \A id \in DOMAIN recs : recs[id] \in Records /\ recs[id].id = id
    /\ \A n \in DOMAIN idbRecs : idbRecs[n] \in Records /\ idbRecs[n].seq = n
    /\ {newest, lastReadSeq, readCursor, readUpTo, seenLength} \subseteq Nat
    /\ {conn, pane, late, outrun, returned} \subseteq BOOLEAN
    /\ texts \in 0..MaxTexts /\ breaks \in 0..MaxBreaks

\* getUnread
Unread == Larger(0, newest - lastReadSeq)

\* What the user has not read on any device, of what this one holds; an own text the server
\* has acknowledged counts everything below it as read.
NotRead == {id \in DOMAIN recs : id < DateNow /\ posts[recs[id].seq].by = "other"
                                 /\ recs[id].seq > readUpTo /\ ~recs[id].gone}

\* The preview is a message that is shown, with its number, and with its text and tombstone
\* unless it was changed unheard; above it are only own texts without a number, and none if it
\* is one itself, unless an own text got its number late (SyncClient.js:655-687).
PreviewIsNewest ==
    DOMAIN recs # {} =>
        /\ lastMsg.id \in DOMAIN recs /\ lastMsg.seq = recs[lastMsg.id].seq
        /\ lastMsg.id \notin misheard => /\ lastMsg.text = recs[lastMsg.id].text
                                         /\ lastMsg.gone = recs[lastMsg.id].gone
        /\ \A id \in DOMAIN recs :
              recs[id].seq > lastMsg.seq =>
                  lastMsg.seq < DateNow /\ (recs[id].seq >= DateNow \/ outrun)

\* What is not read is counted, when nothing is under way, no pending number was taken for a
\* read one and no repeated ACK has taken lastSeq back (SyncClient.js:186-190).
BadgeCovers ==
    conn /\ frames = << >> /\ lastReadSeq < DateNow /\ ~late => Unread >= Cardinality(NotRead)

\* The preview is the newest message as its bubble shows it, as long as no reload has put an own
\* text under its pending number again, and the badge is no less than what waits to be read
\* (SyncClient.js:186-190, 655-733, useNdeUnread.js:6-17).
RowIsCurrent == (~returned => PreviewIsNewest) /\ BadgeCovers
=============================================================================
