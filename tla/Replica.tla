------------------------------- MODULE Replica -------------------------------
(***************************************************************************)
(* ONE message and the copy of it that ONE client shows, from the SEND to  *)
(* the last edit: the document, the frames of its changes, and the ways in *)
(* which a client that was away gets the document again - the replay of a  *)
(* HELLO or of a SYNC_REQ, the page of the HTTP backfill, and the inbox,   *)
(* which keeps the frame of the SEND as it was (lib/core/engine.js,        *)
(* lib/core/gateway.js, SyncClient.js).                                    *)
(*                                                                         *)
(* The cached document is taken to be the stored one (ConversationLog      *)
(* shows when it is not) but for the reactions, which are never cached.    *)
(* Sessions are as in Reconnect, with fewer steps: interest is registered  *)
(* when the client connects, and one connection follows the other.         *)
(***************************************************************************)
EXTENDS Integers, Sequences

CONSTANTS
    ChangeKinds,   \* what users do: among "edit", "delete", "expire", "react"
    Slots,         \* handlers of such requests in flight
    Syncs,         \* handlers of SYNC_REQs in flight
    MaxChanges,    \* bound of the model: requests
    MaxBreaks,     \* bound of the model: connections that break, pages that are reloaded
    MaxReads       \* bound of the model: SYNC_REQs and backfills

ASSUME ReplicaAssumption ==
    /\ ChangeKinds \subseteq {"edit", "delete", "expire", "react"}
    /\ "hello" \notin Syncs
    /\ MaxChanges \in Nat /\ MaxBreaks \in Nat /\ MaxReads \in Nat

VARIABLES
    message,       \* Mongo and Redis: the message, or Absent
    send,          \* where its _onSend is
    change,        \* per slot: the request that is served there
    bus,           \* frames published and not yet delivered by the gateway
    conn,          \* the connection: "off", "hello", "replayed", "on"
    cursor,        \* the cursor that its HELLO carried is at the message or above
    hand,          \* per replay: the document that it has read and not yet sent, or NoPage
    presence,      \* Redis: the user's presence key
    mailbox,       \* Redis: the frame of the SEND is queued for the user
    wire,          \* frames on the socket
    bubble,        \* client: the record of the message, or Absent
    reached,       \* client: conv.lastSeq is at the message or above
    read,          \* client: the cursor in IndexedDB is
    toggles,       \* the client's REACT frames on their way to the gateway
    page,          \* client: an HTTP backfill: "none", "asked", or what it answered
    undisturbed,   \* history: no change was lost to the client, nor overtaken
    cleanReactions,
    changes, breaks, reads

\* The replay of the HELLO and those of SYNC_REQs.
Readers == {"hello"} \cup Syncs

server == <<message, send, change, changes>>
handVars == <<cursor, hand>>
client == <<bubble, reached, read>>
history == <<undisturbed, cleanReactions>>
replicaVars == <<server, bus, conn, handVars, presence, mailbox, wire, client, toggles, page,
                 history, breaks, reads>>

\* The text is a version number; nobody unsets it but a deletion and the sweep.
Sent(text) == [text |-> text, deleted |-> FALSE, expired |-> FALSE, reactions |-> {}]
Absent == Sent(0)
Original == 1
NoText == -1
Erased == -2

NoChange == [pc |-> "idle", kind |-> "none", text |-> NoText, by |-> "other", on |-> FALSE]
NoPage == Sent(-3)
PageAsked == Sent(-4)

ReplicaInit ==
    /\ message = Absent /\ send = "new"
    /\ change = [s \in Slots |-> NoChange]
    /\ bus = << >> /\ conn = "off" /\ presence = FALSE /\ mailbox = FALSE /\ wire = << >>
    /\ bubble = Absent /\ reached = FALSE /\ read = FALSE
    /\ cursor = FALSE /\ hand = [r \in Readers |-> NoPage]
    /\ toggles = << >> /\ page = NoPage
    /\ undisturbed = TRUE /\ cleanReactions = TRUE
    /\ changes = 0 /\ breaks = 0 /\ reads = 0

-----------------------------------------------------------------------------
(***************************************************************************)
(* Frames                                                                  *)
(***************************************************************************)

\* `by` and `on` say something in a REACTED only.
Frame(type, text) == [type |-> type, text |-> text, by |-> "other", on |-> FALSE]

\* Mutant of FramesOf: a deleted message is replayed like any other.
FramesOfAny(d) ==
    IF d = Absent THEN << >>
    ELSE IF d.expired THEN <<Frame("EXPIRED", NoText)>>
    ELSE <<Frame("MSG", d.text)>>

\* _replay: a tombstone for a message that is deleted or expired, else a MSG, which says
\* nothing of reactions.
FramesOf(d) ==
    IF d = Absent THEN << >>
    ELSE IF d.deleted THEN <<Frame("DELETED", NoText)>>
    ELSE IF d.expired THEN <<Frame("EXPIRED", NoText)>>
    ELSE <<Frame("MSG", d.text)>>

\* What the client makes of a frame; a record that is not there is not patched.
Patched(r, f) ==
    CASE f.type = "MSG" -> Sent(f.text)
      [] f.type = "EDITED" /\ r # Absent -> [r EXCEPT !.text = f.text]
      [] f.type = "DELETED" /\ r # Absent -> [r EXCEPT !.deleted = TRUE, !.text = NoText]
      [] f.type = "EXPIRED" /\ r # Absent -> [r EXCEPT !.expired = TRUE, !.text = NoText]
      [] f.type = "REACTED" /\ r # Absent ->
            [r EXCEPT !.reactions = IF f.on THEN @ \cup {f.by} ELSE @ \ {f.by}]
      [] OTHER -> r

\* What a change does to the document.
Revised(d, c) ==
    CASE c.kind = "edit" -> [d EXCEPT !.text = c.text]
      [] c.kind = "delete" -> [d EXCEPT !.deleted = TRUE, !.text = NoText]
      [] c.kind = "expire" -> [d EXCEPT !.expired = TRUE, !.text = NoText]
      [] c.kind = "react" -> [d EXCEPT !.reactions = IF c.on THEN @ \cup {c.by} ELSE @ \ {c.by}]

FrameOf(c) ==
    CASE c.kind = "edit" -> Frame("EDITED", c.text)
      [] c.kind = "delete" -> Frame("DELETED", NoText)
      [] c.kind = "expire" -> Frame("EXPIRED", NoText)
      [] c.kind = "react" -> [type |-> "REACTED", text |-> NoText, by |-> c.by, on |-> c.on]

-----------------------------------------------------------------------------
(***************************************************************************)
(* History: when the client's copy has to be right                         *)
(***************************************************************************)

Changing(kinds) == \E s \in Slots : change[s].pc # "idle" /\ change[s].kind \in kinds
Contents == {"edit", "delete", "expire"}

\* No older state of the document is under way to the client.
NothingTaken == \A r \in Readers : hand[r] = NoPage
NoneCaptured ==
    ~mailbox /\ page \in {NoPage, PageAsked} /\ NothingTaken /\ send \in {"new", "done"}

\* A change that starts in slot s is heard by the client, after all that came before.
StartClean(kind) ==
    /\ undisturbed' = (undisturbed /\ (kind \in Contents =>
                    conn # "off" /\ NoneCaptured /\ ~Changing(Contents)))
    /\ cleanReactions' = (cleanReactions /\ (kind = "react" =>
                    conn # "off" /\ NoneCaptured /\ ~Changing({"react"})))

\* A replay reads the document for the client; what it reads goes the way of the frames, but
\* later: what is published in between may overtake it.
ReplayClean ==
    /\ undisturbed' = (~Changing(Contents) /\ (undisturbed \/ (bus = << >> /\ NoneCaptured)))
    /\ cleanReactions' = (message.reactions = {} /\ ~Changing({"react"}) /\ toggles = << >>
                          /\ (cleanReactions \/ (bus = << >> /\ NoneCaptured)))

\* It is read for a page, which goes another way.
PageClean ==
    LET alone == bus = << >> /\ wire = << >> /\ NoneCaptured IN
    /\ undisturbed' = (~Changing(Contents) /\ (undisturbed \/ alone))
    /\ cleanReactions' = (message.reactions = {} /\ ~Changing({"react"}) /\ toggles = << >>
                          /\ alone)

\* What was on its way over the connection is lost with it, a page with a reload.
BreakClean(reload) ==
    LET alone == /\ bus = << >> /\ wire = << >> /\ NothingTaken
                 /\ reload => page \in {NoPage, PageAsked} IN
    /\ undisturbed' = (undisturbed /\ alone /\ ~Changing(Contents))
    /\ cleanReactions' = (cleanReactions /\ alone /\ toggles = << >> /\ ~Changing({"react"}))

-----------------------------------------------------------------------------
(***************************************************************************)
(* The SEND and the changes                                                *)
(***************************************************************************)

Store ==
    /\ send = "new"
    /\ message' = Sent(Original) /\ send' = "stored"
    /\ UNCHANGED <<change, changes, bus, conn, handVars, presence, mailbox, wire, client,
                   toggles, page,
                   history, breaks, reads>>

\* fanout.publish: only a subscribed gateway hears it.
Published(f) == bus' = IF conn # "off" THEN Append(bus, f) ELSE bus

PublishSend ==
    /\ send = "stored"
    /\ Published(Frame("MSG", Original)) /\ send' = "published"
    /\ UNCHANGED <<message, change, changes, conn, handVars, presence, mailbox, wire, client,
                   toggles, page,
                   history, breaks, reads>>

QueueOffline ==
    /\ send = "published"
    /\ mailbox' = ~presence /\ send' = "done"
    /\ UNCHANGED <<message, change, changes, bus, conn, handVars, presence, wire, client,
                   toggles, page,
                   history, breaks, reads>>

\* requireTarget: neither an edit nor a sweep finds a deleted message, and the sweep no
\* expired one; a reaction is taken for any.
Allowed(kind) ==
    /\ message # Absent
    /\ kind = "edit" => ~message.deleted
    /\ kind = "expire" => ~message.deleted /\ ~message.expired

\* A user edits or deletes, another user reacts, a sweep begins.
Request(s, kind) ==
    /\ change[s].pc = "idle" /\ changes < MaxChanges /\ Allowed(kind)
    /\ changes' = changes + 1
    /\ \E on \in BOOLEAN :
          /\ kind # "react" => ~on
          /\ change' = [change EXCEPT ![s] =
                [pc |-> "asked", kind |-> kind, text |-> changes + 2, by |-> "other", on |-> on]]
    /\ StartClean(kind)
    /\ UNCHANGED <<message, send, bus, conn, handVars, presence, mailbox, wire, client,
                   toggles, page,
                   breaks, reads>>

\* The gateway reads a REACT of the client itself.
ServeToggle(s) ==
    /\ change[s].pc = "idle" /\ toggles # << >> /\ message # Absent
    /\ change' = [change EXCEPT ![s] =
          [pc |-> "asked", kind |-> "react", text |-> NoText, by |-> "me", on |-> Head(toggles)]]
    /\ toggles' = Tail(toggles)
    /\ StartClean("react")
    /\ UNCHANGED <<message, send, changes, bus, conn, handVars, presence, mailbox, wire,
                   client, page,
                   breaks, reads>>

\* The update of the document, one command of Mongo.
Update(s) ==
    /\ change[s].pc = "asked"
    /\ message' = Revised(message, change[s])
    /\ change' = [change EXCEPT ![s].pc = "updated"]
    /\ UNCHANGED <<send, changes, bus, conn, handVars, presence, mailbox, wire, client,
                   toggles, page,
                   history, breaks, reads>>

Announce(s) ==
    /\ change[s].pc = "updated"
    /\ Published(FrameOf(change[s]))
    /\ change' = [change EXCEPT ![s] = NoChange]
    /\ UNCHANGED <<message, send, changes, conn, handVars, presence, mailbox, wire, client,
                   toggles, page,
                   history, breaks, reads>>

-----------------------------------------------------------------------------
(***************************************************************************)
(* The gateway and the client's connection                                 *)
(***************************************************************************)

Deliver ==
    /\ bus # << >> /\ conn # "off"
    /\ bus' = Tail(bus) /\ wire' = Append(wire, Head(bus))
    /\ UNCHANGED <<server, conn, handVars, presence, mailbox, client, toggles, page, history,
                   breaks, reads>>

\* HELLO, with the cursor of the client: presence key, index, interest.
Connect ==
    /\ conn = "off"
    /\ conn' = "hello" /\ presence' = TRUE /\ cursor' = reached
    /\ UNCHANGED <<server, hand, bus, mailbox, wire, client, toggles, page, history, breaks,
                   reads>>

\* The server answers a cursor below the message: SYNC_GAP if there is much more, else a
\* replay, which first reads (an await) and then sends.
Answer(r) ==
    \/ /\ ReplayClean
       /\ hand' = IF message = Absent THEN hand ELSE [hand EXCEPT ![r] = message]
       /\ UNCHANGED page
    \/ page = NoPage /\ reads < MaxReads /\ page' = PageAsked /\ UNCHANGED <<hand, history>>

\* CoreEngine.onHello
HelloReplay ==
    /\ conn = "hello"
    /\ conn' = "replayed"
    /\ IF cursor THEN UNCHANGED <<hand, page, history>> ELSE Answer("hello")
    /\ UNCHANGED <<server, cursor, bus, presence, mailbox, wire, client, toggles, breaks,
                   reads>>

\* _replay sends what it has read.
ReplaySends(r) ==
    /\ hand[r] # NoPage
    /\ wire' = wire \o FramesOf(hand[r])
    /\ hand' = [hand EXCEPT ![r] = NoPage]
    /\ UNCHANGED <<server, cursor, bus, conn, presence, mailbox, client, toggles, page, history,
                   breaks, reads>>

\* drainInbox: the frame of the SEND, whatever has become of the message.
HelloDrain ==
    /\ conn = "replayed" /\ hand["hello"] = NoPage
    /\ conn' = "on" /\ mailbox' = FALSE
    /\ wire' = IF mailbox THEN Append(wire, Frame("MSG", Original)) ELSE wire
    /\ UNCHANGED <<server, bus, handVars, presence, client, toggles, page, history, breaks,
                   reads>>

\* onSyncReq, for a window with the message in it (loadMoreMessages); the WELCOME comes
\* before the replay of the HELLO.
SyncReq(r) ==
    /\ conn # "off" /\ hand[r] = NoPage /\ reads < MaxReads
    /\ reads' = reads + 1
    /\ Answer(r)
    /\ UNCHANGED <<server, cursor, bus, conn, presence, mailbox, wire, client, toggles, breaks>>

\* The connection breaks, the page may be reloaded: then the cursor is that of IndexedDB.
Cut(reload) ==
    /\ conn # "off" /\ breaks < MaxBreaks
    /\ breaks' = breaks + 1
    /\ conn' = "off" /\ bus' = << >> /\ wire' = << >> /\ toggles' = << >>
    /\ hand' = [r \in Readers |-> NoPage]
    /\ reached' = IF reload THEN read ELSE reached
    /\ page' = IF reload THEN NoPage ELSE page
    /\ BreakClean(reload)
    /\ UNCHANGED <<server, cursor, presence, mailbox, bubble, read, reads>>

\* _onClose, when the gateway notices.
Forget ==
    /\ conn = "off" /\ presence
    /\ presence' = FALSE
    /\ UNCHANGED <<server, bus, conn, handVars, mailbox, wire, client, toggles, page,
                   history, breaks, reads>>

-----------------------------------------------------------------------------
(***************************************************************************)
(* The client                                                              *)
(***************************************************************************)

\* _dispatch: MSG raises lastSeq, the others patch the record.
Receive ==
    /\ wire # << >>
    /\ bubble' = Patched(bubble, Head(wire))
    /\ reached' = (reached \/ Head(wire).type = "MSG")
    /\ wire' = Tail(wire)
    /\ UNCHANGED <<server, bus, conn, handVars, presence, mailbox, read, toggles, page, history,
                   breaks, reads>>

\* ReadEffect: sendRead, up to the last number.
MarkRead ==
    /\ reached /\ ~read /\ bubble # Absent
    /\ read' = TRUE
    /\ UNCHANGED <<server, bus, conn, handVars, presence, mailbox, wire, bubble, reached,
                   toggles, page,
                   history, breaks, reads>>

\* toggleReact: the record at once, the frame if the socket is open.
Toggle ==
    /\ bubble # Absent /\ changes < MaxChanges /\ "react" \in ChangeKinds
    /\ changes' = changes + 1
    /\ LET on == "me" \notin bubble.reactions IN
       /\ bubble' = Patched(bubble, [type |-> "REACTED", text |-> NoText, by |-> "me", on |-> on])
       /\ toggles' = IF conn # "off" THEN Append(toggles, on) ELSE toggles
    /\ cleanReactions' = (cleanReactions /\ conn = "on" /\ NoneCaptured /\ toggles = << >>
                          /\ bus = << >> /\ wire = << >> /\ ~Changing({"react"}))
    /\ UNCHANGED <<message, send, change, bus, conn, handVars, presence, mailbox, wire,
                   reached, read, page,
                   undisturbed, breaks, reads>>

\* The endpoint reads a page, of the cache or of Mongo: only that has the reactions.
PageRead ==
    /\ page = PageAsked /\ reads < MaxReads
    /\ reads' = reads + 1
    /\ \E known \in {message.reactions, {}} :
          page' = IF message = Absent THEN NoPage ELSE [message EXCEPT !.reactions = known]
    /\ PageClean
    /\ UNCHANGED <<server, bus, conn, handVars, presence, mailbox, wire, client, toggles,
                   breaks>>

\* _fetchGapViaHttp: the record becomes what the page says.
PageInserted ==
    /\ page \notin {NoPage, PageAsked}
    /\ bubble' = page /\ page' = NoPage
    /\ UNCHANGED <<server, bus, conn, handVars, presence, mailbox, wire, reached, read,
                   toggles, history,
                   breaks, reads>>

PageFails ==
    /\ page # NoPage
    /\ page' = NoPage
    /\ undisturbed' = FALSE /\ cleanReactions' = FALSE
    /\ UNCHANGED <<server, bus, conn, handVars, presence, mailbox, wire, client, toggles,
                   breaks, reads>>

-----------------------------------------------------------------------------
ReplicaNext ==
    \/ Store \/ PublishSend \/ QueueOffline
    \/ \E s \in Slots : \/ \E kind \in ChangeKinds : Request(s, kind)
                        \/ ServeToggle(s) \/ Update(s) \/ Announce(s)
    \/ Deliver \/ Connect \/ HelloReplay \/ HelloDrain
    \/ \E r \in Syncs : SyncReq(r)
    \/ \E r \in Readers : ReplaySends(r)
    \/ \E reload \in BOOLEAN : Cut(reload)
    \/ Forget
    \/ Receive \/ MarkRead \/ Toggle \/ PageRead \/ PageInserted \/ PageFails

ReplicaSpec == ReplicaInit /\ [][ReplicaNext]_replicaVars

-----------------------------------------------------------------------------
(***************************************************************************)
(* Properties                                                              *)
(***************************************************************************)

Records == [text : Int, deleted : BOOLEAN, expired : BOOLEAN, reactions : SUBSET {"me", "other"}]

Served == [pc : {"asked", "updated"}, kind : {"edit", "delete", "expire", "react"}, text : Int,
           by : {"me", "other"}, on : BOOLEAN]

AllFrames == [type : {"MSG", "EDITED", "DELETED", "EXPIRED", "REACTED"}, text : Int,
              by : {"me", "other"}, on : BOOLEAN]

\* Types of the variables.
ReplicaTypeOK ==
    /\ message \in Records /\ bubble \in Records /\ page \in Records
    /\ send \in {"new", "stored", "published", "done"}
    /\ change \in [Slots -> {NoChange} \cup Served]
    /\ bus \in Seq(AllFrames) /\ wire \in Seq(AllFrames) /\ toggles \in Seq(BOOLEAN)
    /\ conn \in {"off", "hello", "replayed", "on"}
    /\ cursor \in BOOLEAN /\ hand \in [Readers -> Records]
    /\ presence \in BOOLEAN /\ mailbox \in BOOLEAN /\ reached \in BOOLEAN /\ read \in BOOLEAN
    /\ undisturbed \in BOOLEAN /\ cleanReactions \in BOOLEAN
    /\ changes \in 0..MaxChanges /\ breaks \in 0..MaxBreaks /\ reads \in 0..MaxReads

\* Nothing is on its way and the session is settled.
Quiet ==
    /\ conn = "on" /\ bus = << >> /\ wire = << >> /\ page = NoPage /\ toggles = << >>
    /\ NothingTaken
    /\ send \in {"new", "done"} /\ ~Changing(Contents \cup {"react"})

\* What a bubble says: a tombstone, or the text.
Visible(r) == IF r.deleted \/ r.expired THEN Erased ELSE r.text

\* A client whose connection is settled shows the message as it is stored - the last text,
\* a tombstone, the reactions - when every change was made while it was connected and had
\* no older copy under way, or was followed by a replay or backfill that read the message
\* after it; a copy that a replay has read and not yet sent is under way
\* (lib/core/engine.js:50-70, gateway.js:105-111, SyncClient.js:335-359, 936-982).
CleanCopiesAgree ==
    Quiet /\ bubble # Absent =>
        /\ undisturbed => Visible(bubble) = Visible(message)
        /\ undisturbed /\ cleanReactions /\ ~message.deleted /\ ~message.expired =>
              bubble.reactions = message.reactions

\* test/features.test.js:172: "should replay as tombstone, not original text": a settled
\* client does not show the text of a message that is deleted.
DeletedStaysDeleted == Quiet /\ bubble # Absent /\ message.deleted => bubble.deleted
=============================================================================
