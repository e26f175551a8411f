------------------------------ MODULE Persistence ------------------------------
(***************************************************************************)
(* What one browser keeps of one conversation (IdbStore, CryptoStore, and  *)
(* SyncClient where it writes and loads): the message records, the         *)
(* conversation record and the cursor, over reloads, changes of the user   *)
(* and an upgrade of the schema.                                           *)
(*                                                                         *)
(* No write is awaited.  A message or conversation record is encrypted     *)
(* first, which takes its own time; then a transaction is opened, and      *)
(* transactions of one store run in the order they were opened.  What has  *)
(* not been written when the tab closes is lost.  A message is its number  *)
(* and how often it has been patched; the server keeps all of them and     *)
(* sends, in order, those above the cursor of the HELLO.                   *)
(***************************************************************************)
EXTENDS Integers, Sequences, SequencesExt

CONSTANTS
    Accounts,      \* who signs in in this browser; each has a key of its own
    FromVersions,  \* the version of the schema the browser starts with
    MaxPosts,      \* bound of the model: messages of the conversation
    MaxPatches,    \* bound of the model: patches of one message
    MaxPuts        \* bound of the model: writes under way

ASSUME PersistenceAssumption ==
    /\ {"nobody", "plain", "none"} \cap Accounts = {}
    /\ FromVersions \subseteq 1..5
    /\ MaxPosts \in Nat /\ MaxPatches \in Nat /\ MaxPuts \in Nat

VARIABLES
    encrypts,  \* crypto.subtle is there
    posted,    \* server: the messages are 1..posted
    user,      \* who is signed in, with SyncClient running, or NoUser
    screen,    \* client: the messages it shows, number -> patches
    reached,   \* client: conversation.lastSeq
    version,   \* IndexedDB: the version of the schema
    messages,  \* IndexedDB: number -> [key, patches]
    conv,      \* IndexedDB: the conversation's [key, lastSeq], or NoConv
    cursor,    \* IndexedDB: the cursors store, 0 when it has no entry
    puts,      \* the writes under way, in the order they were asked for
    intact     \* history: this version of the schema from the start, no session ended before its
               \* writes were done, none found records of another user that it cannot read

disk == <<version, messages, conv, cursor>>
diskVars == <<encrypts, posted, user, screen, reached, disk, puts, intact>>

NoUser == "nobody"
Plain == "plain"
NoConv == [key |-> "none", lastSeq |-> 0]
Nothing == [n \in {} |-> 0]

KeyOf(u) == IF encrypts THEN u ELSE Plain

\* _decryptMsg, _decryptConv: plain records and those of one's own key are read.
Readable(key, u) == key \in {Plain, u}

\* A browser of the current version that is empty, or an older one that user u has used:
\* it has what was kept of 1..posted, under a cursor that is not above it.
DiskInit ==
    /\ version \in FromVersions
    /\ posted \in 0..MaxPosts
    /\ encrypts \in BOOLEAN /\ intact = (version = 5)
    /\ user = NoUser /\ screen = Nothing /\ reached = 0 /\ puts = << >>
    /\ IF version = 5 THEN messages = Nothing /\ conv = NoConv /\ cursor = 0
       ELSE \E u \in Accounts, kept \in SUBSET (1..posted), read \in 0..posted :
              /\ messages = [n \in kept |-> [key |-> KeyOf(u), patches |-> 0]]
              /\ conv = [key |-> KeyOf(u), lastSeq |-> posted]
              /\ cursor = read
              /\ version # 4 => kept = 1..posted

-----------------------------------------------------------------------------
(***************************************************************************)
(* Opening and loading                                                     *)
(***************************************************************************)

\* onupgradeneeded
Upgraded(old) ==
    [messages |-> IF old \in {1, 2, 3} THEN Nothing ELSE messages,
     conv |-> IF old = 1 THEN NoConv ELSE conv,
     cursor |-> IF old = 4 THEN 0 ELSE cursor]

PutMessage(u, n, patches) ==
    [store |-> "messages", n |-> n, value |-> [key |-> KeyOf(u), patches |-> patches]]

PutConv(u, last) ==
    [store |-> "conversations", n |-> 0, value |-> [key |-> KeyOf(u), lastSeq |-> last]]

PutCursor(n) == [store |-> "cursors", n |-> n, value |-> NoConv]

Write(new) ==
    /\ Len(puts) + Len(new) <= MaxPuts
    /\ puts' = puts \o new

\* The conversation's lastSeq after the load: the cursor's, or else its own.
LastSeqOf(db, u) ==
    IF db.conv = NoConv \/ ~Readable(db.conv.key, u) THEN 0
    ELSE IF db.cursor # 0 THEN db.cursor ELSE db.conv.lastSeq

\* SyncClient.start: the database is opened and loaded, then the HELLO is sent.  Loading
\* goes through _insertMsg, which writes every message back.
SignIn(u) ==
    /\ user = NoUser /\ user' = u
    /\ LET db == Upgraded(version)
           known == db.conv # NoConv /\ Readable(db.conv.key, u)
           shown == {n \in DOMAIN db.messages : known /\ Readable(db.messages[n].key, u)}
       IN /\ intact' = (intact /\ (known \/ db.conv = NoConv))
          /\ version' = 5
          /\ messages' = db.messages /\ conv' = db.conv /\ cursor' = db.cursor
          /\ screen' = [n \in shown |-> db.messages[n].patches]
          /\ reached' = LastSeqOf(db, u)
          /\ Write(SetToSeq({PutMessage(u, n, db.messages[n].patches) : n \in shown}))
    /\ UNCHANGED <<encrypts, posted>>

-----------------------------------------------------------------------------
(***************************************************************************)
(* While the client runs                                                   *)
(***************************************************************************)

\* A message is sent by another member.
Post ==
    /\ posted < MaxPosts
    /\ posted' = posted + 1
    /\ UNCHANGED <<encrypts, user, screen, reached, disk, puts, intact>>

\* MSG, replayed or live: _insertMsg writes the conversation with its last message and
\* the message, then the handler raises lastSeq and writes the conversation again.
InsertMsg ==
    /\ user # NoUser /\ reached < posted
    /\ LET n == reached + 1 IN
       /\ screen' = [i \in DOMAIN screen \cup {n} |-> IF i = n THEN 0 ELSE screen[i]]
       /\ reached' = n
       /\ Write(<<PutConv(user, reached), PutMessage(user, n, 0), PutConv(user, n)>>)
    /\ UNCHANGED <<encrypts, posted, user, disk, intact>>

\* _patchMsg, for an edit, a reaction or a receipt.
Patch(n) ==
    /\ user # NoUser /\ n \in DOMAIN screen /\ screen[n] < MaxPatches
    /\ screen' = [screen EXCEPT ![n] = @ + 1]
    /\ Write(<<PutMessage(user, n, screen[n] + 1)>>)
    /\ UNCHANGED <<encrypts, posted, user, reached, disk, intact>>

\* Mutant of Read: the number of the newest message on the server is taken.
ReadTop ==
    /\ user # NoUser /\ DOMAIN screen # {} /\ cursor # posted
    /\ Write(<<PutConv(user, reached), PutCursor(posted)>>)
    /\ UNCHANGED <<encrypts, posted, user, screen, reached, disk, intact>>

\* sendRead, for the last message that is shown.
Read ==
    /\ user # NoUser /\ DOMAIN screen # {}
    /\ LET last == CHOOSE n \in DOMAIN screen : \A i \in DOMAIN screen : i <= n IN
       /\ cursor # last
       /\ Write(<<PutConv(user, reached), PutCursor(last)>>)
    /\ UNCHANGED <<encrypts, posted, user, screen, reached, disk, intact>>

\* Mutant of MayApply: without encryption too the writes come in any order.
MayApplyAny(i) == TRUE

\* Encrypted records are ready in any order; otherwise a store is written in turn.
MayApply(i) ==
    \/ encrypts /\ puts[i].store # "cursors"
    \/ \A j \in 1..(i - 1) : puts[j].store # puts[i].store

\* A transaction is done.
Apply(i) ==
    /\ MayApply(i)
    /\ puts' = RemoveAt(puts, i)
    /\ LET p == puts[i] IN
       /\ messages' = IF p.store # "messages" THEN messages
                      ELSE [m \in DOMAIN messages \cup {p.n} |-> IF m = p.n THEN p.value ELSE messages[m]]
       /\ conv' = IF p.store = "conversations" THEN p.value ELSE conv
       /\ cursor' = IF p.store = "cursors" THEN p.n ELSE cursor
    /\ UNCHANGED <<encrypts, posted, user, screen, reached, version, intact>>

\* The tab is closed and what is under way is lost, or the user signs out and it goes on.
End(way) ==
    /\ user # NoUser /\ user' = NoUser
    /\ screen' = Nothing /\ reached' = 0
    /\ puts' = IF way = "close" THEN << >> ELSE puts
    /\ intact' = (intact /\ puts = << >>)
    /\ UNCHANGED <<encrypts, posted, disk>>

-----------------------------------------------------------------------------
DiskNext ==
    \/ \E u \in Accounts : SignIn(u)
    \/ \E way \in {"close", "signOut"} : End(way)
    \/ Post \/ InsertMsg \/ Read
    \/ \E n \in 1..MaxPosts : Patch(n)
    \/ \E i \in DOMAIN puts : Apply(i)

DiskSpec == DiskInit /\ [][DiskNext]_diskVars

-----------------------------------------------------------------------------
(***************************************************************************)
(* Properties                                                              *)
(***************************************************************************)

Keys == Accounts \cup {Plain}
MessageRecords == [key : Keys, patches : 0..MaxPatches]
ConvRecords == [key : Keys, lastSeq : 0..posted] \cup {NoConv}
Writes ==
    [store : {"messages"}, n : 1..posted, value : MessageRecords]
    \cup [store : {"conversations"}, n : {0}, value : ConvRecords]
    \cup [store : {"cursors"}, n : 1..posted, value : {NoConv}]

\* Types; a conversation is written with a lastSeq the server has reached.
DiskTypeOK ==
    /\ encrypts \in BOOLEAN /\ intact \in BOOLEAN /\ version \in 1..5
    /\ posted \in 0..MaxPosts /\ reached \in 0..posted /\ cursor \in 0..posted
    /\ user \in Accounts \cup {NoUser}
    /\ DOMAIN screen \subseteq 1..posted /\ screen \in [DOMAIN screen -> 0..MaxPatches]
    /\ DOMAIN messages \subseteq 1..posted /\ messages \in [DOMAIN messages -> MessageRecords]
    /\ conv \in ConvRecords /\ puts \in Seq(Writes)

\* CLIENT_SDK_PLAN.md:306: "If IDB enabled: load cursors from IDB (real lastSeq, not 0)".
\* The cursor of a HELLO stands for messages the client has: there is none at or below it
\* that is neither shown nor will be sent, whatever was reloaded when, if the sessions
\* before ended with nothing under way and were the same user's.
NoHole == user # NoUser /\ intact => 1..reached \subseteq DOMAIN screen

\* MESSAGE_STATUS_PLAN.md:258: "IDB was written on each `_patchMsg`": without encryption,
\* with nothing under way for a message its record is the one that is shown, whoever signed
\* out or closed the tab before.
StoredIsCurrent ==
    user # NoUser /\ ~encrypts => \A n \in DOMAIN screen :
        (\A i \in DOMAIN puts : puts[i].store = "messages" => puts[i].n # n)
            => n \in DOMAIN messages /\ messages[n].patches = screen[n]

=============================================================================
