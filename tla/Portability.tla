----------------------------- MODULE Portability -----------------------------
(***************************************************************************)
(* A conversation exported to, and imported from, a WhatsApp _chat.txt     *)
(* (lib/portability): the parser, the writer, and the two jobs that await  *)
(* one message or one page at a time while the conversation goes on.       *)
(*                                                                         *)
(* A text is a sequence of lines and a line a sequence of tokens: Stamp,   *)
(* the "[12/03/24, 09:15:01] " that opens a message; Suffix, the           *)
(* " (file attached)" that closes a line; and words, ": " standing between *)
(* two tokens unless the first is Stamp or the second Suffix.  The empty   *)
(* line is << "" >>.  Times, and the names of the mapped users (equal to   *)
(* their ids), are left out.                                               *)
(***************************************************************************)
EXTENDS Integers, FiniteSets, Sequences, SequencesExt

CONSTANTS
    Words,         \* what the tokens of a line may be
    Files,         \* the texts an import may be given
    Known,         \* the names in nameToUserId and, inverted, in userIdToName
    Bodies,        \* what a member may write: sequences of lines
    PAGE,          \* how many messages one batch of the export has (500)
    MaxSent,       \* bound of the model: messages sent by members
    MaxGone,       \* bound of the model: messages deleted or expired
    MaxFailures    \* bound of the model: failing inserts of an import

Stamp == "[stamp]"
Suffix == "(file attached)"
Marker == "<Media omitted>"
Omits == {Marker, "video omitted"}  \* the phrases of MEDIA_OMITTED
Img == "IMG-1.jpg"                  \* a name MEDIA_ATTACHED knows
EmptyLine == <<"">>
Nobody == "nobody"

IsHeader(line) == line[1] = Stamp
Lines == Seq(Words) \ {<<>>}

\* Behind a stamp stands at least the empty word.
ASSUME PortabilityAssumption ==
    /\ {Stamp, Suffix, Marker, Nobody, "system", ""} \subseteq Words
    /\ Files \subseteq Seq({l \in Lines : IsHeader(l) => Len(l) > 1})
    /\ Known \subseteq Words
    /\ Bodies \subseteq Seq(Lines) \ {<<>>}
    /\ PAGE \in Nat \ {0} /\ MaxSent \in Nat /\ MaxGone \in Nat /\ MaxFailures \in Nat

VARIABLES
    log,       \* the conversation's messages by number, `stored` once they are inserted;
               \* `origin` is the place in the file
    file,      \* the text given to the import
    importing, \* the messages the import has still to ingest
    drawn,     \* the number it has drawn for the first of them, or 0
    import,    \* "no", "running", "failed" or "done"
    all,       \* the export: what its batches have brought, and the numbers they passed over
    export,    \* "no", "running" or "done"
    begun,     \* the numbers of the messages there were when the export began
    sent,      \* how many messages members have sent
    failures   \* how many imports have failed

portabilityVars ==
    <<log, file, importing, drawn, import, all, export, begun, sent, failures>>

NoMedia == [kind |-> "none"]

-----------------------------------------------------------------------------
(* The parser. *)

\* classify: a phrase anywhere in the body makes it an omitted medium, and
\* "(file attached)" at its end, or after a known name, makes it a file.
Omitted(body) == \E l \in ToSet(body) : \E w \in ToSet(l) : w \in Omits
Attached(body) ==
    \/ Last(Last(body)) = Suffix
    \/ \E l \in ToSet(body) : \E i, j \in 1..Len(l) : i < j /\ l[i] = Img /\ l[j] = Suffix

\* Mutant of WithoutSuffix: the words are kept in the file's name.
WithSuffix(body) == body

WithoutSuffix(body) ==
    IF Last(Last(body)) = Suffix THEN Append(Front(body), Front(Last(body))) ELSE body

Media(body) ==
    CASE Omitted(body)  -> [kind |-> "placeholder"]
      [] ~Omitted(body) /\ Attached(body) -> [kind |-> "file", name |-> WithoutSuffix(body)]
      [] OTHER -> NoMedia

\* Trailing blank lines are trimmed; what is left of an empty body is one blank line.
TrimmedBody(body) ==
    SubSeq(body, 1, CHOOSE n \in 1..Len(body) :
        /\ \A i \in n+1..Len(body) : body[i] = EmptyLine
        /\ n = 1 \/ body[n] # EmptyLine)

Finalized(m) ==
    LET body == TrimmedBody(m.body)
    IN  [system |-> m.system, sender |-> m.sender, body |-> body, media |-> Media(body)]

\* Mutant of Opened: the last ": " ends the sender's name.
OpenedAtLast(rest) ==
    IF Len(rest) >= 2 /\ rest[2] # Suffix
        THEN [system |-> FALSE, sender |-> rest[1], body |-> <<(<<Last(rest)>>)>>]
        ELSE [system |-> TRUE, sender |-> Nobody, body |-> <<rest>>]

\* The first ": " ends the sender's name; a line without one is a notice.
\* (looksLikeSystem is never true where there is a ": ".)
Opened(rest) ==
    IF Len(rest) >= 2 /\ rest[2] # Suffix
        THEN [system |-> FALSE, sender |-> rest[1], body |-> <<Tail(rest)>>]
        ELSE [system |-> TRUE, sender |-> Nobody, body |-> <<rest>>]

\* parseChat: `cur` is empty or holds the message being read.
Closed(acc) == acc.out \o [i \in DOMAIN acc.cur |-> Finalized(acc.cur[i])]

Longer(m, line) == [m EXCEPT !.body = Append(@, line)]

ReadLine(acc, line) ==
    IF IsHeader(line) THEN [out |-> Closed(acc), cur |-> <<Opened(Tail(line))>>]
    ELSE [out |-> acc.out, cur |-> [i \in DOMAIN acc.cur |-> Longer(acc.cur[i], line)]]

Reading(text) ==
    LET read[n \in 0..Len(text)] ==
            IF n = 0 THEN [out |-> <<>>, cur |-> <<>>] ELSE ReadLine(read[n - 1], text[n])
    IN  read

ParseChat(text) == Closed(Reading(text)[Len(text)])

-----------------------------------------------------------------------------
(* The writer. *)

\* The driver returns a payload as a bson.Binary, which has no numeric length: Buffer.from
\* makes an empty buffer of it, and the words of a text are not written.
BodyOf(m) ==
    CASE m.media.kind = "placeholder" -> <<(<<Marker>>)>>
      [] m.media.kind = "file" -> Append(Front(m.media.name), Append(Last(m.media.name), Suffix))
      [] OTHER -> <<EmptyLine>>

\* Unknown names come back without their "wa:".
Heading(m) == IF m.system THEN <<Stamp>> ELSE <<Stamp, m.senderId.name>>

LinesOf(m) == <<Heading(m) \o Head(BodyOf(m))>> \o Tail(BodyOf(m))

Listed(m) == m.stored /\ ~m.gone

\* One turn of the loop for each message; a deleted or expired one adds no lines, and
\* where there is no message there is no turn.
Listing(ms) ==
    LET lines[n \in 0..Len(ms)] ==
            CASE n = 0 -> <<>>
              [] n > 0 /\ Listed(ms[n]) -> lines[n - 1] \o LinesOf(ms[n])
              [] OTHER -> lines[n - 1]
    IN  lines

Exported(ms) == Append(Listing(ms)[Len(ms)], EmptyLine)

-----------------------------------------------------------------------------

PortabilityInit ==
    /\ log = <<>>
    /\ file \in Files
    /\ importing = <<>> /\ import = "no" /\ drawn = 0
    /\ all = <<>> /\ export = "no" /\ begun = {}
    /\ sent = 0 /\ failures = 0

\* ingest draws a number, and awaits the counter before it inserts the message.
Draw(system, u, body) ==
    /\ sent < MaxSent
    /\ sent' = sent + 1
    /\ log' = Append(log, [system |-> system, senderId |-> [wa |-> FALSE, name |-> u], body |-> body,
                           media |-> NoMedia, stored |-> FALSE, gone |-> FALSE, origin |-> 0])
    /\ UNCHANGED <<file, importing, drawn, import, all, export, begun, failures>>

\* A member sends a text.
Send(u, body) == Draw(FALSE, u, body)

\* A change of the group: a SYSTEM message without a payload.
GroupEvent(u) == Draw(TRUE, u, <<EmptyLine>>)

\* The insert of a member's message or of a notice.
Insert(i) ==
    /\ ~log[i].stored /\ log[i].origin = 0
    /\ log' = [log EXCEPT ![i].stored = TRUE]
    /\ UNCHANGED <<file, importing, drawn, import, all, export, begun, sent, failures>>

\* A message is deleted for everyone, or expires.
Withdraw(i) ==
    /\ Listed(log[i]) /\ ~log[i].system
    /\ Cardinality({k \in DOMAIN log : log[k].gone}) < MaxGone
    /\ log' = [log EXCEPT ![i].gone = TRUE]
    /\ UNCHANGED <<file, importing, drawn, import, all, export, begun, sent, failures>>

\* Whether the import passes over a message: with the option includeSystem, over none.
Skips(m, includeSystem) == m.system /\ ~includeSystem

\* importWhatsApp parses the whole text before its first await; after a
\* failure it is called again with the same text.
StartImport(includeSystem) ==
    /\ import \in {"no", "failed"}
    /\ import' = "running"
    /\ importing' = [i \in DOMAIN ParseChat(file) |->
                       [m |-> ParseChat(file)[i], origin |-> i,
                        skipped |-> Skips(ParseChat(file)[i], includeSystem)]]
    /\ UNCHANGED <<log, file, drawn, all, export, begun, sent, failures>>

SenderId(m) ==
    [wa |-> ~m.system /\ m.sender \notin Known,
     name |-> IF m.system THEN "system" ELSE m.sender]

Ingested(p) ==
    [system |-> p.m.system, senderId |-> SenderId(p.m), body |-> p.m.body,
     media |-> p.m.media, stored |-> FALSE, gone |-> FALSE, origin |-> p.origin]

\* A turn of the loop that skips its message.
ImportSkips ==
    /\ import = "running" /\ importing # <<>> /\ Head(importing).skipped
    /\ importing' = Tail(importing)
    /\ UNCHANGED <<log, file, drawn, import, all, export, begun, sent, failures>>

\* A turn that ingests it under a fresh ULID: the number first, then the insert.
ImportDraws ==
    /\ import = "running" /\ importing # <<>> /\ ~Head(importing).skipped /\ drawn = 0
    /\ log' = Append(log, Ingested(Head(importing)))
    /\ drawn' = Len(log) + 1
    /\ UNCHANGED <<file, importing, import, all, export, begun, sent, failures>>

ImportInserts ==
    /\ import = "running" /\ drawn # 0
    /\ log' = [log EXCEPT ![drawn].stored = TRUE]
    /\ importing' = Tail(importing) /\ drawn' = 0
    /\ UNCHANGED <<file, import, all, export, begun, sent, failures>>

\* The counter or the insert fails, and the import with it; the number stays unused.
ImportFails ==
    /\ import = "running" /\ importing # <<>> /\ ~Head(importing).skipped
    /\ failures < MaxFailures
    /\ failures' = failures + 1
    /\ import' = "failed" /\ importing' = <<>> /\ drawn' = 0
    /\ UNCHANGED <<log, file, all, export, begun, sent>>

ImportDone ==
    /\ import = "running" /\ importing = <<>>
    /\ import' = "done"
    /\ UNCHANGED <<log, file, importing, drawn, all, export, begun, sent, failures>>

StartExport ==
    /\ export = "no"
    /\ export' = "running" /\ begun' = {i \in DOMAIN log : log[i].stored}
    /\ UNCHANGED <<log, file, importing, drawn, import, all, sent, failures>>

StoredIn(from, to) == {i \in from..to : log[i].stored}

\* Where a batch behind the cursor ends if it is a full one: at its PAGE-th message.
FullEnds(cursor) ==
    {n \in StoredIn(cursor + 1, Len(log)) : Cardinality(StoredIn(cursor + 1, n)) = PAGE}
PageEnd(cursor) == IF FullEnds(cursor) = {} THEN Len(log) ELSE CHOOSE n \in FullEnds(cursor) : TRUE

\* Mutant of Batch: the cursor's successor is skipped.
BatchFromOne(cursor) == SubSeq(log, cursor + 2, PageEnd(cursor))

\* The messages with higher numbers than the cursor that are stored by now.  The cursor is
\* the number of the last one, so what is stored below it later is never asked for.
Batch(cursor) == SubSeq(log, cursor + 1, PageEnd(cursor))

\* One turn of the loop: a short batch is the last one.
ExportPage ==
    /\ export = "running"
    /\ all' = all \o Batch(Len(all))
    /\ export' = IF FullEnds(Len(all)) = {} THEN "done" ELSE export
    /\ UNCHANGED <<log, file, importing, drawn, import, begun, sent, failures>>

PortabilityNext ==
    \/ \E u \in Known, body \in Bodies : Send(u, body)
    \/ \E u \in Known : GroupEvent(u)
    \/ \E i \in DOMAIN log : Insert(i) \/ Withdraw(i)
    \/ \E includeSystem \in BOOLEAN : StartImport(includeSystem)
    \/ ImportSkips \/ ImportDraws \/ ImportInserts \/ ImportFails \/ ImportDone
    \/ StartExport \/ ExportPage

PortabilitySpec == PortabilityInit /\ [][PortabilityNext]_portabilityVars

-----------------------------------------------------------------------------
(* Properties. *)

\* The two jobs are where they say they are, and the messages are well formed.
PortabilityTypeOK ==
    /\ import \in {"no", "running", "failed", "done"}
    /\ export \in {"no", "running", "done"}
    /\ importing # <<>> => import = "running"
    /\ drawn # 0 => importing # <<>> /\ drawn \in DOMAIN log /\ ~log[drawn].stored
    /\ Len(all) <= Len(log)
    /\ sent \in 0..MaxSent /\ failures \in 0..MaxFailures
    /\ \A i \in DOMAIN log :
         /\ log[i].media.kind \in {"none", "placeholder", "file"}
         /\ Len(log[i].body) = 1 \/ log[i].origin = 0 \/ Last(log[i].body) # EmptyLine

\* The place of the n-th message among those an export lists.
Place(ms, n) == Cardinality({i \in 1..n : Listed(ms[i])})

\* What was read stands for the message that was written: a notice or a message of the same
\* sender, with the same medium.
SameMessage(read, m) ==
    /\ read.system = m.system
    /\ read.media = m.media
    /\ ~m.system => read.sender = m.senderId.name

\* Whoever reads an exported text back gets as many messages as the export listed, each one
\* in its place, with its sender and its medium: no name and no body, whatever it looks like,
\* opens a message too many (exportWhatsApp and parseChat).  Nothing is said of the words of
\* a text, which are not written.
RoundTrip ==
    export = "done" =>
        LET back == ParseChat(Exported(all))
        IN  /\ Len(back) = Place(all, Len(all))
            /\ \A i \in DOMAIN all : Listed(all[i]) => SameMessage(back[Place(all, i)], all[i])

\* What never changes of a message.
Written(m) == [m EXCEPT !.stored = TRUE, !.gone = TRUE]

\* An export has every message that was stored when it began, and whatever it has is the
\* conversation's, once and in order, although members send, an import runs and messages are
\* withdrawn while its pages are read.  What is stored later may be missing, also below the
\* last number it has.
ExportIsComplete ==
    export = "done" =>
        /\ \A i \in begun : i <= Len(all) /\ all[i].stored
        /\ \A i \in DOMAIN all :
             /\ all[i].stored => log[i].stored
             /\ Written(all[i]) = Written(log[i])

\* An export has every message of the conversation it began with once, and is read back as
\* those messages' senders and media in their order (lib/portability/engine.js:54-78).
ExportsAreFaithful == ExportIsComplete /\ RoundTrip

=============================================================================
