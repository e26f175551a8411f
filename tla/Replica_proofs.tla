---------------------------- MODULE Replica_proofs ----------------------------
(***************************************************************************)
(* Theorems about Replica, for every set of slots and kinds of change and  *)
(* any number of changes, broken connections, replays and pages: a settled *)
(* client shows the message as it is stored, unless a change was lost to   *)
(* it or overtaken by an older copy.                                       *)
(*                                                                         *)
(* The invariant follows what is on its way: for the text, for the end and *)
(* for the reaction of each user, the LAST frame that speaks of it - on    *)
(* the bus, else on the socket - says what the document says, and without  *)
(* such a frame the copy, or a page that will replace it, does.            *)
(***************************************************************************)
EXTENDS Replica, TLAPS

-----------------------------------------------------------------------------
(***************************************************************************)
(* The inductive invariant                                                 *)
(***************************************************************************)

Gone(r) == r.deleted \/ r.expired

\* A page has been read and not yet been inserted.
Captured == page \notin {NoPage, PageAsked}

\* A replay has read the document and not yet sent it.
Taken == \E r \in Readers : hand[r] # NoPage

\* The last frame of rel in queue q is one of good; there is none.
Ends(q, rel, good) ==
    \E i \in DOMAIN q : q[i] \in rel \cap good /\ \A j \in DOMAIN q : j > i => q[j] \notin rel
Silent(q, rel) == \A i \in DOMAIN q : q[i] \notin rel

\* The last frame of rel on the way to the client, by bus b and wire w, is one of good; there is
\* none.
Settles(b, w, rel, good) == Ends(b, rel, good) \/ (Silent(b, rel) /\ Ends(w, rel, good))
Hushed(b, w, rel) == Silent(b, rel) /\ Silent(w, rel)

\* The frames that say what the text is, that there is a text or none, and whether b reacts.
TextFrames == {f \in AllFrames : f.type \in {"MSG", "EDITED"}}
EndFrames == {f \in AllFrames : f.type \in {"MSG", "DELETED", "EXPIRED"}}
ReactionFrames(b) == {f \in AllFrames : f.type = "MSG" \/ (f.type = "REACTED" /\ f.by = b)}

\* Those that say it is t, that there is none, and that b reacts if he is among users.
WithText(t) == {f \in AllFrames : f.text = t}
Tombstones == {f \in AllFrames : f.type \in {"DELETED", "EXPIRED"}}
Reacting(b, users) == {f \in AllFrames : (f.type = "REACTED" /\ f.on) <=> b \in users}

\* A change of one of these kinds is served in slot s.
Serves(s, kinds) == change[s].pc # "idle" /\ change[s].kind \in kinds

\* A change of one of these kinds is stored and not yet announced.
Updated(kinds) == \E s \in Slots : change[s].pc = "updated" /\ change[s].kind \in kinds

\* A reaction of b is on its way to the document or has yet to be announced.
Pending(b) ==
    \/ b = "me" /\ toggles # << >>
    \/ \E s \in Slots : Serves(s, {"react"}) /\ change[s].by = b

\* Record r is a copy of what document d shows.
Alike(r, d) == (Gone(r) <=> Gone(d)) /\ (~Gone(d) => r.text = d.text)

\* A clean client has the text of the document, or the last frame that says one says it; or a
\* replay that has read it will, and nothing that is published can come after that.
TextSettles ==
    undisturbed /\ message # Absent /\ ~Gone(message) /\ ~Updated({"edit"}) =>
        \/ Settles(bus, wire, TextFrames, WithText(message.text))
        \/ /\ Hushed(bus, wire, TextFrames)
           /\ Captured \/ bubble = Absent \/ bubble.text = message.text
        \/ Taken /\ Silent(bus, TextFrames)

\* The same for its end.
EndSettles ==
    undisturbed /\ Gone(message) /\ ~Updated({"delete", "expire"}) =>
        \/ Settles(bus, wire, EndFrames, Tombstones)
        \/ Hushed(bus, wire, EndFrames) /\ (Captured \/ bubble = Absent \/ Gone(bubble))
        \/ Taken /\ Silent(bus, EndFrames)

\* And for who reacts.
ReactionSettles(b) ==
    \/ Pending(b)
    \/ Settles(bus, wire, ReactionFrames(b), Reacting(b, message.reactions))
    \/ /\ Hushed(bus, wire, ReactionFrames(b))
       /\ Captured \/ bubble = Absent \/ (b \in bubble.reactions <=> b \in message.reactions)
    \/ Taken /\ Silent(bus, ReactionFrames(b))
ReactionsSettle ==
    cleanReactions /\ message # Absent /\ ~Gone(message) =>
        \A b \in {"me", "other"} : ReactionSettles(b)

\* Nothing says that the message is gone before it is.
NotYetGone ==
    ~Gone(message) =>
        /\ Silent(bus, Tombstones) /\ Silent(wire, Tombstones)
        /\ ~Gone(bubble) /\ ~Gone(page) /\ ~Updated({"delete", "expire"})
        /\ \A r \in Readers : ~Gone(hand[r])

\* Before the SEND there is nothing.
NothingBefore ==
    /\ send = "new" <=> message = Absent
    /\ message # Absent => message.text # 0 /\ message.text >= NoText
    /\ \A s \in Slots : change[s].kind = "edit" => change[s].text > 1
    /\ \A r \in Readers : hand[r] # Absent /\ (message = Absent => hand[r] = NoPage)
    /\ message = Absent => /\ bubble = Absent /\ bus = << >> /\ wire = << >> /\ toggles = << >>
                           /\ ~Captured /\ ~mailbox /\ \A s \in Slots : change[s].pc = "idle"

\* An older state that is under way is still the state.
PageIsRight ==
    Captured =>
        /\ undisturbed => Alike(page, message) /\ ~Changing(Contents)
        /\ cleanReactions => /\ page.reactions = {} /\ message.reactions = {}
                             /\ ~Changing({"react"}) /\ toggles = << >>
HandIsRight ==
    \A r \in Readers : hand[r] # NoPage =>
        /\ undisturbed => Alike(hand[r], message) /\ ~Changing(Contents)
        /\ cleanReactions => message.reactions = {} /\ ~Changing({"react"}) /\ toggles = << >>
StillOriginal ==
    mailbox \/ send \in {"stored", "published"} =>
        /\ undisturbed => ~Gone(message) /\ message.text = Original /\ ~Changing(Contents)
        /\ cleanReactions => message.reactions = {} /\ ~Changing({"react"}) /\ toggles = << >>

\* Changes of a kind come one after the other, and while the client is connected.
InTurn ==
    /\ undisturbed => \A s, t \in Slots : Serves(s, Contents) /\ Serves(t, Contents) => s = t
    /\ cleanReactions => \A s, t \in Slots : Serves(s, {"react"}) /\ Serves(t, {"react"}) => s = t
    /\ conn = "off" => /\ undisturbed => ~Changing(Contents)
                       /\ cleanReactions => ~Changing({"react"}) /\ toggles = << >>

\* What is announced is what is stored.
AnnouncesStored ==
    \A s \in Slots : change[s].pc = "updated" =>
        /\ change[s].kind = "edit" /\ undisturbed /\ ~Gone(message) => message.text = change[s].text
        /\ change[s].kind = "delete" => message.deleted
        /\ change[s].kind = "expire" => message.expired
        /\ change[s].kind = "react" /\ cleanReactions =>
              (change[s].by \in message.reactions <=> change[s].on)

CopyInv ==
    /\ TextSettles /\ EndSettles /\ ReactionsSettle /\ NotYetGone /\ NothingBefore
    /\ PageIsRight /\ HandIsRight /\ StillOriginal /\ InTurn /\ AnnouncesStored

-----------------------------------------------------------------------------
(***************************************************************************)
(* Queues of frames                                                        *)
(***************************************************************************)

\* What is appended to a queue of frames, and what is left of one.
LEMMA Appended ==
    ASSUME NEW S, NEW s \in Seq(S), NEW e \in S
    PROVE  /\ \A i \in DOMAIN s :
                 i \in DOMAIN Append(s, e) /\ Append(s, e)[i] = s[i] /\ i < Len(s) + 1
           /\ Len(s) + 1 \in DOMAIN Append(s, e) /\ Append(s, e)[Len(s) + 1] = e /\ Len(s) \in Nat
           /\ \A i \in DOMAIN Append(s, e) : i \in DOMAIN s \/ i = Len(s) + 1
<1>1. /\ Len(s) \in Nat /\ Len(Append(s, e)) = Len(s) + 1
      /\ DOMAIN s = 1..Len(s) /\ DOMAIN Append(s, e) = 1..(Len(s) + 1)
  OBVIOUS
<1> QED
  BY <1>1

\* What is left of a queue of frames when the first is taken.
LEMMA Shifted ==
    ASSUME NEW S, NEW s \in Seq(S), s # << >>
    PROVE  /\ \A i \in DOMAIN Tail(s) :
                 i + 1 \in DOMAIN s /\ Tail(s)[i] = s[i + 1] /\ i \in Nat /\ i > 0
           /\ \A i \in DOMAIN s :
                 /\ i \in Nat
                 /\ i = 1 \/ (i > 1 /\ i - 1 \in DOMAIN Tail(s) /\ Tail(s)[i - 1] = s[i])
           /\ 1 \in DOMAIN s /\ s[1] = Head(s)
<1>1. /\ Len(s) \in Nat \ {0} /\ Len(Tail(s)) = Len(s) - 1
      /\ DOMAIN s = 1..Len(s) /\ DOMAIN Tail(s) = 1..(Len(s) - 1)
  OBVIOUS
<1>2. \A i \in 1..(Len(s) - 1) : Tail(s)[i] = s[i + 1]
  BY <1>1
<1> QED
  BY <1>1, <1>2

\* A queue that something was appended to is not empty.
LEMMA NotEmpty == ASSUME NEW S, NEW s \in Seq(S), NEW e \in S PROVE Append(s, e) # << >>
<1>1. Len(Append(s, e)) = Len(s) + 1 /\ Len(s) \in Nat /\ Len(<< >>) = 0
  OBVIOUS
<1> QED
  BY <1>1

\* A frame at the end of a queue: one of rel and good is the last of rel, another changes nothing.
LEMMA EndsAppended ==
    ASSUME NEW q \in Seq(AllFrames), NEW f \in AllFrames, NEW rel, NEW good
    PROVE  /\ f \in rel /\ f \in good => Ends(Append(q, f), rel, good)
           /\ f \notin rel /\ Ends(q, rel, good) => Ends(Append(q, f), rel, good)
           /\ f \notin rel /\ Silent(q, rel) => Silent(Append(q, f), rel)
<1> DEFINE r == Append(q, f)
           n == Len(q) + 1
<1>1. /\ \A i \in DOMAIN q : i \in DOMAIN r /\ r[i] = q[i] /\ i < n /\ i \in Int
      /\ n \in DOMAIN r /\ r[n] = f /\ n \in Int
      /\ \A i \in DOMAIN r : i \in DOMAIN q \/ i = n
  <2>1. \A i \in DOMAIN q : i \in Int
    OBVIOUS
  <2> QED
    BY Appended, <2>1
<1> HIDE DEF r, n
<1>2. ASSUME f \in rel, f \in good PROVE Ends(r, rel, good)
  <2>1. \A j \in DOMAIN r : ~(j > n)
    BY <1>1
  <2> QED
    BY <1>1, <1>2, <2>1 DEF Ends
<1>3. ASSUME f \notin rel, Ends(q, rel, good) PROVE Ends(r, rel, good)
  <2>1. PICK i \in DOMAIN q : q[i] \in rel \cap good /\ \A j \in DOMAIN q : j > i => q[j] \notin rel
    BY <1>3 DEF Ends
  <2>2. \A j \in DOMAIN r : j > i => r[j] \notin rel
    BY <1>1, <1>3, <2>1
  <2> QED
    BY <1>1, <2>1, <2>2 DEF Ends
<1>4. ASSUME f \notin rel, Silent(q, rel) PROVE Silent(r, rel)
  BY <1>1, <1>4 DEF Silent
<1> QED
  BY <1>2, <1>3, <1>4 DEF r

\* The first frame of a queue is taken: it was the last of rel, or what was said is still said.
LEMMA EndsShifted ==
    ASSUME NEW q \in Seq(AllFrames), q # << >>, NEW rel, NEW good
    PROVE  /\ Ends(q, rel, good) => \/ Ends(Tail(q), rel, good)
                                    \/ Silent(Tail(q), rel) /\ Head(q) \in rel /\ Head(q) \in good
           /\ Silent(q, rel) => Silent(Tail(q), rel) /\ Head(q) \notin rel
<1> DEFINE t == Tail(q)
           h == Head(q)
<1>1. /\ \A i \in DOMAIN t : i + 1 \in DOMAIN q /\ t[i] = q[i + 1] /\ i \in Nat /\ i > 0
      /\ \A i \in DOMAIN q :
            i \in Nat /\ (i = 1 \/ (i > 1 /\ i - 1 \in DOMAIN t /\ t[i - 1] = q[i]))
      /\ 1 \in DOMAIN q /\ q[1] = h
  BY Shifted
<1> HIDE DEF t, h
<1>2. ASSUME Ends(q, rel, good)
      PROVE  Ends(t, rel, good) \/ (Silent(t, rel) /\ h \in rel /\ h \in good)
  <2>1. PICK i \in DOMAIN q : q[i] \in rel \cap good /\ \A j \in DOMAIN q : j > i => q[j] \notin rel
    BY <1>2 DEF Ends
  <2>2. CASE i = 1
    <3>1. \A j \in DOMAIN t : t[j] \notin rel
      BY <1>1, <2>1, <2>2
    <3> QED
      BY <1>1, <2>1, <2>2, <3>1 DEF Silent
  <2>3. CASE i > 1
    <3>1. i - 1 \in DOMAIN t /\ t[i - 1] = q[i]
      BY <1>1, <2>3
    <3>2. \A j \in DOMAIN t : j > i - 1 => t[j] \notin rel
      BY <1>1, <2>1
    <3> QED
      BY <2>1, <3>1, <3>2 DEF Ends
  <2> QED
    BY <1>1, <2>2, <2>3
<1>3. ASSUME Silent(q, rel) PROVE Silent(t, rel) /\ h \notin rel
  BY <1>1, <1>3 DEF Silent
<1> QED
  BY <1>2, <1>3 DEF t, h

\* An empty queue says nothing.
LEMMA EmptySilent == ASSUME NEW rel, NEW good PROVE Silent(<< >>, rel) /\ ~Ends(<< >>, rel,
                                                             good)
  BY DEF Silent, Ends

\* A frame that is published.
LEMMA ToldByBus ==
    ASSUME NEW b \in Seq(AllFrames), NEW w \in Seq(AllFrames), NEW f \in AllFrames,
           NEW rel, NEW good
    PROVE  /\ f \in rel /\ f \in good => Settles(Append(b, f), w, rel, good)
           /\ f \notin rel /\ Settles(b, w, rel, good) => Settles(Append(b, f), w, rel, good)
           /\ f \notin rel /\ Hushed(b, w, rel) => Hushed(Append(b, f), w, rel)
           /\ f \notin rel /\ Silent(b, rel) => Silent(Append(b, f), rel)
  BY EndsAppended DEF Settles, Hushed

\* A frame that is sent to the client before those that are published.
LEMMA ToldByWire ==
    ASSUME NEW b \in Seq(AllFrames), NEW w \in Seq(AllFrames), NEW f \in AllFrames,
           NEW rel, NEW good
    PROVE  /\ f \in rel /\ f \in good /\ (Settles(b, w, rel, good) \/ Silent(b, rel))
                 => Settles(b, Append(w, f), rel, good)
           /\ f \notin rel /\ Settles(b, w, rel, good) => Settles(b, Append(w, f), rel, good)
           /\ f \notin rel /\ Hushed(b, w, rel) => Hushed(b, Append(w, f), rel)
  BY EndsAppended DEF Settles, Hushed

\* A published frame that is delivered.
LEMMA StillTold ==
    ASSUME NEW b \in Seq(AllFrames), NEW w \in Seq(AllFrames), b # << >>, NEW rel, NEW good
    PROVE  /\ Settles(b, w, rel, good) => Settles(Tail(b), Append(w, Head(b)), rel, good)
           /\ Hushed(b, w, rel) => Hushed(Tail(b), Append(w, Head(b)), rel)
           /\ Silent(b, rel) => Silent(Tail(b), rel)
<1>1. Head(b) \in AllFrames
  OBVIOUS
<1> QED
  BY <1>1, EndsAppended, EndsShifted DEF Settles, Hushed

\* A frame that the client takes.
LEMMA Learned ==
    ASSUME NEW b \in Seq(AllFrames), NEW w \in Seq(AllFrames), w # << >>, NEW rel, NEW good
    PROVE  /\ Settles(b, w, rel, good) =>
                 \/ Settles(b, Tail(w), rel, good)
                 \/ Hushed(b, Tail(w), rel) /\ Head(w) \in rel /\ Head(w) \in good
           /\ Hushed(b, w, rel) => Hushed(b, Tail(w), rel) /\ Head(w) \notin rel
  BY EndsShifted DEF Settles, Hushed

-----------------------------------------------------------------------------
(***************************************************************************)
(* Records, changes and the frames that tell of them                       *)
(***************************************************************************)

\* A record and its fields.
LEMMA RecordForm ==
    ASSUME NEW t \in Int, NEW x \in BOOLEAN, NEW e \in BOOLEAN, NEW u \in SUBSET {"me", "other"},
           NEW r, r = [text |-> t, deleted |-> x, expired |-> e, reactions |-> u]
    PROVE  /\ r \in Records /\ r.text = t /\ r.reactions = u
           /\ r.deleted <=> x
           /\ r.expired <=> e
  BY ZenonT(30) DEF Records

\* What a frame of each type makes of a record.
LEMMA PatchedForm ==
    ASSUME NEW r \in Records, NEW f \in AllFrames
    PROVE  /\ Patched(r, f) \in Records
           /\ f.type = "MSG" => Patched(r, f) = Sent(f.text)
           /\ f.type # "MSG" /\ r = Absent => Patched(r, f) = Absent
           /\ f.type # "MSG" /\ r # Absent =>
                /\ Patched(r, f).text = IF f.type = "EDITED" THEN f.text
                                        ELSE IF f.type = "REACTED" THEN r.text ELSE NoText
                /\ Patched(r, f).deleted <=> (f.type = "DELETED" \/ r.deleted)
                /\ Patched(r, f).expired <=> (f.type = "EXPIRED" \/ r.expired)
                /\ Patched(r, f).reactions = IF f.type # "REACTED" THEN r.reactions
                                             ELSE IF f.on THEN r.reactions \cup {f.by}
                                             ELSE r.reactions \ {f.by}
<1>1. /\ f.type \in {"MSG", "EDITED", "DELETED", "EXPIRED", "REACTED"}
      /\ f.text \in Int /\ f.by \in {"me", "other"}
  BY DEF AllFrames
<1>2. \E t \in Int, x \in BOOLEAN, e \in BOOLEAN, u \in SUBSET {"me", "other"} :
         r = [text |-> t, deleted |-> x, expired |-> e, reactions |-> u]
  BY DEF Records
<1>3. PICK t \in Int, x \in BOOLEAN, e \in BOOLEAN, u \in SUBSET {"me", "other"} :
         r = [text |-> t, deleted |-> x, expired |-> e, reactions |-> u]
  BY <1>2
<1>9. r.text = t /\ r.reactions = u /\ (r.deleted <=> x) /\ (r.expired <=> e)
  BY <1>3, RecordForm
<1>4. CASE f.type = "MSG"
  BY <1>1, <1>4 DEF Patched, Records, Sent
<1>5. CASE f.type # "MSG" /\ r = Absent
  <2>1. Patched(r, f) = r
    BY <1>1, <1>5 DEF Patched
  <2> QED
    BY <1>5, <2>1
<1>6. CASE f.type = "EDITED" /\ r # Absent
  BY <1>1, <1>3, <1>6 DEF Patched, Records
<1>7. CASE f.type = "DELETED" /\ r # Absent
  <2>1. PICK y \in BOOLEAN : y
    OBVIOUS
  <2>4. Patched(r, f) = [text |-> NoText, deleted |-> y, expired |-> e, reactions |-> u]
    BY <1>1, <1>3, <1>7, <2>1 DEF Patched
  <2>5. NoText \in Int
    BY DEF NoText
  <2>2. /\ Patched(r, f) \in Records /\ Patched(r, f).text = NoText /\ Patched(r, f).reactions = u
        /\ (Patched(r, f).deleted <=> y) /\ (Patched(r, f).expired <=> e)
    BY <1>3, <2>4, <2>5, RecordForm
  <2> QED
    BY <1>7, <1>9, <2>1, <2>2
<1>8. CASE f.type = "EXPIRED" /\ r # Absent
  <2>1. PICK y \in BOOLEAN : y
    OBVIOUS
  <2>4. Patched(r, f) = [text |-> NoText, deleted |-> x, expired |-> y, reactions |-> u]
    BY <1>1, <1>3, <1>8, <2>1 DEF Patched
  <2>5. NoText \in Int
    BY DEF NoText
  <2>2. /\ Patched(r, f) \in Records /\ Patched(r, f).text = NoText /\ Patched(r, f).reactions = u
        /\ (Patched(r, f).expired <=> y) /\ (Patched(r, f).deleted <=> x)
    BY <1>3, <2>4, <2>5, RecordForm
  <2> QED
    BY <1>8, <1>9, <2>1, <2>2
<1>10. CASE f.type = "REACTED" /\ r # Absent
  <2>1. PICK v \in SUBSET {"me", "other"} : v = IF f.on THEN u \cup {f.by} ELSE u \ {f.by}
    BY <1>1
  <2>2. r.reactions = u
    BY <1>3
  <2>3. Patched(r, f) = [r EXCEPT !.reactions = v]
    BY <1>10, <2>1, <2>2 DEF Patched
  <2>4. Patched(r, f) = [text |-> t, deleted |-> x, expired |-> e, reactions |-> v]
    BY <1>3, <2>3
  <2> QED
    BY <1>3, <1>10, <2>1, <2>2, <2>4 DEF Records
<1> QED
  BY <1>1, <1>4, <1>5, <1>6, <1>7, <1>8, <1>10

\* What a change of each kind makes of the document, and the frame that tells of it.
LEMMA RevisedForm ==
    ASSUME NEW d \in Records,
           NEW c \in Served
    PROVE  /\ Revised(d, c) \in Records /\ FrameOf(c) \in AllFrames
           /\ Revised(d, c).text = IF c.kind = "edit" THEN c.text
                                   ELSE IF c.kind = "react" THEN d.text ELSE NoText
           /\ Revised(d, c).deleted <=> (c.kind = "delete" \/ d.deleted)
           /\ Revised(d, c).expired <=> (c.kind = "expire" \/ d.expired)
           /\ Revised(d, c).reactions = IF c.kind # "react" THEN d.reactions
                                        ELSE IF c.on THEN d.reactions \cup {c.by}
                                        ELSE d.reactions \ {c.by}
           /\ c.kind = "edit" => FrameOf(c).type = "EDITED" /\ FrameOf(c).text = c.text
           /\ c.kind = "delete" => FrameOf(c).type = "DELETED"
           /\ c.kind = "expire" => FrameOf(c).type = "EXPIRED"
           /\ c.kind = "react" => /\ FrameOf(c).type = "REACTED"
                                  /\ FrameOf(c).by = c.by /\ (FrameOf(c).on <=> c.on)
<1>1. /\ c.kind \in {"edit", "delete", "expire", "react"} /\ c.text \in Int
      /\ c.by \in {"me", "other"} /\ c.on \in BOOLEAN
  BY DEF Served
<1>2. \E t \in Int, x \in BOOLEAN, e \in BOOLEAN, u \in SUBSET {"me", "other"} :
         d = [text |-> t, deleted |-> x, expired |-> e, reactions |-> u]
  BY DEF Records
<1>3. PICK t \in Int, x \in BOOLEAN, e \in BOOLEAN, u \in SUBSET {"me", "other"} :
         d = [text |-> t, deleted |-> x, expired |-> e, reactions |-> u]
  BY <1>2
<1>8. d.text = t /\ d.reactions = u /\ (d.deleted <=> x) /\ (d.expired <=> e)
  BY <1>3, RecordForm
<1>4. CASE c.kind = "edit"
  BY <1>1, <1>3, <1>4 DEF Revised, FrameOf, Frame, Records, AllFrames
<1>5. CASE c.kind = "delete"
  <2>1. PICK y \in BOOLEAN : y
    OBVIOUS
  <2>4. Revised(d, c) = [text |-> NoText, deleted |-> y, expired |-> e, reactions |-> u]
    BY <1>1, <1>3, <1>5, <2>1 DEF Revised
  <2>5. NoText \in Int
    BY DEF NoText
  <2>2. /\ Revised(d, c) \in Records /\ Revised(d, c).text = NoText /\ Revised(d, c).reactions = u
        /\ (Revised(d, c).deleted <=> y) /\ (Revised(d, c).expired <=> e)
    BY <1>3, <2>4, <2>5, RecordForm
  <2>3. FrameOf(c) \in AllFrames /\ FrameOf(c).type = "DELETED"
    BY <1>5 DEF FrameOf, Frame, AllFrames, NoText
  <2> QED
    BY <1>5, <1>8, <2>1, <2>2, <2>3
<1>6. CASE c.kind = "expire"
  <2>1. PICK y \in BOOLEAN : y
    OBVIOUS
  <2>4. Revised(d, c) = [text |-> NoText, deleted |-> x, expired |-> y, reactions |-> u]
    BY <1>1, <1>3, <1>6, <2>1 DEF Revised
  <2>5. NoText \in Int
    BY DEF NoText
  <2>2. /\ Revised(d, c) \in Records /\ Revised(d, c).text = NoText /\ Revised(d, c).reactions = u
        /\ (Revised(d, c).expired <=> y) /\ (Revised(d, c).deleted <=> x)
    BY <1>3, <2>4, <2>5, RecordForm
  <2>3. FrameOf(c) \in AllFrames /\ FrameOf(c).type = "EXPIRED"
    BY <1>6 DEF FrameOf, Frame, AllFrames, NoText
  <2> QED
    BY <1>6, <1>8, <2>1, <2>2, <2>3
<1>7. CASE c.kind = "react"
  <2>1. PICK v \in SUBSET {"me", "other"} : v = IF c.on THEN u \cup {c.by} ELSE u \ {c.by}
    BY <1>1
  <2>2. d.reactions = u
    BY <1>3
  <2>3. Revised(d, c) = [d EXCEPT !.reactions = v]
    BY <1>7, <2>1, <2>2 DEF Revised
  <2>4. Revised(d, c) = [text |-> t, deleted |-> x, expired |-> e, reactions |-> v]
    BY <1>3, <2>3
  <2>5. FrameOf(c) = [type |-> "REACTED", text |-> NoText, by |-> c.by, on |-> c.on]
    BY <1>7 DEF FrameOf
  <2>6. FrameOf(c) \in AllFrames /\ FrameOf(c).type = "REACTED" /\ FrameOf(c).by = c.by
    BY <1>1, <2>5 DEF AllFrames, NoText
  <2>7. FrameOf(c).on <=> c.on
    BY <2>5
  <2>8. /\ Revised(d, c) \in Records /\ Revised(d, c).text = t /\ Revised(d, c).reactions = v
        /\ (Revised(d, c).deleted <=> x) /\ (Revised(d, c).expired <=> e)
    BY <1>3, <2>4, RecordForm
  <2> QED
    BY <1>7, <1>8, <2>1, <2>2, <2>6, <2>7, <2>8
<1> QED
  BY <1>1, <1>4, <1>5, <1>6, <1>7

-----------------------------------------------------------------------------
(***************************************************************************)
(* Types                                                                   *)
(***************************************************************************)

\* A message that was sent, and the frames of the server.
LEMMA FramesTyped ==
    /\ \A t \in Int : Sent(t) \in Records
    /\ Sent(Original) \in Records /\ Absent \in Records
    /\ NoPage \in Records /\ PageAsked \in Records
    /\ Frame("MSG", Original) \in AllFrames
    /\ NoChange \notin Served
<1>1. ASSUME NEW t \in Int PROVE Sent(t) \in Records
  BY DEF Sent, Records
<1>2. Absent = Sent(0) /\ NoPage = Sent(-3) /\ PageAsked = Sent(-4)
  BY DEF Absent, NoPage, PageAsked
<1>3. Frame("MSG", Original) \in AllFrames
  BY DEF Frame, AllFrames, Original
<1>4. NoChange.pc \notin {"asked", "updated"}
  BY DEF NoChange
<1>5. NoChange \notin Served
  BY <1>4 DEF Served
<1>6. Original \in Int /\ 0 \in Int /\ -3 \in Int /\ -4 \in Int
  BY DEF Original
<1> QED
  BY <1>1, <1>2, <1>3, <1>5, <1>6

\* What is replayed of a message that exists is one frame.
LEMMA ReplayedFrame ==
    ASSUME NEW d \in Records
    PROVE  /\ d = Absent => FramesOf(d) = << >>
           /\ d # Absent => \E f \in AllFrames :
                /\ FramesOf(d) = <<f>>
                /\ ~d.deleted /\ ~d.expired => f.type = "MSG" /\ f.text = d.text
                /\ d.deleted \/ d.expired => f.type \in {"DELETED", "EXPIRED"}
<1>1. d.text \in Int /\ d.deleted \in BOOLEAN /\ d.expired \in BOOLEAN
  BY DEF Records
<1>2. ASSUME NEW type \in {"MSG", "DELETED", "EXPIRED"}, NEW text \in Int
      PROVE  /\ Frame(type, text) \in AllFrames
             /\ Frame(type, text).type = type /\ Frame(type, text).text = text
  BY DEF Frame, AllFrames
<1>3. NoText \in Int
  BY DEF NoText
<1>4. CASE d = Absent
  BY <1>4 DEF FramesOf
<1>5. CASE d # Absent /\ d.deleted
  <2>1. FramesOf(d) = <<Frame("DELETED", NoText)>>
    BY <1>5 DEF FramesOf
  <2> QED
    BY <1>2, <1>3, <1>5, <2>1
<1>6. CASE d # Absent /\ ~d.deleted /\ d.expired
  <2>1. FramesOf(d) = <<Frame("EXPIRED", NoText)>>
    BY <1>6 DEF FramesOf
  <2> QED
    BY <1>2, <1>3, <1>6, <2>1
<1>7. CASE d # Absent /\ ~d.deleted /\ ~d.expired
  <2>1. FramesOf(d) = <<Frame("MSG", d.text)>>
    BY <1>7 DEF FramesOf
  <2> QED
    BY <1>1, <1>2, <1>7, <2>1
<1> QED
  BY <1>1, <1>4, <1>5, <1>6, <1>7

\* One frame more at the end of a queue.
LEMMA OneMore ==
    ASSUME NEW q \in Seq(AllFrames), NEW f \in AllFrames
    PROVE  q \o <<f>> = Append(q, f) /\ Append(q, f) \in Seq(AllFrames) /\ q \o << >> = q
  OBVIOUS

\* The first frame of a queue is a frame, and so are the others.
LEMMA OneLess == ASSUME NEW S, NEW q \in Seq(S), q # << >>
                 PROVE  Head(q) \in S /\ Tail(q) \in Seq(S)
  OBVIOUS

\* A request in a slot.
LEMMA SlotTyped ==
    ASSUME ReplicaTypeOK, NEW s \in Slots
    PROVE  /\ change[s] \in {NoChange} \cup Served
           /\ change[s].pc = "idle" <=> change[s] = NoChange
           /\ change[s].pc # "idle" <=> change[s] \in Served
           /\ change[s].pc \in {"idle", "asked", "updated"}
<1>1. change[s] \in {NoChange} \cup Served
  BY DEF ReplicaTypeOK
<1>2. NoChange.pc = "idle"
  BY DEF NoChange
<1>3. ASSUME NEW c \in Served PROVE c.pc \in {"asked", "updated"}
  BY DEF Served
<1> QED
  BY <1>1, <1>2, <1>3

\* Every step keeps the types.
LEMMA ReplicaTypesStep ==
    ASSUME ReplicaTypeOK, [ReplicaNext]_replicaVars
    PROVE  ReplicaTypeOK'
<1> USE ReplicaAssumption DEF handVars
<1>1. CASE Store
  BY <1>1, FramesTyped DEF ReplicaTypeOK, Store, client, history
<1>2. CASE PublishSend
  <2>1. bus' \in Seq(AllFrames)
    BY <1>2, FramesTyped, OneMore DEF ReplicaTypeOK, PublishSend, Published
  <2> QED
    BY <1>2, <2>1 DEF ReplicaTypeOK, PublishSend, client, history
<1>3. CASE QueueOffline
  BY <1>3 DEF ReplicaTypeOK, QueueOffline, client, history
<1>4. ASSUME NEW s \in Slots, NEW kind \in ChangeKinds, Request(s, kind) PROVE ReplicaTypeOK'
  <2>1. change' \in [Slots -> {NoChange} \cup Served]
    <3>1. PICK on \in BOOLEAN : change' = [change EXCEPT ![s] =
             [pc |-> "asked", kind |-> kind, text |-> changes + 2, by |-> "other", on |-> on]]
      BY <1>4 DEF Request
    <3>2. [pc |-> "asked", kind |-> kind, text |-> changes + 2, by |-> "other", on |-> on]
             \in Served
      BY DEF ReplicaTypeOK, Served
    <3> QED
      BY <3>1, <3>2 DEF ReplicaTypeOK
  <2>2. undisturbed' \in BOOLEAN /\ cleanReactions' \in BOOLEAN
    BY <1>4 DEF Request, StartClean
  <2>3. changes' \in 0..MaxChanges
    BY <1>4 DEF Request, ReplicaTypeOK
  <2> QED
    BY <1>4, <2>1, <2>2, <2>3 DEF ReplicaTypeOK, Request, client
<1>5. ASSUME NEW s \in Slots, ServeToggle(s) PROVE ReplicaTypeOK'
  <2>1. Head(toggles) \in BOOLEAN /\ toggles' \in Seq(BOOLEAN)
    BY <1>5, OneLess DEF ServeToggle, ReplicaTypeOK
  <2>2. change' \in [Slots -> {NoChange} \cup Served]
    <3>1. PICK on \in BOOLEAN : on = Head(toggles)
      BY <2>1
    <3>2. [pc |-> "asked", kind |-> "react", text |-> NoText, by |-> "me", on |-> on] \in Served
      BY DEF Served, NoText
    <3> QED
      BY <1>5, <3>1, <3>2 DEF ReplicaTypeOK, ServeToggle
  <2>3. undisturbed' \in BOOLEAN /\ cleanReactions' \in BOOLEAN
    BY <1>5 DEF ServeToggle, StartClean
  <2> QED
    BY <1>5, <2>1, <2>2, <2>3 DEF ReplicaTypeOK, ServeToggle, client
<1>6. ASSUME NEW s \in Slots, Update(s) PROVE ReplicaTypeOK'
  <2>1. change[s] \in Served
    BY <1>6, SlotTyped DEF Update
  <2>2. message' \in Records
    BY <1>6, <2>1, RevisedForm DEF Update, ReplicaTypeOK
  <2>3. [change[s] EXCEPT !.pc = "updated"] \in Served
    BY <2>1 DEF Served
  <2> QED
    BY <1>6, <2>2, <2>3 DEF ReplicaTypeOK, Update, client, history
<1>7. ASSUME NEW s \in Slots, Announce(s) PROVE ReplicaTypeOK'
  <2>1. change[s] \in Served
    BY <1>7, SlotTyped DEF Announce
  <2>2. FrameOf(change[s]) \in AllFrames
    BY <2>1, RevisedForm DEF ReplicaTypeOK
  <2>3. bus' \in Seq(AllFrames)
    BY <1>7, <2>2, OneMore DEF Announce, Published, ReplicaTypeOK
  <2> QED
    BY <1>7, <2>3 DEF ReplicaTypeOK, Announce, client, history
<1>8. CASE Deliver
  <2>1. bus' \in Seq(AllFrames) /\ wire' \in Seq(AllFrames)
    BY <1>8, OneLess, OneMore DEF Deliver, ReplicaTypeOK
  <2> QED
    BY <1>8, <2>1 DEF ReplicaTypeOK, Deliver, server, client, history
<1>9. CASE Connect
  BY <1>9 DEF ReplicaTypeOK, Connect, server, client, history
<1>10. ASSUME NEW r \in Readers, Answer(r)
       PROVE  /\ hand' \in [Readers -> Records] /\ page' \in Records
              /\ undisturbed' \in BOOLEAN /\ cleanReactions' \in BOOLEAN
  <2>1. CASE /\ ReplayClean /\ UNCHANGED page
             /\ hand' = IF message = Absent THEN hand ELSE [hand EXCEPT ![r] = message]
    BY <2>1 DEF ReplicaTypeOK, ReplayClean
  <2>2. CASE page = NoPage /\ reads < MaxReads /\ page' = PageAsked /\ UNCHANGED <<hand,
                                                                                   history>>
    BY <2>2, FramesTyped DEF ReplicaTypeOK, history
  <2> QED
    BY <1>10, <2>1, <2>2 DEF Answer
<1>11. CASE HelloReplay
  <2>1. "hello" \in Readers
    BY DEF Readers
  <2>2. Answer("hello") \/ UNCHANGED <<hand, page, history>>
    BY <1>11 DEF HelloReplay
  <2>3. /\ hand' \in [Readers -> Records] /\ page' \in Records
        /\ undisturbed' \in BOOLEAN /\ cleanReactions' \in BOOLEAN
    BY <1>10, <2>1, <2>2 DEF ReplicaTypeOK, history
  <2> QED
    BY <1>11, <2>3 DEF ReplicaTypeOK, HelloReplay, server, client
<1>12. CASE HelloDrain
  <2>1. wire' \in Seq(AllFrames)
    <3>1. wire \in Seq(AllFrames) /\ Append(wire, Frame("MSG", Original)) \in Seq(AllFrames)
      BY FramesTyped, OneMore DEF ReplicaTypeOK
    <3>2. wire' = Append(wire, Frame("MSG", Original)) \/ wire' = wire
      BY <1>12 DEF HelloDrain
    <3> QED
      BY <3>1, <3>2
  <2> QED
    BY <1>12, <2>1 DEF ReplicaTypeOK, HelloDrain, server, client, history
<1>13. ASSUME NEW r \in Syncs, SyncReq(r) PROVE ReplicaTypeOK'
  <2>1. /\ hand' \in [Readers -> Records] /\ page' \in Records
        /\ undisturbed' \in BOOLEAN /\ cleanReactions' \in BOOLEAN
    BY <1>10, <1>13 DEF SyncReq, Readers
  <2> QED
    BY <1>13, <2>1 DEF ReplicaTypeOK, SyncReq, server, client
<1>14. ASSUME NEW reload \in BOOLEAN, Cut(reload) PROVE ReplicaTypeOK'
  <2>1. bus' \in Seq(AllFrames) /\ wire' \in Seq(AllFrames) /\ toggles' \in Seq(BOOLEAN)
    BY <1>14 DEF Cut
  <2>2. undisturbed' \in BOOLEAN /\ cleanReactions' \in BOOLEAN
    BY <1>14 DEF Cut, BreakClean
  <2>3. page' \in Records /\ reached' \in BOOLEAN /\ hand' \in [Readers -> Records]
    BY <1>14, FramesTyped DEF Cut, ReplicaTypeOK
  <2> QED
    BY <1>14, <2>1, <2>2, <2>3 DEF ReplicaTypeOK, Cut, server
<1>15. CASE Forget
  BY <1>15 DEF ReplicaTypeOK, Forget, server, client, history
<1>16. CASE Receive
  <2>1. bubble' \in Records /\ wire' \in Seq(AllFrames)
    BY <1>16, OneLess, PatchedForm DEF Receive, ReplicaTypeOK
  <2>2. reached' \in BOOLEAN
    BY <1>16 DEF Receive
  <2> QED
    BY <1>16, <2>1, <2>2 DEF ReplicaTypeOK, Receive, server, history
<1>17. CASE MarkRead
  BY <1>17 DEF ReplicaTypeOK, MarkRead, server, history
<1>18. CASE Toggle
  <2>1. PICK on \in BOOLEAN : on = ("me" \notin bubble.reactions)
    OBVIOUS
  <2>2. [type |-> "REACTED", text |-> NoText, by |-> "me", on |-> on] \in AllFrames
    BY DEF AllFrames, NoText
  <2>3. bubble' \in Records
    BY <1>18, <2>1, <2>2, PatchedForm DEF Toggle, ReplicaTypeOK
  <2>4. toggles' \in Seq(BOOLEAN)
    <3>1. toggles \in Seq(BOOLEAN)
      BY DEF ReplicaTypeOK
    <3>2. Append(toggles, on) \in Seq(BOOLEAN)
      BY <3>1
    <3>3. toggles' = Append(toggles, on) \/ toggles' = toggles
      BY <1>18, <2>1 DEF Toggle
    <3> QED
      BY <3>1, <3>2, <3>3
  <2>5. cleanReactions' \in BOOLEAN /\ changes' \in 0..MaxChanges
    BY <1>18 DEF Toggle, ReplicaTypeOK
  <2> QED
    BY <1>18, <2>3, <2>4, <2>5 DEF ReplicaTypeOK, Toggle
<1>19. CASE PageRead
  <2>1. PICK known \in SUBSET {"me", "other"} :
           page' = IF message = Absent THEN NoPage ELSE [message EXCEPT !.reactions = known]
    BY <1>19 DEF PageRead, ReplicaTypeOK, Records
  <2>2. [message EXCEPT !.reactions = known] \in Records
    BY DEF ReplicaTypeOK, Records
  <2>3. page' \in Records
    BY <2>1, <2>2, FramesTyped
  <2>4. undisturbed' \in BOOLEAN /\ cleanReactions' \in BOOLEAN
    BY <1>19 DEF PageRead, PageClean
  <2> QED
    BY <1>19, <2>3, <2>4 DEF ReplicaTypeOK, PageRead, server, client
<1>20. CASE PageInserted
  BY <1>20, FramesTyped DEF ReplicaTypeOK, PageInserted, server, history
<1>21. CASE PageFails
  BY <1>21, FramesTyped DEF ReplicaTypeOK, PageFails, server, client
<1>23. ASSUME NEW r \in Readers, ReplaySends(r) PROVE ReplicaTypeOK'
  <2>1. wire \in Seq(AllFrames) /\ hand[r] \in Records
    BY DEF ReplicaTypeOK
  <2>2. FramesOf(hand[r]) = << >> \/ \E f \in AllFrames : FramesOf(hand[r]) = <<f>>
    BY <2>1, ReplayedFrame
  <2>3. wire' \in Seq(AllFrames)
    <3>1. wire' = wire \o FramesOf(hand[r])
      BY <1>23 DEF ReplaySends
    <3>2. ASSUME FramesOf(hand[r]) = << >> PROVE wire' = wire
      <4>1. wire \o << >> = wire
        BY ONLY <2>1
      <4> QED
        BY <3>1, <3>2, <4>1
    <3>3. ASSUME NEW f \in AllFrames, FramesOf(hand[r]) = <<f>> PROVE wire' \in Seq(AllFrames)
      <4>1. wire \o <<f>> \in Seq(AllFrames)
        BY ONLY <2>1, f \in AllFrames
      <4> QED
        BY <3>1, <3>3, <4>1
    <3> QED
      BY <2>1, <2>2, <3>2, <3>3
  <2>4. hand' \in [Readers -> Records]
    BY <1>23, FramesTyped DEF ReplaySends, ReplicaTypeOK
  <2> QED
    BY <1>23, <2>3, <2>4 DEF ReplicaTypeOK, ReplaySends, server, client, history
<1>22. CASE UNCHANGED replicaVars
  BY <1>22 DEF ReplicaTypeOK, replicaVars, server, client, history
<1> QED
  BY <1>1, <1>2, <1>3, <1>4, <1>5, <1>6, <1>7, <1>8, <1>9, <1>11, <1>12, <1>13, <1>14, <1>15, <1>16,
     <1>17, <1>18, <1>19, <1>20, <1>21, <1>22, <1>23 DEF ReplicaNext

-----------------------------------------------------------------------------
(***************************************************************************)
(* Every step keeps what is on the way to the copy right                   *)
(***************************************************************************)

\* The fields of a message that was just sent, and of the values that are no message.
LEMMA SentForm ==
    /\ \A t : Sent(t).text = t /\ ~Sent(t).deleted /\ ~Sent(t).expired /\ Sent(t).reactions = {}
    /\ Absent.text = 0 /\ NoPage.text = -3 /\ PageAsked.text = -4
    /\ Absent.reactions = {} /\ ~Gone(Absent) /\ ~Gone(NoPage) /\ ~Gone(PageAsked)
<1>1. \A t : Sent(t).text = t /\ ~Sent(t).deleted /\ ~Sent(t).expired /\ Sent(t).reactions = {}
  BY DEF Sent
<1> QED
  BY <1>1 DEF Absent, NoPage, PageAsked, Gone

\* The frame of the SEND.
LEMMA SendFrame ==
    /\ Frame("MSG", Original) \in AllFrames
    /\ Frame("MSG", Original) \in TextFrames /\ Frame("MSG", Original) \in WithText(Original)
    /\ Frame("MSG", Original) \in EndFrames /\ Frame("MSG", Original) \notin Tombstones
    /\ \A b : /\ Frame("MSG", Original) \in ReactionFrames(b)
              /\ Frame("MSG", Original) \in Reacting(b, {})
<1>1. /\ Frame("MSG", Original) \in AllFrames /\ Frame("MSG", Original).type = "MSG"
      /\ Frame("MSG", Original).text = Original
  BY FramesTyped DEF Frame
<1> QED
  BY <1>1 DEF TextFrames, WithText, EndFrames, Tombstones, ReactionFrames, Reacting

\* A step that touches neither the document, the copy nor what is between them.
LEMMA QuietKeeps ==
    ASSUME CopyInv, conn' = "off" => conn = "off",
           UNCHANGED <<message, send, change, bus, wire, bubble, toggles, hand, page,
                       mailbox, history>>
    PROVE  CopyInv'
<1> USE DEF history
<1>1. TextSettles'
  BY DEF CopyInv, TextSettles, Updated, Captured, Taken
<1>2. EndSettles'
  BY DEF CopyInv, EndSettles, Updated, Captured, Taken
<1>3. ReactionsSettle'
  BY DEF CopyInv, ReactionsSettle, ReactionSettles, Pending, Serves, Captured, Taken
<1>4. NotYetGone'
  BY DEF CopyInv, NotYetGone, Updated
<1>5. NothingBefore'
  BY DEF CopyInv, NothingBefore, Captured
<1>6. PageIsRight' /\ HandIsRight'
  BY DEF CopyInv, PageIsRight, HandIsRight, Captured, Changing
<1>7. StillOriginal'
  BY DEF CopyInv, StillOriginal, Changing
<1>8. InTurn'
  BY DEF CopyInv, InTurn, Serves, Changing
<1>9. AnnouncesStored'
  BY DEF CopyInv, AnnouncesStored
<1> QED
  BY <1>1, <1>2, <1>3, <1>4, <1>5, <1>6, <1>7, <1>8, <1>9 DEF CopyInv

\* The message is stored.
LEMMA StoreKeeps ==
    ASSUME ReplicaTypeOK, CopyInv, Store
    PROVE  CopyInv'
<1>1. /\ message = Absent /\ bubble = Absent /\ bus = << >> /\ wire = << >> /\ toggles = << >>
      /\ ~Captured /\ ~mailbox /\ \A s \in Slots : change[s].pc = "idle"
      /\ \A r \in Readers : hand[r] # Absent /\ hand[r] = NoPage
      /\ \A s \in Slots : change[s].kind = "edit" => change[s].text > 1
  BY DEF CopyInv, NothingBefore, Store
<1>2. /\ UNCHANGED <<change, bus, wire, bubble, toggles, hand, page, mailbox, conn>>
      /\ undisturbed' = undisturbed /\ cleanReactions' = cleanReactions
      /\ message' = Sent(Original) /\ send' = "stored"
  BY DEF handVars, Store, client, history
<1>3. /\ message'.text = Original /\ message'.reactions = {} /\ ~Gone(message') /\ message' # Absent
      /\ ~message'.deleted /\ ~message'.expired
  BY <1>2, SentForm DEF Gone, Original
<1>4. \A rel : Hushed(bus, wire, rel) /\ Silent(bus, rel) /\ Silent(wire, rel)
  BY <1>1, EmptySilent DEF Hushed
<1>5. TextSettles' /\ EndSettles'
  BY <1>1, <1>2, <1>3, <1>4 DEF TextSettles, EndSettles, Taken
<1>6. ReactionsSettle'
  BY <1>1, <1>2, <1>3, <1>4 DEF ReactionsSettle, ReactionSettles, Taken
<1>7. NotYetGone'
  BY <1>1, <1>2, <1>3, <1>4, SentForm DEF CopyInv, NotYetGone, Updated, Gone
<1>8. NothingBefore'
  BY <1>1, <1>2, <1>3 DEF NothingBefore, Original, NoText
<1>9. PageIsRight' /\ HandIsRight' /\ StillOriginal'
  BY <1>1, <1>2, <1>3 DEF PageIsRight, HandIsRight, StillOriginal, Captured, Changing
<1>10. InTurn'
  BY <1>1, <1>2 DEF CopyInv, InTurn, Serves, Changing
<1>11. AnnouncesStored'
  BY <1>1, <1>2 DEF AnnouncesStored
<1> QED
  BY <1>5, <1>6, <1>7, <1>8, <1>9, <1>10, <1>11 DEF CopyInv

\* The frame of the SEND is published.
LEMMA PublishSendKeeps ==
    ASSUME ReplicaTypeOK, CopyInv, PublishSend
    PROVE  CopyInv'
<1> DEFINE f == Frame("MSG", Original)
<1>1. /\ UNCHANGED <<message, change, wire, bubble, toggles, hand, page, mailbox, conn>>
      /\ undisturbed' = undisturbed /\ cleanReactions' = cleanReactions
      /\ send = "stored" /\ send' = "published" /\ message # Absent
      /\ bus' = bus \/ bus' = Append(bus, f)
      /\ bus \in Seq(AllFrames) /\ wire \in Seq(AllFrames)
  BY DEF handVars, PublishSend, Published, client, history, CopyInv, NothingBefore, ReplicaTypeOK
<1>2. /\ undisturbed => ~Gone(message) /\ message.text = Original /\ ~Changing(Contents)
      /\ cleanReactions => message.reactions = {} /\ ~Changing({"react"}) /\ toggles = << >>
  BY <1>1 DEF CopyInv, StillOriginal
<1>3. TextSettles'
  <2>1. CASE bus' = bus
    BY <1>1, <2>1 DEF CopyInv, TextSettles, Updated, Captured, Taken
  <2>2. CASE bus' = Append(bus, f)
    <3>1. undisturbed => Settles(bus', wire, TextFrames, WithText(message.text))
      BY <1>1, <1>2, <2>2, SendFrame, ToldByBus
    <3> QED
      BY <1>1, <3>1 DEF TextSettles, Taken
  <2> QED
    BY <1>1, <2>1, <2>2
<1>4. EndSettles'
  BY <1>1, <1>2 DEF EndSettles, Gone, Taken
<1>5. ReactionsSettle'
  <2>1. CASE bus' = bus
    BY <1>1, <2>1 DEF CopyInv, ReactionsSettle, ReactionSettles, Pending, Serves, Captured, Taken
  <2>2. CASE bus' = Append(bus, f)
    <3>1. ASSUME cleanReactions, NEW b \in {"me", "other"}
          PROVE  Settles(bus', wire, ReactionFrames(b), Reacting(b, message.reactions))
      BY <1>1, <1>2, <2>2, <3>1, SendFrame, ToldByBus
    <3> QED
      BY <1>1, <3>1 DEF ReactionsSettle, ReactionSettles, Taken
  <2> QED
    BY <1>1, <2>1, <2>2
<1>6. NotYetGone'
  <2>1. Silent(bus, Tombstones) => Silent(bus', Tombstones)
    BY <1>1, SendFrame, EndsAppended
  <2> QED
    BY <1>1, <2>1 DEF CopyInv, NotYetGone, Updated, Gone
<1>7. NothingBefore'
  BY <1>1 DEF CopyInv, NothingBefore
<1>8. PageIsRight' /\ HandIsRight' /\ StillOriginal'
  BY <1>1, <1>2 DEF CopyInv, PageIsRight, HandIsRight, StillOriginal, Captured, Changing, Gone
<1>9. InTurn' /\ AnnouncesStored'
  BY <1>1 DEF CopyInv, InTurn, AnnouncesStored, Serves, Changing
<1> QED
  BY <1>3, <1>4, <1>5, <1>6, <1>7, <1>8, <1>9 DEF CopyInv

\* Its recipients who are away get it in the inbox.
LEMMA QueueOfflineKeeps ==
    ASSUME ReplicaTypeOK, CopyInv, QueueOffline
    PROVE  CopyInv'
<1>1. /\ UNCHANGED <<message, change, bus, wire, bubble, toggles, hand, page, conn>>
      /\ undisturbed' = undisturbed /\ cleanReactions' = cleanReactions
      /\ send = "published" /\ send' = "done" /\ message # Absent
  BY DEF handVars, QueueOffline, client, history, CopyInv, NothingBefore
<1>2. TextSettles' /\ EndSettles'
  BY <1>1 DEF CopyInv, TextSettles, EndSettles, Updated, Captured, Taken
<1>3. ReactionsSettle'
  BY <1>1 DEF CopyInv, ReactionsSettle, ReactionSettles, Pending, Serves, Captured, Taken
<1>4. NotYetGone' /\ NothingBefore'
  BY <1>1 DEF CopyInv, NotYetGone, NothingBefore, Updated, Gone
<1>5. PageIsRight' /\ HandIsRight' /\ StillOriginal'
  BY <1>1 DEF CopyInv, PageIsRight, HandIsRight, StillOriginal, Captured, Changing, Gone
<1>6. InTurn' /\ AnnouncesStored'
  BY <1>1 DEF CopyInv, InTurn, AnnouncesStored, Serves, Changing
<1> QED
  BY <1>2, <1>3, <1>4, <1>5, <1>6 DEF CopyInv

\* A change is asked for, by another user or by the client itself.
LEMMA RequestKeeps ==
    ASSUME ReplicaTypeOK, CopyInv, NEW s \in Slots,
           NEW kind \in {"edit", "delete", "expire", "react"},
           Request(s, kind) \/ (kind = "react" /\ ServeToggle(s))
    PROVE  CopyInv'
<1>1. /\ UNCHANGED <<message, send, bus, wire, bubble, hand, page, mailbox, conn>>
      /\ change[s].pc = "idle" /\ message # Absent /\ StartClean(kind)
      /\ toggles = << >> => toggles' = << >>
  BY DEF handVars, Request, ServeToggle, Allowed, client
<1>2. /\ change'[s].pc = "asked" /\ change'[s].kind = kind /\ (kind = "edit" => change'[s].text > 1)
      /\ Request(s, kind) => toggles' = toggles
      /\ ~Request(s, kind) => change'[s].by = "me"
      /\ \A t \in Slots : t # s => change'[t] = change[t]
  <2>1. CASE Request(s, kind)
    <3>1. changes + 2 > 1
      BY ReplicaAssumption DEF ReplicaTypeOK
    <3>2. PICK on \in BOOLEAN : change' = [change EXCEPT ![s] =
             [pc |-> "asked", kind |-> kind, text |-> changes + 2, by |-> "other", on |-> on]]
      BY <2>1 DEF Request
    <3>3. toggles' = toggles
      BY <2>1 DEF Request
    <3>4. /\ change'[s] =
                [pc |-> "asked", kind |-> kind, text |-> changes + 2, by |-> "other", on |-> on]
          /\ \A t \in Slots : t # s => change'[t] = change[t]
      BY <3>2 DEF ReplicaTypeOK
    <3> QED
      BY <2>1, <3>1, <3>3, <3>4
  <2>2. CASE ~Request(s, kind)
    <3>1. PICK on : on = Head(toggles)
      OBVIOUS
    <3>2. change' = [change EXCEPT ![s] =
             [pc |-> "asked", kind |-> "react", text |-> NoText, by |-> "me", on |-> on]]
      BY <2>2, <3>1 DEF ServeToggle
    <3> QED
      BY <2>2, <3>2 DEF ReplicaTypeOK
  <2> QED
    BY <2>1, <2>2
<1>3. /\ undisturbed' => /\ undisturbed
                         /\ kind \in Contents =>
                               /\ conn # "off" /\ ~Changing(Contents)
                               /\ ~mailbox /\ ~Captured /\ ~Taken /\ send \in {"new", "done"}
      /\ cleanReactions' => /\ cleanReactions
                            /\ kind = "react" =>
                                  /\ conn # "off" /\ ~Changing({"react"})
                                  /\ ~mailbox /\ ~Captured /\ ~Taken /\ send \in {"new", "done"}
  BY <1>1 DEF StartClean, NoneCaptured, NothingTaken, Taken, Captured
<1>4. ASSUME NEW kinds, Updated(kinds)' PROVE Updated(kinds)
  BY <1>1, <1>2, <1>4 DEF Updated
<1>5. ASSUME NEW kinds, Updated(kinds) PROVE Updated(kinds)'
  BY <1>1, <1>2, <1>5 DEF Updated
<1>6. ASSUME NEW kinds, Changing(kinds)' PROVE Changing(kinds) \/ kind \in kinds
  BY <1>2, <1>6 DEF Changing
<1>7. ASSUME NEW b \in {"me", "other"}, Pending(b) PROVE Pending(b)'
  <2>1. CASE \E t \in Slots : Serves(t, {"react"}) /\ change[t].by = b
    <3>1. PICK t \in Slots : Serves(t, {"react"}) /\ change[t].by = b
      BY <2>1
    <3>2. change'[t] = change[t]
      BY <1>1, <1>2, <3>1 DEF Serves
    <3> QED
      BY <3>1, <3>2 DEF Pending, Serves
  <2>2. CASE b = "me" /\ toggles # << >> /\ Request(s, kind)
    BY <1>2, <2>2 DEF Pending
  <2>3. CASE b = "me" /\ ~Request(s, kind)
    <3>1. kind = "react"
      BY <2>3
    <3> QED
      BY <1>2, <2>3, <3>1 DEF Pending, Serves
  <2> QED
    BY <1>7, <2>1, <2>2, <2>3 DEF Pending
<1>8. TextSettles' /\ EndSettles'
  BY <1>1, <1>3, <1>5 DEF CopyInv, TextSettles, EndSettles, Captured, Taken
<1>9. ReactionsSettle'
  BY <1>1, <1>3, <1>7 DEF CopyInv, ReactionsSettle, ReactionSettles, Captured, Taken
<1>10. NotYetGone'
  BY <1>1, <1>4 DEF CopyInv, NotYetGone, Gone
<1>11. NothingBefore'
  BY <1>1, <1>2 DEF CopyInv, NothingBefore
<1>12. PageIsRight'
  <2> SUFFICES ASSUME Captured PROVE PageIsRight'
    BY <1>1 DEF PageIsRight, HandIsRight, Captured
  <2>1. ASSUME undisturbed' PROVE Alike(page, message) /\ ~Changing(Contents)'
    BY <1>3, <1>6, <2>1 DEF CopyInv, PageIsRight
  <2>2. ASSUME cleanReactions' PROVE /\ page.reactions = {} /\ message.reactions = {}
                                     /\ ~Changing({"react"})' /\ toggles' = << >>
    BY <1>1, <1>3, <1>6, <2>2 DEF CopyInv, PageIsRight
  <2> QED
    BY <1>1, <2>1, <2>2 DEF PageIsRight, HandIsRight, Alike, Gone
<1>16. HandIsRight'
  <2> SUFFICES ASSUME NEW r \in Readers, hand[r] # NoPage
               PROVE  /\ undisturbed' => Alike(hand[r], message) /\ ~Changing(Contents)'
                      /\ cleanReactions' =>
                            message.reactions = {} /\ ~Changing({"react"})' /\ toggles' = << >>
    BY <1>1 DEF HandIsRight, Alike, Gone
  <2>1. Taken
    BY DEF Taken
  <2>2. ASSUME undisturbed' PROVE Alike(hand[r], message) /\ ~Changing(Contents)'
    BY <1>3, <1>6, <2>1, <2>2 DEF CopyInv, HandIsRight
  <2>3. ASSUME cleanReactions'
        PROVE  message.reactions = {} /\ ~Changing({"react"})' /\ toggles' = << >>
    BY <1>1, <1>3, <1>6, <2>1, <2>3 DEF CopyInv, HandIsRight
  <2> QED
    BY <2>2, <2>3
<1>13. StillOriginal'
  <2> SUFFICES ASSUME mailbox \/ send \in {"stored", "published"} PROVE StillOriginal'
    BY <1>1 DEF StillOriginal
  <2>1. ASSUME undisturbed' PROVE ~Gone(message) /\ message.text = Original /\ ~Changing(Contents)'
    BY <1>3, <1>6, <2>1 DEF CopyInv, StillOriginal
  <2>2. ASSUME cleanReactions'
        PROVE  message.reactions = {} /\ ~Changing({"react"})' /\ toggles' = << >>
    BY <1>1, <1>3, <1>6, <2>2 DEF CopyInv, StillOriginal
  <2> QED
    BY <1>1, <2>1, <2>2 DEF StillOriginal, Gone
<1>14. InTurn'
  <2>1. ASSUME NEW t \in Slots, NEW kinds, Serves(t, kinds)', t # s
        PROVE  Serves(t, kinds) /\ Changing(kinds)
    BY <1>2, <2>1 DEF Serves, Changing
  <2>2. ASSUME NEW kinds, Serves(s, kinds)' PROVE kind \in kinds
    BY <1>2, <2>2 DEF Serves
  <2>3. ASSUME undisturbed', NEW t \in Slots, NEW u \in Slots,
               Serves(t, Contents)', Serves(u, Contents)'
        PROVE  t = u
    BY <1>3, <2>1, <2>2, <2>3 DEF CopyInv, InTurn
  <2>4. ASSUME cleanReactions', NEW t \in Slots, NEW u \in Slots,
               Serves(t, {"react"})', Serves(u, {"react"})'
        PROVE  t = u
    BY <1>3, <2>1, <2>2, <2>4 DEF CopyInv, InTurn
  <2>5. ASSUME conn = "off", undisturbed' PROVE ~Changing(Contents)'
    BY <1>3, <1>6, <2>5 DEF CopyInv, InTurn
  <2>6. ASSUME conn = "off", cleanReactions' PROVE ~Changing({"react"})' /\ toggles' = << >>
    BY <1>1, <1>3, <1>6, <2>6 DEF CopyInv, InTurn
  <2> QED
    BY <1>1, <2>3, <2>4, <2>5, <2>6 DEF InTurn
<1>15. AnnouncesStored'
  BY <1>1, <1>2, <1>3 DEF CopyInv, AnnouncesStored, Gone
<1> QED
  BY <1>8, <1>9, <1>10, <1>11, <1>12, <1>13, <1>14, <1>15, <1>16 DEF CopyInv

\* The document is updated: nothing of it is announced yet, and nothing older is read.
LEMMA UpdateKeeps ==
    ASSUME ReplicaTypeOK, CopyInv, NEW s \in Slots, Update(s)
    PROVE  CopyInv'
<1> DEFINE c == change[s]
<1>1. /\ UNCHANGED <<send, bus, wire, bubble, toggles, hand, page, mailbox, conn>>
      /\ undisturbed' = undisturbed /\ cleanReactions' = cleanReactions
      /\ c.pc = "asked" /\ message' = Revised(message, c)
  BY DEF handVars, Update, client, history
<1>2. c \in Served /\ c.kind \in {"edit", "delete", "expire", "react"}
  BY <1>1, SlotTyped DEF Served
<1>3. /\ change'[s].pc = "updated" /\ change'[s].kind = c.kind
      /\ change'[s].by = c.by /\ change'[s].on = c.on /\ change'[s].text = c.text
      /\ \A t \in Slots : t # s => change'[t] = change[t]
  <2>1. change' = [change EXCEPT ![s] = [c EXCEPT !.pc = "updated"]]
    BY DEF Update
  <2>2. change'[s] = [c EXCEPT !.pc = "updated"] /\ \A t \in Slots : t # s => change'[t] = change[t]
    BY <2>1 DEF ReplicaTypeOK
  <2> QED
    BY <1>2, <2>2 DEF Served
<1>4. /\ message'.text = IF c.kind = "edit" THEN c.text
                         ELSE IF c.kind = "react" THEN message.text ELSE NoText
      /\ message'.deleted <=> (c.kind = "delete" \/ message.deleted)
      /\ message'.expired <=> (c.kind = "expire" \/ message.expired)
      /\ message'.reactions = IF c.kind # "react" THEN message.reactions
                              ELSE IF c.on THEN message.reactions \cup {c.by}
                              ELSE message.reactions \ {c.by}
  BY <1>1, <1>2, RevisedForm DEF ReplicaTypeOK
<1>5. Gone(message') <=> (Gone(message) \/ c.kind \in {"delete", "expire"})
  BY <1>4 DEF Gone
<1>6. /\ message # Absent /\ message.text # 0 /\ message.text >= NoText
      /\ c.kind = "edit" => c.text > 1
  BY <1>1 DEF CopyInv, NothingBefore
<1>7. message' # Absent /\ message'.text # 0 /\ message'.text >= NoText
  <2>1. message'.text # 0 /\ message'.text >= NoText
    BY <1>2, <1>4, <1>6 DEF NoText, Served
  <2> QED
    BY <2>1, SentForm
<1>8. /\ c.kind \in Contents => Changing(Contents)
      /\ c.kind = "react" => Changing({"react"})
      /\ c.kind \in Contents \/ c.kind = "react"
  BY <1>1, <1>2 DEF Changing, Contents
<1>9. ASSUME NEW kinds PROVE /\ Updated(kinds) => Updated(kinds)'
                             /\ c.kind \in kinds => Updated(kinds)'
                             /\ c.kind \notin kinds /\ Updated(kinds)' => Updated(kinds)
                             /\ Changing(kinds)' => Changing(kinds)
  BY <1>1, <1>3 DEF Updated, Changing
<1>10. ASSUME NEW t \in Slots, NEW kinds PROVE Serves(t, kinds)' <=> Serves(t, kinds)
  BY <1>1, <1>3 DEF Serves
<1>11. ASSUME NEW b PROVE /\ Pending(b)' <=> Pending(b)
                          /\ c.kind = "react" /\ c.by = b => Pending(b)
  <2>1. \A t \in Slots : change'[t].by = change[t].by
    BY <1>3
  <2> QED
    BY <1>1, <1>10, <2>1 DEF Pending, Serves
<1>12. ASSUME NEW b, ~(c.kind = "react" /\ c.by = b)
       PROVE  b \in message'.reactions <=> b \in message.reactions
  BY <1>4, <1>12
<1>13. TextSettles'
  <2> SUFFICES ASSUME undisturbed, ~Gone(message'), ~Updated({"edit"})' PROVE TextSettles'
    BY <1>1 DEF TextSettles, Taken
  <2>1. ~Gone(message) /\ c.kind = "react" /\ ~Updated({"edit"})
    BY <1>2, <1>5, <1>9
  <2>2. message'.text = message.text
    BY <1>4, <2>1
  <2> QED
    BY <1>1, <1>6, <2>1, <2>2 DEF CopyInv, TextSettles, Captured, Taken
<1>14. EndSettles'
  <2> SUFFICES ASSUME undisturbed, Gone(message'), ~Updated({"delete", "expire"})' PROVE EndSettles'
    BY <1>1 DEF EndSettles, Taken
  <2>1. Gone(message) /\ ~Updated({"delete", "expire"})
    BY <1>5, <1>9
  <2> QED
    BY <1>1, <2>1 DEF CopyInv, EndSettles, Captured, Taken
<1>15. ReactionsSettle'
  <2> SUFFICES ASSUME cleanReactions, ~Gone(message'), NEW b \in {"me", "other"}
               PROVE  ReactionSettles(b)'
    BY <1>1 DEF ReactionsSettle
  <2>1. ReactionSettles(b)
    BY <1>5, <1>6 DEF CopyInv, ReactionsSettle
  <2>2. CASE Pending(b)
    BY <1>11, <2>2 DEF ReactionSettles, Taken
  <2>3. CASE ~Pending(b)
    <3>1. b \in message'.reactions <=> b \in message.reactions
      BY <1>11, <1>12, <2>3
    <3>2. Reacting(b, message'.reactions) = Reacting(b, message.reactions)
      BY <3>1 DEF Reacting
    <3> QED
      BY <1>1, <2>1, <2>3, <3>1, <3>2 DEF ReactionSettles, Captured, Taken
  <2> QED
    BY <2>2, <2>3
<1>16. NotYetGone'
  <2> SUFFICES ASSUME ~Gone(message') PROVE NotYetGone'
    BY DEF NotYetGone
  <2>1. ~Gone(message) /\ c.kind \notin {"delete", "expire"}
    BY <1>5
  <2> QED
    BY <1>1, <1>9, <2>1 DEF CopyInv, NotYetGone, Gone
<1>17. NothingBefore'
  <2>1. \A t \in Slots : change'[t].kind = "edit" => change'[t].text > 1
    BY <1>3 DEF CopyInv, NothingBefore
  <2> QED
    BY <1>1, <1>6, <1>7, <2>1 DEF CopyInv, NothingBefore
<1>18. PageIsRight'
  <2> SUFFICES ASSUME Captured PROVE PageIsRight'
    BY <1>1 DEF PageIsRight, HandIsRight, Captured
  <2>1. ASSUME undisturbed PROVE Alike(page, message)' /\ ~Changing(Contents)'
    <3>1. Alike(page, message) /\ ~Changing(Contents)
      BY <2>1 DEF CopyInv, PageIsRight
    <3>2. c.kind = "react"
      BY <1>8, <3>1
    <3> QED
      BY <1>1, <1>4, <1>5, <1>9, <3>1, <3>2 DEF Alike, Gone
  <2>2. ASSUME cleanReactions PROVE /\ page.reactions = {} /\ message'.reactions = {}
                                    /\ ~Changing({"react"})' /\ toggles = << >>
    BY <1>4, <1>8, <1>9, <2>2 DEF CopyInv, PageIsRight
  <2> QED
    BY <1>1, <2>1, <2>2 DEF PageIsRight
<1>22. HandIsRight'
  <2> SUFFICES ASSUME NEW r \in Readers, hand[r] # NoPage
               PROVE  /\ undisturbed => Alike(hand[r], message') /\ ~Changing(Contents)'
                      /\ cleanReactions =>
                            message'.reactions = {} /\ ~Changing({"react"})' /\ toggles = << >>
    BY <1>1 DEF HandIsRight, Alike, Gone
  <2>1. ASSUME undisturbed PROVE Alike(hand[r], message') /\ ~Changing(Contents)'
    <3>1. Alike(hand[r], message) /\ ~Changing(Contents)
      BY <2>1 DEF CopyInv, HandIsRight
    <3>2. c.kind = "react"
      BY <1>8, <3>1
    <3> QED
      BY <1>4, <1>5, <1>9, <3>1, <3>2 DEF Alike, Gone
  <2>2. ASSUME cleanReactions
        PROVE  message'.reactions = {} /\ ~Changing({"react"})' /\ toggles = << >>
    BY <1>4, <1>8, <1>9, <2>2 DEF CopyInv, HandIsRight
  <2> QED
    BY <2>1, <2>2
<1>19. StillOriginal'
  <2> SUFFICES ASSUME mailbox \/ send \in {"stored", "published"} PROVE StillOriginal'
    BY <1>1 DEF StillOriginal
  <2>1. ASSUME undisturbed PROVE ~Gone(message') /\ message'.text = Original /\ ~Changing(Contents)'
    <3>1. ~Gone(message) /\ message.text = Original /\ ~Changing(Contents)
      BY <2>1 DEF CopyInv, StillOriginal
    <3>2. c.kind = "react"
      BY <1>8, <3>1
    <3> QED
      BY <1>4, <1>5, <1>9, <3>1, <3>2
  <2>2. ASSUME cleanReactions
        PROVE  message'.reactions = {} /\ ~Changing({"react"})' /\ toggles = << >>
    BY <1>4, <1>8, <1>9, <2>2 DEF CopyInv, StillOriginal
  <2> QED
    BY <1>1, <2>1, <2>2 DEF StillOriginal, Gone
<1>20. InTurn'
  BY <1>1, <1>9, <1>10 DEF CopyInv, InTurn
<1>21. AnnouncesStored'
  <2> SUFFICES ASSUME NEW t \in Slots, change'[t].pc = "updated"
               PROVE  /\ change'[t].kind = "edit" /\ undisturbed /\ ~Gone(message')
                           => message'.text = change'[t].text
                      /\ change'[t].kind = "delete" => message'.deleted
                      /\ change'[t].kind = "expire" => message'.expired
                      /\ change'[t].kind = "react" /\ cleanReactions =>
                            (change'[t].by \in message'.reactions <=> change'[t].on)
    BY <1>1 DEF AnnouncesStored
  <2>1. CASE t = s
    BY <1>2, <1>3, <1>4, <2>1 DEF Served
  <2>2. CASE t # s
    <3>1. change'[t] = change[t] /\ change[t].pc = "updated"
      BY <1>3, <2>2
    <3>2. ASSUME change[t].kind = "edit", undisturbed, ~Gone(message')
          PROVE  message'.text = change[t].text
      <4>1. Serves(t, Contents)
        BY <3>1, <3>2 DEF Serves, Contents
      <4>2. ~Serves(s, Contents)
        BY <2>2, <3>2, <4>1 DEF CopyInv, InTurn
      <4>3. c.kind = "react"
        BY <1>1, <1>2, <4>2 DEF Serves, Contents
      <4> QED
        BY <1>4, <1>5, <3>1, <3>2, <4>3 DEF CopyInv, AnnouncesStored
    <3>3. ASSUME change[t].kind = "react", cleanReactions
          PROVE  change[t].by \in message'.reactions <=> change[t].on
      <4>1. Serves(t, {"react"})
        BY <3>1, <3>3 DEF Serves
      <4>2. ~Serves(s, {"react"})
        BY <2>2, <3>3, <4>1 DEF CopyInv, InTurn
      <4>3. c.kind # "react"
        BY <1>1, <4>2 DEF Serves
      <4>4. message'.reactions = message.reactions
        BY <1>4, <4>3
      <4>5. change[t].by \in message.reactions <=> change[t].on
        BY <3>1, <3>3 DEF CopyInv, AnnouncesStored
      <4> QED
        BY <4>4, <4>5
    <3>4. /\ change[t].kind = "delete" => message.deleted
          /\ change[t].kind = "expire" => message.expired
      BY <3>1 DEF CopyInv, AnnouncesStored
    <3> QED
      BY <1>4, <3>1, <3>2, <3>3, <3>4
  <2> QED
    BY <2>1, <2>2
<1> QED
  BY <1>13, <1>14, <1>15, <1>16, <1>17, <1>18, <1>19, <1>20, <1>21,
     <1>22 DEF CopyInv

\* A change is announced: the frame says what the document says.
LEMMA AnnounceKeeps ==
    ASSUME ReplicaTypeOK, CopyInv, NEW s \in Slots, Announce(s)
    PROVE  CopyInv'
<1> DEFINE c == change[s]
           f == FrameOf(c)
<1>1. /\ UNCHANGED <<message, send, wire, bubble, toggles, hand, page, mailbox, conn>>
      /\ undisturbed' = undisturbed /\ cleanReactions' = cleanReactions
      /\ c.pc = "updated"
      /\ conn # "off" => bus' = Append(bus, f)
      /\ conn = "off" => bus' = bus
      /\ bus \in Seq(AllFrames) /\ wire \in Seq(AllFrames) /\ message \in Records
  BY DEF handVars, Announce, Published, client, history, ReplicaTypeOK
<1>2. c \in Served /\ c.kind \in {"edit", "delete", "expire", "react"}
  BY <1>1, SlotTyped DEF Served
<1>3. /\ change'[s].pc = "idle" /\ change'[s].kind = "none"
      /\ \A t \in Slots : t # s => change'[t] = change[t]
  BY DEF Announce, ReplicaTypeOK, NoChange
<1>4. /\ f \in AllFrames
      /\ c.kind = "edit" => f.type = "EDITED" /\ f.text = c.text
      /\ c.kind = "delete" => f.type = "DELETED"
      /\ c.kind = "expire" => f.type = "EXPIRED"
      /\ c.kind = "react" => f.type = "REACTED" /\ f.by = c.by /\ (f.on <=> c.on)
  BY <1>1, <1>2, RevisedForm
<1>5. /\ c.kind = "edit" /\ undisturbed /\ ~Gone(message) => message.text = c.text
      /\ c.kind \in {"delete", "expire"} => Gone(message)
      /\ c.kind = "react" /\ cleanReactions => (c.by \in message.reactions <=> c.on)
  BY <1>1 DEF CopyInv, AnnouncesStored, Gone
<1>6. /\ conn = "off" /\ undisturbed => c.kind = "react"
      /\ conn = "off" /\ cleanReactions => c.kind # "react"
  <2>1. /\ c.kind # "react" => Changing(Contents)
        /\ c.kind = "react" => Changing({"react"})
    BY <1>1, <1>2 DEF Changing, Contents
  <2> QED
    BY <2>1 DEF CopyInv, InTurn
<1>7. ASSUME NEW kinds PROVE /\ c.kind \notin kinds /\ Updated(kinds) => Updated(kinds)'
                             /\ Updated(kinds)' => Updated(kinds)
                             /\ Changing(kinds)' => Changing(kinds)
  BY <1>1, <1>3 DEF Updated, Changing
<1>8. ASSUME NEW t \in Slots, NEW kinds, Serves(t, kinds)' PROVE Serves(t, kinds)
  BY <1>3, <1>8 DEF Serves
<1>9. ASSUME NEW b, Pending(b), ~(c.kind = "react" /\ c.by = b) PROVE Pending(b)'
  <2>1. CASE \E t \in Slots : Serves(t, {"react"}) /\ change[t].by = b
    <3>1. PICK t \in Slots : Serves(t, {"react"}) /\ change[t].by = b
      BY <2>1
    <3>2. t # s
      BY <1>9, <3>1 DEF Serves
    <3> QED
      BY <1>3, <3>1, <3>2 DEF Pending, Serves
  <2> QED
    BY <1>1, <1>9, <2>1 DEF Pending
<1> HIDE DEF f
<1>10. TextSettles'
  <2> SUFFICES ASSUME undisturbed, message # Absent, ~Gone(message), ~Updated({"edit"})'
               PROVE  TextSettles'
    BY <1>1 DEF TextSettles, Gone, Taken
  <2>1. CASE c.kind = "edit"
    <3>1. bus' = Append(bus, f)
      BY <1>1, <1>6, <2>1
    <3>2. f \in TextFrames /\ f \in WithText(message.text)
      BY <1>4, <1>5, <2>1 DEF TextFrames, WithText
    <3>3. Settles(bus', wire, TextFrames, WithText(message.text))
      BY <1>1, <1>4, <3>1, <3>2, ToldByBus
    <3> QED
      BY <1>1, <3>3 DEF TextSettles, Taken
  <2>2. CASE c.kind # "edit"
    <3>1. ~Updated({"edit"})
      BY <1>7, <2>2
    <3>2. f \notin TextFrames
      BY <1>2, <1>4, <2>2 DEF TextFrames
    <3>3. /\ Settles(bus, wire, TextFrames, WithText(message.text))
                => Settles(bus', wire, TextFrames, WithText(message.text))
          /\ Hushed(bus, wire, TextFrames) => Hushed(bus', wire, TextFrames)
          /\ Silent(bus, TextFrames) => Silent(bus', TextFrames)
      BY <1>1, <1>4, <3>2, ToldByBus
    <3> QED
      BY <1>1, <3>1, <3>3 DEF CopyInv, TextSettles, Captured, Taken
  <2> QED
    BY <2>1, <2>2
<1>11. EndSettles'
  <2> SUFFICES ASSUME undisturbed, Gone(message), ~Updated({"delete", "expire"})' PROVE EndSettles'
    BY <1>1 DEF EndSettles, Gone, Taken
  <2>1. CASE c.kind \in {"delete", "expire"}
    <3>1. bus' = Append(bus, f)
      BY <1>1, <1>6, <2>1
    <3>2. f \in EndFrames /\ f \in Tombstones
      BY <1>4, <2>1 DEF EndFrames, Tombstones
    <3>3. Settles(bus', wire, EndFrames, Tombstones)
      BY <1>1, <1>4, <3>1, <3>2, ToldByBus
    <3> QED
      BY <1>1, <3>3 DEF EndSettles, Taken
  <2>2. CASE c.kind \notin {"delete", "expire"}
    <3>1. ~Updated({"delete", "expire"})
      BY <1>7, <2>2
    <3>2. f \notin EndFrames
      BY <1>2, <1>4, <2>2 DEF EndFrames
    <3>3. /\ Settles(bus, wire, EndFrames, Tombstones) => Settles(bus', wire, EndFrames, Tombstones)
          /\ Hushed(bus, wire, EndFrames) => Hushed(bus', wire, EndFrames)
          /\ Silent(bus, EndFrames) => Silent(bus', EndFrames)
      BY <1>1, <1>4, <3>2, ToldByBus
    <3> QED
      BY <1>1, <3>1, <3>3 DEF CopyInv, EndSettles, Captured, Taken
  <2> QED
    BY <2>1, <2>2
<1>12. ReactionsSettle'
  <2> SUFFICES ASSUME cleanReactions, message # Absent, ~Gone(message), NEW b \in {"me", "other"}
               PROVE  ReactionSettles(b)'
    BY <1>1 DEF ReactionsSettle, Gone
  <2>1. ReactionSettles(b)
    BY DEF CopyInv, ReactionsSettle
  <2>2. CASE c.kind = "react" /\ c.by = b
    <3>1. bus' = Append(bus, f)
      BY <1>1, <1>6, <2>2
    <3>2. f \in ReactionFrames(b) /\ f \in Reacting(b, message.reactions)
      BY <1>4, <1>5, <2>2 DEF ReactionFrames, Reacting
    <3>3. Settles(bus', wire, ReactionFrames(b), Reacting(b, message.reactions))
      BY <1>1, <1>4, <3>1, <3>2, ToldByBus
    <3> QED
      BY <1>1, <3>3 DEF ReactionSettles, Taken
  <2>3. CASE ~(c.kind = "react" /\ c.by = b)
    <3>1. f \notin ReactionFrames(b)
      BY <1>2, <1>4, <2>3 DEF ReactionFrames
    <3>2. /\ Settles(bus, wire, ReactionFrames(b), Reacting(b, message.reactions))
                => Settles(bus', wire, ReactionFrames(b), Reacting(b, message.reactions))
          /\ Hushed(bus, wire, ReactionFrames(b)) => Hushed(bus', wire, ReactionFrames(b))
          /\ Silent(bus, ReactionFrames(b)) => Silent(bus', ReactionFrames(b))
      BY <1>1, <1>4, <3>1, ToldByBus
    <3> QED
      BY <1>1, <1>9, <2>1, <2>3, <3>2 DEF ReactionSettles, Captured, Taken
  <2> QED
    BY <2>2, <2>3
<1>13. NotYetGone'
  <2> SUFFICES ASSUME ~Gone(message) PROVE NotYetGone'
    BY <1>1 DEF NotYetGone, Gone
  <2>1. f \notin Tombstones
    BY <1>2, <1>4, <1>5 DEF Tombstones
  <2>2. Silent(bus, Tombstones) => Silent(bus', Tombstones)
    BY <1>1, <1>4, <2>1, EndsAppended
  <2> QED
    BY <1>1, <1>7, <2>2 DEF CopyInv, NotYetGone, Gone
<1>14. NothingBefore'
  <2>1. message # Absent
    BY <1>1 DEF CopyInv, NothingBefore
  <2>2. \A t \in Slots : change'[t].kind = "edit" => change'[t].text > 1
    BY <1>3 DEF CopyInv, NothingBefore
  <2> QED
    BY <1>1, <2>1, <2>2 DEF CopyInv, NothingBefore
<1>15. PageIsRight' /\ HandIsRight' /\ StillOriginal'
  BY <1>1, <1>7 DEF CopyInv, PageIsRight, HandIsRight, StillOriginal, Captured, Alike, Gone
<1>16. InTurn'
  BY <1>1, <1>7, <1>8 DEF CopyInv, InTurn
<1>17. AnnouncesStored'
  <2>1. \A t \in Slots : change'[t].pc = "updated" => change'[t] = change[t]
    BY <1>3
  <2> QED
    BY <1>1, <2>1 DEF CopyInv, AnnouncesStored, Gone
<1> QED
  BY <1>10, <1>11, <1>12, <1>13, <1>14, <1>15, <1>16, <1>17 DEF CopyInv

\* A frame is delivered: it is on the socket now, after those that were there.
LEMMA DeliverKeeps ==
    ASSUME ReplicaTypeOK, CopyInv, Deliver
    PROVE  CopyInv'
<1>1. /\ UNCHANGED <<message, send, change, bubble, toggles, hand, page, mailbox, conn>>
      /\ undisturbed' = undisturbed /\ cleanReactions' = cleanReactions
      /\ bus # << >> /\ bus' = Tail(bus) /\ wire' = Append(wire, Head(bus))
      /\ bus \in Seq(AllFrames) /\ wire \in Seq(AllFrames)
  BY DEF handVars, Deliver, server, client, history, ReplicaTypeOK
<1>2. ASSUME NEW rel, NEW good
      PROVE  /\ Settles(bus, wire, rel, good) => Settles(bus', wire', rel, good)
             /\ Hushed(bus, wire, rel) => Hushed(bus', wire', rel)
             /\ Silent(bus, rel) => Silent(bus', rel)
  BY <1>1, StillTold
<1>3. TextSettles'
  BY <1>1, <1>2 DEF CopyInv, TextSettles, Updated, Captured, Gone, Taken
<1>4. EndSettles'
  BY <1>1, <1>2 DEF CopyInv, EndSettles, Updated, Captured, Gone, Taken
<1>5. ReactionsSettle'
  BY <1>1, <1>2 DEF CopyInv, ReactionsSettle, ReactionSettles, Pending, Serves, Captured, Gone, Taken
<1>6. NotYetGone'
  BY <1>1, <1>2 DEF CopyInv, NotYetGone, Hushed, Updated, Gone
<1>7. NothingBefore'
  BY <1>1 DEF CopyInv, NothingBefore
<1>8. PageIsRight' /\ HandIsRight' /\ StillOriginal'
  BY <1>1 DEF CopyInv, PageIsRight, HandIsRight, StillOriginal, Captured, Changing, Alike, Gone
<1>9. InTurn' /\ AnnouncesStored'
  BY <1>1 DEF CopyInv, InTurn, AnnouncesStored, Serves, Changing, Gone
<1> QED
  BY <1>3, <1>4, <1>5, <1>6, <1>7, <1>8, <1>9 DEF CopyInv

\* The client takes a frame.
LEMMA ReceiveKeeps ==
    ASSUME ReplicaTypeOK, CopyInv, Receive
    PROVE  CopyInv'
<1> DEFINE f == Head(wire)
<1>1. /\ UNCHANGED <<message, send, change, bus, toggles, hand, page, mailbox, conn>>
      /\ undisturbed' = undisturbed /\ cleanReactions' = cleanReactions
      /\ wire # << >> /\ wire' = Tail(wire) /\ bubble' = Patched(bubble, f)
      /\ bus \in Seq(AllFrames) /\ wire \in Seq(AllFrames) /\ bubble \in Records
      /\ message # Absent
  BY DEF handVars, Receive, server, client, history, ReplicaTypeOK, CopyInv, NothingBefore
<1>2. f \in AllFrames
  BY <1>1, OneLess
<1>3. ASSUME NEW rel, NEW good
      PROVE  /\ Settles(bus, wire, rel, good) =>
                   \/ Settles(bus', wire', rel, good)
                   \/ Hushed(bus', wire', rel) /\ f \in rel /\ f \in good
             /\ Hushed(bus, wire, rel) => Hushed(bus', wire', rel) /\ f \notin rel
  BY <1>1, Learned
<1> HIDE DEF f
<1>4. /\ f.type = "MSG" => bubble' = Sent(f.text)
      /\ f.type # "MSG" /\ bubble = Absent => bubble' = Absent
      /\ f.type # "MSG" /\ bubble # Absent =>
            /\ bubble'.text = IF f.type = "EDITED" THEN f.text
                              ELSE IF f.type = "REACTED" THEN bubble.text ELSE NoText
            /\ bubble'.deleted <=> (f.type = "DELETED" \/ bubble.deleted)
            /\ bubble'.expired <=> (f.type = "EXPIRED" \/ bubble.expired)
            /\ bubble'.reactions = IF f.type # "REACTED" THEN bubble.reactions
                                   ELSE IF f.on THEN bubble.reactions \cup {f.by}
                                   ELSE bubble.reactions \ {f.by}
      /\ f.type \in {"MSG", "EDITED", "DELETED", "EXPIRED", "REACTED"}
  BY <1>1, <1>2, PatchedForm DEF AllFrames
<1>5. ~Gone(message) => f.type \notin {"DELETED", "EXPIRED"} /\ Silent(wire', Tombstones)
  <2>1. Silent(wire, Tombstones) => Silent(wire', Tombstones) /\ f \notin Tombstones
    BY <1>1, EndsShifted DEF f
  <2> QED
    BY <1>2, <2>1 DEF CopyInv, NotYetGone, Tombstones
<1>6. TextSettles'
  <2> SUFFICES ASSUME undisturbed, ~Gone(message), ~Updated({"edit"}) PROVE TextSettles'
    BY <1>1 DEF TextSettles, Updated, Gone, Taken
  <2>1. ASSUME f \in TextFrames, f \in WithText(message.text)
        PROVE  bubble' = Absent \/ bubble'.text = message.text
    BY <1>4, <2>1, SentForm DEF TextFrames, WithText
  <2>2. ASSUME f \notin TextFrames, bubble = Absent \/ bubble.text = message.text
        PROVE  bubble' = Absent \/ bubble'.text = message.text
    <3>1. f.type = "REACTED"
      BY <1>2, <1>4, <1>5, <2>2 DEF TextFrames
    <3> QED
      BY <1>4, <2>2, <3>1
  <2> QED
    BY <1>1, <1>3, <2>1, <2>2 DEF CopyInv, TextSettles, Captured, Taken
<1>7. EndSettles'
  <2> SUFFICES ASSUME undisturbed, Gone(message), ~Updated({"delete", "expire"}) PROVE EndSettles'
    BY <1>1 DEF EndSettles, Updated, Gone, Taken
  <2>1. ASSUME f \in Tombstones PROVE bubble' = Absent \/ Gone(bubble')
    BY <1>4, <2>1 DEF Tombstones, Gone
  <2>2. ASSUME f \notin EndFrames, bubble = Absent \/ Gone(bubble)
        PROVE  bubble' = Absent \/ Gone(bubble')
    <3>1. f.type # "MSG"
      BY <1>2, <2>2 DEF EndFrames
    <3> QED
      BY <1>4, <2>2, <3>1 DEF Gone
  <2> QED
    BY <1>1, <1>3, <2>1, <2>2 DEF CopyInv, EndSettles, Captured, Taken
<1>8. ReactionsSettle'
  <2> SUFFICES ASSUME cleanReactions, ~Gone(message), NEW b \in {"me", "other"}
               PROVE  ReactionSettles(b)'
    BY <1>1 DEF ReactionsSettle, Gone
  <2>1. ReactionSettles(b) /\ (Pending(b) => Pending(b)')
    BY <1>1 DEF CopyInv, ReactionsSettle, Pending, Serves
  <2>2. ASSUME f \in ReactionFrames(b), f \in Reacting(b, message.reactions)
        PROVE  bubble' = Absent \/ (b \in bubble'.reactions <=> b \in message.reactions)
    <3>1. CASE f.type = "MSG"
      <4>1. b \notin message.reactions
        BY <2>2, <3>1 DEF Reacting
      <4>2. bubble'.reactions = {}
        BY <1>4, <3>1, SentForm
      <4> QED
        BY <4>1, <4>2
    <3>2. CASE f.type = "REACTED" /\ f.by = b
      <4>1. f.on <=> b \in message.reactions
        BY <2>2, <3>2 DEF Reacting
      <4>2. bubble' # Absent => (b \in bubble'.reactions <=> f.on)
        BY <1>4, <3>2
      <4> QED
        BY <4>1, <4>2
    <3> QED
      BY <2>2, <3>1, <3>2 DEF ReactionFrames
  <2>3. ASSUME f \notin ReactionFrames(b),
               bubble = Absent \/ (b \in bubble.reactions <=> b \in message.reactions)
        PROVE  bubble' = Absent \/ (b \in bubble'.reactions <=> b \in message.reactions)
    <3>1. f.type # "MSG" /\ ~(f.type = "REACTED" /\ f.by = b)
      BY <1>2, <2>3 DEF ReactionFrames
    <3>2. bubble # Absent => (b \in bubble'.reactions <=> b \in bubble.reactions)
      BY <1>4, <3>1
    <3>3. bubble = Absent => bubble' = Absent
      BY <1>4, <3>1
    <3> QED
      BY <2>3, <3>2, <3>3
  <2> QED
    BY <1>1, <1>3, <2>1, <2>2, <2>3 DEF ReactionSettles, Captured, Taken
<1>9. NotYetGone'
  <2> SUFFICES ASSUME ~Gone(message) PROVE NotYetGone'
    BY <1>1 DEF NotYetGone, Gone
  <2>1. ~Gone(bubble')
    BY <1>4, <1>5, SentForm DEF CopyInv, NotYetGone, Gone
  <2> QED
    BY <1>1, <1>5, <2>1 DEF CopyInv, NotYetGone, Updated, Gone
<1>10. NothingBefore'
  BY <1>1 DEF CopyInv, NothingBefore
<1>11. PageIsRight' /\ HandIsRight' /\ StillOriginal'
  BY <1>1 DEF CopyInv, PageIsRight, HandIsRight, StillOriginal, Captured, Changing, Alike, Gone
<1>12. InTurn' /\ AnnouncesStored'
  BY <1>1 DEF CopyInv, InTurn, AnnouncesStored, Serves, Changing, Gone
<1> QED
  BY <1>6, <1>7, <1>8, <1>9, <1>10, <1>11, <1>12 DEF CopyInv

\* A replay reads the document: it will be told, after all that is published.
LEMMA TakeKeeps ==
    ASSUME ReplicaTypeOK, CopyInv, ReplayClean, NEW r \in Readers, message # Absent,
           hand' = [hand EXCEPT ![r] = message], conn # "off", conn' # "off",
           UNCHANGED <<message, send, change, bus, wire, bubble, toggles, page, mailbox>>
    PROVE  CopyInv'
<1>1. /\ undisturbed' => /\ ~Changing(Contents)
                         /\ undisturbed \/ (bus = << >> /\ ~mailbox /\ ~Captured /\ ~Taken
                                            /\ send \in {"new", "done"})
      /\ cleanReactions' => /\ message.reactions = {} /\ ~Changing({"react"}) /\ toggles = << >>
                            /\ \/ cleanReactions
                               \/ /\ bus = << >> /\ ~mailbox /\ ~Captured /\ ~Taken
                                  /\ send \in {"new", "done"}
  BY DEF ReplayClean, NoneCaptured, NothingTaken, Taken, Captured
<1>2. /\ message # NoPage /\ hand'[r] = message
      /\ \A x \in Readers : x # r => hand'[x] = hand[x]
  <2>1. message.text >= -1 /\ message.text \in Int
    BY DEF CopyInv, NothingBefore, NoText, ReplicaTypeOK, Records
  <2>2. message # NoPage
    BY <2>1, SentForm
  <2> QED
    BY <2>2 DEF ReplicaTypeOK
<1>3. Taken'
  BY <1>2 DEF Taken
<1>4. \A rel : bus = << >> => Silent(bus, rel)
  BY EmptySilent
<1>5. TextSettles' /\ EndSettles'
  BY <1>1, <1>3, <1>4 DEF CopyInv, TextSettles, EndSettles, Updated, Captured, Taken, Gone
<1>6. ReactionsSettle'
  <2> SUFFICES ASSUME cleanReactions', ~Gone(message), NEW b \in {"me", "other"}
               PROVE  ReactionSettles(b)'
    BY DEF ReactionsSettle, Gone
  <2>1. ~Pending(b)
    BY <1>1 DEF Pending, Serves, Changing
  <2>2. cleanReactions => ReactionSettles(b)
    BY DEF CopyInv, ReactionsSettle
  <2> QED
    BY <1>1, <1>3, <1>4, <2>1, <2>2 DEF ReactionSettles, Captured, Taken
<1>7. NotYetGone'
  BY <1>2 DEF CopyInv, NotYetGone, Updated, Gone
<1>8. NothingBefore'
  BY <1>2 DEF CopyInv, NothingBefore
<1>9. HandIsRight'
  <2> SUFFICES ASSUME NEW x \in Readers, hand'[x] # NoPage
               PROVE  /\ undisturbed' => Alike(hand'[x], message) /\ ~Changing(Contents)
                      /\ cleanReactions' =>
                            message.reactions = {} /\ ~Changing({"react"}) /\ toggles = << >>
    BY DEF HandIsRight, Alike, Gone, Changing
  <2>1. CASE x = r
    BY <1>1, <1>2, <2>1 DEF Alike
  <2>2. CASE x # r
    <3>1. hand'[x] = hand[x] /\ Taken
      BY <1>2, <2>2 DEF Taken
    <3> QED
      BY <1>1, <3>1 DEF CopyInv, HandIsRight
  <2> QED
    BY <2>1, <2>2
<1>10. PageIsRight' /\ StillOriginal'
  BY <1>1 DEF CopyInv, PageIsRight, StillOriginal, Captured, Changing, Alike, Gone
<1>11. InTurn'
  <2>1. ASSUME ~Changing(Contents) PROVE \A s \in Slots : ~Serves(s, Contents)
    BY <2>1 DEF Changing, Serves
  <2>2. ASSUME ~Changing({"react"}) PROVE \A s \in Slots : ~Serves(s, {"react"})
    BY <2>2 DEF Changing, Serves
  <2> QED
    BY <1>1, <2>1, <2>2 DEF CopyInv, InTurn, Changing, Serves
<1>12. AnnouncesStored'
  <2>1. ASSUME ~Changing(Contents), NEW s \in Slots, change[s].pc = "updated"
        PROVE  change[s].kind # "edit"
    BY <2>1 DEF Changing, Contents
  <2>2. ASSUME ~Changing({"react"}), NEW s \in Slots, change[s].pc = "updated"
        PROVE  change[s].kind # "react"
    BY <2>2 DEF Changing
  <2> QED
    BY <1>1, <2>1, <2>2 DEF CopyInv, AnnouncesStored, Gone
<1> QED
  BY <1>5, <1>6, <1>7, <1>8, <1>9, <1>10, <1>11, <1>12 DEF CopyInv

\* It sends what it has read: a clean copy is still what the document says.
LEMMA ReplaySendsKeeps ==
    ASSUME ReplicaTypeOK, CopyInv, NEW r \in Readers, ReplaySends(r)
    PROVE  CopyInv'
<1>1. /\ UNCHANGED <<message, send, change, bus, bubble, toggles, page, mailbox, conn>>
      /\ undisturbed' = undisturbed /\ cleanReactions' = cleanReactions
      /\ hand[r] # NoPage /\ hand[r] # Absent /\ message # Absent
      /\ wire' = wire \o FramesOf(hand[r])
      /\ bus \in Seq(AllFrames) /\ wire \in Seq(AllFrames) /\ hand[r] \in Records
  BY DEF ReplaySends, server, client, history, CopyInv, NothingBefore, ReplicaTypeOK
<1>2. /\ hand'[r] = NoPage
      /\ \A x \in Readers : x # r => hand'[x] = hand[x]
  BY DEF ReplaySends, ReplicaTypeOK
<1>3. /\ undisturbed => Alike(hand[r], message) /\ ~Changing(Contents)
      /\ cleanReactions => message.reactions = {} /\ ~Changing({"react"}) /\ toggles = << >>
      /\ ~Gone(message) => ~Gone(hand[r])
  BY <1>1 DEF CopyInv, HandIsRight, NotYetGone
<1>4. PICK f \in AllFrames : /\ FramesOf(hand[r]) = <<f>>
                             /\ ~Gone(hand[r]) => f.type = "MSG" /\ f.text = hand[r].text
                             /\ Gone(hand[r]) => f.type \in {"DELETED", "EXPIRED"}
  BY <1>1, ReplayedFrame DEF Gone
<1>5. wire' = Append(wire, f)
  <2>1. wire \o <<f>> = Append(wire, f)
    BY <1>1, OneMore
  <2> QED
    BY <1>1, <1>4, <2>1
<1>6. ASSUME NEW rel, NEW good, f \in rel, f \in good,
             Settles(bus, wire, rel, good) \/ Hushed(bus, wire, rel) \/ Silent(bus, rel)
      PROVE  Settles(bus', wire', rel, good)
  <2>1. Settles(bus, wire, rel, good) \/ Silent(bus, rel)
    BY <1>6 DEF Hushed
  <2> QED
    BY <1>1, <1>5, <1>6, <2>1, ToldByWire
<1>7. TextSettles'
  <2> SUFFICES ASSUME undisturbed, ~Gone(message), ~Updated({"edit"}) PROVE TextSettles'
    BY <1>1 DEF TextSettles, Updated, Gone
  <2>1. f \in TextFrames /\ f \in WithText(message.text)
    BY <1>3, <1>4 DEF Alike, TextFrames, WithText
  <2>2. \/ Settles(bus, wire, TextFrames, WithText(message.text))
        \/ Hushed(bus, wire, TextFrames) \/ Silent(bus, TextFrames)
    BY <1>1 DEF CopyInv, TextSettles
  <2>3. Settles(bus', wire', TextFrames, WithText(message.text))
    BY <1>6, <2>1, <2>2
  <2> QED
    BY <1>1, <2>3 DEF TextSettles
<1>8. EndSettles'
  <2> SUFFICES ASSUME undisturbed, Gone(message), ~Updated({"delete", "expire"})
               PROVE  EndSettles'
    BY <1>1 DEF EndSettles, Updated, Gone
  <2>1. f \in EndFrames /\ f \in Tombstones
    BY <1>3, <1>4 DEF Alike, EndFrames, Tombstones
  <2>2. Settles(bus, wire, EndFrames, Tombstones) \/ Hushed(bus, wire, EndFrames)
        \/ Silent(bus, EndFrames)
    BY DEF CopyInv, EndSettles
  <2>3. Settles(bus', wire', EndFrames, Tombstones)
    BY <1>6, <2>1, <2>2
  <2> QED
    BY <2>3 DEF EndSettles
<1>9. ReactionsSettle'
  <2> SUFFICES ASSUME cleanReactions, ~Gone(message), NEW b \in {"me", "other"}
               PROVE  ReactionSettles(b)'
    BY <1>1 DEF ReactionsSettle, Gone
  <2>1. f \in ReactionFrames(b) /\ f \in Reacting(b, message.reactions)
    BY <1>3, <1>4 DEF ReactionFrames, Reacting
  <2>2. ~Pending(b)
    BY <1>3 DEF Pending, Serves, Changing
  <2>3. \/ Settles(bus, wire, ReactionFrames(b), Reacting(b, message.reactions))
        \/ Hushed(bus, wire, ReactionFrames(b)) \/ Silent(bus, ReactionFrames(b))
    BY <1>1, <2>2 DEF CopyInv, ReactionsSettle, ReactionSettles
  <2>4. Settles(bus', wire', ReactionFrames(b), Reacting(b, message.reactions))
    BY <1>6, <2>1, <2>3
  <2> QED
    BY <1>1, <2>4 DEF ReactionSettles
<1>10. NotYetGone'
  <2> SUFFICES ASSUME ~Gone(message) PROVE NotYetGone'
    BY <1>1 DEF NotYetGone, Gone
  <2>1. f \notin Tombstones
    BY <1>3, <1>4 DEF Tombstones
  <2>2. Silent(wire, Tombstones) => Silent(wire', Tombstones)
    BY <1>1, <1>5, <2>1, EndsAppended
  <2>3. \A x \in Readers : ~Gone(hand'[x])
    BY <1>2, SentForm DEF CopyInv, NotYetGone
  <2> QED
    BY <1>1, <2>2, <2>3 DEF CopyInv, NotYetGone, Updated, Gone
<1>11. NothingBefore'
  BY <1>1, <1>2, SentForm DEF CopyInv, NothingBefore
<1>12. HandIsRight'
  BY <1>1, <1>2 DEF CopyInv, HandIsRight, Changing, Alike, Gone
<1>13. PageIsRight' /\ StillOriginal'
  BY <1>1 DEF CopyInv, PageIsRight, StillOriginal, Captured, Changing, Alike, Gone
<1>14. InTurn' /\ AnnouncesStored'
  BY <1>1 DEF CopyInv, InTurn, AnnouncesStored, Serves, Changing, Gone
<1> QED
  BY <1>7, <1>8, <1>9, <1>10, <1>11, <1>12, <1>13, <1>14 DEF CopyInv

\* There is nothing to read yet.
LEMMA ReadsNothing ==
    ASSUME CopyInv, ReplayClean, message = Absent, conn # "off", conn' # "off",
           UNCHANGED <<message, send, change, bus, wire, bubble, toggles, hand, page, mailbox>>
    PROVE  CopyInv'
<1>1. ~Gone(message) /\ ~Captured /\ ~mailbox /\ send = "new"
  BY SentForm DEF CopyInv, NothingBefore
<1>2. \A s \in Slots : change[s].pc = "idle"
  BY DEF CopyInv, NothingBefore
<1>3. TextSettles' /\ EndSettles' /\ ReactionsSettle'
  BY <1>1 DEF TextSettles, EndSettles, ReactionsSettle, Gone
<1>4. NotYetGone' /\ NothingBefore'
  BY DEF CopyInv, NotYetGone, NothingBefore, Updated, Captured, Gone
<1>5. PageIsRight' /\ HandIsRight' /\ StillOriginal'
  BY <1>1 DEF CopyInv, NothingBefore, PageIsRight, HandIsRight, StillOriginal, Captured
<1>6. InTurn' /\ AnnouncesStored'
  BY <1>2 DEF InTurn, AnnouncesStored, Serves
<1> QED
  BY <1>3, <1>4, <1>5, <1>6 DEF CopyInv

\* The client is told to fetch a page.
LEMMA GapKeeps ==
    ASSUME CopyInv, page = NoPage, page' = PageAsked, conn # "off", conn' # "off",
           UNCHANGED <<message, send, change, bus, wire, bubble, toggles, hand, mailbox,
                       history>>
    PROVE  CopyInv'
<1>1. ~Captured /\ ~Captured' /\ ~Gone(page')
  BY SentForm DEF Captured
<1>2. undisturbed' = undisturbed /\ cleanReactions' = cleanReactions
  BY DEF history
<1>3. TextSettles' /\ EndSettles'
  BY <1>1, <1>2 DEF CopyInv, TextSettles, EndSettles, Updated, Taken
<1>4. ReactionsSettle'
  BY <1>1, <1>2 DEF CopyInv, ReactionsSettle, ReactionSettles, Pending, Serves, Taken
<1>5. NotYetGone' /\ NothingBefore'
  BY <1>1 DEF CopyInv, NotYetGone, NothingBefore, Updated
<1>6. PageIsRight' /\ HandIsRight' /\ StillOriginal'
  BY <1>1, <1>2 DEF CopyInv, PageIsRight, HandIsRight, StillOriginal, Changing
<1>7. InTurn' /\ AnnouncesStored'
  BY <1>2 DEF CopyInv, InTurn, AnnouncesStored, Serves, Changing
<1> QED
  BY <1>3, <1>4, <1>5, <1>6, <1>7 DEF CopyInv

\* HELLO and SYNC_REQ are answered.
LEMMA AnswerKeeps ==
    ASSUME ReplicaTypeOK, CopyInv, NEW r \in Readers, Answer(r), conn # "off", conn' # "off",
           UNCHANGED <<message, send, change, bus, wire, bubble, toggles, mailbox>>
    PROVE  CopyInv'
<1>1. ASSUME ReplayClean, message = Absent, hand' = hand, page' = page PROVE CopyInv'
  BY <1>1, ReadsNothing
<1>2. ASSUME ReplayClean, message # Absent, hand' = [hand EXCEPT ![r] = message], page' = page
      PROVE  CopyInv'
  BY <1>2, TakeKeeps
<1>3. ASSUME page = NoPage, page' = PageAsked, UNCHANGED <<hand, history>> PROVE CopyInv'
  BY <1>3, GapKeeps
<1> QED
  BY <1>1, <1>2, <1>3 DEF Answer

\* The inbox is drained.
LEMMA DrainKeeps ==
    ASSUME ReplicaTypeOK, CopyInv, HelloDrain
    PROVE  CopyInv'
<1> DEFINE f == Frame("MSG", Original)
<1>1. /\ UNCHANGED <<message, send, change, bus, bubble, toggles, hand, page>>
      /\ undisturbed' = undisturbed /\ cleanReactions' = cleanReactions
      /\ ~mailbox' /\ conn = "replayed" /\ conn' = "on"
      /\ mailbox => wire' = Append(wire, f)
      /\ ~mailbox => wire' = wire
      /\ bus \in Seq(AllFrames) /\ wire \in Seq(AllFrames) /\ mailbox \in BOOLEAN
  BY DEF handVars, HelloDrain, server, client, history, ReplicaTypeOK
<1>2. ASSUME ~mailbox PROVE CopyInv'
  <2>1. UNCHANGED <<message, send, change, bus, wire, bubble, toggles, hand, page, mailbox,
                    history>>
    <3>1. mailbox = FALSE /\ mailbox' = FALSE
      BY <1>1, <1>2, Zenon DEF HelloDrain
    <3> QED
      BY <1>1, <1>2, <3>1 DEF history
  <2> QED
    BY <1>1, <2>1, QuietKeeps
<1>3. ASSUME mailbox PROVE CopyInv'
  <2>1. /\ wire' = Append(wire, f) /\ message # Absent
        /\ undisturbed => ~Gone(message) /\ message.text = Original /\ ~Changing(Contents)
        /\ cleanReactions => message.reactions = {} /\ ~Changing({"react"}) /\ toggles = << >>
    BY <1>1, <1>3 DEF CopyInv, StillOriginal, NothingBefore
  <2>2. ASSUME NEW rel, NEW good, f \in rel, f \in good,
               Settles(bus, wire, rel, good) \/ Hushed(bus, wire, rel) \/ Silent(bus, rel)
        PROVE  Settles(bus', wire', rel, good)
    <3>1. Settles(bus, wire, rel, good) \/ Silent(bus, rel)
      BY <2>2 DEF Hushed
    <3> QED
      BY <1>1, <2>1, <2>2, <3>1, SendFrame, ToldByWire
  <2>3. TextSettles'
    <3> SUFFICES ASSUME undisturbed PROVE TextSettles'
      BY <1>1 DEF TextSettles, Taken
    <3>1. ~Updated({"edit"})
      BY <2>1 DEF Updated, Changing, Contents
    <3>2. Settles(bus, wire, TextFrames, WithText(Original)) \/ Hushed(bus, wire, TextFrames)
          \/ Silent(bus, TextFrames)
      BY <2>1, <3>1 DEF CopyInv, TextSettles, Taken
    <3>3. Settles(bus', wire', TextFrames, WithText(Original))
      BY <2>2, <3>2, SendFrame
    <3> QED
      BY <1>1, <2>1, <3>3 DEF TextSettles, Taken
  <2>4. EndSettles'
    BY <1>1, <2>1 DEF EndSettles, Gone, Taken
  <2>5. ReactionsSettle'
    <3> SUFFICES ASSUME cleanReactions, ~Gone(message), NEW b \in {"me", "other"}
                 PROVE  ReactionSettles(b)'
      BY <1>1 DEF ReactionsSettle, Gone
    <3>1. ~Pending(b)
      BY <2>1 DEF Pending, Serves, Changing
    <3>2. \/ Settles(bus, wire, ReactionFrames(b), Reacting(b, {}))
          \/ Hushed(bus, wire, ReactionFrames(b)) \/ Silent(bus, ReactionFrames(b))
      BY <2>1, <3>1 DEF CopyInv, ReactionsSettle, ReactionSettles, Taken
    <3>3. Settles(bus', wire', ReactionFrames(b), Reacting(b, {}))
      BY <2>2, <3>2, SendFrame
    <3> QED
      BY <1>1, <2>1, <3>3 DEF ReactionSettles, Taken
  <2>6. NotYetGone'
    <3>1. Silent(wire, Tombstones) => Silent(wire', Tombstones)
      BY <1>1, <2>1, SendFrame, EndsAppended
    <3> QED
      BY <1>1, <3>1 DEF CopyInv, NotYetGone, Updated, Gone
  <2>7. NothingBefore'
    BY <1>1, <2>1 DEF CopyInv, NothingBefore
  <2>8. PageIsRight' /\ HandIsRight' /\ StillOriginal'
    BY <1>1, <2>1 DEF CopyInv, PageIsRight, HandIsRight, StillOriginal, Captured, Changing, Alike, Gone
  <2>9. InTurn' /\ AnnouncesStored'
    BY <1>1 DEF CopyInv, InTurn, AnnouncesStored, Serves, Changing, Gone
  <2> QED
    BY <2>3, <2>4, <2>5, <2>6, <2>7, <2>8, <2>9 DEF CopyInv
<1> QED
  BY <1>1, <1>2, <1>3

\* The connection breaks, with all that was on its way over it.
LEMMA CutKeeps ==
    ASSUME ReplicaTypeOK, CopyInv, NEW reload \in BOOLEAN, Cut(reload)
    PROVE  CopyInv'
<1>1. /\ UNCHANGED <<message, send, change, bubble, mailbox>>
      /\ bus' = << >> /\ wire' = << >> /\ toggles' = << >>
      /\ \A r \in Readers : hand'[r] = NoPage
      /\ page' = IF reload THEN NoPage ELSE page
      /\ undisturbed' => /\ undisturbed /\ bus = << >> /\ wire = << >> /\ ~Taken
                         /\ reload => ~Captured
                         /\ ~Changing(Contents)
      /\ cleanReactions' => /\ cleanReactions /\ bus = << >> /\ wire = << >> /\ ~Taken
                            /\ reload => ~Captured
                            /\ toggles = << >> /\ ~Changing({"react"})
  BY DEF Cut, BreakClean, NothingTaken, Taken, server, Captured
<1>2. Captured' => page' = page /\ Captured
  BY <1>1 DEF Captured
<1>3. undisturbed' \/ cleanReactions' => (Captured' <=> Captured)
  BY <1>1 DEF Captured
<1>4. TextSettles' /\ EndSettles'
  BY <1>1, <1>3 DEF CopyInv, TextSettles, EndSettles, Updated, Gone, Taken
<1>5. ReactionsSettle'
  BY <1>1, <1>3 DEF CopyInv, ReactionsSettle, ReactionSettles, Pending, Serves, Gone, Taken
<1>6. NotYetGone'
  BY <1>1, EmptySilent, SentForm DEF CopyInv, NotYetGone, Updated, Gone
<1>7. NothingBefore'
  BY <1>1, <1>2, SentForm DEF CopyInv, NothingBefore
<1>8. PageIsRight' /\ HandIsRight' /\ StillOriginal'
  BY <1>1, <1>2 DEF CopyInv, PageIsRight, HandIsRight, StillOriginal, Changing, Alike, Gone
<1>9. InTurn' /\ AnnouncesStored'
  BY <1>1 DEF CopyInv, InTurn, AnnouncesStored, Serves, Changing, Gone
<1> QED
  BY <1>4, <1>5, <1>6, <1>7, <1>8, <1>9 DEF CopyInv

\* The user reacts: the record changes at once, and the request is on its way.
LEMMA ToggleKeeps ==
    ASSUME ReplicaTypeOK, CopyInv, Toggle
    PROVE  CopyInv'
<1>1. PICK on \in BOOLEAN : on = ("me" \notin bubble.reactions)
  OBVIOUS
<1> DEFINE f == [type |-> "REACTED", text |-> NoText, by |-> "me", on |-> on]
<1>2. /\ UNCHANGED <<message, send, change, bus, wire, hand, page, mailbox, conn>>
      /\ undisturbed' = undisturbed /\ bubble # Absent /\ message # Absent
      /\ bubble' = Patched(bubble, f)
      /\ cleanReactions' => /\ cleanReactions /\ conn = "on" /\ ~mailbox /\ ~Captured /\ ~Taken
                            /\ send \in {"new", "done"} /\ ~Changing({"react"})
      /\ bubble \in Records
  BY <1>1 DEF handVars, Toggle, CopyInv, NothingBefore, NoneCaptured, NothingTaken, Taken, Captured,
         ReplicaTypeOK
<1>3. conn = "on" => toggles' # << >>
  <2>1. toggles \in Seq(BOOLEAN)
    BY DEF ReplicaTypeOK
  <2>2. Append(toggles, on) # << >>
    BY <2>1, NotEmpty
  <2>3. conn = "on" => toggles' = Append(toggles, on)
    BY <1>1 DEF Toggle
  <2> QED
    BY <2>2, <2>3
<1>4. f \in AllFrames /\ f.type = "REACTED" /\ f.by = "me"
  BY DEF AllFrames, NoText
<1> HIDE DEF f
<1>5. /\ bubble'.text = bubble.text
      /\ (bubble'.deleted <=> bubble.deleted) /\ (bubble'.expired <=> bubble.expired)
      /\ "other" \in bubble'.reactions <=> "other" \in bubble.reactions
  BY <1>2, <1>4, PatchedForm
<1>6. TextSettles' /\ EndSettles'
  BY <1>2, <1>5 DEF CopyInv, TextSettles, EndSettles, Updated, Captured, Gone, Taken
<1>7. ReactionsSettle'
  <2> SUFFICES ASSUME cleanReactions', ~Gone(message), NEW b \in {"me", "other"}
               PROVE  ReactionSettles(b)'
    BY <1>2 DEF ReactionsSettle, Gone
  <2>1. CASE b = "me"
    BY <1>2, <1>3, <2>1 DEF ReactionSettles, Pending, Taken
  <2>2. CASE b = "other"
    <3>1. ReactionSettles(b)
      BY <1>2 DEF CopyInv, ReactionsSettle
    <3>2. Pending(b) => Pending(b)'
      BY <1>2, <2>2 DEF Pending, Serves
    <3> QED
      BY <1>2, <1>5, <2>2, <3>1, <3>2 DEF ReactionSettles, Captured, Taken
  <2> QED
    BY <2>1, <2>2
<1>8. NotYetGone' /\ NothingBefore'
  BY <1>2, <1>5 DEF CopyInv, NotYetGone, NothingBefore, Updated, Gone
<1>9. PageIsRight' /\ HandIsRight' /\ StillOriginal'
  BY <1>2 DEF CopyInv, PageIsRight, HandIsRight, StillOriginal, Captured, Taken, Changing, Alike,
         Gone
<1>10. InTurn' /\ AnnouncesStored'
  BY <1>2 DEF CopyInv, InTurn, AnnouncesStored, Serves, Changing, Gone
<1> QED
  BY <1>6, <1>7, <1>8, <1>9, <1>10 DEF CopyInv

\* The endpoint reads a page.
LEMMA PageReadKeeps ==
    ASSUME ReplicaTypeOK, CopyInv, PageRead
    PROVE  CopyInv'
<1>1. PICK known \in {message.reactions, {}} :
         page' = IF message = Absent THEN NoPage ELSE [message EXCEPT !.reactions = known]
  BY DEF PageRead
<1>2. /\ UNCHANGED <<message, send, change, bus, wire, bubble, toggles, hand, mailbox, conn>>
      /\ undisturbed' => ~Changing(Contents)
      /\ undisturbed' => \/ undisturbed
                         \/ /\ bus = << >> /\ wire = << >> /\ ~mailbox /\ ~Taken
                            /\ send \in {"new", "done"}
      /\ cleanReactions' => /\ message.reactions = {} /\ ~Changing({"react"}) /\ toggles = << >>
                            /\ bus = << >> /\ wire = << >>
      /\ message \in Records
  BY DEF handVars, PageRead, PageClean, NoneCaptured, NothingTaken, Taken, server, client, ReplicaTypeOK
<1>3. message = Absent => ~Captured' /\ ~Gone(page')
  BY <1>1, SentForm DEF Captured
<1>4. ASSUME message # Absent
      PROVE  /\ Captured' /\ page'.text = message.text /\ (Gone(page') <=> Gone(message))
             /\ cleanReactions' => page'.reactions = {}
  <2>1. page' = [message EXCEPT !.reactions = known]
    BY <1>1, <1>4
  <2>2. /\ page'.text = message.text /\ page'.reactions = known
        /\ page'.deleted = message.deleted /\ page'.expired = message.expired
    BY <1>2, <2>1 DEF Records
  <2>3. message.text >= -1 /\ message.text \in Int
    BY <1>2, <1>4 DEF CopyInv, NothingBefore, NoText, Records
  <2>4. page' # NoPage /\ page' # PageAsked
    BY <2>2, <2>3, SentForm
  <2>5. cleanReactions' => page'.reactions = {}
    BY <1>2, <2>2
  <2> QED
    BY <2>2, <2>4, <2>5 DEF Captured, Gone
<1>5. \A rel : bus = << >> /\ wire = << >> => Hushed(bus, wire, rel)
  BY EmptySilent DEF Hushed
<1>6. undisturbed' => /\ ~Updated({"edit"}) /\ ~Updated({"delete", "expire"})
                      /\ \A s \in Slots : ~Serves(s, Contents)
  BY <1>2 DEF Updated, Changing, Contents, Serves
<1>7. cleanReactions' => \A s \in Slots : ~Serves(s, {"react"})
  BY <1>2 DEF Changing, Serves
<1>8. TextSettles'
  <2> SUFFICES ASSUME undisturbed', message # Absent, ~Gone(message) PROVE TextSettles'
    BY <1>2 DEF TextSettles, Gone, Taken
  <2>1. \/ Settles(bus, wire, TextFrames, WithText(message.text))
        \/ Hushed(bus, wire, TextFrames) \/ (Taken /\ Silent(bus, TextFrames))
    BY <1>2, <1>5, <1>6 DEF CopyInv, TextSettles, Taken
  <2> QED
    BY <1>2, <1>4, <2>1 DEF TextSettles, Taken
<1>9. EndSettles'
  <2> SUFFICES ASSUME undisturbed', Gone(message) PROVE EndSettles'
    BY <1>2 DEF EndSettles, Gone, Taken
  <2>1. \/ Settles(bus, wire, EndFrames, Tombstones)
        \/ Hushed(bus, wire, EndFrames) \/ (Taken /\ Silent(bus, EndFrames))
    BY <1>2, <1>5, <1>6 DEF CopyInv, EndSettles, Taken
  <2>2. message # Absent
    BY SentForm
  <2> QED
    BY <1>2, <1>4, <2>1, <2>2 DEF EndSettles, Taken
<1>10. ReactionsSettle'
  <2> SUFFICES ASSUME cleanReactions', message # Absent, NEW b \in {"me", "other"}
               PROVE  ReactionSettles(b)'
    BY <1>2 DEF ReactionsSettle
  <2> QED
    BY <1>2, <1>4, <1>5 DEF ReactionSettles, Taken
<1>11. NotYetGone' /\ NothingBefore'
  BY <1>2, <1>3, <1>4 DEF CopyInv, NotYetGone, NothingBefore, Updated, Gone
<1>16. HandIsRight'
  BY <1>2 DEF CopyInv, HandIsRight, Changing, Alike, Taken, Gone
<1>12. PageIsRight'
  <2>1. Captured' => message # Absent
    BY <1>3
  <2> QED
    BY <1>2, <1>4, <2>1 DEF PageIsRight, HandIsRight, Changing, Alike, Gone
<1>13. StillOriginal'
  BY <1>2 DEF CopyInv, StillOriginal, Changing, Gone
<1>14. InTurn'
  BY <1>2, <1>6, <1>7 DEF CopyInv, InTurn, Serves, Changing
<1>15. AnnouncesStored'
  <2>1. ASSUME undisturbed', NEW s \in Slots, change[s].pc = "updated" PROVE change[s].kind # "edit"
    BY <1>6, <2>1 DEF Serves, Contents
  <2>2. ASSUME cleanReactions', NEW s \in Slots, change[s].pc = "updated"
        PROVE  change[s].kind # "react"
    BY <1>7, <2>2 DEF Serves
  <2> QED
    BY <1>2, <2>1, <2>2 DEF CopyInv, AnnouncesStored, Gone
<1> QED
  BY <1>8, <1>9, <1>10, <1>11, <1>12, <1>13, <1>14, <1>15, <1>16 DEF CopyInv

\* The client inserts the page.
LEMMA PageInsertedKeeps ==
    ASSUME ReplicaTypeOK, CopyInv, PageInserted
    PROVE  CopyInv'
<1>1. /\ UNCHANGED <<message, send, change, bus, wire, toggles, hand, mailbox, conn>>
      /\ undisturbed' = undisturbed /\ cleanReactions' = cleanReactions
      /\ Captured /\ bubble' = page /\ page' = NoPage
  BY DEF handVars, PageInserted, server, history, Captured
<1>2. /\ message # Absent /\ ~Captured' /\ ~Gone(page')
      /\ undisturbed => Alike(page, message)
      /\ cleanReactions => page.reactions = {} /\ message.reactions = {}
  BY <1>1, SentForm DEF CopyInv, NothingBefore, PageIsRight, HandIsRight, Captured
<1>3. TextSettles' /\ EndSettles'
  BY <1>1, <1>2 DEF CopyInv, TextSettles, EndSettles, Updated, Alike, Gone, Taken
<1>4. ReactionsSettle'
  BY <1>1, <1>2 DEF CopyInv, ReactionsSettle, ReactionSettles, Pending, Serves, Gone, Taken
<1>5. NotYetGone' /\ NothingBefore'
  BY <1>1, <1>2 DEF CopyInv, NotYetGone, NothingBefore, Updated, Gone
<1>6. PageIsRight' /\ HandIsRight' /\ StillOriginal'
  BY <1>1, <1>2 DEF CopyInv, PageIsRight, HandIsRight, StillOriginal, Changing, Gone
<1>7. InTurn' /\ AnnouncesStored'
  BY <1>1 DEF CopyInv, InTurn, AnnouncesStored, Serves, Changing, Gone
<1> QED
  BY <1>3, <1>4, <1>5, <1>6, <1>7 DEF CopyInv

\* The page does not come: the client may lack the message or a change of it.
LEMMA PageFailsKeeps ==
    ASSUME CopyInv, PageFails
    PROVE  CopyInv'
<1>1. /\ UNCHANGED <<message, send, change, bus, wire, bubble, toggles, hand, mailbox, conn>>
      /\ ~undisturbed' /\ ~cleanReactions' /\ page' = NoPage
  BY DEF handVars, PageFails, server, client
<1>2. ~Captured' /\ ~Gone(page')
  BY <1>1, SentForm DEF Captured
<1>3. TextSettles' /\ EndSettles' /\ ReactionsSettle'
  BY <1>1 DEF TextSettles, EndSettles, ReactionsSettle, Taken
<1>4. NotYetGone' /\ NothingBefore'
  BY <1>1, <1>2 DEF CopyInv, NotYetGone, NothingBefore, Updated, Gone
<1>5. PageIsRight' /\ HandIsRight' /\ StillOriginal' /\ InTurn'
  BY <1>1 DEF PageIsRight, HandIsRight, StillOriginal, InTurn
<1>6. AnnouncesStored'
  BY <1>1 DEF CopyInv, AnnouncesStored, Gone
<1> QED
  BY <1>3, <1>4, <1>5, <1>6 DEF CopyInv

-----------------------------------------------------------------------------
(***************************************************************************)
(* The results                                                             *)
(***************************************************************************)

\* In the beginning there is nothing to tell.
LEMMA CopyInvInit == ASSUME ReplicaInit PROVE CopyInv
<1>1. /\ message = Absent /\ send = "new" /\ bubble = Absent /\ page = NoPage /\ ~mailbox
      /\ bus = << >> /\ wire = << >> /\ toggles = << >>
      /\ \A s \in Slots : change[s].pc = "idle" /\ change[s].kind = "none"
      /\ \A r \in Readers : hand[r] = NoPage
  BY DEF ReplicaInit, NoChange
<1>2. ~Gone(message) /\ ~Captured /\ \A kinds : ~Changing(kinds) /\ ~Updated(kinds)
  BY <1>1, SentForm DEF Captured, Changing, Updated
<1>3. TextSettles /\ EndSettles /\ ReactionsSettle
  BY <1>1, <1>2 DEF TextSettles, EndSettles, ReactionsSettle, Taken
<1>4. NotYetGone /\ NothingBefore
  BY <1>1, <1>2, EmptySilent, SentForm DEF NotYetGone, NothingBefore, Gone
<1>5. PageIsRight /\ HandIsRight /\ StillOriginal /\ InTurn /\ AnnouncesStored
  BY <1>1, <1>2 DEF PageIsRight, HandIsRight, StillOriginal, InTurn, AnnouncesStored, Serves
<1> QED
  BY <1>3, <1>4, <1>5 DEF CopyInv

\* Every step keeps it.
LEMMA CopyInvStep ==
    ASSUME ReplicaTypeOK, CopyInv, [ReplicaNext]_replicaVars
    PROVE  CopyInv'
<1>1. CASE Store \/ PublishSend \/ QueueOffline
  BY <1>1, StoreKeeps, PublishSendKeeps, QueueOfflineKeeps
<1>2. ASSUME NEW s \in Slots, NEW kind \in ChangeKinds, Request(s, kind) PROVE CopyInv'
  <2>1. kind \in {"edit", "delete", "expire", "react"}
    BY ReplicaAssumption
  <2> QED
    BY <1>2, <2>1, RequestKeeps
<1>3. ASSUME NEW s \in Slots, ServeToggle(s) \/ Update(s) \/ Announce(s) PROVE CopyInv'
  BY <1>3, RequestKeeps, UpdateKeeps, AnnounceKeeps
<1>4. CASE Deliver \/ Receive
  BY <1>4, DeliverKeeps, ReceiveKeeps
<1>5. CASE Connect \/ Forget \/ MarkRead \/ UNCHANGED replicaVars
  <2>1. /\ UNCHANGED <<message, send, change, bus, wire, bubble, toggles, hand, page,
                       mailbox, history>>
        /\ conn' = "off" => conn = "off"
    BY <1>5 DEF Connect, Forget, MarkRead, replicaVars, handVars, server, client
  <2> QED
    BY <2>1, QuietKeeps
<1>6. CASE HelloReplay
  <2>1. /\ UNCHANGED <<message, send, change, bus, wire, bubble, toggles, mailbox>>
        /\ conn # "off" /\ conn' # "off" /\ "hello" \in Readers
    BY <1>6 DEF HelloReplay, Readers, server, client
  <2>2. Answer("hello") \/ UNCHANGED <<hand, page, history>>
    BY <1>6 DEF HelloReplay
  <2>3. CASE UNCHANGED <<hand, page, history>>
    BY <2>1, <2>3, QuietKeeps
  <2> QED
    BY <2>1, <2>2, <2>3, AnswerKeeps
<1>7. ASSUME NEW r \in Syncs, SyncReq(r) PROVE CopyInv'
  <2>1. /\ UNCHANGED <<message, send, change, bus, wire, bubble, toggles, mailbox>>
        /\ conn # "off" /\ conn' # "off" /\ Answer(r) /\ r \in Readers
    BY <1>7 DEF SyncReq, Readers, server, client
  <2> QED
    BY <2>1, AnswerKeeps
<1>11. ASSUME NEW r \in Readers, ReplaySends(r) PROVE CopyInv'
  BY <1>11, ReplaySendsKeeps
<1>8. CASE HelloDrain
  BY <1>8, DrainKeeps
<1>9. ASSUME NEW reload \in BOOLEAN, Cut(reload) PROVE CopyInv'
  BY <1>9, CutKeeps
<1>10. CASE Toggle \/ PageRead \/ PageInserted \/ PageFails
  BY <1>10, ToggleKeeps, PageReadKeeps, PageInsertedKeeps, PageFailsKeeps
<1> QED
  BY <1>1, <1>2, <1>3, <1>4, <1>5, <1>6, <1>7, <1>8, <1>9, <1>10, <1>11 DEF ReplicaNext

\* When nothing is on its way any more, the copy is what the document shows.
LEMMA SettledCopyAgrees == ASSUME ReplicaTypeOK, CopyInv PROVE CleanCopiesAgree
<1> SUFFICES ASSUME Quiet, bubble # Absent, undisturbed
             PROVE  /\ Visible(bubble) = Visible(message)
                    /\ cleanReactions /\ ~message.deleted /\ ~message.expired =>
                          bubble.reactions = message.reactions
  BY DEF CleanCopiesAgree
<1>1. /\ bus = << >> /\ wire = << >> /\ toggles = << >> /\ ~Captured /\ ~Taken
      /\ ~Changing(Contents \cup {"react"})
  BY DEF Quiet, NothingTaken, Taken, Captured
<1>2. message # Absent
  BY DEF CopyInv, NothingBefore
<1>3. ~Updated({"edit"}) /\ ~Updated({"delete", "expire"}) /\ \A b : ~Pending(b)
  BY <1>1 DEF Updated, Changing, Contents, Pending, Serves
<1>4. \A rel, good : ~Settles(bus, wire, rel, good)
  BY <1>1, EmptySilent DEF Settles
<1>5. Gone(message) => Gone(bubble)
  BY <1>1, <1>3, <1>4 DEF CopyInv, EndSettles, Taken
<1>6. ~Gone(message) => ~Gone(bubble) /\ bubble.text = message.text
  BY <1>1, <1>2, <1>3, <1>4 DEF CopyInv, NotYetGone, TextSettles, Taken
<1>7. Visible(bubble) = Visible(message)
  BY <1>5, <1>6 DEF Visible, Gone
<1>8. ASSUME cleanReactions, ~message.deleted, ~message.expired
      PROVE  bubble.reactions = message.reactions
  <2>1. ~Gone(message)
    BY <1>8 DEF Gone
  <2>2. \A b \in {"me", "other"} : b \in bubble.reactions <=> b \in message.reactions
    BY <1>1, <1>2, <1>3, <1>4, <1>8, <2>1 DEF CopyInv, ReactionsSettle, ReactionSettles, Taken
  <2>3. bubble.reactions \subseteq {"me", "other"} /\ message.reactions \subseteq {"me", "other"}
    BY DEF ReplicaTypeOK, Records
  <2> QED
    BY <2>2, <2>3
<1> QED
  BY <1>7, <1>8

\* Replica: the types of the message, the copy and what is between them.
THEOREM ReplicaTypeCorrect == ReplicaSpec => []ReplicaTypeOK
<1>1. ReplicaInit => ReplicaTypeOK
  <2> SUFFICES ASSUME ReplicaInit PROVE ReplicaTypeOK
    OBVIOUS
  <2>1. /\ message = Absent /\ bubble = Absent /\ page = NoPage /\ send = "new" /\ conn = "off"
        /\ change = [s \in Slots |-> NoChange]
        /\ cursor \in BOOLEAN /\ hand = [r \in Readers |-> NoPage]
        /\ bus = << >> /\ wire = << >> /\ toggles = << >>
        /\ changes = 0 /\ breaks = 0 /\ reads = 0
        /\ presence \in BOOLEAN /\ mailbox \in BOOLEAN /\ reached \in BOOLEAN /\ read \in BOOLEAN
        /\ undisturbed \in BOOLEAN /\ cleanReactions \in BOOLEAN
    BY DEF ReplicaInit
  <2>2. change \in [Slots -> {NoChange} \cup Served]
    BY <2>1
  <2>3. bus \in Seq(AllFrames) /\ wire \in Seq(AllFrames) /\ toggles \in Seq(BOOLEAN)
    BY <2>1
  <2>4. changes \in 0..MaxChanges /\ breaks \in 0..MaxBreaks /\ reads \in 0..MaxReads
    BY <2>1, ReplicaAssumption
  <2> QED
    BY <2>1, <2>2, <2>3, <2>4, FramesTyped DEF ReplicaTypeOK
<1>2. ReplicaTypeOK /\ [ReplicaNext]_replicaVars => ReplicaTypeOK'
  BY ReplicaTypesStep
<1> QED
  BY <1>1, <1>2, PTL DEF ReplicaSpec

\* A settled client shows the message as it is stored, whatever was changed and however often it
\* was away, when no change was lost to it nor overtaken by an older copy (Replica).
THEOREM CopiesAgreeWhenClean == ReplicaSpec => []CleanCopiesAgree
<1>1. ReplicaInit => CopyInv
  BY CopyInvInit
<1>2. ReplicaTypeOK /\ CopyInv /\ [ReplicaNext]_replicaVars => CopyInv'
  BY CopyInvStep
<1>3. ReplicaTypeOK /\ CopyInv => CleanCopiesAgree
  BY SettledCopyAgrees
<1> QED
  BY <1>1, <1>2, <1>3, ReplicaTypeCorrect, PTL DEF ReplicaSpec
=============================================================================
