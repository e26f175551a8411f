-------------------------- MODULE Conversation_proofs --------------------------
(***************************************************************************)
(* Theorems about a conversation, for every set of users, gateways,        *)
(* devices and requests and any number of operations, crashes and losses:  *)
(* the stores, and the clients, agree about every user that no overlapping *)
(* or interrupted change was about (Membership); no receipt is lost but    *)
(* with the process that holds it, and no tick is ahead of the members     *)
(* (Receipts).                                                             *)
(***************************************************************************)
EXTENDS Membership, Receipts, FiniteSetTheorems, SequenceTheorems, TLAPS

-----------------------------------------------------------------------------
(***************************************************************************)
(* Membership: the inductive invariant, in named parts                     *)
(***************************************************************************)

Ops == GroupOps \cup {"create"}
MemberStores == {"members", "convs", "docMembers"}
AdminStores == {"admins", "docAdmins"}
AllWrites == [store : Stores, user : Users, on : BOOLEAN]

\* The writes that are left, in any order.
Writes(s) == {s[i] : i \in DOMAIN s}

\* What a request makes of its subjects, and of whose admin rights.
MemberOp(r) == r.op \notin {"promote", "demote"}
On(r) == r.op \in {"join", "add", "promote", "create"}
AdminSubjects(r) ==
    CASE r.op \in {"promote", "demote"} -> {r.target}
      [] r.op \in {"join", "create"} -> {r.actor}
      [] OTHER -> {}

Busy(t) == task[t].pc # "idle"
About(t, u) == Busy(t) /\ u \in Subjects(task[t])

TaskRecords == [pc : Pcs, op : Ops \cup {"none"}, actor : Users \cup {"none"},
                target : Users \cup {"none"}, todo : Seq(AllWrites)]

\* Where a request of a kind can be.
Fits(pc, op) ==
    /\ pc \in {"admin", "event"} => op \in GroupOps
    /\ pc \in {"member", "count"} => op = "join"
    /\ pc \in {"exists", "push"} => op = "create"

\* Types, with those of a request.
Typed ==
    /\ TypeOK
    /\ task \in [Tasks -> TaskRecords]
    /\ \A t \in Tasks : Busy(t) =>
          /\ task[t].op \in Ops /\ task[t].actor \in Users /\ task[t].target \in Users
          /\ Fits(task[t].pc, task[t].op)

\* A request writes about its subjects only, always in its own direction.
OwnWrites ==
    \A t \in Tasks : Busy(t) => \A w \in Writes(task[t].todo) :
        /\ w.user \in Subjects(task[t]) /\ (w.on <=> On(task[t]))
        /\ w.store \in MemberStores => MemberOp(task[t])
        /\ w.store \in AdminStores => w.user \in AdminSubjects(task[t])

\* The five stores agree about u.
Agree(u) ==
    /\ u \in has["members"] <=> u \in has["docMembers"]
    /\ u \in has["members"] <=> u \in has["convs"]
    /\ u \in has["admins"] <=> u \in has["docAdmins"]

\* A write that is still to be done, or has been.
Coming(t, s, u) ==
    \/ \E w \in Writes(task[t].todo) : w.store = s /\ w.user = u
    \/ u \in has[s] <=> On(task[t])

\* What is true of a clean user while the one request about them is under way.
Halfway(t, u) ==
    IF task[t].pc = "write"
    THEN /\ IF MemberOp(task[t]) THEN \A s \in MemberStores : Coming(t, s, u)
            ELSE /\ u \in has["members"] <=> u \in has["docMembers"]
                 /\ u \in has["members"] <=> u \in has["convs"]
                 /\ u \in has["members"] <=> u \in told.members
         /\ IF u \in AdminSubjects(task[t]) THEN \A s \in AdminStores : Coming(t, s, u)
            ELSE u \in has["admins"] <=> u \in has["docAdmins"]
    ELSE /\ Agree(u)
         /\ CASE task[t].pc = "event" ->
                    IF MemberOp(task[t]) THEN u \in has["members"] <=> On(task[t])
                    ELSE u \in has["members"] <=> u \in told.members
              [] task[t].pc = "push" -> u \in told.members => u \in has["members"]
              [] OTHER -> u \in has["members"] <=> u \in told.members

\* A starting node has read what Mongo still says of a clean user, and no request is
\* about them.
Undisturbed ==
    \A g \in Gateways, u \in clean : node[g] \in {"exists", "rebuild"} =>
        /\ ~InFlight(u)
        /\ u \in found[g].members <=> u \in has["docMembers"]
        /\ u \in found[g].admins <=> u \in has["docAdmins"]

\* At most one request is about a clean user.
Alone == \A u \in clean, t1, t2 \in Tasks : About(t1, u) /\ About(t2, u) => t1 = t2

Settled ==
    \A u \in clean :
        /\ ~InFlight(u) => Agree(u) /\ (u \in has["members"] <=> u \in told.members)
        /\ \A t \in Tasks : About(t, u) => Halfway(t, u)

MembershipInv == Typed /\ OwnWrites /\ Undisturbed /\ Alone /\ Settled

-----------------------------------------------------------------------------
(***************************************************************************)
(* What a change writes                                                    *)
(***************************************************************************)

LEMMA WritesOfConcat ==
    ASSUME NEW a \in Seq(AllWrites), NEW b \in Seq(AllWrites)
    PROVE  a \o b \in Seq(AllWrites) /\ Writes(a \o b) = Writes(a) \cup Writes(b)
<1>1. /\ a \o b \in Seq(AllWrites)
      /\ Len(a \o b) = Len(a) + Len(b)
      /\ \A i \in 1 .. Len(a) + Len(b) :
            (a \o b)[i] = IF i <= Len(a) THEN a[i] ELSE b[i - Len(a)]
  BY ConcatProperties
<1>2. /\ DOMAIN a = 1 .. Len(a) /\ DOMAIN b = 1 .. Len(b) /\ DOMAIN (a \o b) = 1 .. Len(a) + Len(b)
      /\ Len(a) \in Nat /\ Len(b) \in Nat
  BY <1>1
<1>3. Writes(a \o b) \subseteq Writes(a) \cup Writes(b)
  <2> SUFFICES ASSUME NEW i \in 1 .. Len(a) + Len(b)
               PROVE  (a \o b)[i] \in Writes(a) \cup Writes(b)
    BY <1>2 DEF Writes
  <2>1. CASE i <= Len(a)
    BY <1>1, <1>2, <2>1 DEF Writes
  <2>2. CASE i > Len(a)
    <3>1. i - Len(a) \in DOMAIN b
      BY <1>2, <2>2
    <3> QED
      BY <1>1, <1>2, <2>2, <3>1 DEF Writes
  <2> QED
    BY <1>2, <2>1, <2>2
<1>4. ASSUME NEW i \in DOMAIN a PROVE a[i] \in Writes(a \o b)
  BY <1>1, <1>2 DEF Writes
<1>5. ASSUME NEW i \in DOMAIN b PROVE b[i] \in Writes(a \o b)
  <2>1. /\ Len(a) + i \in DOMAIN (a \o b) /\ (Len(a) + i) - Len(a) = i
        /\ ~ (Len(a) + i <= Len(a))
    BY <1>2
  <2>2. (a \o b)[Len(a) + i] = b[i]
    BY <1>1, <1>2, <2>1
  <2> QED
    BY <2>1, <2>2 DEF Writes
<1> QED
  BY <1>1, <1>3, <1>4, <1>5 DEF Writes

\* The oldest write and the others.
LEMMA WritesOfTail ==
    ASSUME NEW s \in Seq(AllWrites), s # << >>
    PROVE  /\ Head(s) \in AllWrites /\ Tail(s) \in Seq(AllWrites)
           /\ Writes(s) = {Head(s)} \cup Writes(Tail(s))
           /\ Len(s) > 1 <=> Tail(s) # << >>
<1>1. /\ Head(s) \in AllWrites /\ Tail(s) \in Seq(AllWrites)
      /\ Len(Tail(s)) = Len(s) - 1
      /\ \A i \in 1 .. Len(Tail(s)) : Tail(s)[i] = s[i+1]
  BY HeadTailProperties
<1>2. /\ Len(s) \in Nat \ {0} /\ DOMAIN s = 1 .. Len(s) /\ Head(s) = s[1]
      /\ DOMAIN Tail(s) = 1 .. Len(s) - 1
  <2>1. Len(s) \in Nat \ {0}
    BY EmptySeq
  <2> QED
    BY <1>1, <2>1
<1>3. Writes(s) \subseteq {Head(s)} \cup Writes(Tail(s))
  <2> SUFFICES ASSUME NEW i \in 1 .. Len(s), i # 1 PROVE s[i] \in Writes(Tail(s))
    BY <1>2 DEF Writes
  <2>1. i - 1 \in DOMAIN Tail(s) /\ (i - 1) + 1 = i
    BY <1>2
  <2>2. Tail(s)[i - 1] = s[i]
    BY <1>1, <1>2, <2>1
  <2> QED
    BY <2>1, <2>2 DEF Writes
<1>4. {Head(s)} \cup Writes(Tail(s)) \subseteq Writes(s)
  <2> SUFFICES ASSUME NEW i \in DOMAIN Tail(s) PROVE Tail(s)[i] \in Writes(s)
    BY <1>2 DEF Writes
  <2>1. i + 1 \in DOMAIN s
    BY <1>2
  <2> QED
    BY <1>1, <1>2, <2>1 DEF Writes
<1>5. Len(s) > 1 <=> Tail(s) # << >>
  <2>1. Tail(s) # << >> => Len(Tail(s)) \in Nat \ {0}
    BY <1>1, EmptySeq
  <2>2. Tail(s) = << >> => Len(Tail(s)) = 0
    BY EmptySeq
  <2> QED
    BY <1>1, <1>2, <2>1, <2>2
<1> QED
  BY <1>1, <1>3, <1>4, <1>5

\* A change of the members, or of the admins, of one user: what it writes.
IsAbout(W, S, u, on) ==
    /\ \A w \in W : w.user = u /\ (w.on <=> on) /\ w.store \in S
    /\ \A s \in S : \E w \in W : w.store = s /\ w.user = u

LEMMA WritesOfParts ==
    ASSUME NEW u \in Users
    PROVE  /\ addMember(u) \in Seq(AllWrites)
           /\ IsAbout(Writes(addMember(u)), MemberStores, u, TRUE)
           /\ removeMember(u) \in Seq(AllWrites)
           /\ IsAbout(Writes(removeMember(u)), MemberStores, u, FALSE)
           /\ setAdmin(u, TRUE) \in Seq(AllWrites)
           /\ IsAbout(Writes(setAdmin(u, TRUE)), AdminStores, u, TRUE)
           /\ setAdmin(u, FALSE) \in Seq(AllWrites)
           /\ IsAbout(Writes(setAdmin(u, FALSE)), AdminStores, u, FALSE)
<1>1. ASSUME NEW v \in BOOLEAN,
             NEW q, q = <<Put("members", u, v), Put("convs", u, v), Put("docMembers", u, v)>>
      PROVE  q \in Seq(AllWrites) /\ IsAbout(Writes(q), MemberStores, u, v)
  <2>1. /\ q \in Seq(AllWrites)
        /\ Writes(q) = {Put("members", u, v), Put("convs", u, v), Put("docMembers", u, v)}
    BY <1>1 DEF Put, Writes, AllWrites, Stores, RedisSets
  <2> QED
    BY <2>1 DEF IsAbout, Put, MemberStores
<1>2. ASSUME NEW v \in BOOLEAN
      PROVE  setAdmin(u, v) \in Seq(AllWrites) /\ IsAbout(Writes(setAdmin(u, v)), AdminStores, u, v)
  <2>1. /\ setAdmin(u, v) \in Seq(AllWrites)
        /\ Writes(setAdmin(u, v)) = {Put("admins", u, v), Put("docAdmins", u, v)}
    BY DEF setAdmin, Put, Writes, AllWrites, Stores, RedisSets
  <2> QED
    BY <2>1 DEF IsAbout, Put, AdminStores
<1> QED
  BY <1>1, <1>2 DEF addMember, removeMember

\* A change writes something, about its subjects only and in its own direction; and it
\* writes to every store it has to.
Complete(r, W) ==
    /\ \A w \in W :
          /\ w.user \in Subjects(r) /\ (w.on <=> On(r))
          /\ w.store \in MemberStores => MemberOp(r)
          /\ w.store \in AdminStores => w.user \in AdminSubjects(r)
    /\ MemberOp(r) => \A s \in MemberStores, u \in Subjects(r) :
          \E w \in W : w.store = s /\ w.user = u
    /\ \A s \in AdminStores, u \in AdminSubjects(r) : \E w \in W : w.store = s /\ w.user = u

LEMMA ChangeIsComplete ==
    ASSUME NEW r, r.op \in Ops, r.actor \in Users, r.target \in Users
    PROVE  Change(r) \in Seq(AllWrites) /\ Change(r) # << >> /\ Complete(r, Writes(Change(r)))
<1> DEFINE Goal == Change(r) \in Seq(AllWrites) /\ Complete(r, Writes(Change(r)))
<1>0. MemberStores \cap AdminStores = {}
  BY DEF MemberStores, AdminStores
<1>1. ASSUME r.op = "add" PROVE Goal
  <2>1. /\ Change(r) = addMember(r.target)
        /\ On(r) /\ MemberOp(r)
        /\ Subjects(r) = {r.target} /\ AdminSubjects(r) = {}
    BY <1>1 DEF Change, On, MemberOp, Subjects, Subject, AdminSubjects
  <2>2. /\ Change(r) \in Seq(AllWrites)
        /\ IsAbout(Writes(Change(r)), MemberStores, r.target, TRUE)
    BY <2>1, WritesOfParts
  <2> QED
    BY <1>0, <2>1, <2>2 DEF IsAbout, Complete
<1>2. ASSUME r.op = "remove" PROVE Goal
  <2>1. /\ Change(r) = removeMember(r.target)
        /\ ~On(r) /\ MemberOp(r)
        /\ Subjects(r) = {r.target} /\ AdminSubjects(r) = {}
    BY <1>2 DEF Change, On, MemberOp, Subjects, Subject, AdminSubjects
  <2>2. /\ Change(r) \in Seq(AllWrites)
        /\ IsAbout(Writes(Change(r)), MemberStores, r.target, FALSE)
    BY <2>1, WritesOfParts
  <2> QED
    BY <1>0, <2>1, <2>2 DEF IsAbout, Complete
<1>3. ASSUME r.op = "leave" PROVE Goal
  <2>1. /\ Change(r) = removeMember(r.actor)
        /\ ~On(r) /\ MemberOp(r)
        /\ Subjects(r) = {r.actor} /\ AdminSubjects(r) = {}
    BY <1>3 DEF Change, On, MemberOp, Subjects, Subject, AdminSubjects
  <2>2. /\ Change(r) \in Seq(AllWrites)
        /\ IsAbout(Writes(Change(r)), MemberStores, r.actor, FALSE)
    BY <2>1, WritesOfParts
  <2> QED
    BY <1>0, <2>1, <2>2 DEF IsAbout, Complete
<1>4. ASSUME r.op = "promote" PROVE Goal
  <2>1. /\ Change(r) = setAdmin(r.target, TRUE)
        /\ On(r) /\ ~MemberOp(r)
        /\ Subjects(r) = {r.target} /\ AdminSubjects(r) = {r.target}
    BY <1>4 DEF Change, On, MemberOp, Subjects, Subject, AdminSubjects
  <2>2. /\ Change(r) \in Seq(AllWrites)
        /\ IsAbout(Writes(Change(r)), AdminStores, r.target, TRUE)
    BY <2>1, WritesOfParts
  <2> QED
    BY <1>0, <2>1, <2>2 DEF IsAbout, Complete
<1>5. ASSUME r.op = "demote" PROVE Goal
  <2>1. /\ Change(r) = setAdmin(r.target, FALSE)
        /\ ~On(r) /\ ~MemberOp(r)
        /\ Subjects(r) = {r.target} /\ AdminSubjects(r) = {r.target}
    BY <1>5 DEF Change, On, MemberOp, Subjects, Subject, AdminSubjects
  <2>2. /\ Change(r) \in Seq(AllWrites)
        /\ IsAbout(Writes(Change(r)), AdminStores, r.target, FALSE)
    BY <2>1, WritesOfParts
  <2>5. ASSUME NEW w \in Writes(Change(r))
        PROVE  /\ w.user \in Subjects(r) /\ (w.on <=> On(r))
               /\ w.store \in MemberStores => MemberOp(r)
               /\ w.store \in AdminStores => w.user \in AdminSubjects(r)
    BY <1>0, <2>1, <2>2 DEF IsAbout
  <2>6. MemberOp(r) => \A s \in MemberStores, u \in Subjects(r) :
          \E w \in Writes(Change(r)) : w.store = s /\ w.user = u
    BY <2>1, <2>2 DEF IsAbout
  <2>7. \A s \in AdminStores, u \in AdminSubjects(r) :
          \E w \in Writes(Change(r)) : w.store = s /\ w.user = u
    BY <2>1, <2>2 DEF IsAbout
  <2> QED
    BY <2>2, <2>5, <2>6, <2>7 DEF Complete
<1>6. ASSUME r.op = "join" PROVE Goal
  <2>1. /\ Change(r) = addMember(r.actor) \o setAdmin(r.actor, TRUE)
        /\ On(r) /\ MemberOp(r)
        /\ Subjects(r) = {r.actor} /\ AdminSubjects(r) = {r.actor}
    BY <1>6 DEF Change, On, MemberOp, Subjects, Subject, AdminSubjects
  <2>2. /\ addMember(r.actor) \in Seq(AllWrites) /\ setAdmin(r.actor, TRUE) \in Seq(AllWrites)
        /\ IsAbout(Writes(addMember(r.actor)), MemberStores, r.actor, TRUE)
        /\ IsAbout(Writes(setAdmin(r.actor, TRUE)), AdminStores, r.actor, TRUE)
    BY WritesOfParts
  <2>3. /\ Change(r) \in Seq(AllWrites)
        /\ Writes(Change(r)) = Writes(addMember(r.actor)) \cup Writes(setAdmin(r.actor, TRUE))
    BY <2>1, <2>2, WritesOfConcat
  <2>5. ASSUME NEW w \in Writes(Change(r))
        PROVE  /\ w.user \in Subjects(r) /\ (w.on <=> On(r))
               /\ w.store \in MemberStores => MemberOp(r)
               /\ w.store \in AdminStores => w.user \in AdminSubjects(r)
    BY <1>0, <2>1, <2>2, <2>3 DEF IsAbout
  <2>6. MemberOp(r) => \A s \in MemberStores, u \in Subjects(r) :
          \E w \in Writes(Change(r)) : w.store = s /\ w.user = u
    BY <2>1, <2>2, <2>3 DEF IsAbout
  <2>7. \A s \in AdminStores, u \in AdminSubjects(r) :
          \E w \in Writes(Change(r)) : w.store = s /\ w.user = u
    BY <2>1, <2>2, <2>3 DEF IsAbout
  <2> QED
    BY <2>3, <2>5, <2>6, <2>7 DEF Complete
<1>7. ASSUME r.op = "create" PROVE Goal
  <2>1. /\ Change(r) = (addMember(r.actor) \o addMember(r.target)) \o setAdmin(r.actor, TRUE)
        /\ On(r) /\ MemberOp(r)
        /\ Subjects(r) = {r.actor, r.target} /\ AdminSubjects(r) = {r.actor}
    BY <1>7 DEF Change, On, MemberOp, Subjects, Subject, AdminSubjects
  <2>2. /\ addMember(r.actor) \in Seq(AllWrites) /\ addMember(r.target) \in Seq(AllWrites)
        /\ setAdmin(r.actor, TRUE) \in Seq(AllWrites)
        /\ IsAbout(Writes(addMember(r.actor)), MemberStores, r.actor, TRUE)
        /\ IsAbout(Writes(addMember(r.target)), MemberStores, r.target, TRUE)
        /\ IsAbout(Writes(setAdmin(r.actor, TRUE)), AdminStores, r.actor, TRUE)
    BY WritesOfParts
  <2>3. /\ Change(r) \in Seq(AllWrites)
        /\ Writes(Change(r)) = Writes(addMember(r.actor)) \cup Writes(addMember(r.target))
                               \cup Writes(setAdmin(r.actor, TRUE))
    <3>1. /\ addMember(r.actor) \o addMember(r.target) \in Seq(AllWrites)
          /\ Writes(addMember(r.actor) \o addMember(r.target))
                = Writes(addMember(r.actor)) \cup Writes(addMember(r.target))
      BY <2>2, WritesOfConcat
    <3> QED
      BY <2>1, <2>2, <3>1, WritesOfConcat
  <2>5. ASSUME NEW w \in Writes(Change(r))
        PROVE  /\ w.user \in Subjects(r) /\ (w.on <=> On(r))
               /\ w.store \in MemberStores => MemberOp(r)
               /\ w.store \in AdminStores => w.user \in AdminSubjects(r)
    BY <1>0, <2>1, <2>2, <2>3 DEF IsAbout
  <2>6. ASSUME NEW s \in MemberStores, NEW u \in Subjects(r)
        PROVE  \E w \in Writes(Change(r)) : w.store = s /\ w.user = u
    <3>1. PICK w \in Writes(addMember(u)) : w.store = s /\ w.user = u
      BY <2>1, <2>2 DEF IsAbout
    <3> QED
      BY <2>1, <2>3, <3>1
  <2>7. ASSUME NEW s \in AdminStores, NEW u \in AdminSubjects(r)
        PROVE  \E w \in Writes(Change(r)) : w.store = s /\ w.user = u
    <3>1. PICK w \in Writes(setAdmin(r.actor, TRUE)) : w.store = s /\ w.user = r.actor
      BY <2>1, <2>2 DEF IsAbout
    <3> QED
      BY <2>1, <2>3, <3>1
  <2> QED
    BY <2>3, <2>5, <2>6, <2>7 DEF Complete
<1>8. Goal
  BY <1>1, <1>2, <1>3, <1>4, <1>5, <1>6, <1>7 DEF Ops, GroupOps
<1>9. Writes(Change(r)) # {}
  BY <1>8 DEF MemberOp, Subjects, Subject, AdminSubjects, Complete, MemberStores, AdminStores
<1> QED
  BY <1>8, <1>9 DEF Writes

-----------------------------------------------------------------------------
(***************************************************************************)
(* A step of one request                                                   *)
(***************************************************************************)

\* What a request does to the clean users it is not about: nothing, but that a pushed
\* conversation may tell the clients what is the case.
LEMMA OthersKept ==
    ASSUME MembershipInv, NEW t \in Tasks, NEW u \in clean, task'[t] = task[t], About(t, u),
           \A s \in Stores : u \in has'[s] <=> u \in has[s],
           \/ u \in told'.members <=> u \in told.members
           \/ u \in told'.members <=> u \in told.members \cup has["members"]
    PROVE  Halfway(t, u)'
<1>1. /\ Halfway(t, u)
      /\ task[t].pc = "event" /\ MemberOp(task[t]) => (u \in has["members"] <=> On(task[t]))
  BY DEF MembershipInv, Settled, Halfway
<1>2. \A s \in Stores : Coming(t, s, u)' <=> Coming(t, s, u)
  BY DEF Coming
<1>3. Agree(u)' <=> Agree(u)
  BY DEF Agree, Stores, RedisSets
<1>4. MemberStores \subseteq Stores /\ AdminStores \subseteq Stores
  BY DEF MemberStores, AdminStores, Stores, RedisSets
<1>5. CASE task[t].pc = "write"
  BY <1>1, <1>2, <1>4, <1>5 DEF Halfway, Stores, RedisSets
<1>6. CASE task[t].pc # "write"
  BY <1>1, <1>3, <1>6 DEF Halfway, Stores, RedisSets
<1> QED
  BY <1>5, <1>6

\* A request that goes on or ends keeps the invariant if it treats its own subjects right.
LEMMA TaskStep ==
    ASSUME MembershipInv, NEW t \in Tasks, Busy(t), Typed', OwnWrites',
           UNCHANGED <<node, found, clean>>,
           \A t2 \in Tasks \ {t} : task'[t2] = task[t2],
           Busy(t)' => Subjects(task'[t]) = Subjects(task[t]),
           \A u \in clean \ Subjects(task[t]) :
              /\ \A s \in Stores : u \in has'[s] <=> u \in has[s]
              /\ \/ u \in told'.members <=> u \in told.members
                 \/ u \in told'.members <=> u \in told.members \cup has["members"],
           \A u \in clean \cap Subjects(task[t]) :
              IF Busy(t)' THEN Halfway(t, u)'
              ELSE Agree(u)' /\ (u \in has'["members"] <=> u \in told'.members)
    PROVE  MembershipInv'
<1>1. \A t2 \in Tasks, u \in Users : About(t2, u)' => About(t2, u)
  BY DEF About, Busy
<1>2. \A u \in Users : InFlight(u) <=> \E t2 \in Tasks : About(t2, u)
  BY DEF InFlight, About, Busy
<1>3. \A u \in Users : InFlight(u)' <=> \E t2 \in Tasks : About(t2, u)'
  BY DEF InFlight, About, Busy
<1>4. clean' \subseteq Users /\ clean' = clean
  BY DEF MembershipInv, Typed, TypeOK
<1>5. Undisturbed'
  <2> SUFFICES ASSUME NEW g \in Gateways, NEW u \in clean, node[g] \in {"exists", "rebuild"}
               PROVE  /\ ~InFlight(u)'
                      /\ u \in found[g].members <=> u \in has'["docMembers"]
                      /\ u \in found[g].admins <=> u \in has'["docAdmins"]
    BY DEF Undisturbed
  <2>1. /\ ~InFlight(u)
        /\ u \in found[g].members <=> u \in has["docMembers"]
        /\ u \in found[g].admins <=> u \in has["docAdmins"]
    BY DEF MembershipInv, Undisturbed
  <2>2. u \notin Subjects(task[t])
    BY <2>1 DEF InFlight, Busy
  <2> QED
    BY <1>1, <1>2, <1>3, <1>4, <2>1, <2>2 DEF Stores, RedisSets
<1>6. Alone'
  BY <1>1, <1>4 DEF MembershipInv, Alone
<1>7. Settled'
  <2> SUFFICES ASSUME NEW u \in clean
               PROVE  /\ ~InFlight(u)' => Agree(u)' /\ (u \in has'["members"] <=> u \in told'.members)
                      /\ \A t2 \in Tasks : About(t2, u)' => Halfway(t2, u)'
    BY <1>4 DEF Settled
  <2>0. u \in Users
    BY <1>4
  <2>1. CASE u \in Subjects(task[t])
    <3>1. \A t2 \in Tasks : About(t2, u) => t2 = t
      BY <2>1 DEF MembershipInv, Alone, About
    <3>2. InFlight(u)' <=> Busy(t)'
      BY <1>1, <1>3, <2>0, <2>1, <3>1 DEF About
    <3>3. /\ Busy(t)' => Halfway(t, u)'
          /\ ~Busy(t)' => Agree(u)' /\ (u \in has'["members"] <=> u \in told'.members)
      BY <2>1
    <3>4. \A t2 \in Tasks : About(t2, u)' => t2 = t /\ Busy(t)'
      BY <1>1, <2>0, <3>1 DEF About
    <3> QED
      BY <3>2, <3>3, <3>4
  <2>2. CASE u \notin Subjects(task[t])
    <3>1. ~About(t, u) /\ ~About(t, u)'
      BY <2>2 DEF About
    <3>2. \A t2 \in Tasks : About(t2, u)' => About(t2, u) /\ t2 # t
      BY <1>1, <2>0, <3>1
    <3>3. \A t2 \in Tasks : About(t2, u)' => Halfway(t2, u)'
      BY <2>2, <3>2, OthersKept
    <3>4. ~InFlight(u)' => ~InFlight(u)
      BY <1>2, <1>3, <2>0, <3>1 DEF About, Busy
    <3>5. ~InFlight(u) => Agree(u) /\ (u \in has["members"] <=> u \in told.members)
      BY DEF MembershipInv, Settled
    <3>6. Agree(u)' <=> Agree(u)
      BY <2>2 DEF Agree, Stores, RedisSets
    <3> QED
      BY <2>2, <3>3, <3>4, <3>5, <3>6 DEF Stores, RedisSets
  <2> QED
    BY <2>1, <2>2
<1> QED
  BY <1>5, <1>6, <1>7 DEF MembershipInv

-----------------------------------------------------------------------------
(***************************************************************************)
(* One lemma for each action of a request                                  *)
(***************************************************************************)

LEMMA NoWrites == Writes(<< >>) = {}
BY DEF Writes

LEMMA IdleType == Idle \in TaskRecords /\ Idle.todo = << >> /\ Idle.pc = "idle"
BY DEF Idle, TaskRecords, Pcs

LEMMA TaskType ==
    ASSUME Typed, NEW t \in Tasks
    PROVE  /\ task[t] \in TaskRecords
           /\ task[t].pc = "write" <=> task[t].todo # << >>
           /\ Busy(t) => /\ task[t].op \in Ops /\ task[t].actor \in Users
                         /\ task[t].target \in Users
BY DEF Typed, TypeOK

\* A request that stays what it is keeps its types and writes as it should.
LEMMA RequestStep ==
    ASSUME MembershipInv, NEW t \in Tasks, Busy(t), NEW r \in TaskRecords,
           task' = [task EXCEPT ![t] = r],
           r.pc = "write" <=> r.todo # << >>,
           \/ r = Idle
           \/ /\ r.op = task[t].op /\ r.actor = task[t].actor /\ r.target = task[t].target
              /\ r.pc # "idle" /\ Fits(r.pc, r.op)
              /\ Writes(r.todo) \subseteq Writes(task[t].todo) \/ r.todo = Change(task[t]),
           has' \in [Stores -> SUBSET Users],
           told' \in [members : SUBSET Users, admins : SUBSET Users],
           created' \in BOOLEAN, UNCHANGED <<clean, node, found, lost>>
    PROVE  /\ Typed' /\ OwnWrites'
           /\ \A t2 \in Tasks \ {t} : task'[t2] = task[t2]
           /\ task'[t] = r
           /\ Busy(t)' => Subjects(task'[t]) = Subjects(task[t])
<1>0. /\ Typed /\ OwnWrites /\ task \in [Tasks -> TaskRecords]
  BY DEF MembershipInv, Typed
<1>1. /\ task' \in [Tasks -> TaskRecords] /\ task'[t] = r
      /\ \A t2 \in Tasks \ {t} : task'[t2] = task[t2]
  BY <1>0
<1>2. /\ task[t].op \in Ops /\ task[t].actor \in Users /\ task[t].target \in Users
      /\ task[t].pc = "write" <=> task[t].todo # << >>
  BY <1>0, TaskType
<1>3. Typed'
  BY <1>0, <1>1, <1>2, IdleType DEF Typed, TypeOK, TaskRecords, Busy
<1>4. r # Idle => /\ Subjects(r) = Subjects(task[t]) /\ AdminSubjects(r) = AdminSubjects(task[t])
                  /\ On(r) <=> On(task[t])
                  /\ MemberOp(r) <=> MemberOp(task[t])
  BY IdleType DEF Subjects, Subject, AdminSubjects, On, MemberOp
<1>5. OwnWrites'
  <2> SUFFICES ASSUME r # Idle, NEW w \in Writes(r.todo)
               PROVE  /\ w.user \in Subjects(r) /\ (w.on <=> On(r))
                      /\ w.store \in MemberStores => MemberOp(r)
                      /\ w.store \in AdminStores => w.user \in AdminSubjects(r)
    BY <1>0, <1>1, IdleType DEF OwnWrites, Busy
  <2>1. CASE w \in Writes(task[t].todo)
    BY <1>0, <1>4, <2>1 DEF OwnWrites
  <2>2. CASE r.todo = Change(task[t])
    BY <1>2, <1>4, <2>2, ChangeIsComplete DEF Complete
  <2> QED
    BY <2>1, <2>2
<1> QED
  BY <1>1, <1>3, <1>4, <1>5, IdleType DEF Busy

Deciding == {"admin", "member", "count", "exists"}

\* While a request decides, the stores agree about its clean subjects: ending it, going
\* on or beginning to write keeps the invariant.
LEMMA Decide ==
    ASSUME MembershipInv, NEW t \in Tasks, task[t].pc \in Deciding,
           UNCHANGED <<has, told, clean, created, others>>,
           \/ \E pc \in Deciding : GoTo(t, pc) /\ Fits(pc, task[t].op)
           \/ GoTo(t, "event") /\ task[t].op = "join" /\ task[t].actor \in has["members"]
           \/ GoTo(t, "push") /\ task[t].op = "create"
           \/ StartWriting(t)
           \/ Finish(t)
    PROVE  MembershipInv'
<1>0. /\ Typed /\ Busy(t) /\ task[t].todo = << >> /\ task[t] \in TaskRecords
      /\ task[t].op \in Ops /\ task[t].actor \in Users /\ task[t].target \in Users
  BY TaskType DEF MembershipInv, Busy, Deciding
<1>1. /\ UNCHANGED <<clean, node, found, lost>> /\ created' \in BOOLEAN
      /\ has' \in [Stores -> SUBSET Users]
      /\ told' \in [members : SUBSET Users, admins : SUBSET Users]
  BY <1>0 DEF Typed, TypeOK, others
<1>2. ASSUME NEW u \in clean \cap Subjects(task[t])
      PROVE  Agree(u) /\ (u \in has["members"] <=> u \in told.members)
  BY <1>0 DEF MembershipInv, Settled, About, Halfway, Deciding
<1>3. \A u : Agree(u)' <=> Agree(u)
  BY DEF Agree
<1> DEFINE Kept(r) ==
       /\ r \in TaskRecords /\ task' = [task EXCEPT ![t] = r]
       /\ r.pc = "write" <=> r.todo # << >>
       /\ \/ r = Idle
          \/ /\ r.op = task[t].op /\ r.actor = task[t].actor /\ r.target = task[t].target
             /\ r.pc # "idle" /\ Fits(r.pc, r.op)
             /\ Writes(r.todo) \subseteq Writes(task[t].todo) \/ r.todo = Change(task[t])
<1>4. ASSUME NEW r, Kept(r),
             \A u \in clean \cap Subjects(task[t]) : Busy(t)' => Halfway(t, u)'
      PROVE  MembershipInv'
  <2>1. /\ Typed' /\ OwnWrites'
        /\ \A t2 \in Tasks \ {t} : task'[t2] = task[t2]
        /\ Busy(t)' => Subjects(task'[t]) = Subjects(task[t])
    BY <1>0, <1>1, <1>4, RequestStep
  <2> QED
    BY <1>0, <1>1, <1>2, <1>3, <1>4, <2>1, TaskStep
<1>5. ASSUME NEW pc \in Deciding, GoTo(t, pc), Fits(pc, task[t].op) PROVE MembershipInv'
  <2>1. Kept([task[t] EXCEPT !.pc = pc])
    BY <1>0, <1>5 DEF GoTo, TaskRecords, Deciding, Pcs
  <2>2. task'[t].pc = pc
    BY <1>0, <1>5 DEF GoTo, Typed, TaskRecords
  <2>3. \A u \in clean \cap Subjects(task[t]) : Halfway(t, u)'
    BY <1>2, <1>3, <2>2 DEF Halfway, Deciding
  <2> QED
    BY <1>4, <2>1, <2>3
<1>6. ASSUME GoTo(t, "event"), task[t].op = "join", task[t].actor \in has["members"]
      PROVE  MembershipInv'
  <2>1. Kept([task[t] EXCEPT !.pc = "event"])
    BY <1>0, <1>6 DEF GoTo, TaskRecords, Pcs, Fits, GroupOps
  <2>2. task'[t].pc = "event" /\ task'[t].op = "join"
    BY <1>0, <1>6 DEF GoTo, Typed, TaskRecords
  <2>3. \A u \in clean \cap Subjects(task[t]) : u \in has["members"]
    BY <1>6 DEF Subjects, Subject
  <2>4. \A u \in clean \cap Subjects(task[t]) : Halfway(t, u)'
    BY <1>2, <1>3, <2>2, <2>3 DEF Halfway, On, MemberOp
  <2> QED
    BY <1>4, <2>1, <2>4
<1>7. ASSUME GoTo(t, "push"), task[t].op = "create" PROVE MembershipInv'
  <2>1. Kept([task[t] EXCEPT !.pc = "push"])
    BY <1>0, <1>7 DEF GoTo, TaskRecords, Pcs, Fits
  <2>2. task'[t].pc = "push"
    BY <1>0, <1>7 DEF GoTo, Typed, TaskRecords
  <2>3. \A u \in clean \cap Subjects(task[t]) : Halfway(t, u)'
    BY <1>2, <1>3, <2>2 DEF Halfway
  <2> QED
    BY <1>4, <2>1, <2>3
<1>8. ASSUME StartWriting(t) PROVE MembershipInv'
  <2>0. /\ Change(task[t]) \in Seq(AllWrites) /\ Change(task[t]) # << >>
        /\ Complete(task[t], Writes(Change(task[t])))
    BY <1>0, ChangeIsComplete
  <2> DEFINE r == [task[t] EXCEPT !.pc = "write", !.todo = Change(task[t])]
  <2>1. /\ task' = [task EXCEPT ![t] = r] /\ r \in TaskRecords
        /\ r.pc = "write" /\ r.todo = Change(task[t])
        /\ r.op = task[t].op /\ r.actor = task[t].actor /\ r.target = task[t].target
    BY <1>0, <1>8, <2>0 DEF StartWriting, TaskRecords, Pcs
  <2>2. Kept(r)
    BY <2>0, <2>1 DEF Fits
  <2>3. task'[t] = r
    BY <1>0, <2>1 DEF Typed
  <2>4. /\ Subjects(task'[t]) = Subjects(task[t]) /\ AdminSubjects(task'[t]) = AdminSubjects(task[t])
        /\ MemberOp(task'[t]) <=> MemberOp(task[t])
    BY <2>1, <2>3 DEF Subjects, Subject, AdminSubjects, MemberOp
  <2>5. ASSUME NEW u \in clean \cap Subjects(task[t]) PROVE Halfway(t, u)'
    <3>0. task'[t].todo = Change(task[t])
      BY <2>1, <2>3
    <3>1. ASSUME MemberOp(task'[t]), NEW s \in MemberStores PROVE Coming(t, s, u)'
      <4>1. \E w \in Writes(Change(task[t])) : w.store = s /\ w.user = u
        BY <2>0, <2>4, <3>1 DEF Complete
      <4> QED
        BY <3>0, <4>1 DEF Coming
    <3>2. ASSUME u \in AdminSubjects(task'[t]), NEW s \in AdminStores PROVE Coming(t, s, u)'
      <4>1. \E w \in Writes(Change(task[t])) : w.store = s /\ w.user = u
        BY <2>0, <2>4, <3>2 DEF Complete
      <4> QED
        BY <3>0, <4>1 DEF Coming
    <3> QED
      BY <1>2, <2>1, <2>3, <3>1, <3>2 DEF Halfway, Agree
  <2> QED
    BY <1>4, <2>2, <2>5
<1>9. ASSUME Finish(t) PROVE MembershipInv'
  <2>1. Kept(Idle)
    BY <1>9, IdleType DEF Finish
  <2>2. ~Busy(t)'
    BY <1>0, <1>9, IdleType DEF Finish, Busy, Typed
  <2> QED
    BY <1>4, <2>1, <2>2
<1> QED
  BY <1>5, <1>6, <1>7, <1>8, <1>9

LEMMA DecideSteps ==
    ASSUME MembershipInv, NEW t \in Tasks,
           ReadAdmin(t) \/ JoinMember(t) \/ JoinCount(t) \/ CreateExists(t)
    PROVE  MembershipInv'
<1>0. Typed /\ (Busy(t) => Fits(task[t].pc, task[t].op))
  BY DEF MembershipInv, Typed
<1>1. ASSUME ReadAdmin(t) PROVE MembershipInv'
  BY <1>0, <1>1, Decide DEF ReadAdmin, Deciding, Fits
<1>2. ASSUME JoinMember(t) PROVE MembershipInv'
  BY <1>0, <1>2, Decide DEF JoinMember, Deciding, Fits, Busy
<1>3. ASSUME JoinCount(t) PROVE MembershipInv'
  BY <1>0, <1>3, Decide DEF JoinCount, Deciding
<1>4. ASSUME CreateExists(t) PROVE MembershipInv'
  BY <1>0, <1>4, Decide DEF CreateExists, Deciding, Fits, Busy
<1> QED
  BY <1>1, <1>2, <1>3, <1>4

\* One write takes its user out of, or puts them into, one store.  What was still to be
\* written or had been is so again, and after the last write all has been.
LEMMA WriteStep == ASSUME MembershipInv, NEW t \in Tasks, Write(t) PROVE MembershipInv'
<1> DEFINE w == Head(task[t].todo)
           rest == Tail(task[t].todo)
           pc == IF Len(task[t].todo) > 1 THEN "write"
                 ELSE IF task[t].op = "create" THEN "push" ELSE "event"
           r == [task[t] EXCEPT !.todo = rest, !.pc = pc]
<1>0. /\ Typed /\ Busy(t) /\ task[t].pc = "write" /\ task[t] \in TaskRecords
      /\ task[t].todo # << >> /\ task[t].todo \in Seq(AllWrites)
      /\ task[t].op \in Ops /\ task[t].actor \in Users /\ task[t].target \in Users
  BY TaskType DEF MembershipInv, Write, Busy, TaskRecords
<1>1. /\ w \in AllWrites /\ rest \in Seq(AllWrites)
      /\ Writes(task[t].todo) = {w} \cup Writes(rest)
      /\ Len(task[t].todo) > 1 <=> rest # << >>
  BY <1>0, WritesOfTail
<1>2. /\ r \in TaskRecords /\ task' = [task EXCEPT ![t] = r]
      /\ r.pc = pc /\ r.todo = rest
      /\ r.op = task[t].op /\ r.actor = task[t].actor /\ r.target = task[t].target
  BY <1>0, <1>1 DEF Write, TaskRecords, Pcs
<1>3. /\ r.pc = "write" <=> rest # << >>
      /\ r.pc # "idle" /\ Fits(r.pc, r.op)
  BY <1>0, <1>1, <1>2 DEF Fits, Ops
<1>4. /\ \A s \in Stores \ {w.store} : has'[s] = has[s]
      /\ has'[w.store] = IF w.on THEN has[w.store] \cup {w.user} ELSE has[w.store] \ {w.user}
      /\ has' \in [Stores -> SUBSET Users]
  BY <1>0, <1>1 DEF Write, Typed, TypeOK, AllWrites
<1>5. /\ UNCHANGED <<told, clean, node, found, lost>> /\ created' \in BOOLEAN
      /\ told' \in [members : SUBSET Users, admins : SUBSET Users]
  BY <1>0 DEF Write, Typed, TypeOK, others
<1>6. /\ Typed' /\ OwnWrites' /\ task'[t] = r /\ Busy(t)'
      /\ \A t2 \in Tasks \ {t} : task'[t2] = task[t2]
      /\ Subjects(task'[t]) = Subjects(task[t])
  <2>1. Writes(r.todo) \subseteq Writes(task[t].todo)
    BY <1>1, <1>2
  <2>2. /\ Typed' /\ OwnWrites'
        /\ \A t2 \in Tasks \ {t} : task'[t2] = task[t2]
        /\ task'[t] = r
        /\ Busy(t)' => Subjects(task'[t]) = Subjects(task[t])
    <3> HIDE DEF r
    <3> QED
      BY <1>0, <1>2, <1>3, <1>4, <1>5, <2>1, RequestStep
  <2>3. Busy(t)'
    BY <1>3, <2>2 DEF Busy
  <2> QED
    BY <2>2, <2>3
<1>7. /\ w.user \in Subjects(task[t]) /\ (w.on <=> On(task[t])) /\ w.store \in Stores
      /\ w.store \in MemberStores => MemberOp(task[t])
      /\ w.store \in AdminStores => w.user \in AdminSubjects(task[t])
  BY <1>0, <1>1 DEF MembershipInv, OwnWrites, AllWrites
<1>8. /\ AdminSubjects(task'[t]) = AdminSubjects(task[t])
      /\ MemberOp(task'[t]) <=> MemberOp(task[t])
      /\ On(task'[t]) <=> On(task[t])
  BY <1>2, <1>6 DEF AdminSubjects, MemberOp, On
<1>9. ASSUME NEW u \in clean \cap Subjects(task[t]) PROVE Halfway(t, u)'
  <2>0. Halfway(t, u)
    BY <1>0, <1>9 DEF MembershipInv, Settled, About
  <2>1. ASSUME NEW s \in Stores, Coming(t, s, u) PROVE Coming(t, s, u)'
    <3>1. CASE w.store = s /\ w.user = u
      BY <1>4, <1>7, <1>8, <3>1 DEF Coming
    <3>2. CASE ~(w.store = s /\ w.user = u)
      <4>1. u \in has'[s] <=> u \in has[s]
        BY <1>4, <3>2
      <4>2. (\E v \in Writes(task[t].todo) : v.store = s /\ v.user = u)
               => \E v \in Writes(rest) : v.store = s /\ v.user = u
        BY <1>1, <3>2
      <4>3. task'[t].todo = rest
        BY <1>2, <1>6
      <4> QED
        BY <1>8, <2>1, <4>1, <4>2, <4>3 DEF Coming
    <3> QED
      BY <3>1, <3>2
  <2>2. ~MemberOp(task[t]) => \A s \in MemberStores : has'[s] = has[s]
    BY <1>4, <1>7 DEF MemberStores, Stores, RedisSets
  <2>3. u \notin AdminSubjects(task[t]) => \A s \in AdminStores : u \in has'[s] <=> u \in has[s]
    BY <1>4, <1>7 DEF AdminStores, Stores, RedisSets
  <2>4. /\ MemberOp(task[t]) => \A s \in MemberStores : Coming(t, s, u)'
        /\ u \in AdminSubjects(task[t]) => \A s \in AdminStores : Coming(t, s, u)'
    BY <1>0, <2>0, <2>1 DEF Halfway, MemberStores, AdminStores, Stores, RedisSets
  <2>5. /\ ~MemberOp(task[t]) =>
              /\ u \in has'["members"] <=> u \in has'["docMembers"]
              /\ u \in has'["members"] <=> u \in has'["convs"]
              /\ u \in has'["members"] <=> u \in told'.members
        /\ u \notin AdminSubjects(task[t]) => (u \in has'["admins"] <=> u \in has'["docAdmins"])
    BY <1>0, <1>5, <2>0, <2>2, <2>3 DEF Halfway, MemberStores, AdminStores
  <2>6. CASE r.pc = "write"
    BY <1>6, <1>8, <2>4, <2>5, <2>6 DEF Halfway
  <2>7. CASE r.pc # "write"
    <3>1. task'[t].todo = << >> /\ task'[t].pc \in {"push", "event"}
      BY <1>2, <1>3, <1>6, <2>7
    <3>2. \A s \in Stores : Coming(t, s, u)' => (u \in has'[s] <=> On(task[t]))
      BY <1>8, <3>1, NoWrites DEF Coming
    <3>3. Agree(u)'
      BY <2>4, <2>5, <3>2 DEF Agree, MemberStores, AdminStores, Stores, RedisSets
    <3>4. CASE task'[t].pc = "push"
      <4>1. MemberOp(task[t]) /\ On(task[t])
        BY <1>2, <1>3, <1>6, <3>4 DEF Fits, MemberOp, On
      <4> QED
        BY <2>4, <3>2, <3>3, <3>4, <4>1 DEF Halfway, MemberStores, Stores, RedisSets
    <3>5. CASE task'[t].pc = "event"
      BY <1>8, <2>4, <2>5, <3>2, <3>3, <3>5 DEF Halfway, MemberStores, Stores, RedisSets
    <3> QED
      BY <3>1, <3>4, <3>5
  <2> QED
    BY <2>6, <2>7
<1>10. \A u \in clean \ Subjects(task[t]) : \A s \in Stores : u \in has'[s] <=> u \in has[s]
  BY <1>4, <1>7
<1> QED
  BY <1>0, <1>5, <1>6, <1>9, <1>10, TaskStep

\* The event and the answer of a request end it.
LEMMA EndStep ==
    ASSUME MembershipInv, NEW t \in Tasks, Busy(t), Finish(t), UNCHANGED <<has, clean, others>>,
           told' \in [members : SUBSET Users, admins : SUBSET Users], created' \in BOOLEAN,
           \A u \in clean \ Subjects(task[t]) :
              \/ u \in told'.members <=> u \in told.members
              \/ u \in told'.members <=> u \in told.members \cup has["members"],
           \A u \in clean \cap Subjects(task[t]) :
              Agree(u) /\ (u \in has["members"] <=> u \in told'.members)
    PROVE  MembershipInv'
<1>1. /\ UNCHANGED <<clean, node, found, lost>> /\ has' \in [Stores -> SUBSET Users]
  BY DEF others, MembershipInv, Typed, TypeOK
<1>2. /\ Idle \in TaskRecords /\ task' = [task EXCEPT ![t] = Idle]
      /\ Idle.pc = "write" <=> Idle.todo # << >>
  BY IdleType DEF Finish
<1>3. /\ Typed' /\ OwnWrites' /\ task'[t] = Idle
      /\ \A t2 \in Tasks \ {t} : task'[t2] = task[t2]
  BY <1>1, <1>2, RequestStep
<1>4. ~Busy(t)'
  BY <1>3, IdleType DEF Busy
<1>5. \A u : Agree(u)' <=> Agree(u)
  BY DEF Agree
<1> QED
  BY <1>1, <1>3, <1>4, <1>5, TaskStep

LEMMA EventStep == ASSUME MembershipInv, NEW t \in Tasks, Event(t) PROVE MembershipInv'
<1>0. /\ Typed /\ Busy(t) /\ task[t].op \in GroupOps
      /\ task[t].actor \in Users /\ task[t].target \in Users
      /\ Finish(t) /\ UNCHANGED <<has, clean, others>> /\ UNCHANGED created
  BY DEF MembershipInv, Typed, Event, Busy, Fits
<1>1. Subject(task[t]) \in Users /\ Subjects(task[t]) = {Subject(task[t])}
  BY <1>0 DEF Subject, Subjects, GroupOps
<1>2. /\ told' \in [members : SUBSET Users, admins : SUBSET Users]
      /\ told'.members =
            IF MemberOp(task[t])
            THEN IF On(task[t]) THEN told.members \cup {Subject(task[t])}
                 ELSE told.members \ {Subject(task[t])}
            ELSE told.members
  <2>1. told \in [members : SUBSET Users, admins : SUBSET Users]
    BY <1>0 DEF Typed, TypeOK
  <2>2. CASE task[t].op \in {"add", "join"}
    BY <1>1, <2>1, <2>2 DEF Event, MemberOp, On
  <2>3. CASE task[t].op \in {"remove", "leave"}
    BY <1>1, <2>1, <2>3 DEF Event, MemberOp, On
  <2>4. CASE task[t].op = "promote"
    BY <1>1, <2>1, <2>4 DEF Event, MemberOp, On
  <2>5. CASE task[t].op = "demote"
    BY <1>1, <2>1, <2>5 DEF Event, MemberOp, On
  <2> QED
    BY <1>0, <2>2, <2>3, <2>4, <2>5 DEF GroupOps
<1>3. ASSUME NEW u \in clean \cap Subjects(task[t])
      PROVE  Agree(u) /\ (u \in has["members"] <=> u \in told'.members)
  <2>1. Halfway(t, u) /\ task[t].pc = "event" /\ u = Subject(task[t])
    BY <1>0, <1>1 DEF MembershipInv, Settled, About, Event
  <2> QED
    BY <1>2, <2>1 DEF Halfway
<1>4. \A u \in clean \ Subjects(task[t]) : u \in told'.members <=> u \in told.members
  BY <1>1, <1>2
<1>5. created' \in BOOLEAN
  BY <1>0 DEF Typed, TypeOK
<1> QED
  BY <1>0, <1>2, <1>3, <1>4, <1>5, EndStep

LEMMA AnswerStep == ASSUME MembershipInv, NEW t \in Tasks, Answer(t) PROVE MembershipInv'
<1>0. /\ Typed /\ Busy(t) /\ task[t].pc = "push"
      /\ Finish(t) /\ UNCHANGED <<has, clean, others>> /\ created' \in BOOLEAN
      /\ told'.members = told.members \cup has["members"]
  BY DEF MembershipInv, Answer, Busy
<1>1. told' \in [members : SUBSET Users, admins : SUBSET Users]
  BY <1>0 DEF Answer, Typed, TypeOK, Stores, RedisSets
<1>2. ASSUME NEW u \in clean \cap Subjects(task[t])
      PROVE  Agree(u) /\ (u \in has["members"] <=> u \in told'.members)
  BY <1>0 DEF MembershipInv, Settled, About, Halfway
<1> QED
  BY <1>0, <1>1, <1>2, EndStep

-----------------------------------------------------------------------------
(***************************************************************************)
(* New requests, and what happens to nodes and to Redis                    *)
(***************************************************************************)

LEMMA InFlightIsAbout == \A u : InFlight(u) <=> \E t \in Tasks : About(t, u)
BY DEF InFlight, About, Busy

\* A request begins: a clean subject has no other request, and no node is starting.
LEMMA BeginStep ==
    ASSUME MembershipInv, NEW t \in Tasks, NEW q \in Requests, Begin(t, q) PROVE MembershipInv'
<1> DEFINE r == [pc |-> IF q.op = "create" THEN "exists" ELSE "admin",
                 op |-> q.op, actor |-> q.actor, target |-> q.target, todo |-> << >>]
<1>0. /\ Typed /\ ~Busy(t) /\ task' = [task EXCEPT ![t] = r]
      /\ UNCHANGED <<has, node, found, lost, told, created>>
      /\ q.op \in Ops /\ q.actor \in Users /\ q.target \in Users
      /\ clean' \subseteq clean
  BY MembershipAssumption DEF MembershipInv, Begin, Busy, ParametersOK, Ops
<1>1. r \in TaskRecords /\ Fits(r.pc, r.op) /\ r.pc \in {"exists", "admin"}
  BY <1>0 DEF TaskRecords, Pcs, Fits, Ops
<1>2. /\ task'[t] = r /\ \A t2 \in Tasks \ {t} : task'[t2] = task[t2]
      /\ task' \in [Tasks -> TaskRecords]
  BY <1>0, <1>1 DEF Typed
<1>3. Subjects(r) = Subjects(q)
  BY DEF Subjects, Subject
<1>4. \A u \in clean' \cap Subjects(q) :
         /\ ~InFlight(u)
         /\ \A g \in Gateways : node[g] \notin {"exists", "rebuild"}
  BY DEF Begin
<1>5. \A u : /\ About(t, u)' <=> u \in Subjects(q)
             /\ ~About(t, u)
             /\ \A t2 \in Tasks \ {t} : About(t2, u)' <=> About(t2, u)
  BY <1>0, <1>1, <1>2, <1>3 DEF About, Busy
<1>6. Typed'
  BY <1>0, <1>1, <1>2 DEF Typed, TypeOK, Busy, Pcs
<1>7. OwnWrites'
  BY <1>0, <1>2, NoWrites DEF MembershipInv, OwnWrites, Busy
<1>8. Undisturbed'
  BY <1>0, <1>4, <1>5, InFlightIsAbout DEF MembershipInv, Undisturbed, InFlight, About, Busy
<1>9. Alone'
  BY <1>0, <1>4, <1>5, InFlightIsAbout DEF MembershipInv, Alone
<1>10. \A t2 \in Tasks \ {t}, u \in clean' : About(t2, u) => Halfway(t2, u)'
  BY <1>0, <1>2, OthersKept
<1>11. \A u \in clean' \cap Subjects(q) : Halfway(t, u)'
  BY <1>0, <1>1, <1>2, <1>4 DEF MembershipInv, Settled, Halfway, Agree
<1>12. Settled'
  <2> SUFFICES ASSUME NEW u \in clean'
               PROVE  /\ ~InFlight(u)' => Agree(u)' /\ (u \in has'["members"] <=> u \in told'.members)
                      /\ \A t2 \in Tasks : About(t2, u)' => Halfway(t2, u)'
    BY DEF Settled
  <2>1. ~InFlight(u)' => ~InFlight(u)
    BY <1>5 DEF InFlight, About, Busy
  <2>2. ~InFlight(u)' => Agree(u)' /\ (u \in has'["members"] <=> u \in told'.members)
    BY <1>0, <2>1 DEF MembershipInv, Settled, Agree
  <2> QED
    BY <1>5, <1>10, <1>11, <2>2
<1> QED
  BY <1>6, <1>7, <1>8, <1>9, <1>12 DEF MembershipInv

\* The users whose changes a crash interrupts are not clean any more; nobody else's
\* requests end.
LEMMA CrashStep == ASSUME MembershipInv, NEW g \in Gateways, Crash(g) PROVE MembershipInv'
<1>0. /\ Typed /\ UNCHANGED <<has, found, lost, told, created>> /\ clean' \subseteq clean
      /\ node[g] = "up" /\ node' = [node EXCEPT ![g] = "down"]
  BY DEF MembershipInv, Crash
<1>1. /\ task' \in [Tasks -> TaskRecords]
      /\ \A t \in Tasks : task'[t] = IF Home[t] = g THEN Idle ELSE task[t]
  BY <1>0, IdleType DEF Crash, Typed
<1>2. \A t \in Tasks : Busy(t)' => Busy(t) /\ task'[t] = task[t]
  BY <1>1, IdleType DEF Busy
<1>3. \A t \in Tasks, u \in clean' : About(t, u)' <=> About(t, u)
  BY <1>1, <1>2, IdleType DEF About, Busy, Crash
<1>4. \A u \in clean' : InFlight(u)' <=> InFlight(u)
  BY <1>3 DEF InFlight, About, Busy
<1>5. Typed'
  <2>1. node' \in [Gateways -> {"up", "down", "exists", "rebuild"}]
    BY <1>0 DEF Typed, TypeOK
  <2>2. \A t \in Tasks : task'[t].pc \in Pcs /\ (task'[t].pc = "write" <=> task'[t].todo # << >>)
    BY <1>0, <1>1, IdleType, TaskType DEF Typed, TypeOK, Pcs
  <2> QED
    BY <1>0, <1>1, <1>2, <2>1, <2>2 DEF Typed, TypeOK
<1>6. OwnWrites'
  BY <1>2 DEF MembershipInv, OwnWrites
<1>7. Undisturbed'
  <2>1. \A h \in Gateways : node'[h] \in {"exists", "rebuild"} => node[h] = node'[h]
    BY <1>0 DEF Typed, TypeOK
  <2> QED
    BY <1>0, <1>4, <2>1 DEF MembershipInv, Undisturbed
<1>8. Alone'
  BY <1>0, <1>3 DEF MembershipInv, Alone
<1>9. Settled'
  <2> SUFFICES ASSUME NEW u \in clean'
               PROVE  /\ ~InFlight(u)' => Agree(u)' /\ (u \in has'["members"] <=> u \in told'.members)
                      /\ \A t \in Tasks : About(t, u)' => Halfway(t, u)'
    BY DEF Settled
  <2>1. ~InFlight(u)' => Agree(u)' /\ (u \in has'["members"] <=> u \in told'.members)
    BY <1>0, <1>4 DEF MembershipInv, Settled, Agree
  <2>2. ASSUME NEW t \in Tasks, About(t, u)' PROVE Halfway(t, u)'
    <3>1. u \in clean /\ task'[t] = task[t] /\ About(t, u)
      BY <1>0, <1>2, <1>3, <2>2 DEF About
    <3> QED
      BY <1>0, <3>1, OthersKept
  <2> QED
    BY <2>1, <2>2
<1> QED
  BY <1>5, <1>6, <1>7, <1>8, <1>9 DEF MembershipInv

\* The steps of a starting node change nothing about a clean user: what it adds to Redis
\* is what the document says, and so does Redis.
LEMMA StartStep == ASSUME MembershipInv, NEW g \in Gateways, Start(g) PROVE MembershipInv'
<1>0. /\ Typed /\ UNCHANGED <<task, told, created>> /\ clean' \subseteq clean
      /\ has \in [Stores -> SUBSET Users] /\ node \in [Gateways -> {"up", "down", "exists", "rebuild"}]
      /\ found \in [Gateways -> [members : SUBSET Users, admins : SUBSET Users]]
  BY DEF MembershipInv, Typed, TypeOK, Start, StartDocs, StartExists, StartRebuild
<1>1. \A u \in clean', h \in Gateways : node'[h] \in {"exists", "rebuild"} =>
         /\ ~InFlight(u)
         /\ u \in found'[h].members <=> u \in has["docMembers"]
         /\ u \in found'[h].admins <=> u \in has["docAdmins"]
  <2>1. ASSUME StartDocs(g), NEW u \in clean', NEW h \in Gateways, node'[h] \in {"exists", "rebuild"}
        PROVE  /\ ~InFlight(u)
               /\ u \in found'[h].members <=> u \in has["docMembers"]
               /\ u \in found'[h].admins <=> u \in has["docAdmins"]
    <3>1. u \in clean /\ ~InFlight(u)
      BY <2>1 DEF StartDocs
    <3>2. CASE h = g
      BY <1>0, <2>1, <3>1, <3>2 DEF StartDocs
    <3>3. CASE h # g
      BY <1>0, <2>1, <3>1, <3>3 DEF StartDocs, MembershipInv, Undisturbed
    <3> QED
      BY <3>2, <3>3
  <2>2. ASSUME StartExists(g) \/ StartRebuild(g), NEW u \in clean', NEW h \in Gateways,
               node'[h] \in {"exists", "rebuild"}
        PROVE  /\ ~InFlight(u)
               /\ u \in found'[h].members <=> u \in has["docMembers"]
               /\ u \in found'[h].admins <=> u \in has["docAdmins"]
    <3>1. node[h] \in {"exists", "rebuild"} /\ u \in clean /\ UNCHANGED found
      BY <1>0, <2>2 DEF StartExists, StartRebuild
    <3> QED
      BY <3>1 DEF MembershipInv, Undisturbed
  <2> QED
    BY <2>1, <2>2 DEF Start
<1>2. has' \in [Stores -> SUBSET Users]
  BY <1>0 DEF Start, StartDocs, StartExists, StartRebuild, Stores, RedisSets
<1>3. ASSUME NEW u \in clean', NEW s \in Stores PROVE u \in has'[s] <=> u \in has[s]
  <2>1. CASE has' = has
    BY <2>1
  <2>2. CASE StartRebuild(g) /\ has' # has
    <3>1. /\ u \in clean /\ node[g] = "rebuild"
          /\ has' = [has EXCEPT !["members"] = @ \cup found[g].members,
                                !["admins"] = @ \cup found[g].admins,
                                !["convs"] = @ \cup found[g].members]
      BY <1>0, <2>2 DEF StartRebuild
    <3>2. /\ ~InFlight(u)
          /\ u \in found[g].members <=> u \in has["docMembers"]
          /\ u \in found[g].admins <=> u \in has["docAdmins"]
      BY <3>1 DEF MembershipInv, Undisturbed
    <3>3. Agree(u)
      BY <3>1, <3>2 DEF MembershipInv, Settled
    <3> QED
      BY <1>0, <3>1, <3>2, <3>3 DEF Agree, Stores, RedisSets
  <2> QED
    BY <2>1, <2>2 DEF Start, StartDocs, StartExists
<1>4. Typed'
  <2>1. /\ node' \in [Gateways -> {"up", "down", "exists", "rebuild"}]
        /\ lost' \in [Gateways -> BOOLEAN]
        /\ found' \in [Gateways -> [members : SUBSET Users, admins : SUBSET Users]]
    <3>1. lost \in [Gateways -> BOOLEAN]
      BY <1>0 DEF Typed, TypeOK
    <3>2. CASE StartDocs(g)
      BY <1>0, <3>1, <3>2 DEF StartDocs, Stores, RedisSets
    <3>3. CASE StartExists(g)
      <4>1. (has["members"] = {}) \in BOOLEAN
        OBVIOUS
      <4>2. lost' \in [Gateways -> BOOLEAN]
        BY <3>1, <3>3, <4>1, Zenon DEF StartExists
      <4> QED
        BY <1>0, <3>3, <4>2 DEF StartExists
    <3>4. CASE StartRebuild(g)
      BY <1>0, <3>1, <3>4 DEF StartRebuild
    <3> QED
      BY <3>2, <3>3, <3>4 DEF Start
  <2> QED
    BY <1>0, <1>2, <2>1 DEF Typed, TypeOK, Busy
<1>5. OwnWrites'
  BY <1>0 DEF MembershipInv, OwnWrites, Busy
<1>6. \A u : InFlight(u)' <=> InFlight(u)
  BY <1>0 DEF InFlight
<1>7. Undisturbed'
  BY <1>1, <1>3, <1>6 DEF Undisturbed, Stores, RedisSets
<1>8. Alone'
  BY <1>0 DEF MembershipInv, Alone, About, Busy
<1>9. Settled'
  <2> SUFFICES ASSUME NEW u \in clean'
               PROVE  /\ ~InFlight(u)' => Agree(u)' /\ (u \in has'["members"] <=> u \in told'.members)
                      /\ \A t \in Tasks : About(t, u)' => Halfway(t, u)'
    BY DEF Settled
  <2>1. ~InFlight(u)' => Agree(u)' /\ (u \in has'["members"] <=> u \in told'.members)
    BY <1>0, <1>3, <1>6 DEF MembershipInv, Settled, Agree, Stores, RedisSets
  <2>2. ASSUME NEW t \in Tasks, About(t, u)' PROVE Halfway(t, u)'
    <3>1. u \in clean /\ task'[t] = task[t] /\ About(t, u)
      BY <1>0, <2>2 DEF About, Busy
    <3> QED
      BY <1>0, <1>3, <3>1, OthersKept
  <2> QED
    BY <2>1, <2>2
<1> QED
  BY <1>4, <1>5, <1>7, <1>8, <1>9 DEF MembershipInv

LEMMA LossStep == ASSUME MembershipInv, RedisLoss PROVE MembershipInv'
<1>1. /\ clean' = {} /\ UNCHANGED <<task, node, found, lost, told, created>>
      /\ has' \in [Stores -> SUBSET Users]
  BY DEF MembershipInv, Typed, TypeOK, RedisLoss
<1>2. Typed' /\ OwnWrites'
  BY <1>1 DEF MembershipInv, Typed, TypeOK, OwnWrites, Busy
<1> QED
  BY <1>1, <1>2 DEF MembershipInv, Undisturbed, Alone, Settled

-----------------------------------------------------------------------------
(***************************************************************************)
(* The theorems                                                            *)
(***************************************************************************)

\* The parts hold together in every reachable state.
THEOREM MembershipInvariance == Spec => []MembershipInv
<1>1. Init => MembershipInv
  <2> SUFFICES ASSUME Init PROVE MembershipInv
    OBVIOUS
  <2>1. \A t \in Tasks : task[t] = Idle /\ ~Busy(t)
    BY IdleType DEF Init, Busy
  <2>2. \A u : ~InFlight(u)
    BY <2>1 DEF InFlight, Busy
  <2>3. Typed
    BY <2>1, IdleType, MembershipAssumption
       DEF Init, Typed, TypeOK, ParametersOK, NoDoc, Pcs
  <2>4. OwnWrites /\ Alone
    BY <2>1 DEF OwnWrites, Alone, About
  <2>5. Undisturbed
    BY DEF Init, Undisturbed
  <2>6. Settled
    BY <2>1 DEF Init, Settled, Agree, About, Stores, RedisSets
  <2> QED
    BY <2>3, <2>4, <2>5, <2>6 DEF MembershipInv
<1>2. MembershipInv /\ [Next]_vars => MembershipInv'
  <2> SUFFICES ASSUME MembershipInv, [Next]_vars PROVE MembershipInv'
    OBVIOUS
  <2>1. ASSUME NEW t \in Tasks, Step(t) PROVE MembershipInv'
    BY <2>1, DecideSteps, WriteStep, EventStep, AnswerStep DEF Step
  <2>2. ASSUME UNCHANGED vars PROVE MembershipInv'
    BY <2>2 DEF vars, MembershipInv, Typed, TypeOK, OwnWrites, Undisturbed, Alone, Settled,
                InFlight, About, Busy, Halfway, Agree, Coming
  <2> QED
    BY <2>1, <2>2, BeginStep, CrashStep, StartStep, LossStep DEF Next
<1> QED
  BY <1>1, <1>2, PTL DEF Spec

\* The variables keep their types, and a request is where it writes exactly as long as
\* it has something to write.
THEOREM MembershipTypeCorrect == Spec => []TypeOK
<1>1. MembershipInv => TypeOK
  BY DEF MembershipInv, Typed
<1> QED
  BY <1>1, MembershipInvariance, PTL

\* Redis, the users' lists and the document in Mongo agree about every user that no two
\* overlapping changes and no interrupted one were about, whatever happened to the
\* others, however many nodes restarted and filled Redis again
\* (lib/core/storage.js:170-196, 245-270).
THEOREM CleanAgreement == Spec => []CleanUsersAgree
<1>1. MembershipInv => CleanUsersAgree
  BY DEF MembershipInv, Settled, Agree, CleanUsersAgree
<1> QED
  BY <1>1, MembershipInvariance, PTL

\* A client that has heard every event takes such a user for a member exactly if the
\* server does (lib/core/engine.js:113-137).
THEOREM ClientsAreTold == Spec => []EventsTellMembers
<1>1. MembershipInv => EventsTellMembers
  BY DEF MembershipInv, Settled, EventsTellMembers
<1> QED
  BY <1>1, MembershipInvariance, PTL

-----------------------------------------------------------------------------
(***************************************************************************)
(* Membership: a direct conversation that both parties create              *)
(***************************************************************************)

\* Nothing is asked but to create the conversation of A, and nothing fails.
DirectOnly(A) ==
    /\ Founders = {} /\ MaxCrashes = 0 /\ MaxLosses = 0
    /\ \A r \in Requests : r.op = "create" /\ Subjects(r) = A

\* Request t has yet to write u into s.
Pending(t, u, s) == \E w \in Writes(task[t].todo) : w.store = s /\ w.user = u

Begun == created \/ has["members"] # {} \/ \E t \in Tasks : task[t].pc = "push"

\* Once a member is there, every party is in every store or somebody is about to write it;
\* who finds no member writes all of it.
DirectInv(A) ==
    /\ \A t \in Tasks : Busy(t) => task[t].op = "create" /\ Subjects(task[t]) = A
    /\ \A g \in Gateways : node[g] = "up"
    /\ crashes = 0 /\ losses = 0
    /\ \A t \in Tasks : task[t].pc = "write" =>
          \A u \in A, s \in MemberStores : u \in has[s] \/ Pending(t, u, s)
    /\ Begun => \A u \in A, s \in MemberStores :
          u \in has[s] \/ \E t \in Tasks : Pending(t, u, s)

LEMMA DirectStep ==
    ASSUME NEW A \in SUBSET Users, DirectOnly(A), MembershipInv, DirectInv(A), [Next]_vars
    PROVE  DirectInv(A)'
<1>1. /\ \A t \in Tasks : /\ task[t] \in TaskRecords
                          /\ task[t].pc = "write" <=> task[t].todo # << >>
                          /\ task[t].pc # "write" => Writes(task[t].todo) = {}
      /\ \A t \in Tasks : Busy(t) =>
            /\ task[t].op = "create" /\ Subjects(task[t]) = A
            /\ task[t].actor \in Users /\ task[t].target \in Users
            /\ task[t].pc \in {"exists", "write", "push"}
      /\ has \in [Stores -> SUBSET Users] /\ task \in [Tasks -> TaskRecords]
  BY NoWrites DEF MembershipInv, Typed, TypeOK, DirectInv, Fits, GroupOps, TaskRecords, Pcs, Busy
<1>2. ASSUME NEW t \in Tasks, NEW r \in Requests, Begin(t, r)  PROVE DirectInv(A)'
  <2>1. /\ ~Busy(t) /\ r.op = "create" /\ Subjects(r) = A
        /\ UNCHANGED <<has, node, created, crashes, losses>>
        /\ task' = [task EXCEPT ![t] = [pc |-> "exists", op |-> r.op, actor |-> r.actor,
                                        target |-> r.target, todo |-> << >>]]
    BY <1>2 DEF Begin, DirectOnly, Busy
  <2>5. \A x \in Tasks : x # t => task'[x] = task[x]
    BY <1>1, <2>1
  <2>2. task'[t].pc = "exists" /\ Writes(task[t].todo) = {} /\ Writes(task'[t].todo) = {}
    BY <1>1, <2>1, NoWrites DEF Busy
  <2>3. ASSUME NEW x \in Tasks, NEW u \in A, NEW s \in MemberStores
        PROVE  Pending(x, u, s)' <=> Pending(x, u, s)
    BY <2>2, <2>5 DEF Pending
  <2>4. task'[t].op = "create" /\ Subjects(task'[t]) = A
    <3>1. /\ task'[t].op = r.op /\ task'[t].actor = r.actor /\ task'[t].target = r.target
      BY <1>1, <2>1
    <3> QED
      BY <2>1, <3>1 DEF Subjects, Subject
  <2>6. Begun' => Begun
    BY <2>1, <2>2, <2>5 DEF Begun
  <2> QED
    BY <2>1, <2>2, <2>3, <2>4, <2>5, <2>6 DEF DirectInv, Busy
<1>3. ASSUME NEW t \in Tasks, CreateExists(t)  PROVE DirectInv(A)'
  <2>1. /\ Busy(t) /\ task[t].pc = "exists" /\ UNCHANGED <<has, created, node, crashes, losses>>
        /\ \A x \in Tasks : x # t => task'[x] = task[x]
    BY <1>1, <1>3 DEF CreateExists, StartWriting, GoTo, others, Busy
  <2>4. /\ task'[t].op = task[t].op /\ task'[t].actor = task[t].actor
        /\ task'[t].target = task[t].target
    BY <1>1, <1>3 DEF CreateExists, StartWriting, GoTo, TaskRecords
  <2>5. Subjects(task'[t]) = Subjects(task[t])
    BY <2>4 DEF Subjects, Subject
  <2>2. CASE has["members"] = {}
    <3>1. /\ task'[t].pc = "write" /\ task'[t].todo = Change(task[t])
      BY <1>1, <1>3, <2>2 DEF CreateExists, StartWriting, TaskRecords
    <3>2. \A u \in A, s \in MemberStores : Pending(t, u, s)'
      BY <1>1, <2>1, <3>1, ChangeIsComplete DEF Ops, Complete, MemberOp, Pending
    <3>3. \A x \in Tasks, u \in A, s \in MemberStores : Pending(x, u, s) => Pending(x, u, s)'
      BY <2>1, <3>2 DEF Pending
    <3>4. Begun' => Begun
      BY <2>1, <3>1 DEF Begun
    <3> QED
      BY <1>1, <2>1, <2>4, <2>5, <3>1, <3>2, <3>3, <3>4 DEF DirectInv, Busy
  <2>3. CASE has["members"] # {}
    <3>1. task'[t].pc = "push" /\ task'[t].todo = task[t].todo
      BY <1>1, <1>3, <2>3 DEF CreateExists, GoTo, TaskRecords
    <3>2. \A x \in Tasks, u \in A, s \in MemberStores : Pending(x, u, s) <=> Pending(x, u, s)'
      BY <2>1, <3>1 DEF Pending
    <3>3. Begun
      BY <2>3 DEF Begun
    <3> QED
      BY <1>1, <2>1, <2>4, <2>5, <3>1, <3>2, <3>3 DEF DirectInv, Busy
  <2> QED  BY <2>2, <2>3
<1>4. ASSUME NEW t \in Tasks, Write(t)  PROVE DirectInv(A)'
  <2> DEFINE w == Head(task[t].todo)
  <2>1. /\ Busy(t) /\ task[t].pc = "write" /\ UNCHANGED <<created, node, crashes, losses>>
        /\ has' = [has EXCEPT ![w.store] = IF w.on THEN @ \cup {w.user} ELSE @ \ {w.user}]
        /\ \A x \in Tasks : x # t => task'[x] = task[x]
        /\ task'[t].op = task[t].op /\ task'[t].actor = task[t].actor
        /\ task'[t].target = task[t].target
        /\ task'[t].todo = Tail(task[t].todo) /\ task'[t].pc # "idle"
    BY <1>1, <1>4 DEF Write, others, Busy, TaskRecords
  <2>9. Subjects(task'[t]) = Subjects(task[t])
    BY <2>1 DEF Subjects, Subject
  <2>2. w \in AllWrites /\ Writes(task[t].todo) = {w} \cup Writes(task'[t].todo)
    BY <1>1, <2>1, WritesOfTail DEF TaskRecords
  <2>3. w.on
    BY <1>1, <2>1, <2>2 DEF MembershipInv, OwnWrites, On
  <2>4. \A s \in Stores : has[s] \subseteq has'[s]
    BY <1>1, <2>1, <2>2, <2>3 DEF AllWrites
  <2>5. MemberStores \subseteq Stores
    BY DEF MemberStores, Stores, RedisSets
  <2>6. w.user \in has'[w.store]
    BY <1>1, <2>1, <2>2, <2>3 DEF AllWrites
  <2>7. \A u \in A, s \in MemberStores : u \in has'[s] \/ Pending(t, u, s)'
    BY <2>1, <2>2, <2>4, <2>5, <2>6 DEF DirectInv, Pending
  <2>8. \A x \in Tasks, u \in A, s \in MemberStores : x # t =>
           (Pending(x, u, s)' <=> Pending(x, u, s))
    BY <2>1 DEF Pending
  <2> QED
    BY <1>1, <2>1, <2>4, <2>5, <2>7, <2>8, <2>9 DEF DirectInv, Busy
<1>5. ASSUME NEW t \in Tasks, Answer(t)  PROVE DirectInv(A)'
  <2>1. /\ task[t].pc = "push" /\ UNCHANGED <<has, node, crashes, losses>>
        /\ \A x \in Tasks : x # t => task'[x] = task[x]
        /\ task'[t] = Idle
    BY <1>1, <1>5 DEF Answer, Finish, others
  <2>2. Begun
    BY <2>1 DEF Begun
  <2>3. Writes(task[t].todo) = {} /\ Writes(task'[t].todo) = {}
    BY <1>1, <2>1, NoWrites, IdleType
  <2>4. \A x \in Tasks, u \in A, s \in MemberStores : Pending(x, u, s)' <=> Pending(x, u, s)
    BY <2>1, <2>3 DEF Pending
  <2> QED
    BY <2>1, <2>2, <2>4, IdleType DEF DirectInv, Busy
<1>6. ASSUME NEW t \in Tasks, Step(t)  PROVE DirectInv(A)'
  <2>1. ~ReadAdmin(t) /\ ~JoinMember(t) /\ ~JoinCount(t) /\ ~Event(t)
    BY <1>1 DEF ReadAdmin, JoinMember, JoinCount, Event, Busy
  <2> QED
    BY <1>3, <1>4, <1>5, <1>6, <2>1 DEF Step
<1>7. ASSUME NEW g \in Gateways  PROVE ~Crash(g) /\ ~Start(g)
  BY DEF DirectInv, DirectOnly, Crash, Start, StartDocs, StartExists, StartRebuild
<1>8. ~RedisLoss
  BY DEF DirectInv, DirectOnly, RedisLoss
<1>9. CASE UNCHANGED vars
  BY <1>9 DEF vars, DirectInv, Busy, Begun, Pending
<1> QED
  BY <1>2, <1>6, <1>7, <1>8, <1>9 DEF Next

\* Whoever asks, and however often: once a POST was answered and no other is under way, both
\* parties of a direct conversation are members, in Redis, in their own lists and in Mongo
\* (server.js:143-160).
THEOREM CreationsComplete ==
    ASSUME NEW A \in SUBSET Users, DirectOnly(A)
    PROVE  Spec => []CreatedIsComplete
<1>1. Init => DirectInv(A)
  <2> SUFFICES ASSUME Init PROVE DirectInv(A)
    OBVIOUS
  <2>1. \A t \in Tasks : task[t] = Idle /\ ~Busy(t)
    BY IdleType DEF Init, Busy
  <2> QED
    BY <2>1, IdleType DEF Init, DirectInv, DirectOnly, Begun, Stores, RedisSets
<1>2. MembershipInv /\ DirectInv(A) /\ [Next]_vars => DirectInv(A)'
  BY DirectStep
<1>3. MembershipInv /\ DirectInv(A) => CreatedIsComplete
  <2> SUFFICES ASSUME MembershipInv, DirectInv(A), created, Quiet, NEW r \in Requests
               PROVE  {r.actor, r.target} \subseteq
                          has["members"] \cap has["convs"] \cap has["docMembers"]
    BY DEF CreatedIsComplete
  <2>1. \A t \in Tasks : Writes(task[t].todo) = {}
    BY NoWrites DEF Quiet, MembershipInv, Typed, TypeOK
  <2>2. \A u \in A, s \in MemberStores : u \in has[s]
    BY <2>1 DEF DirectInv, Begun, Pending
  <2>3. A = {r.actor, r.target}
    BY DEF DirectOnly, Subjects
  <2> QED
    BY <2>2, <2>3 DEF MemberStores
<1> QED
  BY <1>1, <1>2, <1>3, MembershipInvariance, PTL DEF Spec

-----------------------------------------------------------------------------
(***************************************************************************)
(* Receipts: what is held, and what is ahead                               *)
(***************************************************************************)

\* What a gateway holds was received one frame after the other.
HeldIsFinite == \A g \in Processes : IsFiniteSet(buffer[g]) /\ IsFiniteSet(writing[g])

\* The cursors a, device by device, are not above b.
NotAbove(a, b) == \A d \in Devices, kind \in Kinds : a[d][kind] <= b[d][kind]

\* As long as no process died, nothing in a buffer, under way to Mongo, in Mongo or in
\* the hands of receiptAgg says more than the devices have said.
NothingAhead ==
    deaths = 0 =>
        /\ \A g \in Processes : \A e \in buffer[g] \cup writing[g] : e.n <= heard[e.d][e.kind]
        /\ NotAbove(cursor, heard)
        /\ \A d \in Devices : NotAbove(handler[d].found, heard)

\* The inductive invariant.
ReceiptsInv ==
    ReceiptsTypeOK /\ HeldIsFinite /\ NothingAhead /\ ReceiptsKept /\ TicksAreEarned

-----------------------------------------------------------------------------
(* Cursors.                                                                *)

LEMMA NumbersAreNaturals ==
    /\ Messages \cup {0} \subseteq Nat /\ Messages \subseteq Nat /\ Own \subseteq Nat
    /\ GatewayOf \in [Devices -> Processes] /\ "read" \in Kinds /\ "delivered" \in Kinds
  BY ReceiptsAssumption DEF Kinds

LEMMA CursorIsNatural ==
    ASSUME NEW c \in Cursors, NEW d \in Devices, NEW kind \in Kinds
    PROVE  c[d][kind] \in Messages \cup {0} /\ c[d][kind] \in Nat
  <1>1. c[d] \in [Kinds -> Messages \cup {0}]
    BY DEF Cursors
  <1>2. c[d][kind] \in Messages \cup {0}
    BY <1>1
  <1> QED  BY <1>2, NumbersAreNaturals

LEMMA NoCursors ==
    /\ [d \in Devices |-> NoCursor] \in Cursors
    /\ \A d \in Devices, kind \in Kinds : [x \in Devices |-> NoCursor][d][kind] = 0
  <1>1. NoCursor \in [Kinds -> Messages \cup {0}] /\ \A kind \in Kinds : NoCursor[kind] = 0
    BY DEF NoCursor, Kinds
  <1> QED  BY <1>1 DEF Cursors

\* A cursor is raised and the others stay as they are.
RaisedTo(c, d, kind, n) == [c EXCEPT ![d] = [c[d] EXCEPT ![kind] = Larger(c[d][kind], n)]]

LEMMA CursorRaised ==
    ASSUME NEW c \in Cursors, NEW d \in Devices, NEW kind \in Kinds, NEW n \in Messages
    PROVE  /\ RaisedTo(c, d, kind, n) \in Cursors /\ NotAbove(c, RaisedTo(c, d, kind, n))
           /\ RaisedTo(c, d, kind, n)[d][kind] = Larger(c[d][kind], n)
           /\ n <= RaisedTo(c, d, kind, n)[d][kind]
           /\ \A x \in Devices, k \in Kinds :
                  x # d \/ k # kind => RaisedTo(c, d, kind, n)[x][k] = c[x][k]
  <1> DEFINE c2 == RaisedTo(c, d, kind, n)
             v == Larger(c[d][kind], n)
             row == [c[d] EXCEPT ![kind] = v]
  <1>1. c[d] \in [Kinds -> Messages \cup {0}] /\ c[d][kind] \in Messages \cup {0}
        /\ c[d][kind] \in Nat /\ n \in Nat
    BY CursorIsNatural, NumbersAreNaturals DEF Cursors
  <1>2. v \in Messages \cup {0} /\ v \in Nat /\ c[d][kind] <= v /\ n <= v
    BY <1>1 DEF Larger
  <1>3. c2 = [c EXCEPT ![d] = row]
    BY DEF RaisedTo
  <1> HIDE DEF v, c2
  <1>4. /\ row \in [Kinds -> Messages \cup {0}] /\ row[kind] = v
        /\ \A k \in Kinds : k # kind => row[k] = c[d][k]
    BY <1>1, <1>2
  <1> HIDE DEF row
  <1>5. c2 \in Cursors /\ c2[d] = row /\ \A x \in Devices : x # d => c2[x] = c[x]
    BY <1>3, <1>4 DEF Cursors
  <1>6. \A x \in Devices, k \in Kinds : x # d \/ k # kind => c2[x][k] = c[x][k]
    BY <1>4, <1>5
  <1>7. c2[d][kind] = v
    BY <1>4, <1>5
  <1>8. NotAbove(c, c2)
    <2> SUFFICES ASSUME NEW x \in Devices, NEW k \in Kinds  PROVE c[x][k] <= c2[x][k]
      BY DEF NotAbove
    <2>1. c[x][k] \in Nat
      BY CursorIsNatural
    <2>2. CASE x = d /\ k = kind
      BY <1>2, <1>7, <2>2
    <2>3. CASE x # d \/ k # kind
      BY <1>6, <2>1, <2>3
    <2> QED  BY <2>2, <2>3
  <1> QED  BY <1>2, <1>5, <1>6, <1>7, <1>8 DEF v, c2

LEMMA NotAboveTrans ==
    ASSUME NEW a \in Cursors, NEW b \in Cursors, NEW c \in Cursors, NotAbove(a, b), NotAbove(b, c)
    PROVE  NotAbove(a, c)
  <1> SUFFICES ASSUME NEW d \in Devices, NEW kind \in Kinds  PROVE a[d][kind] <= c[d][kind]
    BY DEF NotAbove
  <1>1. a[d][kind] <= b[d][kind] /\ b[d][kind] <= c[d][kind]
    BY DEF NotAbove
  <1>2. a[d][kind] \in Nat /\ b[d][kind] \in Nat /\ c[d][kind] \in Nat
    BY CursorIsNatural
  <1> QED  BY <1>1, <1>2

LEMMA EntryFields ==
    ASSUME NEW e \in Entries
    PROVE  e.d \in Devices /\ e.kind \in Kinds /\ e.n \in Messages /\ e.n \in Nat
  BY NumbersAreNaturals DEF Entries

\* A finite set of numbers that is not empty has a largest member.
LEMMA LargestExists ==
    ASSUME NEW S \in SUBSET Nat, IsFiniteSet(S), S # {}
    PROVE  \E n \in S : \A m \in S : m <= n
  <1> DEFINE Up(n) == {m \in S : m > n}
             T == {Up(n) : n \in S}
             R == StrictSubsetOrdering(S)
  <1>1. T \subseteq FiniteSubsetsOf(S) /\ T # {}
    <2>1. \A n \in S : Up(n) \in SUBSET S /\ IsFiniteSet(Up(n))
      BY FS_Subset
    <2> QED  BY <2>1 DEF FiniteSubsetsOf
  <1>2. IsWellFoundedOn(R, FiniteSubsetsOf(S))
    BY FS_StrictSubsetOrderingWellFounded
  <1>3. \E x \in T : \A y \in T : <<y, x>> \notin R
    <2> HIDE DEF T, R
    <2> QED  BY <1>1, <1>2, WFMin
  <1>4. PICK n \in S : \A y \in T : <<y, Up(n)>> \notin R
    BY <1>3
  <1>5. ASSUME NEW m \in S, m > n  PROVE FALSE
    <2>1. /\ Up(m) \in SUBSET S /\ Up(n) \in SUBSET S /\ Up(m) \in T
          /\ Up(m) \subseteq Up(n) /\ m \in Up(n) /\ m \notin Up(m)
      <3>1. \A x \in S : x > m => x > n
        BY <1>5
      <3>2. ~(m > m)
        OBVIOUS
      <3> QED  BY <1>5, <3>1, <3>2
    <2> HIDE DEF Up, T
    <2>2. <<Up(m), Up(n)>> \in R
      BY <2>1 DEF StrictSubsetOrdering
    <2> QED  BY <1>4, <2>1, <2>2
  <1>6. \A m \in S : m <= n
    BY <1>5
  <1> QED  BY <1>6

-----------------------------------------------------------------------------
(* The types.                                                              *)

Handlers == [pc : {"idle", "find", "count"}, kind : Kinds, n : Messages \cup {0}, found : Cursors]

LEMMA IdleHandler == NoReceipt \in Handlers /\ NoReceipt.found = [d \in Devices |-> NoCursor]
  BY NoCursors DEF NoReceipt, Handlers, Kinds

LEMMA InitInv == ASSUME ReceiptsInit PROVE ReceiptsInv
  <1>1. ReceiptsTypeOK
    <2>1. /\ DOMAIN buffer = Processes /\ DOMAIN writing = Processes
          /\ \A g \in Processes : buffer[g] = {} /\ writing[g] = {}
          /\ status \in [Own -> {"sent", "delivered", "read"}] /\ receipts \in Nat /\ deaths \in Nat
      BY DEF ReceiptsInit
    <2>2. timer \in [Processes -> BOOLEAN]
      BY Zenon DEF ReceiptsInit
    <2>3. cursor \in Cursors /\ heard \in Cursors
      BY NoCursors DEF ReceiptsInit
    <2>4. handler \in [Devices -> Handlers]
      BY IdleHandler DEF ReceiptsInit
    <2>5. \A g \in Processes :
              /\ buffer[g] \subseteq Entries /\ writing[g] \subseteq Entries
              /\ \A e, f \in buffer[g] : e.d = f.d /\ e.kind = f.kind => e = f
              /\ buffer[g] # {} => timer[g]
      BY <2>1
    <2> QED  BY <2>1, <2>2, <2>3, <2>4, <2>5, Zenon DEF ReceiptsTypeOK, Handlers
  <1>2. HeldIsFinite
    BY FS_EmptySet DEF ReceiptsInit, HeldIsFinite
  <1>3. NothingAhead
    <2>1. \A d \in Devices, kind \in Kinds : 0 <= heard[d][kind]
      BY NoCursors DEF ReceiptsInit
    <2>2. \A d \in Devices : handler[d].found = [x \in Devices |-> NoCursor]
      BY IdleHandler DEF ReceiptsInit
    <2>3. NotAbove([d \in Devices |-> NoCursor], heard)
      BY <2>1, NoCursors DEF NotAbove
    <2> QED  BY <2>2, <2>3 DEF NothingAhead, ReceiptsInit
  <1>4. ReceiptsKept
    BY NoCursors DEF ReceiptsKept, ReceiptsInit
  <1>5. TicksAreEarned
    BY DEF TicksAreEarned, ReceiptsInit
  <1> QED  BY <1>1, <1>2, <1>3, <1>4, <1>5 DEF ReceiptsInv

\* The types, in the form the steps use them.
LEMMA TypeParts ==
    ReceiptsTypeOK <=>
        /\ DOMAIN buffer = Processes /\ DOMAIN writing = Processes
        /\ \A g \in Processes :
              /\ buffer[g] \subseteq Entries /\ writing[g] \subseteq Entries
              /\ \A e, f \in buffer[g] : e.d = f.d /\ e.kind = f.kind => e = f
              /\ buffer[g] # {} => timer[g]
        /\ timer \in [Processes -> BOOLEAN]
        /\ cursor \in Cursors /\ heard \in Cursors
        /\ handler \in [Devices -> Handlers]
        /\ status \in [Own -> {"sent", "delivered", "read"}]
        /\ receipts \in Nat /\ deaths \in Nat
  BY Zenon DEF ReceiptsTypeOK, Handlers

LEMMA TypePartsNext ==
    ReceiptsTypeOK' <=>
        /\ DOMAIN buffer' = Processes /\ DOMAIN writing' = Processes
        /\ \A g \in Processes :
              /\ buffer'[g] \subseteq Entries /\ writing'[g] \subseteq Entries
              /\ \A e, f \in buffer'[g] : e.d = f.d /\ e.kind = f.kind => e = f
              /\ buffer'[g] # {} => timer'[g]
        /\ timer' \in [Processes -> BOOLEAN]
        /\ cursor' \in Cursors /\ heard' \in Cursors
        /\ handler' \in [Devices -> Handlers]
        /\ status' \in [Own -> {"sent", "delivered", "read"}]
        /\ receipts' \in Nat /\ deaths' \in Nat
  BY Zenon DEF ReceiptsTypeOK, Handlers

\* A step that leaves what the gateways hold, the cursors and what was said.
LEMMA SameReceipts ==
    ASSUME ReceiptsKept, HeldIsFinite, UNCHANGED <<buffer, writing, cursor, heard>>
    PROVE  ReceiptsKept' /\ HeldIsFinite'
  BY DEF ReceiptsKept, HeldIsFinite

\* Who has seen a message has seen it for good, while no process dies.
LEMMA SeenStays ==
    ASSUME ReceiptsTypeOK, heard' \in Cursors, NotAbove(heard, heard'), TicksAreEarned,
           UNCHANGED status, deaths' = 0 => deaths = 0
    PROVE  TicksAreEarned'
  <1> SUFFICES ASSUME deaths' = 0, NEW m \in Own, status[m] # "sent"
               PROVE  Cardinality(SeenBy(m, status[m])') >= Cardinality(Members) - 1
    BY DEF TicksAreEarned, SeenBy
  <1> DEFINE kind == status[m]
             S == SeenBy(m, kind)
             S2 == {u \in Members : \E d \in Devices : UserOf[d] = u /\
                        (heard'[d].read >= m \/ (kind = "delivered" /\ heard'[d].delivered >= m))}
  <1>1. Cardinality(S) >= Cardinality(Members) - 1
    BY DEF TicksAreEarned
  <1>2. \A d \in Devices : /\ heard[d].read \in Nat /\ heard'[d].read \in Nat
                           /\ heard[d].delivered \in Nat /\ heard'[d].delivered \in Nat
                           /\ heard[d].read <= heard'[d].read
                           /\ heard[d].delivered <= heard'[d].delivered
    BY CursorIsNatural, NumbersAreNaturals, TypeParts DEF NotAbove
  <1>3. m \in Nat
    BY NumbersAreNaturals
  <1>4. \A d \in Devices : /\ heard[d].read >= m => heard'[d].read >= m
                           /\ heard[d].delivered >= m => heard'[d].delivered >= m
    BY <1>2, <1>3
  <1>5. S \in SUBSET S2 /\ S2 \in SUBSET Members
    BY <1>4 DEF SeenBy
  <1>6. SeenBy(m, kind)' = S2
    BY DEF SeenBy
  <1> HIDE DEF S, S2
  <1>7. IsFiniteSet(S2) /\ Cardinality(S) <= Cardinality(S2)
    BY <1>5, FS_Subset, ReceiptsAssumption
  <1>8. Cardinality(S) \in Nat /\ Cardinality(S2) \in Nat /\ Cardinality(Members) \in Nat
    BY <1>5, <1>7, FS_Subset, FS_CardinalityType, ReceiptsAssumption
  <1> QED  BY <1>1, <1>6, <1>7, <1>8

LEMMA BufferGrows ==
    ASSUME NEW buf \in SUBSET Entries, NEW e \in Entries, IsFiniteSet(buf),
           \A a, b \in buf : a.d = b.d /\ a.kind = b.kind => a = b
    PROVE  /\ Buffered(buf, e) \in SUBSET Entries /\ IsFiniteSet(Buffered(buf, e))
           /\ Buffered(buf, e) \subseteq buf \cup {e}
           /\ \A a, b \in Buffered(buf, e) : a.d = b.d /\ a.kind = b.kind => a = b
           /\ \E a \in Buffered(buf, e) : a.d = e.d /\ a.kind = e.kind /\ a.n >= e.n
           /\ \A a \in buf : \E b \in Buffered(buf, e) : b.d = a.d /\ b.kind = a.kind /\ b.n >= a.n
  <1>1. \A a \in Entries : a.n \in Nat
    BY EntryFields
  <1>2. CASE \E f \in buf : f.d = e.d /\ f.kind = e.kind /\ f.n >= e.n
    <2>1. Buffered(buf, e) = buf
      BY <1>2 DEF Buffered
    <2>2. \A a \in buf : a.n >= a.n
      BY <1>1
    <2> QED  BY <1>2, <2>1, <2>2
  <1>3. CASE ~\E f \in buf : f.d = e.d /\ f.kind = e.kind /\ f.n >= e.n
    <2> DEFINE rest == {f \in buf : f.d # e.d \/ f.kind # e.kind}
    <2>1. Buffered(buf, e) = rest \cup {e}
      BY <1>3 DEF Buffered
    <2>2. IsFiniteSet(rest \cup {e})
      BY FS_Subset, FS_AddElement
    <2>3. ASSUME NEW a \in buf
          PROVE  \E b \in rest \cup {e} : b.d = a.d /\ b.kind = a.kind /\ b.n >= a.n
      <3>1. a.n \in Nat /\ e.n \in Nat
        BY <1>1
      <3>2. CASE a.d = e.d /\ a.kind = e.kind
        <4>1. e.n >= a.n
          BY <1>3, <3>1, <3>2
        <4> QED  BY <3>2, <4>1
      <3>3. CASE a.d # e.d \/ a.kind # e.kind
        BY <3>1, <3>3
      <3> QED  BY <3>2, <3>3
    <2>4. e.n >= e.n
      BY <1>1
    <2> QED  BY <2>1, <2>2, <2>3, <2>4
  <1> QED  BY <1>2, <1>3

-----------------------------------------------------------------------------
(* The steps.                                                              *)

LEMMA ReceiveStep ==
    ASSUME ReceiptsInv, NEW d \in Devices, NEW kind \in Kinds, NEW n \in Messages,
           Receive(d, kind, n)
    PROVE  ReceiptsInv'
  <1> DEFINE g == GatewayOf[d]
             e == [d |-> d, kind |-> kind, n |-> n]
             new == Buffered(buffer[g], e)
             r == [NoReceipt EXCEPT !.pc = "find", !.kind = kind, !.n = n]
  <1>1. /\ buffer' = [buffer EXCEPT ![g] = new]
        /\ timer' = [timer EXCEPT ![g] = @ \/ new # buffer[g]]
        /\ heard' = [heard EXCEPT ![d][kind] = Larger(@, n)]
        /\ handler' = [handler EXCEPT ![d] = r]
        /\ receipts' = receipts + 1
        /\ UNCHANGED <<writing, cursor, status, deaths>>
    BY DEF Receive
  <1>2. /\ g \in Processes /\ e \in Entries /\ e.d = d /\ e.kind = kind /\ e.n = n
    BY NumbersAreNaturals DEF Entries
  <1>3. /\ ReceiptsTypeOK /\ HeldIsFinite /\ NothingAhead /\ ReceiptsKept /\ TicksAreEarned
        /\ heard \in Cursors /\ cursor \in Cursors /\ handler \in [Devices -> Handlers]
        /\ buffer[g] \subseteq Entries /\ IsFiniteSet(buffer[g])
        /\ \A a, b \in buffer[g] : a.d = b.d /\ a.kind = b.kind => a = b
    BY <1>2, TypeParts DEF ReceiptsInv, HeldIsFinite
  <1> HIDE DEF e
  <1>4. /\ new \in SUBSET Entries /\ IsFiniteSet(new) /\ new \subseteq buffer[g] \cup {e}
        /\ \A a, b \in new : a.d = b.d /\ a.kind = b.kind => a = b
        /\ \E a \in new : a.d = d /\ a.kind = kind /\ a.n >= n
        /\ \A a \in buffer[g] : \E b \in new : b.d = a.d /\ b.kind = a.kind /\ b.n >= a.n
    <2> DEFINE buf == buffer[g]
    <2>1. /\ buf \in SUBSET Entries /\ IsFiniteSet(buf)
          /\ \A a, b \in buf : a.d = b.d /\ a.kind = b.kind => a = b
      BY <1>3
    <2> HIDE DEF buf
    <2>2. /\ Buffered(buf, e) \in SUBSET Entries /\ IsFiniteSet(Buffered(buf, e))
          /\ Buffered(buf, e) \subseteq buf \cup {e}
          /\ \A a, b \in Buffered(buf, e) : a.d = b.d /\ a.kind = b.kind => a = b
          /\ \E a \in Buffered(buf, e) : a.d = e.d /\ a.kind = e.kind /\ a.n >= e.n
          /\ \A a \in buf : \E b \in Buffered(buf, e) : b.d = a.d /\ b.kind = a.kind /\ b.n >= a.n
      BY <1>2, <2>1, BufferGrows
    <2> QED  BY <1>2, <2>2 DEF buf
  <1>5. /\ heard' \in Cursors /\ NotAbove(heard, heard')
        /\ heard'[d][kind] = Larger(heard[d][kind], n) /\ n <= heard'[d][kind]
        /\ \A x \in Devices, k \in Kinds : x # d \/ k # kind => heard'[x][k] = heard[x][k]
    <2>1. heard' = RaisedTo(heard, d, kind, n)
      BY <1>1 DEF RaisedTo
    <2> QED  BY <1>3, <2>1, CursorRaised
  <1>6. r \in Handlers /\ r.found = [x \in Devices |-> NoCursor]
    BY NoCursors DEF NoReceipt, Handlers
  <1> HIDE DEF g, new, r
  <1>7. /\ buffer'[g] = new /\ \A h \in Processes : h # g => buffer'[h] = buffer[h]
        /\ DOMAIN buffer' = Processes
    BY <1>1, <1>2, <1>3, TypeParts
  <1>8. /\ timer' \in [Processes -> BOOLEAN] /\ (new # buffer[g] => timer'[g])
        /\ \A h \in Processes : timer[h] => timer'[h]
    <2>1. timer \in [Processes -> BOOLEAN]
      BY <1>3, TypeParts
    <2>2. timer' = [h \in Processes |-> IF h = g THEN timer[g] \/ new # buffer[g] ELSE timer[h]]
      BY <1>1, <2>1
    <2> QED  BY <1>2, <2>1, <2>2, Zenon
  <1>9. /\ handler' \in [Devices -> Handlers] /\ handler'[d] = r
        /\ \A x \in Devices : x # d => handler'[x] = handler[x]
    BY <1>1, <1>3, <1>6
  <1>10. ReceiptsTypeOK'
    <2>1. ASSUME NEW h \in Processes
          PROVE  /\ buffer'[h] \subseteq Entries /\ writing'[h] \subseteq Entries
                 /\ \A a, b \in buffer'[h] : a.d = b.d /\ a.kind = b.kind => a = b
                 /\ buffer'[h] # {} => timer'[h]
      <3>1. /\ buffer[h] \subseteq Entries /\ writing[h] \subseteq Entries
            /\ \A a, b \in buffer[h] : a.d = b.d /\ a.kind = b.kind => a = b
            /\ buffer[h] # {} => timer[h]
        BY <1>3, TypeParts
      <3>2. CASE h = g
        BY <1>1, <1>4, <1>7, <1>8, <3>1, <3>2
      <3>3. CASE h # g
        BY <1>1, <1>7, <1>8, <3>1, <3>3
      <3> QED  BY <3>2, <3>3
    <2>2. receipts' \in Nat /\ deaths' \in Nat /\ cursor' \in Cursors /\ DOMAIN writing' = Processes
          /\ status' \in [Own -> {"sent", "delivered", "read"}]
      BY <1>1, <1>3, TypeParts
    <2> QED  BY <1>5, <1>7, <1>8, <1>9, <2>1, <2>2, TypePartsNext, Zenon
  <1>11. HeldIsFinite'
    BY <1>1, <1>3, <1>4, <1>7 DEF HeldIsFinite
  <1>12. NothingAhead'
    <2> SUFFICES ASSUME deaths = 0  PROVE NothingAhead'
      BY <1>1 DEF NothingAhead
    <2>1. /\ \A h \in Processes : \A a \in buffer[h] \cup writing[h] : a.n <= heard[a.d][a.kind]
          /\ NotAbove(cursor, heard) /\ \A x \in Devices : NotAbove(handler[x].found, heard)
      BY <1>3 DEF NothingAhead
    <2>2. ASSUME NEW a \in Entries, a.n <= heard[a.d][a.kind]
          PROVE  a.n <= heard'[a.d][a.kind]
      <3>1. /\ a.n \in Nat /\ heard[a.d][a.kind] \in Nat /\ heard'[a.d][a.kind] \in Nat
            /\ heard[a.d][a.kind] <= heard'[a.d][a.kind]
        BY <1>3, <1>5, EntryFields, CursorIsNatural DEF NotAbove
      <3> QED  BY <2>2, <3>1
    <2>3. ASSUME NEW h \in Processes, NEW a \in buffer'[h] \cup writing'[h]
          PROVE  a.n <= heard'[a.d][a.kind]
      <3>1. CASE a \in buffer[h] \cup writing[h]
        <4>1. a \in Entries
          BY <1>3, <3>1, TypeParts
        <4> QED  BY <2>1, <2>2, <3>1, <4>1
      <3>2. CASE a = e
        BY <1>2, <1>5, <3>2
      <3> QED  BY <1>1, <1>4, <1>7, <2>3, <3>1, <3>2
    <2>4. NotAbove(cursor', heard')
      BY <1>1, <1>3, <1>5, <2>1, NotAboveTrans
    <2>5. ASSUME NEW x \in Devices  PROVE NotAbove(handler'[x].found, heard')
      <3>1. CASE x = d
        <4>1. \A y \in Devices, k \in Kinds : 0 <= heard'[y][k]
          BY <1>5, CursorIsNatural
        <4> QED  BY <1>6, <1>9, <3>1, <4>1, NoCursors DEF NotAbove
      <3>2. CASE x # d
        <4>1. handler[x].found \in Cursors
          BY <1>3 DEF Handlers
        <4> QED  BY <1>3, <1>5, <1>9, <2>1, <3>2, <4>1, NotAboveTrans
      <3> QED  BY <3>1, <3>2
    <2> QED  BY <2>3, <2>4, <2>5 DEF NothingAhead
  <1>13. ReceiptsKept'
    <2> SUFFICES ASSUME NEW x \in Devices, NEW k \in Kinds, heard'[x][k] > cursor'[x][k]
                 PROVE  \E a \in buffer'[GatewayOf[x]] \cup writing'[GatewayOf[x]] :
                            a.d = x /\ a.kind = k /\ a.n >= heard'[x][k]
      BY DEF ReceiptsKept
    <2>1. GatewayOf[x] \in Processes /\ heard[x][k] \in Nat /\ cursor[x][k] \in Nat /\ n \in Nat
      BY <1>3, CursorIsNatural, NumbersAreNaturals
    <2>2. CASE heard[x][k] = heard'[x][k]
      <3>1. PICK a \in buffer[GatewayOf[x]] \cup writing[GatewayOf[x]] :
                a.d = x /\ a.kind = k /\ a.n >= heard[x][k]
        BY <1>1, <1>3, <2>2 DEF ReceiptsKept
      <3>2. CASE a \in writing[GatewayOf[x]] \/ GatewayOf[x] # g
        BY <1>1, <1>7, <2>1, <2>2, <3>1, <3>2
      <3>3. CASE a \in buffer[g] /\ GatewayOf[x] = g
        <4>1. PICK b \in new : b.d = a.d /\ b.kind = a.kind /\ b.n >= a.n
          BY <1>4, <3>3
        <4>2. b.n \in Nat /\ a.n \in Nat
          BY <1>3, <1>4, <3>3, <4>1, EntryFields
        <4>3. b.n >= heard'[x][k]
          BY <2>1, <2>2, <3>1, <4>1, <4>2
        <4> QED  BY <1>7, <3>1, <3>3, <4>1, <4>3
      <3> QED  BY <3>1, <3>2, <3>3
    <2>3. CASE heard[x][k] # heard'[x][k]
      <3>1. x = d /\ k = kind
        BY <1>5, <2>3
      <3>2. heard'[x][k] = n
        BY <1>5, <2>1, <2>3, <3>1 DEF Larger
      <3>3. GatewayOf[x] = g
        BY <3>1 DEF g
      <3> QED  BY <1>4, <1>7, <3>1, <3>2, <3>3
    <2> QED  BY <2>2, <2>3
  <1>14. TicksAreEarned'
    BY <1>1, <1>3, <1>5, SeenStays
  <1> QED  BY <1>10, <1>11, <1>12, <1>13, <1>14 DEF ReceiptsInv

\* A step of receiptAgg: only the handler and perhaps the author's view change.
LEMMA HandlerStep ==
    ASSUME ReceiptsInv, NEW d \in Devices, NEW r \in Handlers,
           handler' = [handler EXCEPT ![d] = r],
           UNCHANGED <<buffer, timer, writing, cursor, heard, receipts, deaths>>,
           status' \in [Own -> {"sent", "delivered", "read"}],
           deaths = 0 => NotAbove(r.found, heard)
    PROVE  ReceiptsTypeOK' /\ HeldIsFinite' /\ NothingAhead' /\ ReceiptsKept'
  <1>1. ReceiptsTypeOK /\ HeldIsFinite /\ NothingAhead /\ ReceiptsKept
        /\ handler \in [Devices -> Handlers]
    BY TypeParts DEF ReceiptsInv
  <1>2. /\ handler' \in [Devices -> Handlers] /\ handler'[d] = r
        /\ \A x \in Devices : x # d => handler'[x] = handler[x]
    BY <1>1
  <1>3. ReceiptsTypeOK'
    BY <1>1, <1>2, TypeParts, TypePartsNext
  <1>4. NothingAhead'
    <2> SUFFICES ASSUME deaths = 0  PROVE NothingAhead'
      BY DEF NothingAhead
    <2>1. \A x \in Devices : NotAbove(handler'[x].found, heard')
      BY <1>1, <1>2 DEF NothingAhead
    <2> QED  BY <1>1, <2>1 DEF NothingAhead
  <1> QED  BY <1>1, <1>3, <1>4, SameReceipts

LEMMA FindStep ==
    ASSUME ReceiptsInv, NEW d \in Devices, Find(d)
    PROVE  ReceiptsInv'
  <1> DEFINE q == [handler[d] EXCEPT !.pc = "count"]
             r == [q EXCEPT !.found = cursor]
  <1>1. /\ handler \in [Devices -> Handlers] /\ cursor \in Cursors /\ heard \in Cursors
        /\ handler[d] \in Handlers /\ status \in [Own -> {"sent", "delivered", "read"}]
        /\ ReceiptsTypeOK /\ NothingAhead /\ TicksAreEarned
    BY TypeParts DEF ReceiptsInv
  <1>2. q \in Handlers
    BY <1>1 DEF Handlers
  <1>3. handler' = [handler EXCEPT ![d] = r]
    <2>1. handler' = [[handler EXCEPT ![d] = q] EXCEPT ![d].found = cursor]
      BY DEF Find
    <2>2. [handler EXCEPT ![d] = q] \in [Devices -> Handlers] /\ [handler EXCEPT ![d] = q][d] = q
          /\ \A x \in Devices : x # d => [handler EXCEPT ![d] = q][x] = handler[x]
      BY <1>1, <1>2
    <2> DEFINE h == [handler EXCEPT ![d] = q]
    <2>3. handler' = [h EXCEPT ![d] = [h[d] EXCEPT !.found = cursor]]
      BY <2>1
    <2> HIDE DEF h
    <2>4. handler' = [h EXCEPT ![d] = r]
      BY <2>2, <2>3 DEF h
    <2> HIDE DEF q, r
    <2> QED  BY <1>1, <2>4 DEF h
  <1> HIDE DEF q
  <1>4. r \in Handlers /\ r.found = cursor
    BY <1>1, <1>2 DEF Handlers
  <1>5. UNCHANGED <<buffer, timer, writing, cursor, status, heard, receipts, deaths>>
    BY DEF Find
  <1>6. deaths = 0 => NotAbove(r.found, heard)
    BY <1>1, <1>4 DEF NothingAhead
  <1> HIDE DEF r
  <1>7. ReceiptsTypeOK' /\ HeldIsFinite' /\ NothingAhead' /\ ReceiptsKept'
    BY <1>1, <1>3, <1>4, <1>5, <1>6, HandlerStep
  <1>8. \A x \in Devices, k \in Kinds : heard[x][k] <= heard[x][k]
    BY <1>1, CursorIsNatural
  <1>9. TicksAreEarned'
    BY <1>1, <1>5, <1>8, SeenStays DEF NotAbove
  <1> QED  BY <1>7, <1>9 DEF ReceiptsInv

\* What receiptAgg counts are members who have really seen the message, and every earlier one.
LEMMA CountedHaveSeen ==
    ASSUME heard \in Cursors, NEW cur, NEW kind \in Kinds, NEW n \in Nat, NEW m \in Nat, m <= n,
           \A d \in Devices, k \in Kinds : cur[d][k] \in Nat /\ cur[d][k] <= heard[d][k]
    PROVE  /\ Counted(cur, kind, n) <= Cardinality(SeenBy(m, kind))
           /\ Counted(cur, kind, n) \in Nat /\ Cardinality(SeenBy(m, kind)) \in Nat
  <1> DEFINE C == {u \in Members : \E d \in Devices :
                      UserOf[d] = u /\ (cur[d].read >= n \/ (kind = "delivered" /\ cur[d].delivered >= n))}
             S == SeenBy(m, kind)
  <1>1. Counted(cur, kind, n) = Cardinality(C)
    BY DEF Counted
  <1>2. \A d \in Devices : /\ cur[d].read \in Nat /\ cur[d].delivered \in Nat
                           /\ heard[d].read \in Nat /\ heard[d].delivered \in Nat
                           /\ cur[d].read <= heard[d].read /\ cur[d].delivered <= heard[d].delivered
    BY NumbersAreNaturals, CursorIsNatural
  <1>3. \A d \in Devices : /\ cur[d].read >= n => heard[d].read >= m
                           /\ cur[d].delivered >= n => heard[d].delivered >= m
    BY <1>2
  <1>4. C \in SUBSET S /\ S \in SUBSET Members
    BY <1>3 DEF SeenBy
  <1> HIDE DEF C, S
  <1>5. IsFiniteSet(S) /\ IsFiniteSet(C) /\ Cardinality(C) <= Cardinality(S)
    BY <1>4, FS_Subset, ReceiptsAssumption
  <1>6. Cardinality(C) \in Nat /\ Cardinality(S) \in Nat
    BY <1>5, FS_CardinalityType
  <1> QED  BY <1>1, <1>5, <1>6 DEF S

LEMMA MergedNotAbove ==
    ASSUME ReceiptsInv, deaths = 0, NEW d \in Devices
    PROVE  LET cur == Merged(GatewayOf[d], handler[d].found)
           IN  \A x \in Devices, k \in Kinds : cur[x][k] \in Nat /\ cur[x][k] <= heard[x][k]
  <1> DEFINE g == GatewayOf[d]
             known == handler[d].found
             cur == Merged(g, known)
  <1> SUFFICES ASSUME NEW x \in Devices, NEW k \in Kinds
               PROVE  cur[x][k] \in Nat /\ cur[x][k] <= heard[x][k]
    OBVIOUS
  <1>1. /\ g \in Processes /\ known \in Cursors /\ heard \in Cursors
        /\ buffer[g] \subseteq Entries
    BY NumbersAreNaturals, TypeParts DEF ReceiptsInv, Handlers
  <1>2. /\ \A e \in buffer[g] : e.n <= heard[e.d][e.kind]
        /\ known[x][k] <= heard[x][k]
    BY <1>1 DEF ReceiptsInv, NothingAhead, NotAbove
  <1>3. known[x][k] \in Nat /\ heard[x][k] \in Nat
    BY <1>1, CursorIsNatural
  <1> DEFINE entries == {e \in buffer[g] : e.d = x /\ e.kind = k}
             top == CHOOSE e \in entries : TRUE
  <1>4. cur[x][k] = IF entries = {} THEN known[x][k] ELSE Larger(known[x][k], top.n)
    BY DEF Merged
  <1>5. CASE entries = {}
    BY <1>2, <1>3, <1>4, <1>5
  <1>6. CASE entries # {}
    <2>1. top \in entries
      BY <1>6
    <2>2. top \in Entries /\ top.n <= heard[x][k]
      BY <1>1, <1>2, <2>1
    <2>3. top.n \in Nat
      BY <2>2, EntryFields
    <2> HIDE DEF top, entries
    <2> QED  BY <1>2, <1>3, <1>4, <1>6, <2>2, <2>3 DEF Larger
  <1> QED  BY <1>5, <1>6

LEMMA AggregateStep ==
    ASSUME ReceiptsInv, NEW d \in Devices, Aggregate(d)
    PROVE  ReceiptsInv'
  <1> DEFINE cur == Merged(GatewayOf[d], handler[d].found)
             n == handler[d].n
             read == Counted(cur, "read", n)
             delivered == Counted(cur, "delivered", n)
             threshold == Cardinality(Members) - 1
             new == IF read >= threshold THEN "read"
                    ELSE IF delivered >= threshold THEN "delivered" ELSE "sent"
  <1>1. /\ ReceiptsTypeOK /\ NothingAhead /\ TicksAreEarned
        /\ heard \in Cursors /\ handler[d] \in Handlers
        /\ status \in [Own -> {"sent", "delivered", "read"}]
    BY TypeParts DEF ReceiptsInv
  <1>2. /\ status' = Raised(n, delivered, read)
        /\ handler' = [handler EXCEPT ![d] = NoReceipt]
        /\ UNCHANGED <<buffer, timer, writing, cursor, heard, receipts, deaths>>
    BY DEF Aggregate
  <1>3. n \in Nat
    BY <1>1, NumbersAreNaturals DEF Handlers
  <1> HIDE DEF cur, n, read, delivered
  <1>4. status' = [m \in Own |-> IF m <= n /\ Rank[status[m]] < Rank[new] THEN new ELSE status[m]]
    BY <1>2 DEF Raised
  <1>5. new \in {"sent", "delivered", "read"}
    OBVIOUS
  <1>6. \A m \in Own : status'[m] = status[m] \/ (status'[m] = new /\ m <= n)
    BY <1>4
  <1>7. status' \in [Own -> {"sent", "delivered", "read"}]
    BY <1>1, <1>4, <1>5
  <1>8. deaths = 0 => NotAbove(NoReceipt.found, heard)
    <2>1. \A x \in Devices, k \in Kinds : 0 <= heard[x][k]
      BY <1>1, CursorIsNatural
    <2> QED  BY <2>1, NoCursors, IdleHandler DEF NotAbove
  <1>9. ReceiptsTypeOK' /\ HeldIsFinite' /\ NothingAhead' /\ ReceiptsKept'
    BY <1>2, <1>7, <1>8, IdleHandler, HandlerStep
  <1>10. TicksAreEarned'
    <2> SUFFICES ASSUME deaths = 0, NEW m \in Own, status'[m] # "sent"
                 PROVE  Cardinality(SeenBy(m, status'[m])) >= threshold
      BY <1>2 DEF TicksAreEarned, SeenBy
    <2>1. CASE status'[m] = status[m]
      BY <1>1, <2>1 DEF TicksAreEarned
    <2>2. CASE status'[m] = new /\ m <= n
      <3>1. \A x \in Devices, k \in Kinds : cur[x][k] \in Nat /\ cur[x][k] <= heard[x][k]
        BY MergedNotAbove DEF cur
      <3>2. m \in Nat /\ Cardinality(Members) \in Nat
        BY NumbersAreNaturals, FS_CardinalityType, ReceiptsAssumption
      <3>3. CASE new = "read"
        <4>1. read >= threshold
          BY <3>3
        <4>2. /\ read <= Cardinality(SeenBy(m, "read")) /\ read \in Nat
              /\ Cardinality(SeenBy(m, "read")) \in Nat
          BY <1>1, <1>3, <2>2, <3>1, <3>2, NumbersAreNaturals, CountedHaveSeen DEF read
        <4> QED  BY <2>2, <3>2, <3>3, <4>1, <4>2
      <3>4. CASE new = "delivered"
        <4>1. delivered >= threshold
          BY <3>4
        <4>2. /\ delivered <= Cardinality(SeenBy(m, "delivered")) /\ delivered \in Nat
              /\ Cardinality(SeenBy(m, "delivered")) \in Nat
          BY <1>1, <1>3, <2>2, <3>1, <3>2, NumbersAreNaturals, CountedHaveSeen DEF delivered
        <4> QED  BY <2>2, <3>2, <3>4, <4>1, <4>2
      <3> QED  BY <1>5, <2>2, <3>3, <3>4
    <2> QED  BY <1>6, <2>1, <2>2
  <1> QED  BY <1>9, <1>10 DEF ReceiptsInv

-----------------------------------------------------------------------------
(* _flushCursors and the end of a process.                                 *)

LEMMA FlushStep ==
    ASSUME ReceiptsInv, NEW g \in Processes, Flush(g)
    PROVE  ReceiptsInv'
  <1>1. /\ ReceiptsTypeOK /\ HeldIsFinite /\ NothingAhead /\ ReceiptsKept /\ TicksAreEarned
        /\ DOMAIN buffer = Processes /\ DOMAIN writing = Processes /\ heard \in Cursors
        /\ timer \in [Processes -> BOOLEAN]
    BY TypeParts DEF ReceiptsInv
  <1>2. /\ timer' = [timer EXCEPT ![g] = FALSE]
        /\ writing' = [writing EXCEPT ![g] = @ \cup buffer[g]]
        /\ buffer' = [buffer EXCEPT ![g] = {}]
        /\ UNCHANGED <<cursor, handler, status, heard, receipts, deaths>>
    BY DEF Flush
  <1>3. /\ DOMAIN buffer' = Processes /\ DOMAIN writing' = Processes
        /\ buffer'[g] = {} /\ writing'[g] = writing[g] \cup buffer[g]
        /\ \A h \in Processes : h # g => buffer'[h] = buffer[h] /\ writing'[h] = writing[h]
    BY <1>1, <1>2
  <1>4. /\ timer' \in [Processes -> BOOLEAN]
        /\ \A h \in Processes : h # g => timer'[h] = timer[h]
    BY <1>1, <1>2, Zenon
  <1>5. \A h \in Processes : buffer'[h] \cup writing'[h] = buffer[h] \cup writing[h]
    BY <1>3
  <1>6. ReceiptsTypeOK'
    <2>1. ASSUME NEW h \in Processes
          PROVE  /\ buffer'[h] \subseteq Entries /\ writing'[h] \subseteq Entries
                 /\ \A a, b \in buffer'[h] : a.d = b.d /\ a.kind = b.kind => a = b
                 /\ buffer'[h] # {} => timer'[h]
      <3>1. /\ buffer[h] \subseteq Entries /\ writing[h] \subseteq Entries
            /\ \A a, b \in buffer[h] : a.d = b.d /\ a.kind = b.kind => a = b
            /\ buffer[h] # {} => timer[h]
        BY <1>1, TypeParts
      <3>2. CASE h = g
        BY <1>3, <3>1, <3>2
      <3>3. CASE h # g
        BY <1>3, <1>4, <3>1, <3>3
      <3> QED  BY <3>2, <3>3
    <2> QED  BY <1>1, <1>2, <1>3, <1>4, <2>1, TypeParts, TypePartsNext
  <1>7. HeldIsFinite'
    <2>1. ASSUME NEW h \in Processes  PROVE IsFiniteSet(buffer'[h]) /\ IsFiniteSet(writing'[h])
      <3>1. IsFiniteSet(buffer[h]) /\ IsFiniteSet(writing[h])
        BY <1>1 DEF HeldIsFinite
      <3>2. CASE h = g
        <4>1. IsFiniteSet(buffer[g]) /\ IsFiniteSet(writing[g])
          BY <1>1 DEF HeldIsFinite
        <4>2. IsFiniteSet(writing[g] \cup buffer[g])
          BY <4>1, FS_Union
        <4> QED  BY <1>3, <3>2, <4>2, FS_EmptySet
      <3>3. CASE h # g
        BY <1>3, <3>1, <3>3
      <3> QED  BY <3>2, <3>3
    <2> QED  BY <2>1 DEF HeldIsFinite
  <1>8. NothingAhead'
    BY <1>1, <1>2, <1>5 DEF NothingAhead
  <1>9. ReceiptsKept'
    BY <1>1, <1>2, <1>5, NumbersAreNaturals DEF ReceiptsKept
  <1>10. TicksAreEarned'
    <2>1. \A x \in Devices, k \in Kinds : heard[x][k] <= heard[x][k]
      BY <1>1, CursorIsNatural
    <2> QED  BY <1>1, <1>2, <2>1, SeenStays DEF NotAbove
  <1> QED  BY <1>6, <1>7, <1>8, <1>9, <1>10 DEF ReceiptsInv

LEMMA WriteCursorStep ==
    ASSUME ReceiptsInv, NEW g \in Processes, NEW e \in writing[g], WriteCursor(g, e)
    PROVE  ReceiptsInv'
  <1>1. /\ ReceiptsTypeOK /\ HeldIsFinite /\ NothingAhead /\ ReceiptsKept /\ TicksAreEarned
        /\ DOMAIN writing = Processes /\ writing[g] \subseteq Entries
        /\ heard \in Cursors /\ cursor \in Cursors
    BY TypeParts DEF ReceiptsInv
  <1>2. /\ writing' = [writing EXCEPT ![g] = @ \ {e}]
        /\ cursor' = RaisedTo(cursor, e.d, e.kind, e.n)
        /\ UNCHANGED <<buffer, timer, handler, status, heard, receipts, deaths>>
    BY DEF WriteCursor, Written, RaisedTo
  <1>3. e.d \in Devices /\ e.kind \in Kinds /\ e.n \in Messages /\ e.n \in Nat
    BY <1>1, EntryFields
  <1>4. /\ DOMAIN writing' = Processes /\ writing'[g] = writing[g] \ {e}
        /\ \A h \in Processes : h # g => writing'[h] = writing[h]
    BY <1>1, <1>2
  <1>5. /\ cursor' \in Cursors /\ cursor'[e.d][e.kind] = Larger(cursor[e.d][e.kind], e.n)
        /\ e.n <= cursor'[e.d][e.kind] /\ NotAbove(cursor, cursor')
        /\ \A x \in Devices, k \in Kinds : x # e.d \/ k # e.kind => cursor'[x][k] = cursor[x][k]
    BY <1>1, <1>2, <1>3, CursorRaised
  <1>6. ReceiptsTypeOK'
    <2>1. \A h \in Processes :
              /\ buffer'[h] \subseteq Entries /\ writing'[h] \subseteq Entries
              /\ \A a, b \in buffer'[h] : a.d = b.d /\ a.kind = b.kind => a = b
              /\ buffer'[h] # {} => timer'[h]
      BY <1>1, <1>2, <1>4, TypeParts
    <2> QED  BY <1>1, <1>2, <1>4, <1>5, <2>1, TypeParts, TypePartsNext
  <1>7. HeldIsFinite'
    <2>1. ASSUME NEW h \in Processes  PROVE IsFiniteSet(buffer'[h]) /\ IsFiniteSet(writing'[h])
      <3>1. IsFiniteSet(buffer[h]) /\ IsFiniteSet(writing[h])
        BY <1>1 DEF HeldIsFinite
      <3>2. writing'[h] \in SUBSET writing[h]
        BY <1>4
      <3> QED  BY <1>2, <3>1, <3>2, FS_Subset
    <2> QED  BY <2>1 DEF HeldIsFinite
  <1>8. NothingAhead'
    <2> SUFFICES ASSUME deaths = 0  PROVE NothingAhead'
      BY <1>2 DEF NothingAhead
    <2>1. /\ \A h \in Processes : \A a \in buffer[h] \cup writing[h] : a.n <= heard[a.d][a.kind]
          /\ NotAbove(cursor, heard) /\ \A x \in Devices : NotAbove(handler[x].found, heard)
      BY <1>1 DEF NothingAhead
    <2>2. \A h \in Processes : writing'[h] \subseteq writing[h]
      BY <1>4
    <2>3. ASSUME NEW x \in Devices, NEW k \in Kinds  PROVE cursor'[x][k] <= heard[x][k]
      <3>1. cursor[x][k] <= heard[x][k] /\ e.n <= heard[e.d][e.kind]
        BY <2>1 DEF NotAbove
      <3> QED  BY <1>5, <3>1 DEF Larger
    <2> QED  BY <1>2, <2>1, <2>2, <2>3 DEF NothingAhead, NotAbove
  <1>9. ReceiptsKept'
    <2> SUFFICES ASSUME NEW x \in Devices, NEW k \in Kinds, heard[x][k] > cursor'[x][k]
                 PROVE  \E a \in buffer[GatewayOf[x]] \cup writing'[GatewayOf[x]] :
                            a.d = x /\ a.kind = k /\ a.n >= heard[x][k]
      BY <1>2 DEF ReceiptsKept
    <2>1. /\ GatewayOf[x] \in Processes
          /\ heard[x][k] \in Nat /\ cursor[x][k] \in Nat /\ cursor'[x][k] \in Nat
          /\ cursor[x][k] <= cursor'[x][k]
      BY <1>1, <1>5, CursorIsNatural, NumbersAreNaturals DEF NotAbove
    <2>2. PICK a \in buffer[GatewayOf[x]] \cup writing[GatewayOf[x]] :
              a.d = x /\ a.kind = k /\ a.n >= heard[x][k]
      BY <1>1, <2>1 DEF ReceiptsKept
    <2>3. a # e
      <3>1. ASSUME a = e  PROVE FALSE
        <4>1. e.n <= cursor'[x][k] /\ e.n >= heard[x][k]
          BY <1>5, <2>2, <3>1
        <4> QED  BY <1>3, <2>1, <4>1
      <3> QED  BY <3>1
    <2>4. a \in buffer[GatewayOf[x]] \cup writing'[GatewayOf[x]]
      BY <1>4, <2>1, <2>2, <2>3
    <2> QED  BY <2>2, <2>4
  <1>10. TicksAreEarned'
    <2>1. \A x \in Devices, k \in Kinds : heard[x][k] <= heard[x][k]
      BY <1>1, CursorIsNatural
    <2> QED  BY <1>1, <1>2, <2>1, SeenStays DEF NotAbove
  <1> QED  BY <1>6, <1>7, <1>8, <1>9, <1>10 DEF ReceiptsInv

LEMMA DeathStep ==
    ASSUME ReceiptsInv, NEW g \in Processes, GatewayDies(g)
    PROVE  ReceiptsInv'
  <1>1. /\ ReceiptsTypeOK /\ HeldIsFinite /\ ReceiptsKept
        /\ DOMAIN buffer = Processes /\ DOMAIN writing = Processes
        /\ heard \in Cursors /\ cursor \in Cursors /\ handler \in [Devices -> Handlers]
        /\ writing[g] \subseteq Entries /\ IsFiniteSet(writing[g])
        /\ timer \in [Processes -> BOOLEAN] /\ deaths \in Nat
    BY TypeParts DEF ReceiptsInv, HeldIsFinite
  <1> DEFINE Kept(sent, d, kind) == {e.n : e \in {f \in sent : f.d = d /\ f.kind = kind}}
                                        \cup {cursor[d][kind]}
             Top(S) == CHOOSE n \in S : \A m \in S : m <= n
  <1>2. PICK sent \in SUBSET writing[g] :
            /\ writing' = [writing EXCEPT ![g] = sent]
            /\ heard' = [d \in Devices |-> [kind \in Kinds |->
                            IF GatewayOf[d] # g THEN heard[d][kind] ELSE Top(Kept(sent, d, kind))]]
    BY DEF GatewayDies
  <1>3. /\ buffer' = [buffer EXCEPT ![g] = {}]
        /\ timer' = [timer EXCEPT ![g] = FALSE]
        /\ handler' = [d \in Devices |-> IF GatewayOf[d] = g THEN NoReceipt ELSE handler[d]]
        /\ UNCHANGED <<cursor, status, receipts>> /\ deaths' = deaths + 1
    BY DEF GatewayDies
  <1>4. /\ DOMAIN buffer' = Processes /\ DOMAIN writing' = Processes
        /\ buffer'[g] = {} /\ writing'[g] = sent
        /\ \A h \in Processes : h # g => buffer'[h] = buffer[h] /\ writing'[h] = writing[h]
    BY <1>1, <1>2, <1>3
  <1>5. /\ timer' \in [Processes -> BOOLEAN]
        /\ \A h \in Processes : h # g => timer'[h] = timer[h]
    BY <1>1, <1>3, Zenon
  <1>6. ASSUME NEW d \in Devices, NEW kind \in Kinds
        PROVE  /\ Kept(sent, d, kind) \subseteq Messages \cup {0}
               /\ Top(Kept(sent, d, kind)) \in Kept(sent, d, kind)
    <2> DEFINE S == {f \in sent : f.d = d /\ f.kind = kind}
               N == {e.n : e \in S}
               K == Kept(sent, d, kind)
    <2>1. S \in SUBSET writing[g] /\ S \subseteq Entries
      BY <1>1
    <2>2. IsFiniteSet(S)
      BY <1>1, <2>1, FS_Subset
    <2>3. K = N \cup {cursor[d][kind]}
      OBVIOUS
    <2> HIDE DEF S
    <2>4. IsFiniteSet(N)
      <3> DEFINE number == [e \in S |-> e.n]
      <3>1. number \in Surjection(S, N)
        BY DEF Surjection
      <3> HIDE DEF number, N
      <3> QED  BY <2>2, <3>1, FS_Surjection
    <2>5. N \subseteq Messages
      BY <2>1, EntryFields
    <2> HIDE DEF N, K
    <2>6. IsFiniteSet({cursor[d][kind]})
      BY FS_Singleton
    <2>7. IsFiniteSet(K) /\ K # {}
      BY <2>3, <2>4, <2>6, FS_Union
    <2>8. K \subseteq Messages \cup {0} /\ K \in SUBSET Nat
      BY <1>1, <2>3, <2>5, CursorIsNatural, NumbersAreNaturals
    <2>9. \E n \in K : \A m \in K : m <= n
      BY <2>7, <2>8, LargestExists
    <2>10. Top(K) \in K
      BY <2>9
    <2> QED  BY <2>8, <2>10 DEF K
  <1> HIDE DEF Top
  <1>7. heard' \in Cursors
    <2>1. ASSUME NEW d \in Devices, NEW kind \in Kinds
          PROVE  (IF GatewayOf[d] # g THEN heard[d][kind] ELSE Top(Kept(sent, d, kind)))
                     \in Messages \cup {0}
      <3>1. heard[d][kind] \in Messages \cup {0}
        BY <1>1, CursorIsNatural
      <3>2. Top(Kept(sent, d, kind)) \in Messages \cup {0}
        BY <1>6
      <3> QED  BY <3>1, <3>2
    <2> HIDE DEF Kept
    <2> QED  BY <1>2, <2>1 DEF Cursors
  <1>8. handler' \in [Devices -> Handlers]
    BY <1>1, <1>3, IdleHandler
  <1>9. ReceiptsTypeOK'
    <2>1. ASSUME NEW h \in Processes
          PROVE  /\ buffer'[h] \subseteq Entries /\ writing'[h] \subseteq Entries
                 /\ \A a, b \in buffer'[h] : a.d = b.d /\ a.kind = b.kind => a = b
                 /\ buffer'[h] # {} => timer'[h]
      <3>1. /\ buffer[h] \subseteq Entries /\ writing[h] \subseteq Entries
            /\ \A a, b \in buffer[h] : a.d = b.d /\ a.kind = b.kind => a = b
            /\ buffer[h] # {} => timer[h]
        BY <1>1, TypeParts
      <3>2. CASE h = g
        BY <1>1, <1>4, <3>2
      <3>3. CASE h # g
        BY <1>4, <1>5, <3>1, <3>3
      <3> QED  BY <3>2, <3>3
    <2>2. deaths' \in Nat
      BY <1>1, <1>3
    <2> QED  BY <1>1, <1>3, <1>4, <1>5, <1>7, <1>8, <2>1, <2>2, TypeParts, TypePartsNext
  <1>10. HeldIsFinite'
    <2>1. ASSUME NEW h \in Processes  PROVE IsFiniteSet(buffer'[h]) /\ IsFiniteSet(writing'[h])
      <3>1. IsFiniteSet(buffer[h]) /\ IsFiniteSet(writing[h])
        BY <1>1 DEF HeldIsFinite
      <3>2. CASE h = g
        BY <1>4, <3>1, <3>2, FS_EmptySet, FS_Subset
      <3>3. CASE h # g
        BY <1>4, <3>1, <3>3
      <3> QED  BY <3>2, <3>3
    <2> QED  BY <2>1 DEF HeldIsFinite
  <1>11. NothingAhead' /\ TicksAreEarned'
    <2>1. deaths' # 0
      BY <1>1, <1>3
    <2> QED  BY <2>1 DEF NothingAhead, TicksAreEarned
  <1>12. ReceiptsKept'
    <2> SUFFICES ASSUME NEW x \in Devices, NEW k \in Kinds, heard'[x][k] > cursor[x][k]
                 PROVE  \E a \in buffer'[GatewayOf[x]] \cup writing'[GatewayOf[x]] :
                            a.d = x /\ a.kind = k /\ a.n >= heard'[x][k]
      BY <1>3 DEF ReceiptsKept
    <2>1. GatewayOf[x] \in Processes /\ heard'[x][k] \in Nat /\ cursor[x][k] \in Nat
      BY <1>1, <1>7, CursorIsNatural, NumbersAreNaturals
    <2>2. heard'[x][k] = IF GatewayOf[x] # g THEN heard[x][k] ELSE Top(Kept(sent, x, k))
      BY <1>2
    <2>3. CASE GatewayOf[x] # g
      BY <1>1, <1>4, <2>1, <2>2, <2>3 DEF ReceiptsKept
    <2>4. CASE GatewayOf[x] = g
      <3>1. heard'[x][k] \in Kept(sent, x, k) /\ heard'[x][k] # cursor[x][k]
        <4>1. Top(Kept(sent, x, k)) \in Kept(sent, x, k)
          BY <1>6
        <4> HIDE DEF Kept
        <4>2. heard'[x][k] # cursor[x][k]
          BY <2>1
        <4> QED  BY <2>2, <2>4, <4>1, <4>2
      <3>2. PICK a \in sent : a.d = x /\ a.kind = k /\ a.n = heard'[x][k]
        BY <3>1
      <3>3. a.n >= heard'[x][k]
        BY <2>1, <3>2
      <3> QED  BY <1>4, <2>4, <3>2, <3>3
    <2> QED  BY <2>3, <2>4
  <1> QED  BY <1>9, <1>10, <1>11, <1>12 DEF ReceiptsInv

LEMMA StepInv ==
    ASSUME ReceiptsInv, [ReceiptsNext]_receiptVars
    PROVE  ReceiptsInv'
  <1>1. CASE \E d \in Devices, kind \in Kinds, n \in Messages : Receive(d, kind, n)
    BY <1>1, ReceiveStep
  <1>2. CASE \E d \in Devices : OnReceipt(d)
    BY <1>2, FindStep, AggregateStep DEF OnReceipt
  <1>3. CASE \E g \in Processes : Flushing(g) \/ GatewayDies(g)
    BY <1>3, FlushStep, WriteCursorStep, DeathStep DEF Flushing
  <1>4. CASE UNCHANGED receiptVars
    BY <1>4 DEF receiptVars, ReceiptsInv, ReceiptsTypeOK, HeldIsFinite, NothingAhead, ReceiptsKept,
                TicksAreEarned, SeenBy
  <1> QED  BY <1>1, <1>2, <1>3, <1>4 DEF ReceiptsNext

\* The strengthening is an invariant of every behaviour of the receipts.
THEOREM ReceiptsInvariance == ReceiptsSpec => []ReceiptsInv
  BY InitInv, StepInv, PTL DEF ReceiptsSpec

-----------------------------------------------------------------------------
(* The results.                                                            *)

\* The types; a buffer holds one entry per device and kind, and never without a timer that
\* will write it (lib/core/storage.js:116-124).
THEOREM ReceiptsTypeCorrect == ReceiptsSpec => []ReceiptsTypeOK
  <1>1. ReceiptsInv => ReceiptsTypeOK
    BY DEF ReceiptsInv
  <1> QED  BY <1>1, ReceiptsInvariance, PTL

\* A receipt that no crash destroyed is in a buffer, in a bulkWrite or in Mongo
\* (lib/core/storage.js:116-143).
THEOREM NoReceiptLost == ReceiptsSpec => []ReceiptsKept
  <1>1. ReceiptsInv => ReceiptsKept
    BY DEF ReceiptsInv
  <1> QED  BY <1>1, ReceiptsInvariance, PTL

\* A tick is never ahead of the members, across devices, gateways and the receipts of
\* people who are not members (lib/core/storage.js:204-239, SyncClient.js).
THEOREM TicksEarned == ReceiptsSpec => []TicksAreEarned
  <1>1. ReceiptsInv => TicksAreEarned
    BY DEF ReceiptsInv
  <1> QED  BY <1>1, ReceiptsInvariance, PTL

================================================================================
