---------------------------- MODULE Delivery_proofs ----------------------------
(***************************************************************************)
(* Theorems about how frames reach the sockets of the gateways.            *)
(* GatewaySessions, for every set of users and every finite set of         *)
(* sessions: the types, what keeps the interest count in step with the     *)
(* index, and why no session of a member is left out of it.  Throttle, for *)
(* every rate, bucket and limit: one socket causes a bounded load.         *)
(* Reconnect, for every number of writers, connections and messages and    *)
(* any size of the gap that is replayed: replay and live broadcast leave   *)
(* no message between them.                                                *)
(***************************************************************************)
EXTENDS GatewaySessions, Throttle, Reconnect, FiniteSetTheorems, SequenceTheorems, TLAPS

-----------------------------------------------------------------------------
(***************************************************************************)
(* The inductive invariant, in named parts                                 *)
(***************************************************************************)

PastAuth == {"convs", "attach", "done"}

\* A session is in byUser from its authentication to its close; only one that closes
\* before it is authenticated stays there, and it never had the conversation then.
Lifecycle ==
    \A s \in Sessions :
        /\ ws[s] = "new" => hello[s] = "none"
        /\ closing[s] # "none" => ws[s] = "closed"
        /\ closing[s] = "presence" => s \notin registered
        /\ s \in registered \cup convs \/ closing[s] = "presence" => hello[s] \in PastAuth
        /\ ws[s] = "open" /\ hello[s] \in PastAuth => s \in registered

\* A session that knows the conversation is in the index until its close is over, and
\* one that has left the index is out of the reach of pushes and removals.
Filed == \A s \in convs : closing[s] # "done" \/ s \in registered => s \in index

\* A session may be counted twice (a push and its HELLO both attach it), never too little.
Counted == interest >= Cardinality(index)

\* What Redis will have executed in the end agrees with the count.
Commanded ==
    IF commands = << >>
    THEN subscribed <=> interest > 0
    ELSE commands[Len(commands)] = "subscribe" <=> interest > 0

\* Nobody counts as a member while the removal that concerns them is under way.
Removed ==
    /\ given \subseteq members
    /\ kick.pc \in {"publish", "sessions"} =>
          kick.user \notin given /\ \A s \in known : Owner[s] # kick.user

\* A HELLO that found its user a member attaches the session or has done so.
Attached == \A s \in known : hello[s] = "attach" \/ (hello[s] = "done" /\ s \in convs)

\* A finished HELLO has to be followed by an entry in the tables.
Entered(s) == ws[s] = "open" /\ hello[s] = "done" => s \in convs

\* Where the push stands: who it is done with is settled, and a session of the user it
\* is at is settled or still to be visited.
Pushed ==
    \A s \in Sessions : Owner[s] \in given =>
        /\ push.pc = "done" => Entered(s)
        /\ push.pc \in {"user", "sessions"} =>
              \/ Owner[s] \in push.users
              \/ Entered(s)
              \/ /\ push.pc = "sessions" /\ push.user = Owner[s]
                 /\ s \in push.first \ push.seen

SessionsInv ==
    /\ TypeOK /\ Lifecycle /\ Filed /\ Counted /\ Commanded
    /\ Removed /\ Attached /\ Pushed

-----------------------------------------------------------------------------
(***************************************************************************)
(* Types                                                                   *)
(***************************************************************************)

LEMMA AttachType ==
    ASSUME TypeOK, NEW s \in Sessions, Attach(s)
    PROVE  /\ convs' \subseteq Sessions /\ index' \subseteq convs'
           /\ interest' \in Nat /\ commands' \in Seq({"subscribe", "unsubscribe"})
BY DEF TypeOK, Attach, addInterest

LEMMA RemoveInterestType ==
    ASSUME TypeOK, removeInterest
    PROVE  interest' \in Nat /\ commands' \in Seq({"subscribe", "unsubscribe"})
BY DEF TypeOK, removeInterest

LEMMA LeaveConvsType ==
    ASSUME TypeOK, NEW s \in Sessions, LeaveConvs(s)
    PROVE  /\ index' \subseteq index
           /\ interest' \in Nat /\ commands' \in Seq({"subscribe", "unsubscribe"})
BY RemoveInterestType DEF TypeOK, LeaveConvs

\* The variables keep their types, and the index holds only sessions that know the
\* conversation, in whatever order handlers interleave (lib/core/gateway.js:98-208).
THEOREM TypeCorrect == Spec => []TypeOK
<1>1. Init => TypeOK
  <2>1. /\ NoLoop \in Loops({"idle", "adding", "user", "sessions", "done"})
        /\ NoLoop \in Loops({"idle", "publish", "sessions", "done"})
    BY DEF NoLoop, Loops
  <2>2. << >> \in Seq({"subscribe", "unsubscribe"})
    OBVIOUS
  <2>3. Init => subscribed \in BOOLEAN
    BY DEF Init
  <2> QED
    BY <2>1, <2>2, <2>3 DEF Init, TypeOK
<1>2. TypeOK /\ [Next]_vars => TypeOK'
  <2> SUFFICES ASSUME TypeOK, [Next]_vars PROVE TypeOK'
    OBVIOUS
  <2> USE SessionsAssumption
  <2>1. ASSUME NEW s \in Sessions, Socket(s) PROVE TypeOK'
    <3>1. CASE Connect(s) \/ HelloArrives(s) \/ HelloRefused(s) \/ HelloAuthenticated(s)
      BY <3>1 DEF TypeOK, Connect, HelloArrives, HelloRefused, HelloAuthenticated, tables, history
    <3>2. CASE HelloConvs(s)
      BY <3>2 DEF TypeOK, HelloConvs, tables
    <3>3. CASE HelloAttach(s)
      BY <3>3, AttachType DEF TypeOK, HelloAttach, history
    <3>4. CASE Close(s)
      BY <3>4, LeaveConvsType DEF TypeOK, Close, history
    <3>5. CASE ClosePresenceDeleted(s)
      BY <3>5, LeaveConvsType DEF TypeOK, ClosePresenceDeleted, history
    <3> QED
      BY <2>1, <3>1, <3>2, <3>3, <3>4, <3>5 DEF Socket
  <2>2. ASSUME Create PROVE TypeOK'
    <3>1. ASSUME NEW S \in SUBSET Users, PushCreate(S) PROVE TypeOK'
      BY <3>1 DEF TypeOK, Loops, PushCreate, tables, history
    <3>2. CASE PushMembers
      BY <3>2 DEF TypeOK, Loops, PushMembers, tables, history
    <3>3. ASSUME NEW u \in Users, PushAddMember(u) PROVE TypeOK'
      BY <3>3 DEF TypeOK, Loops, PushAddMember, tables
    <3>4. ASSUME NEW u \in Users, PushUser(u) PROVE TypeOK'
      BY <3>4 DEF TypeOK, Loops, PushUser, SessionsOf, tables, history
    <3>5. ASSUME NEW s \in Sessions, PushSession(s) PROVE TypeOK'
      <4>1. push' \in Loops({"idle", "adding", "user", "sessions", "done"})
        BY <3>5 DEF TypeOK, Loops, PushSession
      <4> QED
        BY <3>5, <4>1, AttachType DEF TypeOK, PushSession, tables, history
    <3>6. CASE PushUserDone
      BY <3>6 DEF TypeOK, Loops, PushUserDone, NoLoop, tables, history
    <3>7. CASE PushDone
      BY <3>7 DEF TypeOK, Loops, PushDone, tables, history
    <3> QED
      BY <2>2, <3>1, <3>2, <3>3, <3>4, <3>5, <3>6, <3>7 DEF Create
  <2>3. ASSUME Group PROVE TypeOK'
    <3>1. ASSUME NEW u \in Users, GroupAdd(u) PROVE TypeOK'
      BY <3>1 DEF TypeOK, GroupAdd, tables, history
    <3>2. ASSUME NEW u \in Users, KickMember(u) PROVE TypeOK'
      BY <3>2 DEF TypeOK, Loops, KickMember, NoLoop, tables
    <3>3. CASE KickPublished
      BY <3>3 DEF TypeOK, Loops, KickPublished, SessionsOf, tables, history
    <3>4. ASSUME NEW s \in Sessions, KickSession(s) PROVE TypeOK'
      <4>1. kick' \in Loops({"idle", "publish", "sessions", "done"})
        BY <3>4 DEF TypeOK, Loops, KickSession
      <4> QED
        BY <3>4, <4>1, RemoveInterestType DEF TypeOK, KickSession, Detach, tables, history
    <3>5. CASE KickDone
      BY <3>5 DEF TypeOK, Loops, KickDone, NoLoop, tables, history
    <3> QED
      BY <2>3, <3>1, <3>2, <3>3, <3>4, <3>5 DEF Group
  <2>4. CASE RedisCommand
    BY <2>4 DEF TypeOK, RedisCommand, history
  <2>5. CASE UNCHANGED vars
    BY <2>5 DEF TypeOK, vars, tables, history
  <2> QED
    BY <2>1, <2>2, <2>3, <2>4, <2>5 DEF Next
<1> QED
  BY <1>1, <1>2, PTL DEF Spec

-----------------------------------------------------------------------------
(***************************************************************************)
(* The index, the count and the subscription                               *)
(***************************************************************************)

\* The push, group operations and Redis leave the sockets' own state alone; the push
\* attaches registered sessions only.
LEMMA NotSocket ==
    ASSUME TypeOK, Create \/ Group \/ RedisCommand \/ UNCHANGED vars
    PROVE  /\ UNCHANGED <<ws, hello, closing, registered>>
           /\ convs' \subseteq convs \cup registered
<1>1. ASSUME Create
      PROVE  /\ UNCHANGED <<ws, hello, closing, registered>>
             /\ convs' \subseteq convs \cup registered
  BY <1>1 DEF Create, PushCreate, PushMembers, PushAddMember, PushUser, PushSession,
              PushUserDone, PushDone, Attach, SessionsOf, tables
<1>2. ASSUME Group
      PROVE  /\ UNCHANGED <<ws, hello, closing, registered>>
             /\ convs' \subseteq convs \cup registered
  BY <1>2 DEF Group, GroupAdd, KickMember, KickPublished, KickSession, KickDone, Detach, tables
<1>3. CASE RedisCommand
  BY <1>3 DEF RedisCommand
<1>4. CASE UNCHANGED vars
  BY <1>4 DEF vars, tables
<1> QED
  BY <1>1, <1>2, <1>3, <1>4

LEMMA LifecycleKept == TypeOK /\ Lifecycle /\ [Next]_vars => Lifecycle'
<1> SUFFICES ASSUME TypeOK, Lifecycle, [Next]_vars PROVE Lifecycle'
  OBVIOUS
<1>1. ASSUME NEW s \in Sessions, Socket(s) PROVE Lifecycle'
  <2> USE DEF TypeOK, Lifecycle, PastAuth
  <2>1. CASE Connect(s)
    BY <2>1 DEF Connect, tables
  <2>2. CASE HelloArrives(s)
    BY <2>2 DEF HelloArrives, tables
  <2>3. CASE HelloRefused(s)
    BY <2>3 DEF HelloRefused, tables
  <2>4. CASE HelloAuthenticated(s)
    BY <2>4 DEF HelloAuthenticated, tables
  <2>5. CASE HelloConvs(s)
    BY <2>5 DEF HelloConvs, tables
  <2>6. CASE HelloAttach(s)
    BY <2>6 DEF HelloAttach, Attach
  <2>7. CASE Close(s)
    BY <2>7 DEF Close, SessionsOf
  <2>8. CASE ClosePresenceDeleted(s)
    BY <2>8 DEF ClosePresenceDeleted
  <2> QED
    BY <1>1, <2>1, <2>2, <2>3, <2>4, <2>5, <2>6, <2>7, <2>8 DEF Socket
<1>2. CASE Create \/ Group \/ RedisCommand \/ UNCHANGED vars
  BY <1>2, NotSocket DEF TypeOK, Lifecycle
<1> QED
  BY <1>1, <1>2 DEF Next

\* What a step can do to the index: nothing, one session more, one less, or Redis
\* executes a command.  A session that leaves is always one that is in it.
LEMMA IndexSteps ==
    ASSUME TypeOK, Lifecycle, Filed, [Next]_vars
    PROVE  \/ UNCHANGED <<index, interest, commands, subscribed>>
           \/ \E s \in Sessions : index' = index \cup {s} /\ addInterest /\ UNCHANGED subscribed
           \/ \E s \in index : index' = index \ {s} /\ removeInterest /\ UNCHANGED subscribed
           \/ UNCHANGED <<index, interest>> /\ RedisCommand
<1> DEFINE Goal ==
       \/ UNCHANGED <<index, interest, commands, subscribed>>
       \/ \E s \in Sessions : index' = index \cup {s} /\ addInterest /\ UNCHANGED subscribed
       \/ \E s \in index : index' = index \ {s} /\ removeInterest /\ UNCHANGED subscribed
       \/ UNCHANGED <<index, interest>> /\ RedisCommand
<1>1. ASSUME NEW s \in Sessions, Socket(s) PROVE Goal
  <2>1. CASE Connect(s) \/ HelloArrives(s) \/ HelloRefused(s) \/ HelloAuthenticated(s) \/ HelloConvs(s)
    BY <2>1 DEF Connect, HelloArrives, HelloRefused, HelloAuthenticated, HelloConvs, tables
  <2>2. CASE HelloAttach(s)
    BY <2>2 DEF HelloAttach, Attach
  <2>3. CASE Close(s)
    BY <2>3 DEF Close, LeaveConvs, Filed, Lifecycle, TypeOK
  <2>4. CASE ClosePresenceDeleted(s)
    BY <2>4 DEF ClosePresenceDeleted, LeaveConvs, Filed, Lifecycle, TypeOK
  <2> QED
    BY <1>1, <2>1, <2>2, <2>3, <2>4 DEF Socket
<1>2. ASSUME Create PROVE Goal
  <2>1. ASSUME NEW s \in Sessions, PushSession(s) PROVE Goal
    BY <2>1 DEF PushSession, Attach, tables
  <2> QED
    BY <1>2, <2>1 DEF Create, PushCreate, PushMembers, PushAddMember, PushUser,
                      PushUserDone, PushDone, tables
<1>3. ASSUME Group PROVE Goal
  <2>1. ASSUME NEW s \in Sessions, KickSession(s) PROVE Goal
    BY <2>1 DEF KickSession, Detach, SessionsOf, Filed, tables
  <2> QED
    BY <1>3, <2>1 DEF Group, GroupAdd, KickMember, KickPublished, KickDone, tables
<1>4. CASE RedisCommand
  BY <1>4 DEF RedisCommand
<1>5. CASE UNCHANGED vars
  BY <1>5 DEF vars, tables
<1> QED
  BY <1>1, <1>2, <1>3, <1>4, <1>5 DEF Next

LEMMA FiledKept == TypeOK /\ Lifecycle /\ Filed /\ [Next]_vars => Filed'
<1> SUFFICES ASSUME TypeOK, Lifecycle, Filed, [Next]_vars PROVE Filed'
  OBVIOUS
<1> USE DEF TypeOK, Lifecycle, Filed, PastAuth
<1>1. ASSUME NEW s \in Sessions, Socket(s) PROVE Filed'
  <2>1. CASE Connect(s) \/ HelloArrives(s) \/ HelloRefused(s) \/ HelloConvs(s)
    BY <2>1 DEF Connect, HelloArrives, HelloRefused, HelloConvs, tables
  <2>2. CASE HelloAuthenticated(s)
    BY <2>2 DEF HelloAuthenticated, tables
  <2>3. CASE HelloAttach(s)
    BY <2>3 DEF HelloAttach, Attach
  <2>4. CASE Close(s)
    BY <2>4 DEF Close, LeaveConvs, SessionsOf
  <2>5. CASE ClosePresenceDeleted(s)
    BY <2>5 DEF ClosePresenceDeleted, LeaveConvs
  <2> QED
    BY <1>1, <2>1, <2>2, <2>3, <2>4, <2>5 DEF Socket
<1>2. ASSUME Create PROVE Filed'
  <2>1. ASSUME NEW s \in Sessions, PushSession(s) PROVE Filed'
    BY <2>1 DEF PushSession, Attach, SessionsOf, tables
  <2> QED
    BY <1>2, <2>1 DEF Create, PushCreate, PushMembers, PushAddMember, PushUser,
                      PushUserDone, PushDone, tables
<1>3. ASSUME Group PROVE Filed'
  <2>1. ASSUME NEW s \in Sessions, KickSession(s) PROVE Filed'
    BY <2>1 DEF KickSession, Detach, SessionsOf, tables
  <2> QED
    BY <1>3, <2>1 DEF Group, GroupAdd, KickMember, KickPublished, KickDone, tables
<1>4. CASE RedisCommand
  BY <1>4 DEF RedisCommand
<1>5. CASE UNCHANGED vars
  BY <1>5 DEF vars, tables
<1> QED
  BY <1>1, <1>2, <1>3, <1>4, <1>5 DEF Next

LEMMA IndexFinite ==
    ASSUME TypeOK
    PROVE  IsFiniteSet(index) /\ Cardinality(index) \in Nat
<1>1. index \subseteq Sessions
  BY DEF TypeOK
<1> QED
  BY <1>1, SessionsAssumption, FS_Subset, FS_CardinalityType

LEMMA CountedKept == TypeOK /\ Lifecycle /\ Filed /\ Counted /\ [Next]_vars => Counted'
<1> SUFFICES ASSUME TypeOK, Lifecycle, Filed, Counted, [Next]_vars PROVE Counted'
  OBVIOUS
<1>0. IsFiniteSet(index) /\ Cardinality(index) \in Nat /\ interest \in Nat
  BY IndexFinite DEF TypeOK
<1>1. CASE UNCHANGED <<index, interest>>
  BY <1>1 DEF Counted
<1>2. ASSUME NEW s \in Sessions, index' = index \cup {s}, addInterest
      PROVE  Counted'
  <2>1. Cardinality(index \cup {s}) \in {Cardinality(index), Cardinality(index) + 1}
    BY <1>0, FS_AddElement
  <2> QED
    BY <1>0, <1>2, <2>1 DEF Counted, addInterest
<1>3. ASSUME NEW s \in index, index' = index \ {s}, removeInterest
      PROVE  Counted'
  <2>1. Cardinality(index \ {s}) = Cardinality(index) - 1
    BY <1>0, FS_RemoveElement
  <2> QED
    BY <1>0, <1>3, <2>1 DEF Counted, removeInterest
<1> QED
  BY <1>1, <1>2, <1>3, IndexSteps

LEMMA CommandedKept == TypeOK /\ Lifecycle /\ Filed /\ Commanded /\ [Next]_vars => Commanded'
<1> SUFFICES ASSUME TypeOK, Lifecycle, Filed, Commanded, [Next]_vars PROVE Commanded'
  OBVIOUS
<1>0. interest \in Nat /\ commands \in Seq({"subscribe", "unsubscribe"})
  BY DEF TypeOK
<1>1. CASE UNCHANGED <<interest, commands, subscribed>>
  BY <1>1 DEF Commanded
<1>2. CASE addInterest /\ UNCHANGED subscribed
  BY <1>0, <1>2 DEF Commanded, addInterest
<1>3. CASE removeInterest /\ UNCHANGED subscribed
  BY <1>0, <1>3 DEF Commanded, removeInterest
<1>4. CASE UNCHANGED interest /\ RedisCommand
  <2>0. /\ commands # << >> /\ Len(commands) \in Nat /\ Len(commands) >= 1
        /\ Tail(commands) \in Seq({"subscribe", "unsubscribe"})
        /\ Len(Tail(commands)) = Len(commands) - 1
        /\ Head(commands) = commands[1]
        /\ \A i \in 1 .. Len(Tail(commands)) : Tail(commands)[i] = commands[i+1]
    BY <1>0, <1>4, HeadTailProperties DEF RedisCommand
  <2>1. CASE Len(commands) = 1
    <3>0. Tail(commands) # << >> => Len(Tail(commands)) \in Nat \ {0}
      BY <2>0, EmptySeq, Zenon
    <3>1. Tail(commands) = << >>
      BY <2>0, <2>1, <3>0
    <3> QED
      BY <1>4, <2>0, <2>1, <3>1 DEF Commanded, RedisCommand
  <2>2. CASE Len(commands) # 1
    <3>0. Len(commands) - 1 \in 1 .. Len(Tail(commands))
      BY <2>0, <2>2
    <3>1. /\ Tail(commands) # << >>
          /\ Tail(commands)[Len(Tail(commands))] = commands[Len(commands)]
      <4>1. Tail(commands)[Len(commands) - 1] = commands[Len(commands) - 1 + 1]
        BY <2>0, <3>0
      <4>2. Len(Tail(commands)) # 0
        BY <2>0, <2>2
      <4>3. Tail(commands) # << >>
        BY <4>2, EmptySeq, Zenon
      <4> QED
        BY <2>0, <4>1, <4>3
    <3> QED
      BY <1>4, <2>0, <3>1 DEF Commanded, RedisCommand
  <2> QED
    BY <2>1, <2>2
<1> QED
  BY <1>1, <1>2, <1>3, <1>4, IndexSteps

-----------------------------------------------------------------------------
(***************************************************************************)
(* Who is known and given, and the entry that each session gets            *)
(***************************************************************************)

\* Only the steps of a GROUP_OP touch `kick`; it takes its user out of both histories.
LEMMA RemovedKept == TypeOK /\ Removed /\ [Next]_vars => Removed'
<1> SUFFICES ASSUME TypeOK, Removed, [Next]_vars PROVE Removed'
  OBVIOUS
<1> USE DEF TypeOK, Removed
<1>1. ASSUME NEW s \in Sessions, Socket(s) PROVE Removed'
  BY <1>1 DEF Socket, Connect, HelloArrives, HelloRefused, HelloAuthenticated, HelloConvs,
              HelloAttach, Close, ClosePresenceDeleted, history
<1>2. ASSUME Create PROVE Removed'
  BY <1>2 DEF Create, PushCreate, PushMembers, PushAddMember, PushUser, PushSession,
              PushUserDone, PushDone, history
<1>3. ASSUME Group PROVE Removed'
  <2>1. ASSUME NEW u \in Users, GroupAdd(u) \/ KickMember(u) PROVE Removed'
    BY <2>1 DEF GroupAdd, KickMember, NoLoop, history
  <2>2. CASE KickDone
    BY <2>2 DEF KickDone, NoLoop, history
  <2>3. CASE KickPublished \/ \E s \in Sessions : KickSession(s)
    BY <2>3 DEF KickPublished, KickSession, Loops, history
  <2> QED
    BY <1>3, <2>1, <2>2, <2>3 DEF Group
<1>4. CASE RedisCommand \/ UNCHANGED vars
  BY <1>4 DEF RedisCommand, vars, history
<1> QED
  BY <1>1, <1>2, <1>3, <1>4 DEF Next

\* A session leaves `convs` only in a removal, and then its user counts as none.
LEMMA ConvsKept ==
    ASSUME TypeOK, [Next]_vars
    PROVE  \A s \in convs : s \in convs' \/ (kick.pc = "sessions" /\ Owner[s] = kick.user)
<1>1. ASSUME NEW s \in Sessions, KickSession(s)
      PROVE  \A r \in convs : r \in convs' \/ (kick.pc = "sessions" /\ Owner[r] = kick.user)
  BY <1>1 DEF KickSession, Detach, SessionsOf, tables
<1>2. ASSUME NEW s \in Sessions, Socket(s) PROVE convs \subseteq convs'
  BY <1>2 DEF Socket, Connect, HelloArrives, HelloRefused, HelloAuthenticated, HelloConvs,
              HelloAttach, Close, ClosePresenceDeleted, Attach, tables
<1>3. ASSUME Create PROVE convs \subseteq convs'
  BY <1>3 DEF Create, PushCreate, PushMembers, PushAddMember, PushUser, PushSession,
              PushUserDone, PushDone, Attach, tables
<1>4. ASSUME Group, ~ \E s \in Sessions : KickSession(s) PROVE convs = convs'
  BY <1>4 DEF Group, GroupAdd, KickMember, KickPublished, KickDone, tables
<1>5. CASE RedisCommand \/ UNCHANGED vars
  BY <1>5 DEF RedisCommand, vars, tables
<1> QED
  BY <1>1, <1>2, <1>3, <1>4, <1>5 DEF Next

LEMMA AttachedKept == TypeOK /\ Removed /\ Attached /\ [Next]_vars => Attached'
<1> SUFFICES ASSUME TypeOK, Removed, Attached, [Next]_vars PROVE Attached'
  OBVIOUS
<1>0. \A s \in known : s \in convs => s \in convs'
  BY ConvsKept DEF Removed, TypeOK
<1>1. ASSUME NEW s \in Sessions, Socket(s) PROVE Attached'
  <2> USE <1>0 DEF TypeOK, Attached
  <2>1. CASE Connect(s) \/ HelloArrives(s) \/ HelloRefused(s) \/ HelloAuthenticated(s)
    BY <2>1 DEF Connect, HelloArrives, HelloRefused, HelloAuthenticated, history
  <2>2. CASE HelloConvs(s)
    BY <2>2 DEF HelloConvs
  <2>3. CASE HelloAttach(s)
    BY <2>3 DEF HelloAttach, Attach, history
  <2>4. CASE Close(s) \/ ClosePresenceDeleted(s)
    BY <2>4 DEF Close, ClosePresenceDeleted, history
  <2> QED
    BY <1>1, <2>1, <2>2, <2>3, <2>4 DEF Socket
<1>2. CASE Create \/ Group \/ RedisCommand \/ UNCHANGED vars
  <2>1. known' \subseteq known
    BY <1>2 DEF Create, PushCreate, PushMembers, PushAddMember, PushUser, PushSession,
                PushUserDone, PushDone, Group, GroupAdd, KickMember, KickPublished,
                KickSession, KickDone, RedisCommand, vars, history
  <2> QED
    BY <1>0, <1>2, <2>1, NotSocket DEF Attached
<1> QED
  BY <1>1, <1>2 DEF Next

\* A settled session of a given user stays settled: its HELLO reads the members after
\* they were added, and the removal that would detach it takes its user out of `given`.
LEMMA SettledKept ==
    ASSUME TypeOK, Lifecycle, Removed, [Next]_vars,
           NEW s \in Sessions, Owner[s] \in given, Entered(s)
    PROVE  Entered(s)'
<1>0. s \in convs => s \in convs'
  BY ConvsKept DEF Removed
<1>1. ASSUME NEW r \in Sessions, Socket(r) PROVE Entered(s)'
  <2> USE <1>0 DEF TypeOK, Entered
  <2>1. CASE Connect(r)
    BY <2>1 DEF Connect, Lifecycle
  <2>2. CASE HelloArrives(r) \/ HelloRefused(r) \/ HelloAuthenticated(r)
    BY <2>2 DEF HelloArrives, HelloRefused, HelloAuthenticated
  <2>3. CASE HelloConvs(r)
    BY <2>3 DEF HelloConvs, Removed
  <2>4. CASE HelloAttach(r)
    BY <2>4 DEF HelloAttach, Attach
  <2>5. CASE Close(r) \/ ClosePresenceDeleted(r)
    BY <2>5 DEF Close, ClosePresenceDeleted
  <2> QED
    BY <1>1, <2>1, <2>2, <2>3, <2>4, <2>5 DEF Socket
<1>2. CASE Create \/ Group \/ RedisCommand \/ UNCHANGED vars
  BY <1>0, <1>2, NotSocket DEF Entered
<1> QED
  BY <1>1, <1>2 DEF Next

\* Only the push itself adds to `given`, and only before it reads the members.
LEMMA GivenKept ==
    ASSUME [Next]_vars
    PROVE  given' \subseteq given \/ (push.pc = "adding" /\ push'.pc = "adding")
<1>1. ASSUME NEW s \in Sessions, Socket(s) PROVE given' \subseteq given
  BY <1>1 DEF Socket, Connect, HelloArrives, HelloRefused, HelloAuthenticated, HelloConvs,
              HelloAttach, Close, ClosePresenceDeleted, history
<1>2. ASSUME NEW u \in Users, PushAddMember(u) PROVE push.pc = "adding" /\ push'.pc = "adding"
  BY <1>2 DEF PushAddMember
<1>3. CASE \/ \E S \in SUBSET Users : PushCreate(S)
           \/ PushMembers \/ PushUserDone \/ PushDone
           \/ \E u \in Users : PushUser(u)
           \/ \E s \in Sessions : PushSession(s)
  BY <1>3 DEF PushCreate, PushMembers, PushUser, PushSession, PushUserDone, PushDone, history
<1>4. CASE Group
  BY <1>4 DEF Group, GroupAdd, KickMember, KickPublished, KickSession, KickDone, history
<1>5. CASE RedisCommand \/ UNCHANGED vars
  BY <1>5 DEF RedisCommand, vars, history
<1> QED
  BY <1>1, <1>2, <1>3, <1>4, <1>5 DEF Next, Create

\* The steps of the push; PushCreate and PushAddMember leave it where it adds members.
LEMMA PushSteps ==
    ASSUME TypeOK, [Next]_vars
    PROVE  \/ UNCHANGED push
           \/ push'.pc = "adding"
           \/ PushMembers \/ PushUserDone \/ PushDone
           \/ \E u \in Users : PushUser(u) /\ push'.pc = "sessions"
           \/ \E s \in Sessions : PushSession(s) /\ push'.pc = "sessions"
<1> USE DEF TypeOK, Loops
<1>1. ASSUME NEW s \in Sessions, Socket(s) PROVE UNCHANGED push
  BY <1>1 DEF Socket, Connect, HelloArrives, HelloRefused, HelloAuthenticated, HelloConvs,
              HelloAttach, Close, ClosePresenceDeleted
<1>2. ASSUME NEW S \in SUBSET Users, PushCreate(S) PROVE push'.pc = "adding"
  BY <1>2 DEF PushCreate
<1>3. ASSUME NEW u \in Users, PushAddMember(u) PROVE push'.pc = "adding"
  BY <1>3 DEF PushAddMember
<1>4. ASSUME NEW u \in Users, PushUser(u) PROVE push'.pc = "sessions"
  BY <1>4 DEF PushUser
<1>5. ASSUME NEW s \in Sessions, PushSession(s) PROVE push'.pc = "sessions"
  BY <1>5 DEF PushSession
<1>6. CASE Group \/ RedisCommand \/ UNCHANGED vars
  BY <1>6 DEF Group, GroupAdd, KickMember, KickPublished, KickSession, KickDone,
              RedisCommand, vars
<1> QED
  BY <1>1, <1>2, <1>3, <1>4, <1>5, <1>6 DEF Next, Create

LEMMA PushedKept ==
    TypeOK /\ Lifecycle /\ Removed /\ Pushed /\ [Next]_vars => Pushed'
<1> SUFFICES ASSUME TypeOK, Lifecycle, Removed, Pushed, [Next]_vars,
                    NEW s \in Sessions, Owner[s] \in given'
             PROVE  /\ push'.pc = "done" => Entered(s)'
                    /\ push'.pc \in {"user", "sessions"} =>
                          \/ Owner[s] \in push'.users
                          \/ Entered(s)'
                          \/ /\ push'.pc = "sessions" /\ push'.user = Owner[s]
                             /\ s \in push'.first \ push'.seen
  BY DEF Pushed
<1>0. CASE push'.pc = "adding"
  BY <1>0
<1>1. CASE push'.pc # "adding"
  <2>0. Owner[s] \in given /\ (Entered(s) => Entered(s)')
    BY <1>1, GivenKept, SettledKept
  <2>1. CASE UNCHANGED push
    BY <2>0, <2>1 DEF Pushed
  <2>2. CASE PushMembers
    BY <2>0, <2>2 DEF PushMembers, Removed, TypeOK, Loops
  <2>3. ASSUME NEW u \in Users, PushUser(u)
        PROVE  \/ Owner[s] \in push'.users
               \/ Entered(s)'
               \/ push'.user = Owner[s] /\ s \in push'.first \ push'.seen
    <3>1. CASE Owner[s] = u
      <4>1. push'.user = u /\ push'.first = SessionsOf(u) /\ push'.seen = {}
        BY <2>3 DEF PushUser, TypeOK, Loops
      <4>2. Entered(s) \/ s \in SessionsOf(u)
        BY <3>1 DEF Entered, SessionsOf, Lifecycle, PastAuth
      <4> QED
        BY <2>0, <3>1, <4>1, <4>2
    <3>2. CASE Owner[s] # u
      BY <2>0, <2>3, <3>2 DEF PushUser, Pushed, TypeOK, Loops
    <3> QED
      BY <3>1, <3>2
  <2>4. ASSUME NEW r \in Sessions, PushSession(r)
        PROVE  \/ Owner[s] \in push'.users
               \/ Entered(s)'
               \/ push'.user = Owner[s] /\ s \in push'.first \ push'.seen
    <3>1. CASE r = s
      BY <2>4, <3>1 DEF PushSession, Attach, Entered, tables
    <3>2. CASE r # s
      BY <2>0, <2>4, <3>2 DEF PushSession, Pushed, TypeOK, Loops
    <3> QED
      BY <3>1, <3>2
  <2>5. CASE PushUserDone
    <3>1. /\ push.pc = "sessions" /\ push'.pc = "user" /\ push'.users = push.users
          /\ (SessionsOf(push.user) \cap push.first) \subseteq push.seen
      BY <2>5 DEF PushUserDone, NoLoop, TypeOK, Loops
    <3>2. Owner[s] \in push.users \/ Entered(s) \/ s \notin SessionsOf(push.user)
      BY <2>0, <3>1 DEF Pushed
    <3> QED
      BY <2>0, <3>1, <3>2 DEF Pushed, Entered, SessionsOf, Lifecycle, PastAuth
  <2>6. CASE PushDone
    BY <2>0, <2>6 DEF PushDone, Pushed, TypeOK, Loops
  <2> QED
    BY <1>1, <2>1, <2>2, <2>3, <2>4, <2>5, <2>6, PushSteps DEF PushMembers, PushUserDone, PushDone
<1> QED
  BY <1>0, <1>1

-----------------------------------------------------------------------------
(***************************************************************************)
(* The invariant and what follows from it                                  *)
(***************************************************************************)

\* The parts hold together in every reachable state.
THEOREM Invariance == Spec => []SessionsInv
<1>1. Init => Lifecycle /\ Filed /\ Counted /\ Commanded /\ Removed /\ Attached /\ Pushed
  BY FS_EmptySet DEF Init, NoLoop, Lifecycle, Filed, Counted, Commanded, Removed, Attached,
                     Pushed
<1>2. SessionsInv /\ TypeOK' /\ [Next]_vars => SessionsInv'
  BY LifecycleKept, FiledKept, CountedKept, CommandedKept, RemovedKept, AttachedKept,
     PushedKept DEF SessionsInv
<1>3. TypeOK /\ Lifecycle /\ Filed /\ Counted /\ Commanded /\ Removed /\ Attached /\ Pushed
      <=> SessionsInv
  BY DEF SessionsInv
<1> QED
  BY <1>1, <1>2, <1>3, TypeCorrect, PTL DEF Spec

\* Whatever order HELLOs, closes, pushes and removals run in, a process with a socket in
\* the index is subscribed once Redis has executed what was sent to it
\* (lib/fanout.js:17-26).
THEOREM IndexHears == Spec => []IndexedHearBroadcasts
<1>1. SessionsInv => IndexedHearBroadcasts
  <2> SUFFICES ASSUME SessionsInv, commands = << >>, index # {}
               PROVE  subscribed
    BY DEF IndexedHearBroadcasts
  <2>1. Cardinality(index) # 0
    BY IndexFinite, FS_EmptySet DEF SessionsInv
  <2> QED
    BY <2>1, IndexFinite DEF SessionsInv, TypeOK, Counted, Commanded
<1> QED
  BY <1>1, Invariance, PTL

\* An open socket whose HELLO is over is in the index of every conversation its user was
\* given by a POST or found themself a member of, in whatever order the HELLO, the push,
\* the removals and the closes run (lib/core/gateway.js:98-141, 157-169, 199-208).
THEOREM MembersIndexed == Spec => []MembersAreIndexed
<1>1. SessionsInv => MembersAreIndexed
  <2> SUFFICES ASSUME SessionsInv, NEW s \in Sessions, ws[s] = "open", hello[s] = "done",
                      s \in known \/ (push.pc = "done" /\ Owner[s] \in given)
               PROVE  s \in index
    BY DEF MembersAreIndexed
  <2>1. s \in convs
    BY DEF SessionsInv, Attached, Pushed, Entered
  <2>2. s \in registered
    BY DEF SessionsInv, Lifecycle, PastAuth
  <2> QED
    BY <2>1, <2>2 DEF SessionsInv, Filed
<1> QED
  BY <1>1, Invariance, PTL

-----------------------------------------------------------------------------
(***************************************************************************)
(* The load of one socket, for every rate, bucket and limit                *)
(***************************************************************************)

\* What the served frames cost is paid by a full bucket and the refills since the observer
\* began; before the first refill nothing has been served.
Paid ==
    IF lastRefill >= mark
    THEN spent + tokens <= RateCap + (lastRefill - mark)
    ELSE spent = 0

\* The inductive invariant.
RateInv == RateTypeOK /\ Paid /\ BufferBounded

\* The bucket after a refill is within its bounds, and at most the elapsed time fuller.
LEMMA RefillBounded ==
    ASSUME RateTypeOK
    PROVE  /\ Refilled \in 0..RateCap
           /\ Refilled <= tokens + (clock - lastRefill)
  BY ThrottleAssumption DEF RateTypeOK, Refilled

\* A frame goes to the buffer only below the limit, so it exceeds it by one frame at most.
LEMMA SendBounded ==
    ASSUME RateTypeOK, BufferBounded, NEW size \in 0..MaxFrame, Send(size)
    PROVE  buffered' \in Nat /\ BufferBounded'
  BY ThrottleAssumption DEF RateTypeOK, BufferBounded, Send

LEMMA RateInitial == RateInit => RateInv
  BY ThrottleAssumption DEF RateInit, RateInv, RateTypeOK, Paid, BufferBounded

\* One step for each action of the socket.
LEMMA RateStep == RateInv /\ [RateNext]_rateVars => RateInv'
<1> SUFFICES ASSUME RateInv, [RateNext]_rateVars
             PROVE  RateInv'
  OBVIOUS
<1> USE ThrottleAssumption
<1>0. RateTypeOK /\ Paid /\ BufferBounded
  BY DEF RateInv
<1>1. ASSUME NEW size \in 0..MaxFrame, Serve(size)
      PROVE  RateInv'
  <2>1. buffered' \in Nat /\ BufferBounded'
    BY <1>0, <1>1, SendBounded DEF Serve
  <2>2. /\ Refilled \in 0..RateCap
        /\ Refilled <= tokens + (clock - lastRefill)
    BY <1>0, RefillBounded
  <2>3. Paid'
    <3>1. CASE lastRefill >= mark
      BY <1>0, <1>1, <2>2, <3>1 DEF Serve, Paid, RateTypeOK
    <3>2. CASE lastRefill < mark
      BY <1>0, <1>1, <2>2, <3>2 DEF Serve, Paid, RateTypeOK
    <3> QED
      BY <1>0, <3>1, <3>2 DEF RateTypeOK
  <2>4. RateTypeOK'
    BY <1>0, <1>1, <2>1, <2>2 DEF Serve, RateTypeOK
  <2> QED
    BY <2>1, <2>3, <2>4 DEF RateInv
<1>2. ASSUME NEW size \in 0..MaxFrame, Refuse(size)
      PROVE  RateInv'
  <2>1. buffered' \in Nat /\ BufferBounded'
    BY <1>0, <1>2, SendBounded DEF Refuse
  <2>2. /\ Refilled \in 0..RateCap
        /\ Refilled <= tokens + (clock - lastRefill)
    BY <1>0, RefillBounded
  <2>3. Paid'
    <3>1. CASE lastRefill >= mark
      BY <1>0, <1>2, <2>2, <3>1 DEF Refuse, Paid, RateTypeOK, observer
    <3>2. CASE lastRefill < mark
      BY <1>0, <1>2, <2>2, <3>2 DEF Refuse, Paid, RateTypeOK, observer
    <3> QED
      BY <1>0, <3>1, <3>2 DEF RateTypeOK
  <2>4. RateTypeOK'
    BY <1>0, <1>2, <2>1, <2>2 DEF Refuse, RateTypeOK, observer
  <2> QED
    BY <2>1, <2>3, <2>4 DEF RateInv
<1>3. ASSUME NEW size \in 0..MaxFrame, Push(size)
      PROVE  RateInv'
  <2>1. buffered' \in Nat /\ BufferBounded'
    BY <1>0, <1>3, SendBounded DEF Push
  <2> QED
    BY <1>0, <1>3, <2>1 DEF Push, observer, RateInv, RateTypeOK, Paid
<1>4. CASE Drain
  BY <1>0, <1>4 DEF Drain, observer, RateInv, RateTypeOK, Paid, BufferBounded
<1>5. CASE Closing
  BY <1>0, <1>5 DEF Closing, observer, RateInv, RateTypeOK, Paid, BufferBounded
<1>6. CASE Tick
  BY <1>0, <1>6 DEF Tick, observer, RateInv, RateTypeOK, Paid, BufferBounded
<1>7. CASE Observe
  BY <1>0, <1>7 DEF Observe, RateInv, RateTypeOK, Paid, BufferBounded
<1>8. CASE UNCHANGED rateVars
  BY <1>0, <1>8 DEF rateVars, observer, RateInv, RateTypeOK, Paid, BufferBounded
<1> QED
  BY <1>1, <1>2, <1>3, <1>4, <1>5, <1>6, <1>7, <1>8 DEF RateNext

\* The variables keep their types, in particular the bucket never holds less than nothing
\* nor more than its capacity.
THEOREM RateTypeCorrect == RateSpec => []RateTypeOK
<1>1. RateInv => RateTypeOK
  BY DEF RateInv
<1> QED
  BY RateInitial, RateStep, <1>1, PTL DEF RateSpec

\* No client can make the gateway serve it more than the bucket allows in any period, nor
\* keep more than the limit and one frame for it.
THEOREM SocketLoadBounded == RateSpec => []LoadIsBounded
<1>1. RateInv => LoadIsBounded
  BY ThrottleAssumption DEF RateInv, RateTypeOK, Paid, NoBurst, LoadIsBounded
<1> QED
  BY RateInitial, RateStep, <1>1, PTL DEF RateSpec

-----------------------------------------------------------------------------
(***************************************************************************)
(* Reconnect: replay and live broadcast                                    *)
(***************************************************************************)

Frame == [type : {"MSG", "SYNC_GAP"}, n : 0..MaxMessages]

Places == {"none", "attach", "subscribing", "gap", "replay", "send", "drain", "trim", "done"}

Command == [op : {"subscribe", "unsubscribe"}, by : Nat]

Elements(q) == {q[i] : i \in 1..Len(q)}

\* A writer has drawn its number; past the insert its message is stored.
WritersDrawn ==
    /\ stored \subseteq 1..counter
    /\ \A w \in Writers :
          /\ writer[w].pc = "insert" => writer[w].n \in 1..counter
          /\ writer[w].pc \in {"publish", "offline"} => writer[w].n \in stored

\* Only stored messages travel.
TravelStored ==
    /\ Elements(bus) \subseteq stored
    /\ \A s \in Connections : \A f \in Elements(down[s]) : f.type = "MSG" => f.n \in stored

\* An open connection whose HELLO is past _indexAdd is a target of what is delivered.
Filing ==
    \A s \in Connections :
        /\ sock[s] = "new" => greeting[s] = "none"
        /\ sock[s] = "open" /\ greeting[s] \notin {"none", "attach"} => s \in targets

\* What Redis will have executed in the end is a SUBSCRIBE if anyone is interested.
LastSubscribes ==
    Interested => IF subQueue = << >> THEN listening
                  ELSE subQueue[Len(subQueue)].op = "subscribe"

\* The SUBSCRIBE of a session that has not called addInterest is nowhere, and the one
\* of a session that waits for it is the last command on its way, as nobody can give up
\* the interest before that session does.
Waiting ==
    \A s \in Connections :
        /\ greeting[s] \in {"none", "attach"} =>
              \A i \in 1..Len(subQueue) : subQueue[i] # Subscribe(s)
        /\ sock[s] = "open" /\ greeting[s] = "subscribing" =>
              /\ subQueue # << >>
              /\ \A i \in 1..Len(subQueue) : subQueue[i] = Subscribe(s) <=> i = Len(subQueue)

\* A session past the await that was not hasty hears what is published.
Hears ==
    \A s \in Connections \ hasty :
        sock[s] = "open" /\ greeting[s] \notin {"none", "attach", "subscribing"} =>
            listening /\ subQueue = << >>

Subscribed == Filing /\ LastSubscribes /\ Waiting /\ Hears

\* Only a replay that is under way has read something.
ReadsOnce == \A s \in Connections : greeting[s] # "send" => read[s] = {}

\* The connection s has been promised message n, which is not in its replay.
Owed(s, n) ==
    /\ sock[s] = "open" /\ greeting[s] \in {"send", "drain", "trim", "done"}
    /\ n \in stored /\ n > cursor[s] /\ n \notin read[s]

Coming(n, s) == OnItsWay(n, s) \/ Missed(s, n)

Promised == \A s \in Connections : \A n : Owed(s, n) => n \in have \/ Coming(n, s)

Moving == ReconnectTypeOK /\ WritersDrawn /\ TravelStored /\ ReadsOnce /\ Promised

ReconnectInv == Moving /\ Subscribed

-----------------------------------------------------------------------------
(* Sequences as sets.                                                      *)

LEMMA EmptyElements == Elements(<< >>) = {}
  BY EmptySeq DEF Elements

LEMMA ElementsOfConcat ==
    ASSUME NEW S, NEW a \in Seq(S), NEW b \in Seq(S)
    PROVE  a \o b \in Seq(S) /\ Elements(a \o b) = Elements(a) \cup Elements(b)
  <1>1. /\ a \o b \in Seq(S) /\ Len(a \o b) = Len(a) + Len(b)
        /\ \A i \in 1 .. Len(a) + Len(b) :
              (a \o b)[i] = IF i <= Len(a) THEN a[i] ELSE b[i - Len(a)]
    BY ConcatProperties
  <1>2. Len(a) \in Nat /\ Len(b) \in Nat
    BY LenProperties
  <1>3. ASSUME NEW i \in 1..Len(a)  PROVE i \in 1..(Len(a) + Len(b)) /\ (a \o b)[i] = a[i]
    BY <1>1, <1>2
  <1>4. ASSUME NEW i \in 1..Len(b)
        PROVE  i + Len(a) \in 1..(Len(a) + Len(b)) /\ (a \o b)[i + Len(a)] = b[i]
    <2>1. i + Len(a) \in 1..(Len(a) + Len(b)) /\ ~(i + Len(a) <= Len(a))
          /\ i + Len(a) - Len(a) = i
      BY <1>2
    <2> QED  BY <1>1, <2>1
  <1>5. ASSUME NEW i \in 1..(Len(a) + Len(b))
        PROVE  (a \o b)[i] \in Elements(a) \cup Elements(b)
    <2>1. CASE i <= Len(a)
      BY <1>1, <1>2, <2>1 DEF Elements
    <2>2. CASE ~(i <= Len(a))
      <3>1. i - Len(a) \in 1..Len(b)
        BY <1>2, <2>2
      <3> QED  BY <1>1, <2>2, <3>1 DEF Elements
    <2> QED  BY <2>1, <2>2
  <1>6. \A x \in Elements(a \o b) : x \in Elements(a) \cup Elements(b)
    BY <1>1, <1>5 DEF Elements
  <1>7. \A x \in Elements(a) : x \in Elements(a \o b)
    BY <1>1, <1>3 DEF Elements
  <1>8. \A x \in Elements(b) : x \in Elements(a \o b)
    BY <1>1, <1>4 DEF Elements
  <1> QED  BY <1>1, <1>6, <1>7, <1>8

LEMMA ElementsOfAppend ==
    ASSUME NEW S, NEW q \in Seq(S), NEW e \in S
    PROVE  Append(q, e) \in Seq(S) /\ Elements(Append(q, e)) = Elements(q) \cup {e}
  <1>1. /\ Append(q, e) \in Seq(S) /\ Len(Append(q, e)) = Len(q) + 1 /\ Len(q) \in Nat
        /\ \A i \in 1..Len(q) : Append(q, e)[i] = q[i]
        /\ Append(q, e)[Len(q) + 1] = e
    OBVIOUS
  <1>2. \A i \in 1..(Len(q) + 1) : i \in 1..Len(q) \/ i = Len(q) + 1
    BY <1>1
  <1>3. 1..Len(q) \subseteq 1..(Len(q) + 1) /\ Len(q) + 1 \in 1..(Len(q) + 1)
    BY <1>1
  <1>4. \A x : x \in Elements(Append(q, e)) <=> \E i \in 1..(Len(q) + 1) : Append(q, e)[i] = x
    BY <1>1 DEF Elements
  <1>5. \A x : x \in Elements(q) <=> \E i \in 1..Len(q) : q[i] = x
    BY DEF Elements
  <1>6. \A x : x \in Elements(Append(q, e)) <=> x \in Elements(q) \/ x = e
    BY <1>1, <1>2, <1>3, <1>4, <1>5
  <1> QED  BY <1>1, <1>6

LEMMA ElementsOfTail ==
    ASSUME NEW S, NEW q \in Seq(S), q # << >>
    PROVE  /\ Head(q) \in S /\ Tail(q) \in Seq(S)
           /\ Elements(q) = {Head(q)} \cup Elements(Tail(q))
  <1>1. /\ Head(q) \in S /\ Tail(q) \in Seq(S) /\ Len(Tail(q)) = Len(q) - 1
        /\ \A i \in 1 .. Len(Tail(q)) : Tail(q)[i] = q[i + 1]
    BY HeadTailProperties
  <1>2. Len(q) \in Nat \ {0} /\ Head(q) = q[1]
    BY EmptySeq
  <1>3. \A i \in 1..Len(Tail(q)) : i + 1 \in 1..Len(q)
    BY <1>1, <1>2
  <1>4. \A i \in 1..Len(q) : i = 1 \/ (i - 1 \in 1..Len(Tail(q)) /\ Tail(q)[i - 1] = q[i])
    BY <1>1, <1>2
  <1>5. \A x \in Elements(q) : x = Head(q) \/ x \in Elements(Tail(q))
    BY <1>2, <1>4 DEF Elements
  <1>6. Head(q) \in Elements(q)
    BY <1>2 DEF Elements
  <1>7. \A x \in Elements(Tail(q)) : x \in Elements(q)
    BY <1>1, <1>3 DEF Elements
  <1> QED  BY <1>1, <1>5, <1>6, <1>7

-----------------------------------------------------------------------------
(* What is replayed: the frames of a finite set of numbers, each once.     *)

LEMMA AscendingCovers ==
    ASSUME NEW S \in SUBSET Nat, IsFiniteSet(S)
    PROVE  /\ Cardinality(S) \in Nat
           /\ \A i \in 1..Cardinality(S) : Ascending(S)[i] \in S
           /\ \A n \in S : \E i \in 1..Cardinality(S) : Ascending(S)[i] = n
  <1> DEFINE Below(n) == {m \in S : m <= n}
             rank == [n \in S |-> Cardinality(Below(n))]
             T == 1..Cardinality(S)
  <1>1. Cardinality(S) \in Nat
    BY FS_CardinalityType
  <1>2. ASSUME NEW n \in S
        PROVE  IsFiniteSet(Below(n)) /\ Cardinality(Below(n)) \in T
    <2>1. Below(n) \in SUBSET S /\ Below(n) # {}
      OBVIOUS
    <2> HIDE DEF Below
    <2>2. IsFiniteSet(Below(n)) /\ Cardinality(Below(n)) <= Cardinality(S)
      BY <2>1, FS_Subset
    <2>3. Cardinality(Below(n)) \in Nat /\ Cardinality(Below(n)) # 0
      BY <2>1, <2>2, FS_CardinalityType, FS_EmptySet
    <2> QED  BY <1>1, <2>2, <2>3
  <1>3. ASSUME NEW m \in S, NEW n \in S, Cardinality(Below(m)) = Cardinality(Below(n))
        PROVE  m = n
    <2>1. ASSUME NEW a \in S, NEW b \in S, a < b, Cardinality(Below(a)) = Cardinality(Below(b))
          PROVE  FALSE
      <3>1. Below(a) \in SUBSET Below(b) /\ b \in Below(b) /\ b \notin Below(a)
        <4>1. \A x \in S : x \in Int
          OBVIOUS
        <4>2. \A x \in S : x <= a => x <= b
          BY <2>1, <4>1
        <4>3. b <= b /\ ~(b <= a)
          BY <2>1, <4>1
        <4> QED  BY <4>2, <4>3
      <3>2. IsFiniteSet(Below(b))
        BY <1>2
      <3> HIDE DEF Below
      <3> QED  BY <2>1, <3>1, <3>2, FS_Subset
    <2>2. m \in Nat /\ n \in Nat
      OBVIOUS
    <2> HIDE DEF Below
    <2> QED  BY <1>3, <2>1, <2>2
  <1>4. rank \in [S -> T] /\ \A n \in S : rank[n] = Cardinality(Below(n))
    BY <1>2
  <1>5. rank \in Injection(S, T)
    <2> HIDE DEF rank, Below
    <2> QED  BY <1>3, <1>4 DEF Injection, IsInjective
  <1>6. IsFiniteSet(T) /\ Cardinality(T) = Cardinality(S)
    <2>1. IsFiniteSet(T) /\ Cardinality(T) = IF 1 > Cardinality(S) THEN 0 ELSE Cardinality(S) - 1 + 1
      BY <1>1, FS_Interval
    <2> QED  BY <1>1, <2>1
  <1>7. rank \in Surjection(S, T)
    <2> HIDE DEF rank, T
    <2> QED  BY <1>5, <1>6, FS_Injection
  <1>8. \A i \in T : \E n \in S : Cardinality(Below(n)) = i
    <2> HIDE DEF rank, Below, T
    <2> QED  BY <1>4, <1>7 DEF Surjection
  <1>9. \A i \in T : Ascending(S)[i] \in S /\ Cardinality(Below(Ascending(S)[i])) = i
    <2>1. \A i \in T : Ascending(S)[i] = CHOOSE n \in S : Cardinality(Below(n)) = i
      BY DEF Ascending
    <2> HIDE DEF Below, T
    <2> QED  BY <1>8, <2>1
  <1>10. ASSUME NEW n \in S  PROVE \E i \in T : Ascending(S)[i] = n
    <2> DEFINE i == Cardinality(Below(n))
    <2>1. i \in T
      BY <1>2
    <2>2. Ascending(S)[i] \in S /\ Cardinality(Below(Ascending(S)[i])) = i
      BY <1>9, <2>1
    <2>3. Ascending(S)[i] = n
      <3> HIDE DEF Below
      <3> QED  BY <1>3, <2>2
    <2> QED  BY <2>1, <2>3
  <1> QED  BY <1>1, <1>9, <1>10

LEMMA FramesCarry ==
    ASSUME ReconnectAssumption, NEW S \in SUBSET (1..MaxMessages)
    PROVE  /\ Frames(S) \in Seq(Frame)
           /\ \A f \in Elements(Frames(S)) : f.type = "MSG" /\ f.n \in S
           /\ \A n \in S : Msg(n) \in Elements(Frames(S))
  <1>1. S \in SUBSET Nat /\ IsFiniteSet(S)
    <2>1. IsFiniteSet(1..MaxMessages)
      BY FS_Interval DEF ReconnectAssumption
    <2>2. IsFiniteSet(S)
      BY <2>1, FS_Subset
    <2>3. 1..MaxMessages \subseteq Nat
      BY DEF ReconnectAssumption
    <2> QED  BY <2>2, <2>3
  <1> DEFINE c == Cardinality(S)
             a == Ascending(S)
  <1>2. /\ c \in Nat /\ \A i \in 1..c : a[i] \in S
        /\ \A n \in S : \E i \in 1..c : a[i] = n
    BY <1>1, AscendingCovers
  <1>3. Frames(S) = [i \in 1..c |-> Msg(a[i])]
    BY DEF Frames
  <1> HIDE DEF c, a
  <1>4. ASSUME NEW n \in S  PROVE Msg(n) \in Frame /\ Msg(n).type = "MSG" /\ Msg(n).n = n
    BY DEF Msg, Frame, ReconnectAssumption
  <1>5. \A i \in 1..c : Msg(a[i]) \in Frame
    BY <1>2, <1>4
  <1>6. Frames(S) \in Seq(Frame) /\ Len(Frames(S)) = c
    BY <1>2, <1>3, <1>5
  <1>7. \A i \in 1..c : Frames(S)[i] = Msg(a[i])
    BY <1>3
  <1>8. \A x : x \in Elements(Frames(S)) <=> \E i \in 1..c : Msg(a[i]) = x
    BY <1>6, <1>7 DEF Elements
  <1>9. \A f \in Elements(Frames(S)) : f.type = "MSG" /\ f.n \in S
    <2> SUFFICES ASSUME NEW f \in Elements(Frames(S))  PROVE f.type = "MSG" /\ f.n \in S
      OBVIOUS
    <2>1. PICK i \in 1..c : Msg(a[i]) = f
      BY <1>8
    <2>2. a[i] \in S
      BY <1>2
    <2>3. Msg(a[i]).type = "MSG" /\ Msg(a[i]).n = a[i]
      BY <1>4, <2>2
    <2> QED  BY <2>1, <2>2, <2>3
  <1>10. \A n \in S : Msg(n) \in Elements(Frames(S))
    BY <1>2, <1>8
  <1> QED  BY <1>6, <1>9, <1>10

-----------------------------------------------------------------------------
(* Where a message still is, over sets of frames.                          *)

Brings(f, n) == IF f.type = "MSG" THEN f.n = n ELSE f.n < n

LEMMA OnItsWayForm ==
    ASSUME NEW n, NEW s
    PROVE  OnItsWay(n, s) <=>
               \/ \E w \in Writers : writer[w].n = n /\ writer[w].pc = "publish"
               \/ n \in Elements(bus)
               \/ \E f \in Elements(down[s]) : Brings(f, n)
               \/ \E from \in fetch \cup gaveUp : from < n
  BY DEF OnItsWay, Elements, Brings

LEMMA OnItsWayFormNext ==
    ASSUME NEW n, NEW s
    PROVE  OnItsWay(n, s)' <=>
               \/ \E w \in Writers : writer'[w].n = n /\ writer'[w].pc = "publish"
               \/ n \in Elements(bus')
               \/ \E f \in Elements(down'[s]) : Brings(f, n)
               \/ \E from \in fetch' \cup gaveUp' : from < n
  BY DEF OnItsWay, Elements, Brings

LEMMA PromiseKept == ReconnectInv => NoGapWhileConnected
  <1> SUFFICES ASSUME ReconnectInv, NEW s \in Connections, sock[s] = "open",
                      greeting[s] \in {"drain", "trim", "done"}, NEW n \in Above(cursor[s])
               PROVE  n \in have \/ OnItsWay(n, s) \/ Missed(s, n)
    BY DEF NoGapWhileConnected
  <1>1. read[s] = {}
    BY DEF ReconnectInv, Moving, ReadsOnce
  <1>2. Owed(s, n)
    BY <1>1 DEF Owed, Above
  <1> QED  BY <1>2 DEF ReconnectInv, Moving, Promised, Coming

LEMMA InitInv == ASSUME ReconnectInit PROVE ReconnectInv
  <1>1. MaxMessages \in Nat
    BY ReconnectAssumption
  <1>2. ReconnectTypeOK
    <2>1. << >> \in Seq(1..MaxMessages) /\ << >> \in Seq(Frame)
      BY EmptySeq
    <2>2. bus \in Seq(1..MaxMessages) /\ down \in [Connections -> Seq(Frame)]
      BY <2>1, Zenon DEF ReconnectInit
    <2>3. writer \in [Writers -> [pc : {"idle", "insert", "publish", "offline"}, n : 0..MaxMessages]]
      BY <1>1 DEF ReconnectInit, Idle
    <2>4. /\ counter \in 0..MaxMessages /\ stored \subseteq 1..MaxMessages
          /\ cursor \in [Connections -> 0..MaxMessages]
          /\ lastSeq \in 0..MaxMessages /\ fetch \cup gaveUp \subseteq 0..MaxMessages
      BY <1>1 DEF ReconnectInit
    <2>5. /\ sock \in [Connections -> {"new", "open", "lost", "closed"}]
          /\ greeting \in [Connections -> Places]
          /\ targets \subseteq Connections /\ hasty \subseteq Connections
          /\ inbox \subseteq stored /\ have \subseteq stored /\ unheard \subseteq stored
          /\ neighbour \in {"away", "here", "gone"} /\ read \in [Connections -> SUBSET stored]
      BY DEF ReconnectInit, Places
    <2>6. presence \in BOOLEAN /\ listening \in BOOLEAN
      BY Zenon DEF ReconnectInit
    <2>7. subQueue \in Seq(Command)
      BY EmptySeq DEF ReconnectInit
    <2> QED  BY <2>2, <2>3, <2>4, <2>5, <2>6, <2>7, Zenon
             DEF ReconnectTypeOK, Frame, Places, Command
  <1>3. WritersDrawn
    BY DEF ReconnectInit, WritersDrawn, Idle
  <1>4. TravelStored
    BY EmptyElements DEF ReconnectInit, TravelStored
  <1>5. ReadsOnce /\ Promised
    BY DEF ReconnectInit, ReadsOnce, Promised, Owed
  <1>6. Subscribed
    <2>1. Filing /\ Hears
      BY DEF ReconnectInit, Filing, Hears
    <2>2. LastSubscribes
      BY DEF ReconnectInit, LastSubscribes, Interested
    <2>3. Waiting
      BY DEF ReconnectInit, Waiting
    <2> QED  BY <2>1, <2>2, <2>3 DEF Subscribed
  <1> QED  BY <1>2, <1>3, <1>4, <1>5, <1>6 DEF ReconnectInv, Moving

-----------------------------------------------------------------------------
(* What a step must do to keep its promises.                               *)

LEMMA Kept ==
    ASSUME Promised, have \subseteq have',
           \A s \in Connections : \A n :
               Owed(s, n)' => Owed(s, n) \/ n \in have' \/ Coming(n, s)',
           \A s \in Connections : \A n :
               Owed(s, n) /\ Coming(n, s) => n \in have' \/ Coming(n, s)'
    PROVE  Promised'
  BY DEF Promised

\* A step that leaves the promises as they are.
LEMMA SameOwed ==
    ASSUME UNCHANGED <<sock, greeting, cursor, read, stored>>, NEW s, NEW n
    PROVE  Owed(s, n)' <=> Owed(s, n)
  BY DEF Owed

\* A step that takes nothing away that is on its way.
LEMMA MoreOnItsWay ==
    ASSUME \A w \in Writers : writer[w].pc = "publish" => writer'[w] = writer[w],
           Elements(bus) \subseteq Elements(bus'),
           \A s \in Connections : Elements(down[s]) \subseteq Elements(down'[s]),
           fetch \cup gaveUp \subseteq fetch' \cup gaveUp',
           hasty \subseteq hasty', unheard \subseteq unheard',
           NEW s \in Connections, NEW n, Coming(n, s)
    PROVE  Coming(n, s)'
  <1>1. OnItsWay(n, s) => OnItsWay(n, s)'
    BY OnItsWayForm, OnItsWayFormNext
  <1>2. Missed(s, n) => Missed(s, n)'
    BY DEF Missed
  <1> QED  BY <1>1, <1>2 DEF Coming

LEMMA WriteSteps ==
    ASSUME ReconnectInv, NEW w \in Writers, Write(w)
    PROVE  Moving'
  <1> USE DEF server, sessions, subscription, client
  <1> DEFINE WriterRecord == [pc : {"idle", "insert", "publish", "offline"}, n : 0..MaxMessages]
  <1>1. /\ MaxMessages \in Nat /\ counter \in 0..MaxMessages /\ stored \subseteq 1..counter
        /\ writer \in [Writers -> WriterRecord] /\ writer[w] \in WriterRecord
        /\ bus \in Seq(1..MaxMessages) /\ down \in [Connections -> Seq(Frame)]
        /\ \A v \in Writers : /\ writer[v].pc = "insert" => writer[v].n \in 1..counter
                              /\ writer[v].pc \in {"publish", "offline"} => writer[v].n \in stored
    BY ReconnectAssumption DEF Places, Command, ReconnectInv, Moving, ReconnectTypeOK, WritersDrawn, Frame
  <1>2. CASE Alloc(w)
    <2> DEFINE r == [pc |-> "insert", n |-> counter + 1]
    <2>1. /\ counter + 1 \in 0..MaxMessages /\ counter' = counter + 1
          /\ r \in WriterRecord /\ r.n \in 1..(counter + 1) /\ r.pc = "insert"
          /\ 1..counter \subseteq 1..(counter + 1)
      BY <1>1, <1>2 DEF Alloc
    <2>2. writer' = [writer EXCEPT ![w] = r] /\ writer[w].pc = "idle"
      BY <1>2 DEF Alloc
    <2> HIDE DEF r
    <2>3. UNCHANGED <<stored, sock, greeting, cursor, read, targets, neighbour, subQueue,
                      listening, hasty, presence, bus, unheard, inbox, down, have,
                      lastSeq, fetch, gaveUp>>
      BY <1>2 DEF Alloc
    <2>4. writer' \in [Writers -> WriterRecord] /\ writer'[w] = r
          /\ \A v \in Writers : v # w => writer'[v] = writer[v]
      BY <1>1, <2>1, <2>2
    <2>5. ReconnectTypeOK'
      BY <2>1, <2>3, <2>4 DEF Places, Command, ReconnectInv, Moving, ReconnectTypeOK
    <2>6. WritersDrawn'
      <3>1. stored' \subseteq 1..counter'
        BY <1>1, <2>1, <2>3
      <3>2. ASSUME NEW v \in Writers
            PROVE  /\ writer'[v].pc = "insert" => writer'[v].n \in 1..counter'
                   /\ writer'[v].pc \in {"publish", "offline"} => writer'[v].n \in stored'
        <4>1. CASE v = w
          BY <2>1, <2>4, <4>1
        <4>2. CASE v # w
          BY <1>1, <2>1, <2>3, <2>4, <4>2
        <4> QED  BY <4>1, <4>2
      <3> QED  BY <3>1, <3>2 DEF WritersDrawn
    <2>7. TravelStored' /\ ReadsOnce'
      BY <2>3 DEF ReconnectInv, Moving, TravelStored, ReadsOnce
    <2>8. Promised'
      <3>1. \A v \in Writers : writer[v].pc = "publish" => writer'[v] = writer[v]
        BY <2>2, <2>4
      <3> QED  BY <2>3, <3>1, Kept, SameOwed, MoreOnItsWay DEF ReconnectInv, Moving
    <2> QED  BY <2>5, <2>6, <2>7, <2>8 DEF ReconnectInv, Moving
  <1>3. ASSUME NEW p \in {"idle", "publish", "offline"}, NEW r \in WriterRecord,
               r.pc = p, r.n = writer[w].n \/ p = "idle",
               writer' = [writer EXCEPT ![w] = r]
        PROVE  /\ writer' \in [Writers -> WriterRecord] /\ writer'[w] = r
               /\ \A v \in Writers : v # w => writer'[v] = writer[v]
    BY <1>1, <1>3
  <1>4. CASE Insert(w)
    <2> DEFINE r == [writer[w] EXCEPT !.pc = "publish"]
               n == writer[w].n
    <2>1. /\ r \in WriterRecord /\ r.pc = "publish" /\ r.n = n
          /\ n \in 1..counter /\ writer[w].pc = "insert"
      BY <1>1, <1>4 DEF Insert
    <2>2. /\ writer' = [writer EXCEPT ![w] = r] /\ stored' = stored \cup {n}
          /\ UNCHANGED <<counter, sock, greeting, cursor, read, targets, neighbour, subQueue,
                         listening, hasty, presence, bus, unheard, inbox, down,
                         have, lastSeq, fetch, gaveUp>>
      BY <1>4 DEF Insert
    <2> HIDE DEF r, n
    <2>3. writer' \in [Writers -> WriterRecord] /\ writer'[w] = r
          /\ \A v \in Writers : v # w => writer'[v] = writer[v]
      BY <1>1, <2>1, <2>2
    <2>4. stored' \subseteq 1..counter /\ 1..counter \subseteq 1..MaxMessages
      BY <1>1, <2>1, <2>2
    <2>5. ReconnectTypeOK'
      BY <2>2, <2>3, <2>4 DEF Places, Command, ReconnectInv, Moving, ReconnectTypeOK
    <2>6. WritersDrawn'
      <3>1. ASSUME NEW v \in Writers
            PROVE  /\ writer'[v].pc = "insert" => writer'[v].n \in 1..counter'
                   /\ writer'[v].pc \in {"publish", "offline"} => writer'[v].n \in stored'
        <4>1. CASE v = w
          BY <2>1, <2>2, <2>3, <4>1
        <4>2. CASE v # w
          BY <1>1, <2>2, <2>3, <4>2
        <4> QED  BY <4>1, <4>2
      <3> QED  BY <2>2, <2>4, <3>1 DEF WritersDrawn
    <2>7. TravelStored' /\ ReadsOnce'
      BY <2>2 DEF ReconnectInv, Moving, TravelStored, ReadsOnce
    <2>8. Promised'
      <3>1. \A v \in Writers : writer[v].pc = "publish" => writer'[v] = writer[v]
        BY <2>1, <2>3
      <3>2. ASSUME NEW s \in Connections, NEW m, Owed(s, m)'
            PROVE  Owed(s, m) \/ Coming(m, s)'
        <4>1. CASE m = n
          BY <2>1, <2>3, <4>1, OnItsWayFormNext DEF Coming
        <4>2. CASE m # n
          BY <2>2, <3>2, <4>2 DEF Owed
        <4> QED  BY <4>1, <4>2
      <3>3. Promised /\ have \subseteq have'
        BY <2>2 DEF ReconnectInv, Moving
      <3>4. ASSUME NEW s \in Connections, NEW m, Coming(m, s)
            PROVE  Coming(m, s)'
        BY <2>2, <3>1, <3>4, MoreOnItsWay
      <3> QED  BY <3>2, <3>3, <3>4, Kept
    <2> QED  BY <2>5, <2>6, <2>7, <2>8 DEF ReconnectInv, Moving
  <1>5. CASE Publish(w)
    <2> DEFINE r == [writer[w] EXCEPT !.pc = "offline"]
               n == writer[w].n
    <2>1. /\ r \in WriterRecord /\ r.pc = "offline" /\ r.n = n
          /\ n \in stored /\ n \in 1..MaxMessages /\ writer[w].pc = "publish"
      BY <1>1, <1>5 DEF Publish
    <2>2. /\ writer' = [writer EXCEPT ![w] = r]
          /\ listening => bus' = Append(bus, n) /\ unheard' = unheard
          /\ ~listening => bus' = bus /\ unheard' = unheard \cup {n}
          /\ UNCHANGED <<counter, stored, sock, greeting, cursor, read, targets, neighbour,
                         subQueue, listening, hasty, presence, inbox, down,
                         have, lastSeq, fetch, gaveUp>>
      BY <1>5 DEF Publish
    <2> HIDE DEF r, n
    <2>3. writer' \in [Writers -> WriterRecord] /\ writer'[w] = r
          /\ \A v \in Writers : v # w => writer'[v] = writer[v]
      BY <1>1, <2>1, <2>2
    <2>4. /\ bus' \in Seq(1..MaxMessages) /\ Elements(bus) \subseteq Elements(bus')
          /\ Elements(bus') \subseteq Elements(bus) \cup {n}
          /\ listening => n \in Elements(bus')
      <3>1. CASE listening
        <4>1. bus' = Append(bus, n)
          BY <2>2, <3>1
        <4>2. bus' \in Seq(1..MaxMessages) /\ Elements(bus') = Elements(bus) \cup {n}
          BY <1>1, <2>1, <4>1, ElementsOfAppend
        <4> QED  BY <4>2
      <3>2. CASE ~listening
        BY <1>1, <2>2, <3>2
      <3> QED  BY <3>1, <3>2
    <2>5. ReconnectTypeOK'
      <3>1. unheard' \subseteq stored
        BY <2>1, <2>2 DEF ReconnectInv, Moving, ReconnectTypeOK
      <3> QED  BY <2>2, <2>3, <2>4, <3>1 DEF ReconnectInv, Moving, ReconnectTypeOK
    <2>6. WritersDrawn'
      <3>1. ASSUME NEW v \in Writers
            PROVE  /\ writer'[v].pc = "insert" => writer'[v].n \in 1..counter'
                   /\ writer'[v].pc \in {"publish", "offline"} => writer'[v].n \in stored'
        <4>1. CASE v = w
          BY <2>1, <2>2, <2>3, <4>1
        <4>2. CASE v # w
          BY <1>1, <2>2, <2>3, <4>2
        <4> QED  BY <4>1, <4>2
      <3> QED  BY <1>1, <2>2, <3>1 DEF WritersDrawn
    <2>7. TravelStored' /\ ReadsOnce'
      BY <2>1, <2>2, <2>4 DEF ReconnectInv, Moving, TravelStored, ReadsOnce
    <2>8. Promised'
      <3>1. ASSUME NEW s \in Connections, NEW m, Owed(s, m), Coming(m, s)
            PROVE  Coming(m, s)'
        <4>1. s \in hasty \/ listening
          BY <3>1 DEF Owed, ReconnectInv, Subscribed, Hears
        <4>2. CASE Missed(s, m)
          <5>1. Missed(s, m)'
            BY <2>2, <4>2 DEF Missed
          <5> QED  BY <5>1 DEF Coming
        <4>3. CASE m = n /\ listening
          BY <2>4, <4>3, OnItsWayFormNext DEF Coming
        <4>4. CASE m = n /\ ~listening
          BY <2>2, <4>1, <4>4 DEF Coming, Missed
        <4>5. CASE m # n /\ OnItsWay(m, s)
          <5>1. \A v \in Writers : writer[v].n = m => writer'[v] = writer[v]
            BY <2>3, <4>5 DEF n
          <5> QED  BY <2>2, <2>4, <4>5, <5>1, OnItsWayForm, OnItsWayFormNext DEF Coming
        <4> QED  BY <3>1, <4>2, <4>3, <4>4, <4>5 DEF Coming
      <3> QED  BY <2>2, <3>1, Kept, SameOwed DEF ReconnectInv, Moving
    <2> QED  BY <2>5, <2>6, <2>7, <2>8 DEF ReconnectInv, Moving
  <1>6. CASE QueueOffline(w)
    <2> DEFINE n == writer[w].n
    <2>1. n \in stored /\ writer[w].pc = "offline" /\ Idle \in WriterRecord /\ Idle.pc = "idle"
      BY <1>1, <1>6 DEF QueueOffline, Idle
    <2>2. /\ writer' = [writer EXCEPT ![w] = Idle]
          /\ inbox' \subseteq inbox \cup {n}
          /\ UNCHANGED <<counter, stored, sock, greeting, cursor, read, targets, neighbour,
                         subQueue, listening, hasty, presence, bus, unheard, down,
                         have, lastSeq, fetch, gaveUp>>
      BY <1>6 DEF QueueOffline
    <2> HIDE DEF n
    <2>3. writer' \in [Writers -> WriterRecord] /\ writer'[w] = Idle
          /\ \A v \in Writers : v # w => writer'[v] = writer[v]
      BY <1>1, <2>1, <2>2
    <2>4. inbox' \subseteq stored
      BY <2>1, <2>2 DEF Places, Command, ReconnectInv, Moving, ReconnectTypeOK
    <2>5. ReconnectTypeOK'
      BY <2>2, <2>3, <2>4 DEF Places, Command, ReconnectInv, Moving, ReconnectTypeOK
    <2>6. WritersDrawn'
      BY <1>1, <2>1, <2>2, <2>3 DEF WritersDrawn
    <2>7. TravelStored' /\ ReadsOnce'
      BY <2>2 DEF ReconnectInv, Moving, TravelStored, ReadsOnce
    <2>8. Promised'
      <3>1. \A v \in Writers : writer[v].pc = "publish" => writer'[v] = writer[v]
        BY <2>1, <2>3
      <3> QED  BY <2>2, <3>1, Kept, SameOwed, MoreOnItsWay DEF ReconnectInv, Moving
    <2> QED  BY <2>5, <2>6, <2>7, <2>8 DEF ReconnectInv, Moving
  <1> QED  BY <1>2, <1>4, <1>5, <1>6 DEF Write

LEMMA DeliverStep ==
    ASSUME ReconnectInv, Deliver
    PROVE  Moving'
  <1> DEFINE n == Head(bus)
  <1>1. /\ bus \in Seq(1..MaxMessages) /\ down \in [Connections -> Seq(Frame)] /\ bus # << >>
        /\ stored \subseteq 1..MaxMessages /\ MaxMessages \in Nat
    BY ReconnectAssumption DEF Places, Command, ReconnectInv, Moving, ReconnectTypeOK, Frame, Deliver
  <1>2. /\ bus' \in Seq(1..MaxMessages) /\ n \in 1..MaxMessages
        /\ Elements(bus) = {n} \cup Elements(bus')
    <2>1. bus' = Tail(bus)
      BY DEF Deliver
    <2> QED  BY <1>1, <2>1, ElementsOfTail
  <1>3. /\ UNCHANGED <<counter, stored, writer, sock, greeting, cursor, read, targets,
                       neighbour, subQueue, listening, hasty, presence, unheard, inbox,
                       have, lastSeq, fetch, gaveUp>>
        /\ down' = [s \in Connections |-> IF s \in targets /\ sock[s] = "open"
                                          THEN Append(down[s], Msg(n)) ELSE down[s]]
    BY DEF Deliver, server, sessions, subscription, client
  <1> HIDE DEF n
  <1>4. Msg(n) \in Frame /\ Msg(n).type = "MSG" /\ Msg(n).n = n /\ n \in stored
    BY <1>1, <1>2 DEF Msg, Frame, ReconnectInv, Moving, TravelStored
  <1>5. ASSUME NEW s \in Connections
        PROVE  /\ down'[s] \in Seq(Frame)
               /\ Elements(down'[s]) = Elements(down[s]) \cup
                      (IF s \in targets /\ sock[s] = "open" THEN {Msg(n)} ELSE {})
    <2>1. CASE s \in targets /\ sock[s] = "open"
      BY <1>1, <1>3, <1>4, <2>1, ElementsOfAppend
    <2>2. CASE ~(s \in targets /\ sock[s] = "open")
      BY <1>1, <1>3, <2>2
    <2> QED  BY <2>1, <2>2
  <1>6. ReconnectTypeOK'
    <2>1. down' \in [Connections -> Seq(Frame)]
      BY <1>3, <1>5
    <2> QED  BY <1>2, <1>3, <2>1 DEF Places, Command, ReconnectInv, Moving, ReconnectTypeOK, Frame
  <1>7. WritersDrawn' /\ ReadsOnce'
    BY <1>3 DEF ReconnectInv, Moving, WritersDrawn, ReadsOnce
  <1>8. TravelStored'
    BY <1>2, <1>3, <1>4, <1>5 DEF ReconnectInv, Moving, TravelStored
  <1>9. Promised'
    <2>1. ASSUME NEW s \in Connections, NEW m, Owed(s, m), Coming(m, s)
          PROVE  Coming(m, s)'
      <3>1. s \in targets /\ sock[s] = "open"
        BY <2>1 DEF Owed, ReconnectInv, Subscribed, Filing
      <3>2. CASE m = n
        <4>1. Msg(n) \in Elements(down'[s]) /\ Brings(Msg(n), m)
          BY <1>4, <1>5, <3>1, <3>2 DEF Brings
        <4> QED  BY <4>1, OnItsWayFormNext DEF Coming
      <3>3. CASE m # n /\ OnItsWay(m, s)
        BY <1>2, <1>3, <1>5, <3>3, OnItsWayForm, OnItsWayFormNext DEF Coming
      <3>4. CASE Missed(s, m)
        <4>1. Missed(s, m)'
          BY <1>3, <3>4 DEF Missed
        <4> QED  BY <4>1 DEF Coming
      <3> QED  BY <2>1, <3>2, <3>3, <3>4 DEF Coming
    <2> QED  BY <1>3, <2>1, Kept, SameOwed DEF ReconnectInv, Moving
  <1> QED  BY <1>6, <1>7, <1>8, <1>9 DEF ReconnectInv, Moving

-----------------------------------------------------------------------------
(* The HELLO and the connection.                                           *)

LEMMA SendKeeps ==
    ASSUME NEW s \in Connections, NEW frames \in Seq(Frame), SendFrames(s, frames),
           down \in [Connections -> Seq(Frame)]
    PROVE  /\ down' \in [Connections -> Seq(Frame)]
           /\ \A r \in Connections :
                 /\ Elements(down[r]) \subseteq Elements(down'[r])
                 /\ Elements(down'[r]) \subseteq Elements(down[r]) \cup Elements(frames)
           /\ sock[s] = "open" => Elements(frames) \subseteq Elements(down'[s])
  <1>1. CASE sock[s] = "open"
    <2>1. down' = [down EXCEPT ![s] = down[s] \o frames]
      BY <1>1 DEF SendFrames
    <2>2. /\ down[s] \o frames \in Seq(Frame)
          /\ Elements(down[s] \o frames) = Elements(down[s]) \cup Elements(frames)
      BY ElementsOfConcat
    <2>3. down'[s] = down[s] \o frames /\ \A r \in Connections : r # s => down'[r] = down[r]
      BY <2>1
    <2>4. down' \in [Connections -> Seq(Frame)]
      BY <2>1, <2>2
    <2> QED  BY <2>2, <2>3, <2>4
  <1>2. CASE sock[s] # "open"
    BY <1>2 DEF SendFrames
  <1> QED  BY <1>1, <1>2

\* A step of the HELLO that sends frames and goes on.
LEMMA SendingStep ==
    ASSUME ReconnectInv, NEW s \in Connections, NEW frames \in Seq(Frame), SendFrames(s, frames),
           \A f \in Elements(frames) : f.type = "MSG" => f.n \in stored,
           NEW p \in {"replay", "drain", "trim", "done"}, greeting[s] \notin {"none", "attach"},
           greeting' = [greeting EXCEPT ![s] = p],
           UNCHANGED <<server, sock, cursor, targets, subscription, presence, bus, unheard,
                       inbox,
                       client>>,
           read' = [read EXCEPT ![s] = {}],
           \/ p = "replay"
           \/ greeting[s] \in {"drain", "trim", "done"}
           \/ greeting[s] = "send" /\ \A n \in read[s] : \E f \in Elements(frames) : Brings(f, n)
           \/ \A n \in Above(cursor[s]) : \E f \in Elements(frames) : Brings(f, n)
    PROVE  Moving'
  <1>1. /\ down \in [Connections -> Seq(Frame)]
        /\ greeting \in [Connections -> Places] /\ read \in [Connections -> SUBSET stored]
    BY DEF Places, Command, ReconnectInv, Moving, ReconnectTypeOK, Frame
  <1>2. /\ down' \in [Connections -> Seq(Frame)]
        /\ \A r \in Connections :
              /\ Elements(down[r]) \subseteq Elements(down'[r])
              /\ Elements(down'[r]) \subseteq Elements(down[r]) \cup Elements(frames)
        /\ sock[s] = "open" => Elements(frames) \subseteq Elements(down'[s])
    BY <1>1, SendKeeps
  <1>3. UNCHANGED <<counter, stored, writer, sock, cursor, targets, neighbour, subQueue,
                    listening, hasty, presence, bus, unheard, inbox, have,
                    lastSeq, fetch, gaveUp>>
    BY DEF server, subscription, client
  <1>4. /\ greeting' \in [Connections -> Places]
        /\ greeting'[s] = p /\ \A r \in Connections : r # s => greeting'[r] = greeting[r]
        /\ read' \in [Connections -> SUBSET stored] /\ read'[s] = {}
        /\ \A r \in Connections : r # s => read'[r] = read[r]
    BY <1>1 DEF Places
  <1>5. ReconnectTypeOK'
    BY <1>2, <1>3, <1>4 DEF Places, Command, ReconnectInv, Moving, ReconnectTypeOK, Frame
  <1>6. WritersDrawn'
    BY <1>3 DEF ReconnectInv, Moving, WritersDrawn
  <1>7. TravelStored'
    BY <1>2, <1>3 DEF ReconnectInv, Moving, TravelStored
  <1>8. ReadsOnce'
    BY <1>3, <1>4 DEF ReconnectInv, Moving, WritersDrawn, TravelStored, ReadsOnce
  <1>9. Promised'
    <2>1. ASSUME NEW r \in Connections, NEW n, Coming(n, r)
          PROVE  Coming(n, r)'
      BY <1>2, <1>3, <2>1, MoreOnItsWay
    <2>2. ASSUME NEW r \in Connections, NEW n, Owed(r, n)'
          PROVE  Owed(r, n) \/ Coming(n, r)'
      <3>1. CASE r # s
        BY <1>3, <1>4, <2>2, <3>1 DEF Owed
      <3>2. CASE r = s /\ p = "replay"
        BY <1>4, <2>2, <3>2 DEF Owed
      <3>3. CASE r = s /\ greeting[s] \in {"drain", "trim", "done"}
        <4>1. read[s] = {}
          BY <3>3 DEF ReconnectInv, Moving, ReadsOnce
        <4> QED  BY <1>3, <2>2, <3>3, <4>1 DEF Owed
      <3>4. CASE r = s /\ \E f \in Elements(frames) : Brings(f, n)
        <4>1. sock[s] = "open"
          BY <1>3, <2>2, <3>4 DEF Owed
        <4>2. \E f \in Elements(down'[s]) : Brings(f, n)
          BY <1>2, <3>4, <4>1
        <4> QED  BY <3>4, <4>2, OnItsWayFormNext DEF Coming
      <3>5. n \in Above(cursor[s]) \/ r # s
        BY <1>3, <2>2 DEF Owed, Above
      <3>6. CASE r = s /\ greeting[s] = "send" /\ n \notin read[s]
        BY <1>3, <2>2, <3>6 DEF Owed
      <3> QED  BY <3>1, <3>2, <3>3, <3>4, <3>5, <3>6
    <2>3. Promised /\ have \subseteq have'
      BY <1>3 DEF ReconnectInv, Moving
    <2> QED  BY <2>1, <2>2, <2>3, Kept
  <1> QED  BY <1>5, <1>6, <1>7, <1>8, <1>9 DEF ReconnectInv, Moving

LEMMA NothingSent ==
    ASSUME UNCHANGED down, down \in [Connections -> Seq(Frame)], NEW s \in Connections
    PROVE  SendFrames(s, << >>) /\ << >> \in Seq(Frame)
  <1>1. << >> \in Seq(Frame) /\ down[s] \in Seq(Frame)
    BY EmptySeq
  <1>2. down[s] \o << >> = down[s]
    BY <1>1, ConcatEmptySeq
  <1>3. [down EXCEPT ![s] = down[s] \o << >>] = down
    BY <1>2
  <1> QED  BY <1>1, <1>3 DEF SendFrames

\* A step that changes nothing that travels and promises nothing new.
LEMMA QuietStep ==
    ASSUME ReconnectInv, ReconnectTypeOK', ReadsOnce',
           UNCHANGED <<counter, stored, writer, bus, down, have, fetch, gaveUp>>,
           hasty \subseteq hasty', unheard \subseteq unheard',
           \A r \in Connections : \A n : Owed(r, n)' => Owed(r, n)
    PROVE  Moving'
  <1>1. WritersDrawn' /\ TravelStored'
    BY DEF ReconnectInv, Moving, WritersDrawn, TravelStored
  <1>2. Promised'
    BY Kept, MoreOnItsWay DEF ReconnectInv, Moving
  <1> QED  BY <1>1, <1>2 DEF Moving

LEMMA HelloSteps ==
    ASSUME ReconnectInv, NEW s \in Connections, Hello(s)
    PROVE  Moving'
  <1>1. /\ MaxMessages \in Nat /\ LiveMax \in Nat /\ counter \in 0..MaxMessages
        /\ stored \subseteq 1..counter /\ stored \subseteq 1..MaxMessages /\ inbox \subseteq stored
        /\ cursor \in [Connections -> 0..MaxMessages] /\ cursor[s] \in 0..MaxMessages
        /\ greeting \in [Connections -> Places] /\ read \in [Connections -> SUBSET stored]
        /\ down \in [Connections -> Seq(Frame)] /\ subQueue \in Seq(Command)
    BY ReconnectAssumption
       DEF Places, Command, ReconnectInv, Moving, ReconnectTypeOK, WritersDrawn, Frame
  <1> DEFINE Rest == <<counter, stored, writer, sock, cursor, neighbour, presence, bus, unheard,
                       down, have, lastSeq, fetch, gaveUp>>
  <1>unread. greeting[s] # "send" => read = [read EXCEPT ![s] = {}]
    <2>1. greeting[s] # "send" => read[s] = {}
      BY DEF ReconnectInv, Moving, ReadsOnce
    <2> QED  BY <1>1, <2>1
  <1>2. CASE HelloIndex(s)
    <2>1. /\ UNCHANGED Rest /\ UNCHANGED <<inbox, read>>
          /\ targets' = targets \cup {s} /\ greeting[s] = "attach"
          /\ hasty \subseteq hasty' /\ hasty' \subseteq hasty \cup {s}
          /\ \E p \in {"gap", "subscribing"} : greeting' = [greeting EXCEPT ![s] = p]
          /\ subQueue' = subQueue \/ subQueue' = Append(subQueue, Subscribe(s))
      BY <1>2 DEF HelloIndex, server, client
    <2>2. UNCHANGED listening
      BY <1>2 DEF HelloIndex
    <2>3. PICK p \in {"gap", "subscribing"} : greeting' = [greeting EXCEPT ![s] = p]
      BY <2>1
    <2>4. /\ greeting' \in [Connections -> Places] /\ greeting'[s] = p
          /\ \A r \in Connections : r # s => greeting'[r] = greeting[r]
      BY <1>1, <2>3 DEF Places
    <2>5. subQueue' \in Seq(Command)
      <3>1. Subscribe(s) \in Command
        BY ReconnectAssumption DEF Subscribe, Command, Connections
      <3>2. Append(subQueue, Subscribe(s)) \in Seq(Command)
        BY <1>1, <3>1, AppendProperties
      <3> QED  BY <1>1, <2>1, <3>2
    <2>6. ReconnectTypeOK'
      BY <2>1, <2>2, <2>4, <2>5
         DEF Places, Command, ReconnectInv, Moving, ReconnectTypeOK
    <2>7. ReadsOnce'
      BY <2>1, <2>4 DEF ReconnectInv, Moving, ReadsOnce
    <2>8. \A r \in Connections : \A n : Owed(r, n)' => Owed(r, n)
      BY <2>1, <2>4 DEF Owed
    <2> QED  BY <2>1, <2>6, <2>7, <2>8, QuietStep
  <1>3. CASE HelloGap(s)
    <2> DEFINE p == IF counter <= cursor[s] \/ counter - cursor[s] > LiveMax
                    THEN "drain" ELSE "replay"
    <2>1. /\ greeting[s] = "gap" /\ greeting' = [greeting EXCEPT ![s] = p]
          /\ UNCHANGED <<server, sock, cursor, targets, subscription, presence, bus, unheard,
                         inbox, client>>
          /\ read' = [read EXCEPT ![s] = {}]
      BY <1>3, <1>unread DEF HelloGap
    <2>2. p \in {"replay", "drain", "trim", "done"}
      OBVIOUS
    <2>3. CASE counter - cursor[s] > LiveMax
      <3> DEFINE f == SyncGap(cursor[s])
      <3>1. SendFrames(s, <<f>>)
        BY <1>3, <2>3 DEF HelloGap
      <3>2. f \in Frame /\ f.type = "SYNC_GAP" /\ f.n = cursor[s]
        BY <1>1 DEF SyncGap, Frame
      <3> HIDE DEF f
      <3>3. <<f>> \in Seq(Frame) /\ Elements(<<f>>) = {f}
        <4>1. /\ Append(<< >>, f) \in Seq(Frame)
              /\ Elements(Append(<< >>, f)) = Elements(<< >>) \cup {f}
          BY <3>2, EmptySeq, ElementsOfAppend
        <4>2. Append(<< >>, f) = <<f>>
          OBVIOUS
        <4> QED  BY <4>1, <4>2, EmptyElements
      <3>4. \A n \in Above(cursor[s]) : \E g \in Elements(<<f>>) : Brings(g, n)
        <4>1. \A n \in Above(cursor[s]) : cursor[s] < n
          BY <1>1 DEF Above
        <4> QED  BY <3>2, <3>3, <4>1 DEF Brings
      <3>5. \A g \in Elements(<<f>>) : g.type = "MSG" => g.n \in stored
        BY <3>2, <3>3
      <3> HIDE DEF p
      <3> QED  BY <2>1, <2>2, <3>1, <3>3, <3>4, <3>5, SendingStep
    <2>4. CASE ~(counter - cursor[s] > LiveMax)
      <3>1. UNCHANGED down
        BY <1>3, <2>4 DEF HelloGap
      <3>2. SendFrames(s, << >>) /\ << >> \in Seq(Frame)
        BY <1>1, <3>1, NothingSent
      <3>3. p = "replay" \/ Above(cursor[s]) = {}
        <4>1. CASE counter <= cursor[s]
          <5>1. \A n \in stored : n \in 1..counter /\ ~(n > cursor[s])
            BY <1>1, <4>1
          <5> QED  BY <5>1 DEF Above
        <4>2. CASE ~(counter <= cursor[s])
          BY <2>4, <4>2
        <4> QED  BY <4>1, <4>2
      <3> HIDE DEF p
      <3> QED  BY <2>1, <2>2, <3>2, <3>3, EmptyElements, SendingStep
    <2> QED  BY <2>3, <2>4
  <1>4. CASE HelloReplay(s)
    <2> DEFINE frames == Frames(read[s])
    <2>1. read[s] \in SUBSET (1..MaxMessages) /\ read[s] \subseteq stored
      BY <1>1
    <2>2. /\ frames \in Seq(Frame)
          /\ \A f \in Elements(frames) : f.type = "MSG" /\ f.n \in read[s]
          /\ \A n \in read[s] : Msg(n) \in Elements(frames)
      BY <2>1, FramesCarry, ReconnectAssumption
    <2>3. /\ greeting[s] = "send" /\ greeting' = [greeting EXCEPT ![s] = "drain"]
          /\ SendFrames(s, frames) /\ read' = [read EXCEPT ![s] = {}]
          /\ UNCHANGED <<server, sock, cursor, targets, subscription, presence, bus, unheard,
                         inbox, client>>
      BY <1>4 DEF HelloReplay
    <2>4. \A n : Brings(Msg(n), n)
      BY DEF Brings, Msg
    <2> HIDE DEF frames
    <2>5. \A n \in read[s] : \E f \in Elements(frames) : Brings(f, n)
      BY <2>2, <2>4
    <2>6. \A f \in Elements(frames) : f.type = "MSG" => f.n \in stored
      BY <2>1, <2>2
    <2> QED  BY <2>2, <2>3, <2>5, <2>6, SendingStep
  <1>5. CASE HelloDrain(s)
    <2> DEFINE frames == Frames(inbox)
               p == IF inbox = {} THEN "done" ELSE "trim"
    <2>1. inbox \in SUBSET (1..MaxMessages)
      BY <1>1
    <2>2. /\ frames \in Seq(Frame)
          /\ \A f \in Elements(frames) : f.type = "MSG" /\ f.n \in inbox
      BY <2>1, FramesCarry, ReconnectAssumption
    <2>3. /\ greeting[s] = "drain" /\ greeting' = [greeting EXCEPT ![s] = p]
          /\ SendFrames(s, frames)
          /\ UNCHANGED <<server, sock, cursor, targets, subscription, presence, bus, unheard,
                         inbox, client>>
          /\ read' = [read EXCEPT ![s] = {}]
      BY <1>5, <1>unread DEF HelloDrain
    <2>4. p \in {"replay", "drain", "trim", "done"}
      OBVIOUS
    <2> HIDE DEF frames, p
    <2>5. \A f \in Elements(frames) : f.type = "MSG" => f.n \in stored
      BY <1>1, <2>2
    <2> QED  BY <2>2, <2>3, <2>4, <2>5, SendingStep
  <1>6. CASE HelloTrim(s)
    <2>1. /\ UNCHANGED Rest /\ UNCHANGED <<read, targets, subQueue, listening, hasty>>
          /\ inbox' = {} /\ greeting' = [greeting EXCEPT ![s] = "done"] /\ greeting[s] = "trim"
      BY <1>6 DEF HelloTrim, server, subscription, client
    <2>2. /\ greeting' \in [Connections -> Places]
          /\ greeting'[s] = "done" /\ \A r \in Connections : r # s => greeting'[r] = greeting[r]
      BY <1>1, <2>1 DEF Places
    <2>3. ReconnectTypeOK'
      BY <2>1, <2>2 DEF Places, Command, ReconnectInv, Moving, ReconnectTypeOK
    <2>4. ReadsOnce'
      BY <2>1, <2>2 DEF ReconnectInv, Moving, ReadsOnce
    <2>5. \A r \in Connections : \A n : Owed(r, n)' => Owed(r, n)
      BY <2>1, <2>2 DEF Owed
    <2> QED  BY <2>1, <2>3, <2>4, <2>5, QuietStep
  <1>7. CASE HelloRead(s)
    <2>1. /\ UNCHANGED Rest /\ UNCHANGED <<inbox, targets, subQueue, listening, hasty>>
          /\ greeting' = [greeting EXCEPT ![s] = "send"] /\ greeting[s] = "replay"
          /\ read' = [read EXCEPT ![s] = IF sock[s] = "open" THEN Above(cursor[s]) ELSE {}]
      BY <1>7 DEF HelloRead, server, subscription, client
    <2>2. /\ greeting' \in [Connections -> Places]
          /\ greeting'[s] = "send" /\ \A r \in Connections : r # s => greeting'[r] = greeting[r]
      BY <1>1, <2>1 DEF Places
    <2>3. /\ read' \in [Connections -> SUBSET stored]
          /\ read'[s] = (IF sock[s] = "open" THEN Above(cursor[s]) ELSE {})
          /\ \A r \in Connections : r # s => read'[r] = read[r]
      BY <1>1, <2>1 DEF Above
    <2>4. ReconnectTypeOK'
      BY <2>1, <2>2, <2>3 DEF Places, Command, ReconnectInv, Moving, ReconnectTypeOK
    <2>5. ReadsOnce'
      BY <2>1, <2>2, <2>3 DEF ReconnectInv, Moving, ReadsOnce
    <2>6. \A r \in Connections : \A n : Owed(r, n)' => Owed(r, n)
      BY <2>1, <2>2, <2>3 DEF Owed, Above
    <2> QED  BY <2>1, <2>4, <2>5, <2>6, QuietStep
  <1> QED  BY <1>2, <1>3, <1>4, <1>5, <1>6, <1>7 DEF Hello

\* The neighbour, and Redis.
LEMMA SubscriptionSteps ==
    ASSUME ReconnectInv, RedisExecutes \/ NeighbourComes \/ NeighbourLeaves
    PROVE  Moving'
  <1>1. /\ greeting \in [Connections -> Places] /\ subQueue \in Seq(Command)
    BY DEF Places, Command, ReconnectInv, Moving, ReconnectTypeOK
  <1>2. /\ UNCHANGED <<counter, stored, writer, sock, cursor, read, targets, hasty, presence,
                       bus, unheard, inbox, down, have, lastSeq, fetch, gaveUp>>
        /\ neighbour' \in {neighbour, "here", "gone"}
    BY DEF RedisExecutes, NeighbourComes, NeighbourLeaves, server, sessions, client
  <1>3. listening' \in BOOLEAN
    BY Zenon DEF RedisExecutes, NeighbourComes, NeighbourLeaves, ReconnectInv, Moving,
                 ReconnectTypeOK
  <1>4. subQueue' \in Seq(Command)
    <2>1. Subscribe(Neighbour) \in Command /\ Unsubscribe \in Command
      BY DEF Subscribe, Unsubscribe, Neighbour, Command
    <2>2. CASE RedisExecutes
      BY <1>1, <2>2, HeadTailProperties DEF RedisExecutes
    <2>3. CASE NeighbourComes
      BY <1>1, <2>1, <2>3, AppendProperties DEF NeighbourComes
    <2>4. CASE NeighbourLeaves
      BY <1>1, <2>1, <2>4, AppendProperties DEF NeighbourLeaves
    <2> QED  BY <2>2, <2>3, <2>4
  <1>5. /\ greeting' \in [Connections -> Places]
        /\ \A r \in Connections :
              greeting'[r] # greeting[r] => greeting[r] = "subscribing" /\ greeting'[r] = "gap"
    BY <1>1 DEF RedisExecutes, NeighbourComes, NeighbourLeaves, sessions, Places
  <1>6. ReconnectTypeOK'
    BY <1>2, <1>3, <1>4, <1>5 DEF Places, Command, ReconnectInv, Moving, ReconnectTypeOK
  <1>7. ReadsOnce'
    BY <1>2, <1>5 DEF ReconnectInv, Moving, ReadsOnce
  <1>8. \A r \in Connections : \A n : Owed(r, n)' => Owed(r, n)
    BY <1>2, <1>5 DEF Owed
  <1> QED  BY <1>2, <1>6, <1>7, <1>8, QuietStep

LEMMA ConnectionSteps ==
    ASSUME ReconnectInv, NEW s \in Connections,
           ClientConnects(s) \/ Drop(s) \/ ConnectionCloses(s)
    PROVE  Moving'
  <1>1. /\ cursor \in [Connections -> 0..MaxMessages] /\ lastSeq \in 0..MaxMessages
        /\ sock \in [Connections -> {"new", "open", "lost", "closed"}]
        /\ greeting \in [Connections -> Places] /\ read \in [Connections -> SUBSET stored]
        /\ down \in [Connections -> Seq(Frame)] /\ targets \subseteq Connections
        /\ subQueue \in Seq(Command)
    BY DEF Places, Command, ReconnectInv, Moving, ReconnectTypeOK, Frame
  <1>2. CASE ClientConnects(s)
    <2>1. /\ UNCHANGED <<counter, stored, writer, read, targets, neighbour, subQueue, listening,
                         hasty, bus, unheard, inbox, down, have, lastSeq, fetch, gaveUp>>
          /\ sock' = [sock EXCEPT ![s] = "open"] /\ greeting' = [greeting EXCEPT ![s] = "attach"]
          /\ cursor' = [cursor EXCEPT ![s] = lastSeq] /\ sock[s] = "new"
      BY <1>2 DEF ClientConnects, server, subscription, client
    <2>2. presence' \in BOOLEAN
      BY <1>2, Zenon DEF ClientConnects
    <2>3. /\ greeting' \in [Connections -> Places]
          /\ cursor' \in [Connections -> 0..MaxMessages]
          /\ sock' \in [Connections -> {"new", "open", "lost", "closed"}]
          /\ greeting'[s] = "attach"
          /\ \A r \in Connections : r # s => /\ greeting'[r] = greeting[r]
                                             /\ sock'[r] = sock[r] /\ cursor'[r] = cursor[r]
      BY <1>1, <2>1 DEF Places
    <2>4. ReconnectTypeOK'
      BY <2>1, <2>2, <2>3 DEF Places, Command, ReconnectInv, Moving, ReconnectTypeOK
    <2>5. ReadsOnce'
      <3>1. greeting[s] = "none"
        BY <2>1 DEF ReconnectInv, Subscribed, Filing
      <3> QED  BY <2>1, <2>3, <3>1 DEF ReconnectInv, Moving, ReadsOnce
    <2>6. \A r \in Connections : \A n : Owed(r, n)' => Owed(r, n)
      BY <2>1, <2>3 DEF Owed
    <2> QED  BY <2>1, <2>4, <2>5, <2>6, QuietStep
  <1>3. CASE Drop(s)
    <2>1. /\ UNCHANGED <<counter, stored, writer, greeting, cursor, targets, neighbour,
                         subQueue,
                         listening, hasty, presence, bus, unheard, inbox, have, lastSeq, fetch,
                         gaveUp>>
          /\ sock' = [sock EXCEPT ![s] = "lost"] /\ down' = [down EXCEPT ![s] = << >>]
          /\ read' = [read EXCEPT ![s] = {}]
      BY <1>3 DEF Drop, server, subscription, client
    <2>2. << >> \in Seq(Frame)
      BY EmptySeq
    <2>3. /\ sock' \in [Connections -> {"new", "open", "lost", "closed"}]
          /\ down' \in [Connections -> Seq(Frame)] /\ read' \in [Connections -> SUBSET stored]
          /\ sock'[s] = "lost" /\ down'[s] = << >> /\ read'[s] = {}
          /\ \A r \in Connections : r # s => /\ sock'[r] = sock[r] /\ down'[r] = down[r]
                                             /\ read'[r] = read[r]
      BY <1>1, <2>1, <2>2
    <2>4. ReconnectTypeOK'
      BY <2>1, <2>3 DEF Places, Command, ReconnectInv, Moving, ReconnectTypeOK, Frame
    <2>5. WritersDrawn' /\ ReadsOnce'
      BY <2>1, <2>3 DEF ReconnectInv, Moving, WritersDrawn, ReadsOnce
    <2>6. TravelStored'
      BY <2>1, <2>3, EmptyElements DEF ReconnectInv, Moving, TravelStored
    <2>7. Promised'
      <3>1. ASSUME NEW r \in Connections, NEW n, Owed(r, n)'
            PROVE  r # s /\ Owed(r, n)
        BY <2>1, <2>3, <3>1 DEF Owed
      <3>2. ASSUME NEW r \in Connections, r # s, NEW n, Coming(n, r)
            PROVE  Coming(n, r)'
        BY <2>1, <2>3, <3>2, OnItsWayForm, OnItsWayFormNext DEF Coming, Missed
      <3> QED  BY <2>1, <3>1, <3>2 DEF Promised, ReconnectInv, Moving
    <2> QED  BY <2>4, <2>5, <2>6, <2>7 DEF Moving
  <1>4. CASE ConnectionCloses(s)
    <2>1. /\ UNCHANGED <<counter, stored, writer, greeting, cursor, read, neighbour, listening,
                         hasty, bus, unheard, inbox, down, have, lastSeq, fetch, gaveUp>>
          /\ sock' = [sock EXCEPT ![s] = "closed"] /\ targets' = targets \ {s}
          /\ subQueue' = subQueue \/ subQueue' = Append(subQueue, Unsubscribe)
      BY <1>4 DEF ConnectionCloses, server, client
    <2>2. presence' \in BOOLEAN
      BY <1>4, Zenon DEF ConnectionCloses
    <2>3. /\ sock' \in [Connections -> {"new", "open", "lost", "closed"}] /\ sock'[s] = "closed"
          /\ \A r \in Connections : r # s => sock'[r] = sock[r]
      BY <1>1, <2>1
    <2>4. subQueue' \in Seq(Command)
      <3>1. Unsubscribe \in Command
        BY DEF Unsubscribe, Command
      <3>2. Append(subQueue, Unsubscribe) \in Seq(Command)
        BY <1>1, <3>1, AppendProperties
      <3> QED  BY <1>1, <2>1, <3>2
    <2>5. ReconnectTypeOK'
      BY <2>1, <2>2, <2>3, <2>4 DEF Places, Command, ReconnectInv, Moving, ReconnectTypeOK
    <2>6. ReadsOnce'
      BY <2>1 DEF ReconnectInv, Moving, ReadsOnce
    <2>7. \A r \in Connections : \A n : Owed(r, n)' => Owed(r, n)
      BY <2>1, <2>3 DEF Owed
    <2> QED  BY <2>1, <2>5, <2>6, <2>7, QuietStep
  <1> QED  BY <1>2, <1>3, <1>4

-----------------------------------------------------------------------------
(* The client reads.                                                       *)

LEMMA ReceiveSteps ==
    ASSUME ReconnectInv, NEW s \in Connections, Receive(s)
    PROVE  Moving'
  <1> DEFINE f == Head(down[s])
  <1>1. /\ down \in [Connections -> Seq(Frame)] /\ down[s] # << >> /\ down' = [down EXCEPT ![s] = Tail(@)]
        /\ stored \subseteq 1..MaxMessages /\ MaxMessages \in Nat
    BY ReconnectAssumption
       DEF Places, Command, ReconnectInv, Moving, ReconnectTypeOK, Frame, Receive, ClientMsg,
           ClientGap
  <1>2. /\ f \in Frame /\ Tail(down[s]) \in Seq(Frame)
        /\ Elements(down[s]) = {f} \cup Elements(Tail(down[s]))
    BY <1>1, ElementsOfTail
  <1>3. /\ down' \in [Connections -> Seq(Frame)] /\ down'[s] = Tail(down[s])
        /\ \A r \in Connections : r # s => down'[r] = down[r]
    BY <1>1, <1>2
  <1>4. UNCHANGED <<counter, stored, writer, sock, greeting, cursor, read, targets, neighbour,
                   subQueue, listening, hasty, presence, bus, unheard, inbox>>
    BY DEF Receive, ClientMsg, ClientGap, server, sessions, subscription
  <1>5. /\ f.type = "MSG" => /\ have' = have \cup {f.n} /\ lastSeq' = f.n
                             /\ UNCHANGED <<fetch, gaveUp>>
        /\ f.type # "MSG" => /\ fetch' = fetch \cup {f.n} /\ UNCHANGED <<have, lastSeq, gaveUp>>
    BY DEF Receive, ClientMsg, ClientGap
  <1> HIDE DEF f
  <1>6. f.n \in 0..MaxMessages /\ (f.type = "MSG" => f.n \in stored)
    BY <1>2 DEF Frame, ReconnectInv, Moving, TravelStored
  <1>7. ReconnectTypeOK'
    <2>1. /\ have' \subseteq stored' /\ lastSeq' \in 0..MaxMessages
          /\ fetch' \cup gaveUp' \subseteq 0..MaxMessages
      BY <1>4, <1>5, <1>6 DEF Places, Command, ReconnectInv, Moving, ReconnectTypeOK
    <2> QED  BY <1>3, <1>4, <2>1 DEF Places, Command, ReconnectInv, Moving, ReconnectTypeOK, Frame
  <1>8. WritersDrawn' /\ ReadsOnce'
    BY <1>4 DEF ReconnectInv, Moving, WritersDrawn, ReadsOnce
  <1>9. TravelStored'
    BY <1>2, <1>3, <1>4 DEF ReconnectInv, Moving, TravelStored
  <1>10. Promised'
    <2>1. ASSUME NEW r \in Connections, NEW n, Coming(n, r)
          PROVE  n \in have' \/ Coming(n, r)'
      <3>1. CASE \E g \in Elements(down[r]) : Brings(g, n)
        <4>1. PICK g \in Elements(down[r]) : Brings(g, n)
          BY <3>1
        <4>2. CASE g \in Elements(down'[r])
          BY <4>1, <4>2, OnItsWayFormNext DEF Coming
        <4>3. CASE g \notin Elements(down'[r])
          <5>1. g = f
            BY <1>2, <1>3, <4>1, <4>3
          <5>2. CASE f.type = "MSG"
            BY <1>5, <4>1, <5>1, <5>2 DEF Brings
          <5>3. CASE f.type # "MSG"
            <6>1. f.n < n /\ f.n \in fetch' \cup gaveUp'
              BY <1>5, <4>1, <5>1, <5>3 DEF Brings
            <6> QED  BY <6>1, OnItsWayFormNext DEF Coming
          <5> QED  BY <5>2, <5>3
        <4> QED  BY <4>2, <4>3
      <3>2. CASE ~\E g \in Elements(down[r]) : Brings(g, n)
        BY <1>4, <1>5, <2>1, <3>2, OnItsWayForm, OnItsWayFormNext DEF Coming, Missed
      <3> QED  BY <3>1, <3>2
    <2>2. Promised /\ have \subseteq have'
      BY <1>5 DEF ReconnectInv, Moving
    <2> QED  BY <1>4, <2>1, <2>2, Kept, SameOwed
  <1> QED  BY <1>7, <1>8, <1>9, <1>10 DEF ReconnectInv, Moving

LEMMA FetchSteps ==
    ASSUME ReconnectInv, NEW from \in fetch, FetchAnswered(from) \/ FetchFailed(from)
    PROVE  Moving'
  <1>1. UNCHANGED <<counter, stored, writer, sock, greeting, cursor, read, targets, neighbour,
                    subQueue, listening, hasty, presence, bus, unheard, inbox, down, lastSeq>>
    BY DEF FetchAnswered, FetchFailed, server, sessions, subscription
  <1>2. \/ have' = have \cup Above(from) /\ fetch' = fetch \ {from} /\ gaveUp' = gaveUp
        \/ have' = have /\ fetch' = fetch \ {from} /\ gaveUp' = gaveUp \cup {from}
    BY DEF FetchAnswered, FetchFailed
  <1>3. ReconnectTypeOK'
    <2>1. /\ have' \subseteq stored /\ fetch' \cup gaveUp' \subseteq 0..MaxMessages
      BY <1>2 DEF Places, Command, ReconnectInv, Moving, ReconnectTypeOK, Above
    <2> QED  BY <1>1, <2>1 DEF Places, Command, ReconnectInv, Moving, ReconnectTypeOK
  <1>4. WritersDrawn' /\ TravelStored' /\ ReadsOnce'
    BY <1>1 DEF ReconnectInv, Moving, WritersDrawn, TravelStored, ReadsOnce
  <1>5. Promised'
    <2>1. ASSUME NEW s \in Connections, NEW n, Owed(s, n), Coming(n, s)
          PROVE  n \in have' \/ Coming(n, s)'
      <3>1. n \in stored /\ n \in Int /\ from \in Int
        BY <2>1, ReconnectAssumption DEF Places, Command, Owed, ReconnectInv, Moving, ReconnectTypeOK
      <3>2. CASE from < n
        <4>1. n \in have' \/ from \in fetch' \cup gaveUp'
          BY <1>2, <3>1, <3>2 DEF Above
        <4> QED  BY <3>2, <4>1, OnItsWayFormNext DEF Coming
      <3>3. CASE ~(from < n)
        BY <1>1, <1>2, <2>1, <3>3, OnItsWayForm, OnItsWayFormNext DEF Coming, Missed
      <3> QED  BY <3>2, <3>3
    <2>2. Promised /\ have \subseteq have'
      BY <1>2 DEF ReconnectInv, Moving
    <2> QED  BY <1>1, <2>1, <2>2, Kept, SameOwed
  <1> QED  BY <1>3, <1>4, <1>5 DEF ReconnectInv, Moving

LEMMA StutterStep ==
    ASSUME ReconnectInv, UNCHANGED reconnectVars
    PROVE  Moving'
  <1>1. UNCHANGED <<counter, stored, writer, sock, greeting, cursor, read, targets, neighbour,
                    subQueue, listening, hasty, presence, bus, unheard, inbox, down, have,
                    lastSeq, fetch, gaveUp>>
    BY DEF reconnectVars, server, sessions, subscription, client
  <1>2. ReconnectTypeOK' /\ ReadsOnce'
    BY <1>1 DEF ReconnectInv, Moving, ReconnectTypeOK, ReadsOnce
  <1>3. \A r \in Connections : \A n : Owed(r, n)' => Owed(r, n)
    BY <1>1 DEF Owed
  <1> QED  BY <1>1, <1>2, <1>3, QuietStep

LEMMA MovingStep ==
    ASSUME ReconnectInv, [ReconnectNext]_reconnectVars
    PROVE  Moving'
  <1>1. CASE \E w \in Writers : Write(w)
    BY <1>1, WriteSteps
  <1>2. CASE Deliver
    BY <1>2, DeliverStep
  <1>3. CASE RedisExecutes \/ NeighbourComes \/ NeighbourLeaves
    BY <1>3, SubscriptionSteps
  <1>4. CASE \E s \in Connections : \/ ClientConnects(s) \/ Hello(s) \/ Receive(s)
                                    \/ Drop(s) \/ ConnectionCloses(s)
    BY <1>4, ConnectionSteps, HelloSteps, ReceiveSteps
  <1>5. CASE Fetched \/ \E from \in fetch : FetchFailed(from)
    BY <1>5, FetchSteps DEF Fetched
  <1>6. CASE UNCHANGED reconnectVars
    BY <1>6, StutterStep
  <1> QED  BY <1>1, <1>2, <1>3, <1>4, <1>5, <1>6 DEF ReconnectNext

-----------------------------------------------------------------------------
(* The subscription.                                                       *)

\* A step that touches neither the subscription nor where the sessions are.
LEMMA SubscribedRest ==
    ASSUME Subscribed, UNCHANGED <<sock, targets, neighbour, subQueue, listening, hasty>>,
           \A s \in Connections :
              \/ greeting'[s] = greeting[s]
              \/ /\ greeting[s] \notin {"none", "attach", "subscribing"}
                 /\ greeting'[s] \notin {"none", "attach", "subscribing"}
    PROVE  Subscribed'
  <1>1. Filing'
    BY DEF Subscribed, Filing
  <1>2. LastSubscribes'
    BY DEF Subscribed, LastSubscribes, Interested
  <1>3. Waiting'
    BY DEF Subscribed, Waiting
  <1>4. Hears'
    BY DEF Subscribed, Hears
  <1> QED  BY <1>1, <1>2, <1>3, <1>4 DEF Subscribed

\* A command is put on its way.
LEMMA Appended ==
    ASSUME subQueue \in Seq(Command), NEW c \in Command, subQueue' = Append(subQueue, c)
    PROVE  /\ Len(subQueue) \in Nat /\ Len(subQueue') = Len(subQueue) + 1
           /\ subQueue' # << >> /\ subQueue'[Len(subQueue')] = c
           /\ \A i \in 1..Len(subQueue) : subQueue'[i] = subQueue[i]
           /\ \A i \in 1..Len(subQueue') : i \in 1..Len(subQueue) \/ i = Len(subQueue')
  BY AppendProperties, LenProperties

\* Nobody who is interested waits when a command is put on its way: the first one
\* interested subscribes, and the last one unsubscribes.
LEMMA SubscribedAppend ==
    ASSUME ReconnectTypeOK, Subscribed, NEW c \in Command, subQueue' = Append(subQueue, c),
           UNCHANGED listening, Filing',
           Interested' => c.op = "subscribe",
           \A r \in Connections :
               /\ greeting'[r] \in {"none", "attach"} =>
                      greeting[r] \in {"none", "attach"} /\ c # Subscribe(r)
               /\ sock'[r] = "open" /\ greeting'[r] \notin {"none", "attach"} =>
                      /\ greeting'[r] = "subscribing" /\ c = Subscribe(r)
                      /\ greeting[r] = "attach"
    PROVE  Subscribed'
  <1>1. subQueue \in Seq(Command)
    BY DEF ReconnectTypeOK, Command
  <1>2. /\ Len(subQueue) \in Nat /\ Len(subQueue') = Len(subQueue) + 1
        /\ subQueue' # << >> /\ subQueue'[Len(subQueue')] = c
        /\ \A i \in 1..Len(subQueue) : subQueue'[i] = subQueue[i]
        /\ \A i \in 1..Len(subQueue') : i \in 1..Len(subQueue) \/ i = Len(subQueue')
    BY <1>1, Appended
  <1>3. LastSubscribes'
    BY <1>2 DEF LastSubscribes
  <1>4. ASSUME NEW r \in Connections, greeting[r] \in {"none", "attach"},
               NEW i \in 1..Len(subQueue)
        PROVE  subQueue'[i] # Subscribe(r)
    BY <1>2, <1>4 DEF Subscribed, Waiting
  <1>5. Waiting'
    <2>1. ASSUME NEW r \in Connections, greeting'[r] \in {"none", "attach"},
                 NEW i \in 1..Len(subQueue')
          PROVE  subQueue'[i] # Subscribe(r)
      BY <1>2, <1>4, <2>1
    <2>2. ASSUME NEW r \in Connections, sock'[r] = "open", greeting'[r] = "subscribing"
          PROVE  \A i \in 1..Len(subQueue') : subQueue'[i] = Subscribe(r) <=> i = Len(subQueue')
      <3>1. c = Subscribe(r) /\ greeting[r] = "attach"
        BY <2>2
      <3>2. \A i \in 1..Len(subQueue) : subQueue'[i] # Subscribe(r) /\ i # Len(subQueue')
        BY <1>2, <1>4, <3>1
      <3> QED  BY <1>2, <3>1, <3>2
    <2>3. \A r : Subscribe(r)' = Subscribe(r)
      BY DEF Subscribe
    <2> QED  BY <1>2, <2>1, <2>2, <2>3 DEF Waiting
  <1>6. Hears'
    BY DEF Hears
  <1> QED  BY <1>3, <1>5, <1>6 DEF Subscribed

LEMMA IndexSubscribes ==
    ASSUME ReconnectTypeOK, Subscribed, NEW s \in Connections, HelloIndex(s)
    PROVE  Subscribed'
  <1>1. /\ greeting \in [Connections -> Places] /\ targets \subseteq Connections
        /\ hasty \subseteq Connections
    BY DEF ReconnectTypeOK, Places
  <1>2. /\ greeting[s] = "attach" /\ targets' = targets \cup {s}
        /\ UNCHANGED <<sock, neighbour, listening>>
    BY DEF HelloIndex
  <1>3. CASE Interested
    <2>1. /\ greeting' = [greeting EXCEPT ![s] = "gap"] /\ subQueue' = subQueue
          /\ hasty' = IF subQueue # << >> THEN hasty \cup {s} ELSE hasty
      BY <1>3 DEF HelloIndex
    <2>2. greeting'[s] = "gap" /\ \A r \in Connections : r # s => greeting'[r] = greeting[r]
      BY <1>1, <2>1
    <2>3. Filing'
      BY <1>2, <2>2 DEF Subscribed, Filing
    <2>4. LastSubscribes'
      BY <1>2, <1>3, <2>1 DEF Subscribed, LastSubscribes
    <2>5. Waiting'
      BY <1>2, <2>1, <2>2 DEF Subscribed, Waiting, Subscribe
    <2>6. Hears'
      <3>1. subQueue = << >> => listening
        BY <1>3 DEF Subscribed, LastSubscribes
      <3> QED  BY <1>2, <2>1, <2>2, <3>1 DEF Subscribed, Hears
    <2> QED  BY <2>3, <2>4, <2>5, <2>6 DEF Subscribed
  <1>4. CASE ~Interested
    <2>1. /\ greeting' = [greeting EXCEPT ![s] = "subscribing"]
          /\ subQueue' = Append(subQueue, Subscribe(s)) /\ hasty' = hasty
      BY <1>4 DEF HelloIndex
    <2>2. greeting'[s] = "subscribing" /\ \A r \in Connections : r # s => greeting'[r] = greeting[r]
      BY <1>1, <2>1
    <2>3. Filing'
      BY <1>2, <2>2 DEF Subscribed, Filing
    <2>4. Subscribe(s) \in Command /\ Subscribe(s).op = "subscribe"
      BY ReconnectAssumption DEF Subscribe, Command, Connections
    <2>5. targets = {}
      BY <1>4 DEF Interested
    <2>6. \A r \in Connections : r # s => Subscribe(s) # Subscribe(r)
      BY DEF Subscribe
    <2>7. \A r \in Connections :
               /\ greeting'[r] \in {"none", "attach"} =>
                      greeting[r] \in {"none", "attach"} /\ Subscribe(s) # Subscribe(r)
               /\ sock'[r] = "open" /\ greeting'[r] \notin {"none", "attach"} =>
                      /\ greeting'[r] = "subscribing" /\ Subscribe(s) = Subscribe(r)
                      /\ greeting[r] = "attach"
      BY <1>2, <2>2, <2>5, <2>6 DEF Subscribed, Filing
    <2> QED  BY <1>2, <2>1, <2>3, <2>4, <2>7, SubscribedAppend
  <1> QED  BY <1>3, <1>4

\* The first command on its way is executed.
LEMMA RedisSubscribes ==
    ASSUME ReconnectTypeOK, Subscribed, RedisExecutes
    PROVE  Subscribed'
  <1> DEFINE n == Len(subQueue)
             first == Head(subQueue)
  <1>1. /\ greeting \in [Connections -> Places] /\ subQueue \in Seq(Command)
    BY DEF ReconnectTypeOK, Places, Command
  <1>2. /\ subQueue # << >> /\ subQueue' = Tail(subQueue)
        /\ UNCHANGED <<sock, targets, neighbour, hasty>>
        /\ greeting' = [r \in Connections |->
                           IF greeting[r] = "subscribing" /\ first = Subscribe(r)
                           THEN "gap" ELSE greeting[r]]
    BY DEF RedisExecutes, sessions, server
  <1>3. listening' = (first.op = "subscribe")
    BY DEF RedisExecutes
  <1>4. /\ n \in Nat /\ n >= 1 /\ first = subQueue[1] /\ Len(subQueue') = n - 1
        /\ \A i \in 1..(n - 1) : subQueue'[i] = subQueue[i + 1]
        /\ n = 1 => subQueue' = << >>
        /\ n # 1 => subQueue' # << >>
    <2>1. n \in Nat /\ n # 0 /\ first = subQueue[1] /\ subQueue' = Tail(subQueue)
      BY <1>1, <1>2, EmptySeq, LenProperties
    <2>2. /\ Tail(subQueue) \in Seq(Command) /\ Len(Tail(subQueue)) = n - 1
          /\ \A i \in 1..(n - 1) : Tail(subQueue)[i] = subQueue[i + 1]
      BY <1>1, <1>2, <2>1, HeadTailProperties
    <2>3. Len(Tail(subQueue)) = 0 <=> Tail(subQueue) = << >>
      BY <2>2, EmptySeq
    <2> QED  BY <2>1, <2>2, <2>3
  <1> HIDE DEF n, first
  <1>5. \A r \in Connections :
           \/ greeting'[r] = greeting[r]
           \/ greeting[r] = "subscribing" /\ first = Subscribe(r) /\ greeting'[r] = "gap"
    BY <1>2
  <1>6. Filing'
    BY <1>2, <1>5 DEF Subscribed, Filing
  <1>7. LastSubscribes'
    <2>1. ASSUME Interested  PROVE subQueue[n].op = "subscribe"
      BY <1>2, <2>1 DEF Subscribed, LastSubscribes, n
    <2>2. Interested' = Interested
      BY <1>2 DEF Interested
    <2>3. CASE n = 1
      BY <1>3, <1>4, <2>1, <2>2, <2>3 DEF LastSubscribes
    <2>4. CASE n # 1
      <3>1. subQueue'[Len(subQueue')] = subQueue[n] /\ subQueue' # << >>
        BY <1>4, <2>4
      <3> QED  BY <2>1, <2>2, <3>1 DEF LastSubscribes
    <2> QED  BY <2>3, <2>4
  <1>8. Waiting'
    <2>1. ASSUME NEW r \in Connections, greeting'[r] \in {"none", "attach"},
                 NEW i \in 1..Len(subQueue')
          PROVE  subQueue'[i] # Subscribe(r)
      <3>1. i + 1 \in 1..n /\ subQueue'[i] = subQueue[i + 1]
        BY <1>4
      <3>2. greeting[r] \in {"none", "attach"}
        BY <1>5, <2>1
      <3> QED  BY <3>1, <3>2 DEF Subscribed, Waiting, n
    <2>2. ASSUME NEW r \in Connections, sock'[r] = "open", greeting'[r] = "subscribing"
          PROVE  /\ subQueue' # << >>
                 /\ \A i \in 1..Len(subQueue') :
                       subQueue'[i] = Subscribe(r) <=> i = Len(subQueue')
      <3>1. greeting[r] = "subscribing" /\ first # Subscribe(r) /\ sock[r] = "open"
        BY <1>2, <2>2
      <3>2. \A i \in 1..n : subQueue[i] = Subscribe(r) <=> i = n
        BY <3>1 DEF Subscribed, Waiting, n
      <3>3. n # 1
        BY <1>4, <3>1, <3>2
      <3>4. ASSUME NEW i \in 1..Len(subQueue')
            PROVE  subQueue'[i] = Subscribe(r) <=> i = Len(subQueue')
        <4>1. i + 1 \in 1..n /\ subQueue'[i] = subQueue[i + 1] /\ (i + 1 = n <=> i = Len(subQueue'))
          BY <1>4
        <4> QED  BY <3>2, <4>1
      <3> QED  BY <1>4, <3>3, <3>4
    <2>3. \A r : Subscribe(r)' = Subscribe(r)
      BY DEF Subscribe
    <2> QED  BY <2>1, <2>2, <2>3 DEF Waiting
  <1>9. Hears'
    <2> SUFFICES ASSUME NEW r \in Connections \ hasty', sock'[r] = "open",
                        greeting'[r] \notin {"none", "attach", "subscribing"}
                 PROVE  listening' /\ subQueue' = << >>
      BY DEF Hears
    <2>1. greeting[r] = "subscribing" /\ first = Subscribe(r)
      BY <1>2, <1>5 DEF Subscribed, Hears
    <2>2. \A i \in 1..n : subQueue[i] = Subscribe(r) <=> i = n
      BY <1>2, <2>1 DEF Subscribed, Waiting, n
    <2>3. n = 1
      <3>1. 1 \in 1..n /\ subQueue[1] = Subscribe(r)
        BY <1>4, <2>1
      <3> QED  BY <2>2, <3>1
    <2>4. first.op = "subscribe"
      BY <2>1 DEF Subscribe
    <2> QED  BY <1>3, <1>4, <2>3, <2>4
  <1> QED  BY <1>6, <1>7, <1>8, <1>9 DEF Subscribed

LEMMA NeighbourSubscribes ==
    ASSUME ReconnectTypeOK, Subscribed, NeighbourComes \/ NeighbourLeaves
    PROVE  Subscribed'
  <1>1. UNCHANGED <<sock, greeting, targets, listening, hasty>>
    BY DEF NeighbourComes, NeighbourLeaves, sessions
  <1>2. Filing'
    BY <1>1 DEF Subscribed, Filing
  <1>3. CASE subQueue' = subQueue
    <2>1. Interested' => Interested
      BY <1>1, <1>3 DEF NeighbourComes, NeighbourLeaves, Interested
    <2>2. LastSubscribes'
      BY <1>1, <1>3, <2>1 DEF Subscribed, LastSubscribes
    <2>3. Waiting' /\ Hears'
      BY <1>1, <1>3 DEF Subscribed, Waiting, Hears, Subscribe
    <2> QED  BY <1>2, <2>2, <2>3 DEF Subscribed
  <1>4. CASE subQueue' # subQueue
    <2>1. targets = {} /\ \A r \in Connections : r # Neighbour
      BY <1>4 DEF NeighbourComes, NeighbourLeaves, Interested, Neighbour, Connections
    <2>2. \A r \in Connections : sock'[r] = "open" => greeting'[r] \in {"none", "attach"}
      BY <1>1, <2>1 DEF Subscribed, Filing
    <2>3. CASE NeighbourComes
      <3>1. subQueue' = Append(subQueue, Subscribe(Neighbour))
        BY <1>4, <2>3 DEF NeighbourComes
      <3>2. Subscribe(Neighbour) \in Command /\ Subscribe(Neighbour).op = "subscribe"
        BY DEF Subscribe, Neighbour, Command
      <3>3. \A r \in Connections : Subscribe(Neighbour) # Subscribe(r)
        BY <2>1 DEF Subscribe
      <3> QED  BY <1>1, <1>2, <2>2, <3>1, <3>2, <3>3, SubscribedAppend
    <2>4. CASE NeighbourLeaves
      <3>1. subQueue' = Append(subQueue, Unsubscribe) /\ ~Interested'
        BY <1>1, <1>4, <2>1, <2>4 DEF NeighbourLeaves, Interested
      <3>2. Unsubscribe \in Command /\ \A r \in Connections : Unsubscribe # Subscribe(r)
        BY DEF Unsubscribe, Subscribe, Command
      <3> QED  BY <1>1, <1>2, <2>2, <3>1, <3>2, SubscribedAppend
    <2> QED  BY <2>3, <2>4
  <1> QED  BY <1>3, <1>4

LEMMA ConnectionSubscribes ==
    ASSUME ReconnectTypeOK, Subscribed, NEW s \in Connections,
           ClientConnects(s) \/ Drop(s) \/ ConnectionCloses(s)
    PROVE  Subscribed'
  <1>1. /\ sock \in [Connections -> {"new", "open", "lost", "closed"}]
        /\ greeting \in [Connections -> Places]
    BY DEF ReconnectTypeOK, Places
  <1>2. CASE ClientConnects(s)
    <2>1. /\ sock' = [sock EXCEPT ![s] = "open"] /\ greeting' = [greeting EXCEPT ![s] = "attach"]
          /\ sock[s] = "new" /\ UNCHANGED <<targets, neighbour, subQueue, listening, hasty>>
      BY <1>2 DEF ClientConnects, subscription
    <2>2. /\ greeting[s] = "none" /\ greeting'[s] = "attach" /\ sock'[s] = "open"
          /\ \A r \in Connections : r # s => sock'[r] = sock[r] /\ greeting'[r] = greeting[r]
      BY <1>1, <2>1 DEF Subscribed, Filing
    <2>3. Filing' /\ LastSubscribes'
      BY <2>1, <2>2 DEF Subscribed, Filing, LastSubscribes, Interested
    <2>4. Waiting'
      BY <2>1, <2>2 DEF Subscribed, Waiting, Subscribe
    <2>5. Hears'
      BY <2>1, <2>2 DEF Subscribed, Hears
    <2> QED  BY <2>3, <2>4, <2>5 DEF Subscribed
  <1>3. CASE Drop(s)
    <2>1. /\ sock' = [sock EXCEPT ![s] = "lost"] /\ sock[s] = "open"
          /\ UNCHANGED <<greeting, targets, neighbour, subQueue, listening, hasty>>
      BY <1>3 DEF Drop, subscription
    <2>2. sock'[s] = "lost" /\ \A r \in Connections : r # s => sock'[r] = sock[r]
      BY <1>1, <2>1
    <2>3. Filing' /\ LastSubscribes'
      BY <2>1, <2>2 DEF Subscribed, Filing, LastSubscribes, Interested
    <2>4. Waiting' /\ Hears'
      BY <2>1, <2>2 DEF Subscribed, Waiting, Hears, Subscribe
    <2> QED  BY <2>3, <2>4 DEF Subscribed
  <1>4. CASE ConnectionCloses(s)
    <2>1. /\ sock' = [sock EXCEPT ![s] = "closed"] /\ sock[s] = "lost"
          /\ targets' = targets \ {s}
          /\ UNCHANGED <<greeting, neighbour, listening, hasty>>
      BY <1>4 DEF ConnectionCloses
    <2>2. sock'[s] = "closed" /\ \A r \in Connections : r # s => sock'[r] = sock[r]
      BY <1>1, <2>1
    <2>3. Filing'
      BY <2>1, <2>2 DEF Subscribed, Filing
    <2>4. CASE targets = {s} /\ neighbour # "here"
      <3>1. subQueue' = Append(subQueue, Unsubscribe) /\ ~Interested'
        BY <1>4, <2>1, <2>4 DEF ConnectionCloses, Interested
      <3>2. Unsubscribe \in Command /\ \A r \in Connections : Unsubscribe # Subscribe(r)
        BY DEF Unsubscribe, Subscribe, Command
      <3>3. \A r \in Connections : sock'[r] = "open" => greeting'[r] \in {"none", "attach"}
        BY <2>1, <2>2, <2>4 DEF Subscribed, Filing
      <3> QED  BY <2>1, <2>3, <3>1, <3>2, <3>3, SubscribedAppend
    <2>5. CASE ~(targets = {s} /\ neighbour # "here")
      <3>1. subQueue' = subQueue /\ (Interested' => Interested)
        BY <1>4, <2>1, <2>5 DEF ConnectionCloses, Interested
      <3>2. LastSubscribes'
        BY <2>1, <3>1 DEF Subscribed, LastSubscribes
      <3>3. Waiting' /\ Hears'
        BY <2>1, <2>2, <3>1 DEF Subscribed, Waiting, Hears, Subscribe
      <3> QED  BY <2>3, <3>2, <3>3 DEF Subscribed
    <2> QED  BY <2>4, <2>5
  <1> QED  BY <1>2, <1>3, <1>4

LEMMA SubscribedStep ==
    ASSUME ReconnectTypeOK, Subscribed, [ReconnectNext]_reconnectVars
    PROVE  Subscribed'
  <1> DEFINE Rest == /\ UNCHANGED <<sock, targets, neighbour, subQueue, listening, hasty>>
                     /\ \A s \in Connections :
                           \/ greeting'[s] = greeting[s]
                           \/ /\ greeting[s] \notin {"none", "attach", "subscribing"}
                              /\ greeting'[s] \notin {"none", "attach", "subscribing"}
  <1>1. Rest => Subscribed'
    BY SubscribedRest
  <1>2. greeting \in [Connections -> Places]
    BY DEF ReconnectTypeOK, Places
  <1>3. ASSUME NEW w \in Writers, Write(w)  PROVE Rest
    BY <1>3 DEF Write, Alloc, Insert, Publish, QueueOffline, sessions, subscription
  <1>4. Deliver => Rest
    BY DEF Deliver, sessions, subscription
  <1>5. ASSUME NEW s \in Connections, Hello(s), ~HelloIndex(s)  PROVE Rest
    <2>1. UNCHANGED <<sock, targets, neighbour, subQueue, listening, hasty>>
      BY <1>5 DEF Hello, HelloGap, HelloRead, HelloReplay, HelloDrain, HelloTrim, subscription
    <2>2. /\ greeting[s] \notin {"none", "attach", "subscribing"}
          /\ \E p \in Places \ {"none", "attach", "subscribing"} :
                greeting' = [greeting EXCEPT ![s] = p]
      BY <1>5 DEF Hello, HelloGap, HelloRead, HelloReplay, HelloDrain, HelloTrim, Places
    <2> QED  BY <1>2, <2>1, <2>2
  <1>6. ASSUME NEW s \in Connections, Receive(s)  PROVE Rest
    BY <1>6 DEF Receive, ClientMsg, ClientGap, sessions, subscription
  <1>7. ASSUME NEW from \in fetch, FetchAnswered(from) \/ FetchFailed(from)  PROVE Rest
    BY <1>7 DEF FetchAnswered, FetchFailed, sessions, subscription
  <1>8. UNCHANGED reconnectVars => Rest
    BY DEF reconnectVars, sessions, subscription
  <1> HIDE DEF Rest
  <1> QED
    BY <1>1, <1>3, <1>4, <1>5, <1>6, <1>7, <1>8, IndexSubscribes, RedisSubscribes,
       NeighbourSubscribes, ConnectionSubscribes
    DEF ReconnectNext, Fetched

LEMMA StepInv == ReconnectInv /\ [ReconnectNext]_reconnectVars => ReconnectInv'
  <1>1. ReconnectInv => ReconnectTypeOK /\ Subscribed
    BY DEF ReconnectInv, Moving
  <1> QED  BY <1>1, MovingStep, SubscribedStep DEF ReconnectInv

\* The strengthening is an invariant of every behaviour of a reconnecting client.
THEOREM ReconnectInvariance == ReconnectSpec => []ReconnectInv
  BY InitInv, StepInv, PTL DEF ReconnectSpec

-----------------------------------------------------------------------------
(* The results.                                                            *)

\* The inbox and the client hold only stored messages, and the variables have their
\* types (lib/core/gateway.js, SyncClient.js).
THEOREM ReconnectTypeCorrect == ReconnectSpec => []ReconnectTypeOK
  <1>1. ReconnectInv => ReconnectTypeOK
    BY DEF ReconnectInv, Moving
  <1> QED  BY <1>1, ReconnectInvariance, PTL

\* Replay and live broadcast leave no message between them: interest is registered
\* before the counter and the stores are read, so whatever a send does meanwhile
\* is either replayed or broadcast to the session (lib/core/gateway.js:127-134,
\* lib/core/engine.js, the onHello hook).
THEOREM ReplayMeetsLive == ReconnectSpec => []NoGapWhileConnected
  BY PromiseKept, ReconnectInvariance, PTL

=============================================================================
