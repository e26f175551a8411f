----------------------- MODULE ConversationLog_proofs -----------------------
(***************************************************************************)
(* Proofs about ConversationLog: types, faithfulness of the cache, and     *)
(* that the store implements OrderedLog, for all sets of messages, nodes   *)
(* and requests and for any number of crashes and losses of Redis.         *)
(***************************************************************************)
EXTENDS ConversationLog, FiniteSetTheorems, TLAPS

Types == TypeOK /\ TaskShape

TaskRecord == [pc : PCs, kind : Kinds \cup {"none"}, ulid : Ulids \cup {"none"},
               seq : Nat, copy : Content]

\* What the types say of a request in flight.
LEMMA InFlightFacts ==
    ASSUME Types, NEW t \in Tasks, task[t].pc # "idle"
    PROVE  /\ task[t].ulid \in Ulids /\ task[t].kind \in Kinds
           /\ task[t].seq \in Nat /\ task[t].copy \in Content
BY DEF Types, TypeOK, TaskShape

LEMMA PatchedType ==
    ASSUME NEW c \in Content, NEW k \in {"edit", "delete", "react"}, NEW n \in Nat
    PROVE  Patched(c, k, n) \in Content
<1>1. NoText \in Nat \cup {NoText}
  OBVIOUS
<1>2. CASE k = "edit"
  BY <1>2 DEF Patched, Content
<1>3. CASE k = "delete"
  BY <1>1, <1>3 DEF Patched, Content
<1>4. CASE k = "react"
  BY <1>4 DEF Patched, Content
<1> QED
  BY <1>2, <1>3, <1>4

LEMMA OriginalType == Original \in Content
BY DEF Original, Content

LEMMA IdleType == Idle \in TaskRecord
BY OriginalType DEF Idle, TaskRecord, PCs

LEMMA HighestType ==
    ASSUME NEW S \in SUBSET Nat
    PROVE  Highest(S) \in Nat
BY DEF Highest

LEMMA RecordUpdate ==
    ASSUME NEW r \in TaskRecord, NEW p \in PCs, NEW n \in Nat
    PROVE  /\ [r EXCEPT !.seq = n, !.pc = p] \in TaskRecord
           /\ [r EXCEPT !.seq = n, !.pc = p].pc = p
           /\ [r EXCEPT !.seq = n, !.pc = p].seq = n
           /\ [r EXCEPT !.seq = n, !.pc = p].kind = r.kind
           /\ [r EXCEPT !.seq = n, !.pc = p].ulid = r.ulid
<1> DEFINE q == [r EXCEPT !.seq = n]
<1>1. q \in TaskRecord /\ q.seq = n /\ q.kind = r.kind /\ q.ulid = r.ulid
  BY DEF TaskRecord
<1> HIDE DEF q
<1>2. /\ [q EXCEPT !.pc = p] \in TaskRecord /\ [q EXCEPT !.pc = p].pc = p
      /\ [q EXCEPT !.pc = p].seq = q.seq /\ [q EXCEPT !.pc = p].kind = q.kind
      /\ [q EXCEPT !.pc = p].ulid = q.ulid
  BY <1>1 DEF TaskRecord
<1> USE DEF q
<1> QED
  BY <1>1, <1>2

LEMMA InitTypes == Init => Types
<1> SUFFICES ASSUME Init PROVE Types
  OBVIOUS
<1>1. TypeOK
  BY OriginalType, IdleType DEF Init, TypeOK, TaskRecord
<1>2. TaskShape
  BY DEF Init, TaskShape, Idle
<1> QED
  BY <1>1, <1>2 DEF Types

\* A step that changes the record of one request to a well-shaped one.
LEMMA TaskUpdate ==
    ASSUME Types, NEW t \in Tasks, NEW r \in TaskRecord,
           task' = [task EXCEPT ![t] = r],
           r.pc # "idle" => r.ulid \in Ulids /\ r.kind \in Kinds,
           r.pc \in {"update", "hget", "hset"} => r.kind \in {"edit", "delete", "react"},
           r.pc \in {"insert", "lookup", "cache", "ack", "reack"} => r.kind \in {"send", "group"},
           r.pc \notin {"idle", "alloc"} => r.seq # 0
    PROVE  /\ task' \in [Tasks -> TaskRecord]
           /\ TaskShape'
<1>1. task \in [Tasks -> TaskRecord]
  BY DEF Types, TypeOK, TaskRecord
<1>2. task'[t] = r /\ \A s \in Tasks : s # t => task'[s] = task[s]
  BY <1>1
<1>3. task' \in [Tasks -> TaskRecord]
  BY <1>1
<1>4. TaskShape'
  <2> SUFFICES ASSUME NEW s \in Tasks
               PROVE  /\ task'[s].pc # "idle" => task'[s].ulid \in Ulids /\ task'[s].kind \in Kinds
                      /\ task'[s].pc \in {"update", "hget", "hset"} => task'[s].kind \in {"edit", "delete", "react"}
                      /\ task'[s].pc \in {"insert", "lookup", "cache", "ack", "reack"} => task'[s].kind \in {"send", "group"}
                      /\ task'[s].pc \notin {"idle", "alloc"} => task'[s].seq # 0
    BY DEF TaskShape
  <2>1. CASE s = t
    BY <2>1, <1>2
  <2>2. CASE s # t
    BY <2>2, <1>2 DEF Types, TaskShape
  <2> QED
    BY <2>1, <2>2
<1> QED
  BY <1>3, <1>4

\* Each action keeps the types.
LEMMA TypesArrive ==
    ASSUME Types, NEW t \in Tasks, Arrive(t)
    PROVE  Types'
<1>1. PICK u \in Ulids, kind \in Kinds : Begin(t, kind, u)
  BY DEF Arrive, BeginSend, BeginGroupEvent, BeginEdit, BeginDelete, BeginReact, Begin
<1> DEFINE r == Accepted(kind, u)
<1>2. r.pc = "alloc" /\ r.kind = kind /\ r.ulid = u
  BY DEF Accepted
<1>3. r \in TaskRecord
  BY OriginalType DEF TaskRecord, PCs, Accepted
<1>4. task' = [task EXCEPT ![t] = r]
  BY <1>1 DEF Begin
<1>5. task' \in [Tasks -> TaskRecord] /\ TaskShape'
  <2> HIDE DEF r
  <2> QED
    BY <1>2, <1>3, <1>4, TaskUpdate
<1>6. TypeOK'
  <2>1. /\ UNCHANGED <<counter, score, hash, stored, content, node, found>>
        /\ UNCHANGED <<acked, published, crashes, losses>>
        /\ ops' = ops + 1
    BY <1>1 DEF Begin, redisVars, mongoVars, nodeVars
  <2> QED
    BY <2>1, <1>5 DEF Types, TypeOK, TaskRecord
<1> QED
  BY <1>5, <1>6 DEF Types

LEMMA TypesAlloc ==
    ASSUME Types, NEW t \in Tasks, Alloc(t)
    PROVE  Types'
<1> DEFINE r == [task[t] EXCEPT !.seq = counter + 1, !.pc = AfterAlloc(task[t].kind)]
<1>1. /\ task[t] \in TaskRecord /\ task[t].pc = "alloc"
      /\ task[t].ulid \in Ulids /\ task[t].kind \in Kinds /\ counter \in Nat
  BY InFlightFacts DEF Alloc, Types, TypeOK, TaskRecord
<1>2. AfterAlloc(task[t].kind) \in {"insert", "update"}
  BY DEF AfterAlloc
<1>3. AfterAlloc(task[t].kind) \in PCs /\ counter + 1 \in Nat
  BY <1>1, <1>2 DEF PCs
<1>4. task' = [task EXCEPT ![t] = r]
  BY DEF Alloc
<1>5. /\ r \in TaskRecord
      /\ r.ulid = task[t].ulid /\ r.kind = task[t].kind /\ r.seq = counter + 1
      /\ r.pc = AfterAlloc(task[t].kind)
  <2> DEFINE p == AfterAlloc(task[t].kind)
  <2> DEFINE n == counter + 1
  <2>1. p \in PCs /\ n \in Nat
    BY <1>3
  <2> HIDE DEF p, n
  <2>2. /\ [task[t] EXCEPT !.seq = n, !.pc = p] \in TaskRecord
        /\ [task[t] EXCEPT !.seq = n, !.pc = p].pc = p
        /\ [task[t] EXCEPT !.seq = n, !.pc = p].seq = n
        /\ [task[t] EXCEPT !.seq = n, !.pc = p].kind = task[t].kind
        /\ [task[t] EXCEPT !.seq = n, !.pc = p].ulid = task[t].ulid
    BY <1>1, <2>1, RecordUpdate
  <2> USE DEF p, n
  <2> QED
    BY <2>2
<1>6. task[t].kind \in {"send", "edit", "delete", "react", "group"}
  BY <1>1, LogAssumption
<1>7. task' \in [Tasks -> TaskRecord] /\ TaskShape'
  <2> HIDE DEF r
  <2>1. r.pc = "update" => r.kind \in {"edit", "delete", "react"}
    BY <1>5, <1>6 DEF AfterAlloc
  <2>2. r.pc = "insert" => r.kind \in {"send", "group"}
    BY <1>5 DEF AfterAlloc
  <2>3. r.seq # 0 /\ r.ulid \in Ulids /\ r.kind \in Kinds
    BY <1>1, <1>5
  <2>4. r.pc \in {"insert", "update"}
    BY <1>2, <1>5
  <2>5. /\ r.pc \in {"update", "hget", "hset"} => r.kind \in {"edit", "delete", "react"}
        /\ r.pc \in {"insert", "lookup", "cache", "ack", "reack"} => r.kind \in {"send", "group"}
    BY <2>1, <2>2, <2>4
  <2>6. r \in TaskRecord
    BY <1>5
  <2> QED
    BY <1>4, <2>3, <2>5, <2>6, TaskUpdate
<1>8. TypeOK'
  BY <1>1, <1>7 DEF Alloc, Types, TypeOK, TaskRecord, mongoVars, nodeVars, bounds
<1> QED
  BY <1>7, <1>8 DEF Types

\* The helpers GoTo and Finish.
LEMMA TypesGoTo ==
    ASSUME Types, NEW t \in Tasks, NEW pc \in PCs, GoTo(t, pc),
           task[t].pc \notin {"idle", "alloc"},
           pc \notin {"idle", "alloc"},
           pc \in {"update", "hget", "hset"} => task[t].kind \in {"edit", "delete", "react"},
           pc \in {"insert", "lookup", "cache", "ack", "reack"} => task[t].kind \in {"send", "group"}
    PROVE  task' \in [Tasks -> TaskRecord] /\ TaskShape'
<1> DEFINE r == [task[t] EXCEPT !.pc = pc]
<1>1. task[t] \in TaskRecord
  BY DEF Types, TypeOK, TaskRecord
<1>2. r \in TaskRecord /\ r.pc = pc /\ r.kind = task[t].kind /\ r.ulid = task[t].ulid
      /\ r.seq = task[t].seq
  BY <1>1 DEF TaskRecord
<1>3. task' = [task EXCEPT ![t] = r]
  BY DEF GoTo
<1>4. task[t].ulid \in Ulids /\ task[t].kind \in Kinds /\ task[t].seq # 0
  BY InFlightFacts DEF Types, TaskShape
<1> HIDE DEF r
<1> QED
  BY <1>2, <1>3, <1>4, TaskUpdate

LEMMA TypesFinish ==
    ASSUME Types, NEW t \in Tasks, Finish(t)
    PROVE  task' \in [Tasks -> TaskRecord] /\ TaskShape'
<1>1. Idle.pc = "idle"
  BY DEF Idle
<1> QED
  BY <1>1, IdleType, TaskUpdate DEF Finish

LEMMA TypesStep ==
    ASSUME Types, NEW t \in Tasks, Step(t)
    PROVE  Types'
<1> USE DEF redisVars, mongoVars, nodeVars, bounds
<1> DEFINE Ending == task' \in [Tasks -> TaskRecord] /\ TaskShape'
<1>1. CASE Alloc(t)
  BY <1>1, TypesAlloc
<1>2. CASE Insert(t)
  <2>1. task[t].ulid \in Ulids /\ task[t].seq \in Nat /\ task[t].kind \in {"send", "group"}
    BY <1>2, InFlightFacts DEF Insert, Types, TaskShape
  <2>2. Ending
    <3>1. CASE task[t].kind = "send"
      BY <1>2, <2>1, <3>1, TypesGoTo DEF Insert, PCs
    <3>2. CASE task[t].kind # "send"
      BY <1>2, <2>1, <3>2, TypesGoTo DEF Insert, PCs
    <3> QED
      BY <3>1, <3>2
  <2>3. stored' \in [Ulids -> Nat] /\ content' \in [Ulids -> Content]
    BY <1>2, <2>1, OriginalType DEF Insert, Store, Types, TypeOK
  <2> QED
    BY <1>2, <2>2, <2>3 DEF Insert, Types, TypeOK, TaskRecord
<1>3. CASE InsertRefused(t)
  <2>1. Ending
    <3>1. CASE task[t].kind = "send"
      BY <1>3, <3>1, TypesGoTo DEF InsertRefused, PCs
    <3>2. CASE task[t].kind # "send"
      BY <1>3, <3>2, TypesFinish DEF InsertRefused
    <3> QED
      BY <3>1, <3>2
  <2> QED
    BY <1>3, <2>1 DEF InsertRefused, Types, TypeOK, TaskRecord
<1>4. CASE Lookup(t)
  <2> DEFINE n == stored[task[t].ulid]
  <2>1. task[t].ulid \in Ulids /\ task[t].kind \in {"send", "group"} /\ task[t].kind \in Kinds
        /\ n \in Nat /\ n # 0 /\ "reack" \in PCs /\ task[t] \in TaskRecord
    BY <1>4, InFlightFacts DEF Lookup, Types, TaskShape, TypeOK, PCs, TaskRecord
  <2> DEFINE p == "reack"
             r == [task[t] EXCEPT !.seq = n, !.pc = p]
  <2>2. task' = [task EXCEPT ![t] = r]
    BY <1>4 DEF Lookup
  <2>3. r \in TaskRecord /\ r.pc = p /\ r.seq = n /\ r.kind = task[t].kind
        /\ r.ulid = task[t].ulid
    <3>1. p \in PCs /\ n \in Nat /\ task[t] \in TaskRecord
      BY <2>1
    <3> HIDE DEF n, p
    <3>2. /\ [task[t] EXCEPT !.seq = n, !.pc = p] \in TaskRecord
          /\ [task[t] EXCEPT !.seq = n, !.pc = p].pc = p
          /\ [task[t] EXCEPT !.seq = n, !.pc = p].seq = n
          /\ [task[t] EXCEPT !.seq = n, !.pc = p].kind = task[t].kind
          /\ [task[t] EXCEPT !.seq = n, !.pc = p].ulid = task[t].ulid
      BY <3>1, RecordUpdate
    <3> USE DEF n, p
    <3> QED
      BY <3>2
  <2>4. Ending
    <3>1. p = "reack"
      OBVIOUS
    <3> HIDE DEF r, n, p
    <3> QED
      BY <2>1, <2>2, <2>3, <3>1, TaskUpdate
  <2> QED
    BY <1>4, <2>4 DEF Lookup, Types, TypeOK, TaskRecord
<1>5. CASE LookupNull(t)
  <2>1. Ending
    BY <1>5, TypesFinish DEF LookupNull
  <2> QED
    BY <1>5, <2>1 DEF LookupNull, Types, TypeOK, TaskRecord
<1>6. CASE CacheMsg(t)
  <2>1. task[t].ulid \in Ulids /\ task[t].seq \in Nat /\ task[t].kind \in {"send", "group"}
    BY <1>6, InFlightFacts DEF CacheMsg, Types, TaskShape
  <2>2. Ending
    BY <1>6, <2>1, TypesGoTo DEF CacheMsg, PCs
  <2>3. score' \in [Ulids -> Nat]
    <3> DEFINE sc == [score EXCEPT ![task[t].ulid] = task[t].seq]
    <3>1. sc \in [Ulids -> Nat]
      BY <2>1 DEF Types, TypeOK
    <3>2. score' = Trimmed(sc)
      BY <1>6 DEF CacheMsg
    <3> HIDE DEF sc
    <3> QED
      BY <3>1, <3>2 DEF Trimmed
  <2>4. DOMAIN hash' \subseteq Ulids /\ \A u \in DOMAIN hash' : hash'[u] \in Content
    BY <1>6, <2>1, OriginalType DEF CacheMsg, Types, TypeOK
  <2> QED
    BY <1>6, <2>2, <2>3, <2>4 DEF CacheMsg, Types, TypeOK, TaskRecord
<1>7. CASE Ack(t)
  <2>1. task[t].ulid \in Ulids /\ task[t].seq \in Nat /\ task[t].kind \in {"send", "group"}
    BY <1>7, InFlightFacts DEF Ack, Types, TaskShape
  <2>2. Ending
    <3>1. CASE task[t].pc = "ack"
      BY <1>7, <2>1, <3>1, TypesGoTo DEF Ack, PCs
    <3>2. CASE task[t].pc # "ack"
      BY <1>7, <3>2, TypesFinish DEF Ack
    <3> QED
      BY <3>1, <3>2
  <2>3. acked' \subseteq (Ulids \X Nat)
    BY <1>7, <2>1 DEF Ack, Types, TypeOK
  <2> QED
    BY <1>7, <2>2, <2>3 DEF Ack, Types, TypeOK, TaskRecord
<1>8. CASE Update(t)
  <2>1. /\ task[t].ulid \in Ulids /\ task[t].seq \in Nat
        /\ task[t].kind \in {"edit", "delete", "react"}
    BY <1>8, InFlightFacts DEF Update, Types, TaskShape
  <2>2. Ending
    <3>1. CASE task[t].kind = "react"
      BY <1>8, <2>1, <3>1, TypesGoTo DEF Update, PCs
    <3>2. CASE task[t].kind # "react"
      BY <1>8, <2>1, <3>2, TypesGoTo DEF Update, PCs
    <3> QED
      BY <3>1, <3>2
  <2>3. content' \in [Ulids -> Content]
    BY <1>8, <2>1, PatchedType DEF Update, Types, TypeOK
  <2> QED
    BY <1>8, <2>2, <2>3 DEF Update, Types, TypeOK, TaskRecord
<1>9. CASE PatchRead(t)
  <2>1. /\ task[t].ulid \in Ulids /\ task[t].seq \in Nat /\ task[t].seq # 0 /\ task[t].kind \in Kinds
        /\ task[t].kind \in {"edit", "delete", "react"} /\ task[t] \in TaskRecord
    BY <1>9, InFlightFacts DEF PatchRead, Types, TaskShape, TypeOK, TaskRecord
  <2>2. Ending
    <3>1. CASE task[t].ulid \in DOMAIN hash
      <4> DEFINE c == hash[task[t].ulid]
      <4> DEFINE r == [task[t] EXCEPT !.copy = c, !.pc = "hset"]
      <4>1. c \in Content
        BY <3>1 DEF Types, TypeOK
      <4>2. task' = [task EXCEPT ![t] = r]
        BY <1>9, <3>1 DEF PatchRead
      <4>3. r \in TaskRecord /\ r.pc = "hset" /\ r.seq = task[t].seq
            /\ r.kind = task[t].kind /\ r.ulid = task[t].ulid
        <5> HIDE DEF c
        <5> DEFINE q == [task[t] EXCEPT !.copy = c]
        <5>1. q \in TaskRecord /\ q.seq = task[t].seq
              /\ q.kind = task[t].kind /\ q.ulid = task[t].ulid
          BY <4>1, <2>1 DEF TaskRecord
        <5> HIDE DEF q
        <5>2. /\ [q EXCEPT !.pc = "hset"] \in TaskRecord /\ [q EXCEPT !.pc = "hset"].pc = "hset"
              /\ [q EXCEPT !.pc = "hset"].seq = q.seq
              /\ [q EXCEPT !.pc = "hset"].kind = q.kind
              /\ [q EXCEPT !.pc = "hset"].ulid = q.ulid
          BY <5>1 DEF TaskRecord, PCs
        <5> USE DEF q
        <5> QED
          BY <5>1, <5>2
      <4> HIDE DEF r
      <4> QED
        BY <2>1, <4>2, <4>3, TaskUpdate
    <3>2. CASE task[t].ulid \notin DOMAIN hash
      BY <1>9, <2>1, <3>2, TypesGoTo DEF PatchRead, PCs
    <3> QED
      BY <3>1, <3>2
  <2> QED
    BY <1>9, <2>2 DEF PatchRead, Types, TypeOK, TaskRecord
<1>10. CASE PatchWrite(t)
  <2>1. /\ task[t].ulid \in Ulids /\ task[t].seq \in Nat /\ task[t].copy \in Content
        /\ task[t].kind \in {"edit", "delete", "react"}
    BY <1>10, InFlightFacts DEF PatchWrite, Types, TaskShape
  <2>2. Ending
    BY <1>10, <2>1, TypesGoTo DEF PatchWrite, PCs
  <2>3. DOMAIN hash' \subseteq Ulids /\ \A u \in DOMAIN hash' : hash'[u] \in Content
    BY <1>10, <2>1, PatchedType DEF PatchWrite, Types, TypeOK
  <2> QED
    BY <1>10, <2>2, <2>3 DEF PatchWrite, Types, TypeOK, TaskRecord
<1>11. CASE Publish(t)
  <2>1. task[t].ulid \in Ulids /\ task[t].seq \in Nat /\ task[t].kind \in Kinds
    BY <1>11, InFlightFacts DEF Publish
  <2>2. Ending
    BY <1>11, TypesFinish DEF Publish
  <2>3. published' \in Seq(Frames)
    <3> DEFINE f == [kind |-> task[t].kind, ulid |-> task[t].ulid, seq |-> task[t].seq]
    <3>1. f \in Frames /\ published \in Seq(Frames) /\ published' = Append(published, f)
      BY <1>11, <2>1 DEF Publish, Frames, Types, TypeOK
    <3> HIDE DEF f
    <3> QED
      BY <3>1
  <2> QED
    BY <1>11, <2>2, <2>3 DEF Publish, Types, TypeOK, TaskRecord
<1> QED
  BY <1>1, <1>2, <1>3, <1>4, <1>5, <1>6, <1>7, <1>8, <1>9, <1>10, <1>11 DEF Step

LEMMA TypesFail ==
    ASSUME Types, Fail
    PROVE  Types'
<1> USE DEF redisVars, mongoVars, nodeVars, bounds
<1>1. ASSUME NEW g \in Gateways, Crash(g)
      PROVE  Types'
  <2>1. /\ task' \in [Tasks -> TaskRecord]
        /\ \A s \in Tasks : task'[s] = Idle \/ task'[s] = task[s]
    BY <1>1, IdleType DEF Crash, Types, TypeOK, TaskRecord
  <2>2. TaskShape'
    BY <2>1 DEF Types, TaskShape, Idle
  <2> QED
    BY <1>1, <2>1, <2>2 DEF Crash, Types, TypeOK, TaskRecord
<1>2. ASSUME NEW g \in Gateways, StartRead(g)
      PROVE  Types'
  <2>1. Highest(StoredSeqs) \in Nat
    BY HighestType DEF StoredSeqs, Types, TypeOK
  <2>2. TaskShape'
    BY <1>2 DEF StartRead, Types, TaskShape
  <2> QED
    BY <1>2, <2>1, <2>2 DEF StartRead, Types, TypeOK
<1>3. ASSUME NEW g \in Gateways, StartSet(g)
      PROVE  Types'
  <2>1. TaskShape'
    BY <1>3 DEF StartSet, Types, TaskShape
  <2> QED
    BY <1>3, <2>1 DEF StartSet, Types, TypeOK
<1>4. CASE RedisLoss
  <2>1. TaskShape'
    BY <1>4 DEF RedisLoss, Types, TaskShape
  <2>2. DOMAIN hash' = {} /\ score' \in [Ulids -> Nat]
    BY <1>4 DEF RedisLoss
  <2> QED
    BY <1>4, <2>1, <2>2 DEF RedisLoss, Types, TypeOK
<1> QED
  BY <1>1, <1>2, <1>3, <1>4 DEF Fail

LEMMA TypesNext ==
    ASSUME Types, [Next]_vars
    PROVE  Types'
<1>1. CASE Next
  BY <1>1, TypesArrive, TypesStep, TypesFail DEF Next
<1>2. CASE UNCHANGED vars
  <2>1. TaskShape'
    BY <1>2 DEF vars, Types, TaskShape
  <2> QED
    BY <1>2, <2>1 DEF vars, redisVars, mongoVars, nodeVars, bounds, Types, TypeOK
<1> QED
  BY <1>1, <1>2

\* Whatever requests run and whatever fails, the stores, the requests and the
\* history of frames keep the shape the code gives them.
THEOREM TypeCorrect == Spec => []TypeOK
<1>1. Init => Types
  BY InitTypes
<1>2. Types /\ [Next]_vars => Types'
  BY TypesNext
<1>3. Types => TypeOK
  BY DEF Types
<1> QED
  BY <1>1, <1>2, <1>3, PTL DEF Spec

-----------------------------------------------------------------------------
(***************************************************************************)
(* The inductive invariant.  Agreement is the part about holders and the   *)
(* broadcast; only Insert and Publish can disturb it.                      *)
(***************************************************************************)

Agreement == NumbersDistinct /\ HoldersAgree /\ OneBroadcaster /\ AnnouncedIsStored

LEMMA IInvParts == IInv <=> Types /\ Agreement /\ CacheFaithful
BY DEF IInv, Types, Agreement

\* Only a message or a group event adds to the entries announced.
LEMMA AnnouncedAppend ==
    ASSUME published \in Seq(Frames), NEW f \in Frames,
           published' = Append(published, f)
    PROVE  Announced' = IF f.kind \in {"send", "group"} THEN Announced \cup {f.ulid}
                        ELSE Announced
<1> DEFINE n == Len(published)
<1>1. /\ n \in Nat /\ Len(published') = n + 1
      /\ published'[n + 1] = f
      /\ \A i \in 1..n : published'[i] = published[i]
  OBVIOUS
<1>2. \A i \in 1..(n + 1) : i \in 1..n \/ i = n + 1
  BY <1>1
<1>3. 1..n \subseteq 1..(n + 1) /\ n + 1 \in 1..(n + 1)
  BY <1>1
<1>4. \A u : u \in Announced' <=>
             \E i \in 1..(n + 1) : published'[i].kind \in {"send", "group"} /\ published'[i].ulid = u
  BY <1>1 DEF Announced
<1>5. \A u : u \in Announced <=>
             \E i \in 1..n : published[i].kind \in {"send", "group"} /\ published[i].ulid = u
  BY DEF Announced
<1> HIDE DEF n
<1>6. \A u : u \in Announced' <=> u \in Announced \/ (f.kind \in {"send", "group"} /\ u = f.ulid)
  BY <1>1, <1>2, <1>3, <1>4, <1>5
<1> QED
  BY <1>6

\* A step that stores and announces nothing, and makes no request a holder
\* unless it holds the stored number.
LEMMA QuietStep ==
    ASSUME Agreement, UNCHANGED <<stored, published>>,
           \A s \in Tasks : Fresh(s)' => /\ Fresh(s)
                                        /\ task'[s].ulid = task[s].ulid
                                        /\ task'[s].seq = task[s].seq,
           \A s \in Tasks : task'[s].pc = "reack" => stored[task'[s].ulid] = task'[s].seq
    PROVE  Agreement'
<1>1. Announced' = Announced
  BY DEF Announced
<1>2. NumbersDistinct'
  BY DEF Agreement, NumbersDistinct
<1>3. HoldersAgree'
  BY DEF Agreement, HoldersAgree
<1>4. OneBroadcaster'
  BY <1>1 DEF Agreement, OneBroadcaster
<1>5. AnnouncedIsStored'
  BY <1>1 DEF Agreement, AnnouncedIsStored
<1> QED
  BY <1>2, <1>3, <1>4, <1>5 DEF Agreement

\* The usual form of such a step: one request moves on.
LEMMA QuietTask ==
    ASSUME Types, Agreement, NEW t \in Tasks, NEW r,
           task' = [task EXCEPT ![t] = r],
           UNCHANGED <<stored, published>>,
           r.kind \in {"send", "group"} /\ r.pc \in {"cache", "ack", "publish"}
               => Fresh(t) /\ r.ulid = task[t].ulid /\ r.seq = task[t].seq,
           r.pc = "reack" => stored[r.ulid] = r.seq
    PROVE  Agreement'
<1>1. task'[t] = r /\ \A s \in Tasks : s # t => task'[s] = task[s]
  BY DEF Types, TypeOK
<1>2. ASSUME NEW s \in Tasks, Fresh(s)'
      PROVE  Fresh(s) /\ task'[s].ulid = task[s].ulid /\ task'[s].seq = task[s].seq
  <2>1. CASE s = t
    BY <1>1, <1>2, <2>1 DEF Fresh
  <2>2. CASE s # t
    BY <1>1, <1>2, <2>2 DEF Fresh
  <2> QED
    BY <2>1, <2>2
<1>3. ASSUME NEW s \in Tasks, task'[s].pc = "reack"
      PROVE  stored[task'[s].ulid] = task'[s].seq
  <2>1. CASE s = t
    BY <1>1, <1>3, <2>1
  <2>2. CASE s # t
    BY <1>1, <1>3, <2>2 DEF Agreement, HoldersAgree
  <2> QED
    BY <2>1, <2>2
<1> QED
  BY <1>2, <1>3, QuietStep

LEMMA AgreementInsert ==
    ASSUME IInv, NEW t \in Tasks, Insert(t)
    PROVE  Agreement'
<1> DEFINE u == task[t].ulid
           n == task[t].seq
<1>1. /\ u \in Ulids /\ n \in Nat /\ n # 0 /\ task[t].kind \in {"send", "group"}
      /\ task \in [Tasks -> TaskRecord] /\ stored \in [Ulids -> Nat]
  BY InFlightFacts, IInvParts DEF Insert, Types, TaskShape, TypeOK, TaskRecord
<1>2. stored[u] = 0 /\ \A v \in Ulids : stored[v] # 0 => stored[v] # n
  BY DEF Insert, Collides, StoredSeqs
<1>3. stored'[u] = n /\ \A v \in Ulids : v # u => stored'[v] = stored[v]
  BY <1>1 DEF Insert, Store
<1>4. /\ task'[t].ulid = u /\ task'[t].seq = n /\ task'[t].pc # "reack"
      /\ \A s \in Tasks : s # t => task'[s] = task[s]
  BY <1>1 DEF Insert, GoTo, TaskRecord
<1>5. Announced' = Announced
  BY DEF Insert, Announced
<1>6. u \notin Announced
  BY <1>2 DEF IInv, AnnouncedIsStored
<1>7. ASSUME NEW s \in Tasks, s # t, Fresh(s)' \/ task'[s].pc = "reack"
      PROVE  /\ Fresh(s) \/ task[s].pc = "reack"
             /\ task[s].ulid \in Ulids /\ task[s].ulid # u
             /\ stored[task[s].ulid] = task[s].seq
  <2>1. Fresh(s) \/ task[s].pc = "reack"
    BY <1>4, <1>7 DEF Fresh
  <2>2. stored[task[s].ulid] = task[s].seq /\ task[s].seq # 0 /\ task[s].ulid \in Ulids
    BY <2>1 DEF IInv, HoldersAgree, TaskShape, Fresh
  <2> QED
    BY <1>2, <2>1, <2>2
<1> HIDE DEF u, n
<1>8. NumbersDistinct'
  BY <1>2, <1>3 DEF IInv, NumbersDistinct
<1>9. HoldersAgree'
  <2> SUFFICES ASSUME NEW s \in Tasks, Fresh(s)' \/ task'[s].pc = "reack"
               PROVE  stored'[task'[s].ulid] = task'[s].seq
    BY DEF HoldersAgree
  <2> QED
    BY <1>3, <1>4, <1>7
<1>10. OneBroadcaster'
  <2> SUFFICES ASSUME NEW s \in Tasks, Fresh(s)'
               PROVE  /\ task'[s].ulid \notin Announced'
                      /\ \A r \in Tasks : Fresh(r)' /\ task'[r].ulid = task'[s].ulid => r = s
    BY DEF OneBroadcaster
  <2>1. ASSUME NEW r \in Tasks, r # t, Fresh(r)'
        PROVE  Fresh(r) /\ task'[r] = task[r] /\ task[r].ulid # u
    BY <1>4, <1>7, <2>1 DEF Fresh
  <2>2. CASE s = t
    BY <1>4, <1>5, <1>6, <2>1, <2>2
  <2>3. CASE s # t
    BY <1>4, <1>5, <2>1, <2>3 DEF IInv, OneBroadcaster
  <2> QED
    BY <2>2, <2>3
<1>11. AnnouncedIsStored'
  BY <1>3, <1>5, <1>6 DEF IInv, AnnouncedIsStored
<1> QED
  BY <1>8, <1>9, <1>10, <1>11 DEF Agreement

LEMMA AgreementPublish ==
    ASSUME IInv, NEW t \in Tasks, Publish(t)
    PROVE  /\ Agreement'
           /\ Announced' = IF Fresh(t) THEN Announced \cup {task[t].ulid} ELSE Announced
<1> DEFINE f == [kind |-> task[t].kind, ulid |-> task[t].ulid, seq |-> task[t].seq]
<1>1. /\ task[t].pc = "publish" /\ task[t].ulid \in Ulids /\ task[t].kind \in Kinds
      /\ task[t].seq \in Nat
      /\ task \in [Tasks -> TaskRecord] /\ UNCHANGED stored /\ published \in Seq(Frames)
  BY InFlightFacts, IInvParts DEF Publish, Types, TypeOK, TaskRecord, mongoVars
<1>2. Announced' = IF task[t].kind \in {"send", "group"} THEN Announced \cup {task[t].ulid} ELSE Announced
  <2>1. f \in Frames /\ f.kind = task[t].kind /\ f.ulid = task[t].ulid
    BY <1>1 DEF Frames
  <2>2. published' = Append(published, f)
    BY DEF Publish
  <2> HIDE DEF f
  <2> QED
    BY <1>1, <2>1, <2>2, AnnouncedAppend
<1>3. Fresh(t) <=> task[t].kind \in {"send", "group"}
  BY <1>1 DEF Fresh
<1>4. task'[t] = Idle /\ \A s \in Tasks : s # t => task'[s] = task[s]
  BY <1>1 DEF Publish, Finish
<1>5. ASSUME NEW s \in Tasks, Fresh(s)' \/ task'[s].pc = "reack"
      PROVE  s # t /\ task'[s] = task[s] /\ (Fresh(s)' => Fresh(s))
  BY <1>4, <1>5 DEF Fresh, Idle
<1>6. NumbersDistinct'
  BY <1>1 DEF IInv, NumbersDistinct
<1>7. HoldersAgree'
  BY <1>1, <1>5 DEF IInv, HoldersAgree
<1>8. OneBroadcaster'
  <2> SUFFICES ASSUME NEW s \in Tasks, Fresh(s)'
               PROVE  /\ task'[s].ulid \notin Announced'
                      /\ \A r \in Tasks : Fresh(r)' /\ task'[r].ulid = task'[s].ulid => r = s
    BY DEF OneBroadcaster
  <2>1. Fresh(s) /\ s # t /\ task'[s] = task[s]
    BY <1>5
  <2>2. task[s].ulid \notin Announced /\ (Fresh(t) => task[s].ulid # task[t].ulid)
    BY <2>1 DEF IInv, OneBroadcaster
  <2>3. task'[s].ulid \notin Announced'
    BY <1>2, <1>3, <2>1, <2>2
  <2>4. ASSUME NEW r \in Tasks, Fresh(r)', task'[r].ulid = task'[s].ulid
        PROVE  r = s
    <3>1. Fresh(r) /\ task'[r] = task[r]
      BY <1>5, <2>4
    <3> QED
      BY <2>1, <2>4, <3>1 DEF IInv, OneBroadcaster
  <2> QED
    BY <2>3, <2>4
<1>9. AnnouncedIsStored'
  <2>1. Fresh(t) => stored[task[t].ulid] # 0
    BY <1>1 DEF IInv, HoldersAgree, TaskShape
  <2> QED
    BY <1>1, <1>2, <1>3, <2>1 DEF IInv, AnnouncedIsStored
<1> QED
  BY <1>2, <1>3, <1>6, <1>7, <1>8, <1>9 DEF Agreement

LEMMA AgreementStep ==
    ASSUME IInv, NEW t \in Tasks, Step(t)
    PROVE  Agreement'
<1> USE DEF redisVars, mongoVars, nodeVars, bounds
<1>1. Types /\ Agreement /\ task[t] \in TaskRecord
  BY IInvParts DEF Types, TypeOK, TaskRecord
<1>2. CASE Alloc(t)
  <2> DEFINE n == counter + 1
             p == AfterAlloc(task[t].kind)
             r == [task[t] EXCEPT !.seq = n, !.pc = p]
  <2>1. task' = [task EXCEPT ![t] = r] /\ UNCHANGED <<stored, published>>
    BY <1>2 DEF Alloc
  <2>2. p \in PCs /\ p \in {"insert", "update"} /\ n \in Nat
    BY <1>1 DEF AfterAlloc, PCs, Types, TypeOK
  <2>3. r.pc = p
    <3>1. task[t] \in TaskRecord /\ p \in PCs /\ n \in Nat
      BY <1>1, <2>2
    <3> HIDE DEF n, p
    <3>2. [task[t] EXCEPT !.seq = n, !.pc = p].pc = p
      BY <3>1, RecordUpdate
    <3> USE DEF n, p
    <3> QED
      BY <3>2
  <2> HIDE DEF r, p
  <2> QED
    BY <1>1, <2>1, <2>2, <2>3, QuietTask
<1>3. CASE Insert(t)
  BY <1>3, AgreementInsert
<1>4. CASE InsertRefused(t)
  <2>1. CASE task[t].kind = "send"
    <3> DEFINE r == [task[t] EXCEPT !.pc = "lookup"]
    <3>1. task' = [task EXCEPT ![t] = r] /\ UNCHANGED <<stored, published>> /\ r.pc = "lookup"
      BY <1>1, <1>4, <2>1 DEF InsertRefused, GoTo, TaskRecord
    <3> HIDE DEF r
    <3> QED
      BY <1>1, <3>1, QuietTask
  <2>2. CASE task[t].kind # "send"
    BY <1>1, <1>4, <2>2, QuietTask DEF InsertRefused, Finish, Idle
  <2> QED
    BY <2>1, <2>2
<1>5. CASE Lookup(t)
  <2> DEFINE n == stored[task[t].ulid]
             p == "reack"
             r == [task[t] EXCEPT !.seq = n, !.pc = p]
  <2>1. task' = [task EXCEPT ![t] = r] /\ UNCHANGED <<stored, published>>
    BY <1>5 DEF Lookup
  <2>2. r.pc = p /\ r.seq = n /\ r.ulid = task[t].ulid
    <3>1. task[t] \in TaskRecord /\ p \in PCs /\ n \in Nat
      BY <1>1, <1>5, InFlightFacts DEF PCs, Lookup, Types, TypeOK
    <3> HIDE DEF n, p
    <3>2. /\ [task[t] EXCEPT !.seq = n, !.pc = p] \in TaskRecord
          /\ [task[t] EXCEPT !.seq = n, !.pc = p].pc = p
          /\ [task[t] EXCEPT !.seq = n, !.pc = p].seq = n
          /\ [task[t] EXCEPT !.seq = n, !.pc = p].kind = task[t].kind
          /\ [task[t] EXCEPT !.seq = n, !.pc = p].ulid = task[t].ulid
      BY <3>1, RecordUpdate
    <3> USE DEF n, p
    <3> QED
      BY <3>2
  <2>3. stored[r.ulid] = r.seq
    BY <2>2
  <2>4. p \notin {"cache", "ack", "publish"}
    OBVIOUS
  <2> HIDE DEF r, p, n
  <2> QED
    BY <1>1, <2>1, <2>2, <2>3, <2>4, QuietTask
<1>6. CASE LookupNull(t)
  BY <1>1, <1>6, QuietTask DEF LookupNull, Finish, Idle
<1>7. CASE CacheMsg(t)
  <2> DEFINE r == [task[t] EXCEPT !.pc = "ack"]
  <2>1. /\ task' = [task EXCEPT ![t] = r] /\ UNCHANGED <<stored, published>>
        /\ r.pc = "ack" /\ r.kind = task[t].kind /\ r.ulid = task[t].ulid /\ r.seq = task[t].seq
    BY <1>1, <1>7 DEF CacheMsg, GoTo, TaskRecord
  <2>2. r.kind \in {"send", "group"} => Fresh(t)
    BY <1>7, <2>1 DEF CacheMsg, Fresh
  <2> HIDE DEF r
  <2> QED
    BY <1>1, <2>1, <2>2, QuietTask
<1>8. CASE Ack(t)
  <2>1. CASE task[t].pc = "ack"
    <3> DEFINE r == [task[t] EXCEPT !.pc = "publish"]
    <3>1. /\ task' = [task EXCEPT ![t] = r] /\ UNCHANGED <<stored, published>>
          /\ r.pc = "publish" /\ r.kind = task[t].kind /\ r.ulid = task[t].ulid /\ r.seq = task[t].seq
      BY <1>1, <1>8, <2>1 DEF Ack, GoTo, TaskRecord
    <3>2. r.kind \in {"send", "group"} => Fresh(t)
      BY <2>1, <3>1 DEF Fresh
    <3> HIDE DEF r
    <3> QED
      BY <1>1, <3>1, <3>2, QuietTask
  <2>2. CASE task[t].pc # "ack"
    BY <1>1, <1>8, <2>2, QuietTask DEF Ack, Finish, Idle
  <2> QED
    BY <2>1, <2>2
<1>9. CASE Update(t)
  <2> DEFINE p == IF task[t].kind = "react" THEN "publish" ELSE "hget"
             r == [task[t] EXCEPT !.pc = p]
  <2>1. task' = [task EXCEPT ![t] = r] /\ UNCHANGED <<stored, published>>
        /\ r.kind = task[t].kind /\ r.pc \in {"publish", "hget"}
    BY <1>1, <1>9 DEF Update, GoTo, TaskRecord
  <2>2. task[t].kind \notin {"send", "group"}
    BY <1>1, <1>9 DEF Update, Types, TaskShape
  <2> HIDE DEF r
  <2> QED
    BY <1>1, <2>1, <2>2, QuietTask
<1>10. CASE PatchRead(t)
  <2>1. PICK c \in {hash[task[t].ulid], task[t].copy}, p \in {"hset", "publish"} :
            task' = [task EXCEPT ![t] = [task[t] EXCEPT !.copy = c, !.pc = p]]
    <3>1. CASE task[t].ulid \in DOMAIN hash
      BY <1>10, <3>1 DEF PatchRead
    <3>2. CASE task[t].ulid \notin DOMAIN hash
      <4>1. task' = [task EXCEPT ![t] = [task[t] EXCEPT !.pc = "publish"]]
        BY <1>10, <3>2 DEF PatchRead, GoTo
      <4>2. [task[t] EXCEPT !.copy = task[t].copy, !.pc = "publish"]
                = [task[t] EXCEPT !.pc = "publish"]
        BY <1>1 DEF TaskRecord
      <4> QED
        BY <4>1, <4>2
    <3> QED
      BY <3>1, <3>2
  <2> DEFINE r == [task[t] EXCEPT !.copy = c, !.pc = p]
  <2>2. r.kind = task[t].kind /\ r.pc = p
    <3> DEFINE q == [task[t] EXCEPT !.copy = c]
    <3>1. q = [pc |-> task[t].pc, kind |-> task[t].kind, ulid |-> task[t].ulid,
               seq |-> task[t].seq, copy |-> c]
      BY <1>1 DEF TaskRecord
    <3>2. [q EXCEPT !.pc = p] = [pc |-> p, kind |-> task[t].kind, ulid |-> task[t].ulid,
                                 seq |-> task[t].seq, copy |-> c]
      <4> HIDE DEF q
      <4> QED
        BY <3>1
    <3> QED
      BY <3>2
  <2>3. task[t].kind \notin {"send", "group"}
    BY <1>1, <1>10 DEF PatchRead, Types, TaskShape
  <2>4. UNCHANGED <<stored, published>>
    BY <1>10 DEF PatchRead
  <2> HIDE DEF r
  <2> QED
    BY <1>1, <2>1, <2>2, <2>3, <2>4, QuietTask DEF r
<1>11. CASE PatchWrite(t)
  <2> DEFINE r == [task[t] EXCEPT !.pc = "publish"]
  <2>1. task' = [task EXCEPT ![t] = r] /\ UNCHANGED <<stored, published>>
        /\ r.kind = task[t].kind /\ r.pc = "publish"
    BY <1>1, <1>11 DEF PatchWrite, GoTo, TaskRecord
  <2>2. task[t].kind \notin {"send", "group"}
    BY <1>1, <1>11 DEF PatchWrite, Types, TaskShape
  <2> HIDE DEF r
  <2> QED
    BY <1>1, <2>1, <2>2, QuietTask
<1>12. CASE Publish(t)
  BY <1>12, AgreementPublish
<1> QED
  BY <1>2, <1>3, <1>4, <1>5, <1>6, <1>7, <1>8, <1>9, <1>10, <1>11, <1>12 DEF Step

LEMMA AgreementNext ==
    ASSUME IInv, [Next]_vars
    PROVE  Agreement'
<1> USE DEF redisVars, mongoVars, nodeVars, bounds
<1>1. Types /\ Agreement
  BY IInvParts
<1>2. ASSUME NEW t \in Tasks, Arrive(t)
      PROVE  Agreement'
  <2>1. PICK u \in Ulids, kind \in Kinds : Begin(t, kind, u)
    BY <1>2 DEF Arrive, BeginSend, BeginGroupEvent, BeginEdit, BeginDelete, BeginReact, Begin
  <2> DEFINE r == Accepted(kind, u)
  <2>2. task' = [task EXCEPT ![t] = r] /\ UNCHANGED <<stored, published>> /\ r.pc = "alloc"
    BY <2>1 DEF Begin, Accepted
  <2> HIDE DEF r
  <2> QED
    BY <1>1, <2>2, QuietTask
<1>3. ASSUME NEW t \in Tasks, Step(t)
      PROVE  Agreement'
  BY <1>3, AgreementStep
<1>4. CASE Fail \/ UNCHANGED vars
  <2>1. /\ UNCHANGED <<stored, published>>
        /\ \A s \in Tasks : task'[s] = Idle \/ task'[s] = task[s]
    BY <1>1, <1>4 DEF Fail, Crash, StartRead, StartSet, RedisLoss, vars, Types, TypeOK
  <2>2. ASSUME NEW s \in Tasks, Fresh(s)'
        PROVE  Fresh(s) /\ task'[s].ulid = task[s].ulid /\ task'[s].seq = task[s].seq
    BY <2>1, <2>2 DEF Fresh, Idle
  <2>3. \A s \in Tasks : task'[s].pc = "reack" => stored[task'[s].ulid] = task'[s].seq
    BY <1>1, <2>1 DEF Agreement, HoldersAgree, Idle
  <2> QED
    BY <1>1, <2>1, <2>2, <2>3, QuietStep
<1> QED
  BY <1>2, <1>3, <1>4 DEF Next

LEMMA CacheFaithfulNext ==
    ASSUME IInv, [Next]_vars
    PROVE  CacheFaithful'
<1> USE DEF redisVars, mongoVars, nodeVars, bounds
<1>1. Types /\ score \in [Ulids -> Nat] /\ stored \in [Ulids -> Nat]
  BY IInvParts DEF Types, TypeOK
<1>2. ASSUME UNCHANGED <<score, stored>>, DOMAIN hash \subseteq DOMAIN hash'
      PROVE  CacheFaithful'
  BY <1>2 DEF IInv, CacheFaithful
<1>3. ASSUME NEW t \in Tasks, Insert(t)
      PROVE  CacheFaithful'
  <2>1. task[t].ulid \in Ulids /\ stored[task[t].ulid] = 0 /\ UNCHANGED <<score, hash>>
    BY <1>1, <1>3, InFlightFacts DEF Insert, Collides
  <2>2. \A u \in Ulids : u # task[t].ulid => stored'[u] = stored[u]
    BY <1>1, <1>3 DEF Insert, Store
  <2> QED
    BY <2>1, <2>2 DEF IInv, CacheFaithful
<1>4. ASSUME NEW t \in Tasks, CacheMsg(t)
      PROVE  CacheFaithful'
  <2> DEFINE v == task[t].ulid
             sc == [score EXCEPT ![v] = task[t].seq]
  <2>1. v \in Ulids /\ stored[v] = task[t].seq
    BY <1>1, <1>4, InFlightFacts DEF CacheMsg, IInv, HoldersAgree, Fresh, TaskShape
  <2>2. /\ score' = Trimmed(sc) /\ UNCHANGED stored
        /\ DOMAIN hash' = DOMAIN hash \cup {v}
    BY <1>4 DEF CacheMsg
  <2>3. \A u \in Ulids : sc[u] = IF u = v THEN stored[v] ELSE score[u]
    BY <1>1, <2>1
  <2> HIDE DEF sc
  <2>4. \A u \in Ulids : score'[u] # 0 => score'[u] = sc[u]
    BY <2>2 DEF Trimmed
  <2> HIDE DEF v
  <2> QED
    BY <2>1, <2>2, <2>3, <2>4 DEF IInv, CacheFaithful
<1>5. CASE RedisLoss
  BY <1>5 DEF RedisLoss, CacheFaithful
<1>6. ASSUME NEW t \in Tasks, Arrive(t)
      PROVE  CacheFaithful'
  <2>1. UNCHANGED <<score, stored, hash>>
    BY <1>6 DEF Arrive, BeginSend, BeginGroupEvent, BeginEdit, BeginDelete, BeginReact, Begin
  <2> QED
    BY <1>2, <2>1
<1>7. ASSUME NEW t \in Tasks, Step(t), ~Insert(t), ~CacheMsg(t)
      PROVE  CacheFaithful'
  <2>1. CASE PatchWrite(t)
    BY <1>2, <2>1 DEF PatchWrite
  <2>2. CASE ~PatchWrite(t)
    <3>1. UNCHANGED <<score, stored, hash>>
      BY <1>7, <2>2 DEF Step, Alloc, InsertRefused, Lookup, LookupNull, Ack, Update, PatchRead, Publish
    <3> QED
      BY <1>2, <3>1
  <2> QED
    BY <2>1, <2>2
<1>8. CASE (Fail /\ ~RedisLoss) \/ UNCHANGED vars
  <2>1. UNCHANGED <<score, stored, hash>>
    BY <1>8 DEF Fail, Crash, StartRead, StartSet, vars
  <2> QED
    BY <1>2, <2>1
<1> QED
  BY <1>3, <1>4, <1>5, <1>6, <1>7, <1>8 DEF Next

LEMMA InitIInv == Init => IInv
<1> SUFFICES ASSUME Init PROVE IInv
  OBVIOUS
<1>1. Types
  BY InitTypes
<1>2. Announced = {}
  BY DEF Init, Announced
<1>3. Agreement
  BY <1>2 DEF Init, Agreement, NumbersDistinct, HoldersAgree, OneBroadcaster, AnnouncedIsStored,
              Fresh, Idle
<1>4. CacheFaithful
  BY DEF Init, CacheFaithful
<1> QED
  BY <1>1, <1>3, <1>4, IInvParts

THEOREM IInvCorrect == Spec => []IInv
<1>1. Init => IInv
  BY InitIInv
<1>2. IInv /\ [Next]_vars => IInv'
  <2> SUFFICES ASSUME IInv, [Next]_vars PROVE IInv'
    OBVIOUS
  <2>1. Types' /\ Agreement' /\ CacheFaithful'
    BY IInvParts, TypesNext, AgreementNext, CacheFaithfulNext
  <2> QED
    BY <2>1 DEF IInv, Types, Agreement
<1> QED
  BY <1>1, <1>2, PTL DEF Spec

\* Whatever fails and however requests interleave, every member of the cache's
\* sorted set is a stored document under its own number with its hash copy.
THEOREM CacheIsFaithful == Spec => []CacheFaithful
<1>1. IInv => CacheFaithful
  BY DEF IInv
<1> QED
  BY <1>1, IInvCorrect, PTL

-----------------------------------------------------------------------------
(***************************************************************************)
(* What a replay owes.  A message that is not in the cache has been pushed *)
(* out by CacheMax newer ones, so it is too old for any cursor that is     *)
(* answered with a replay.                                                 *)
(***************************************************************************)

\* Sends are about messages, group operations about events.
KindsFit ==
    \A t \in Tasks : /\ task[t].kind = "send" => task[t].ulid \in Messages
                     /\ task[t].kind = "group" => task[t].ulid \in Events

\* While nothing has rewound it, the counter covers every number drawn.
NumbersDrawn ==
    Undisturbed => /\ \A g \in Gateways : node[g] = "up"
                   /\ \A u \in Ulids : stored[u] <= counter
                   /\ \A t \in Tasks : task[t].seq <= counter

\* The request that stored u has not cached it yet.
OnItsWay(u) == \E t \in Tasks : task[t].pc = "cache" /\ task[t].ulid = u

\* A message that has been stored is in the cache, on its way, or CacheMax numbers old.
CachedOrOld ==
    Undisturbed =>
        \A u \in Messages : stored[u] # 0 /\ ~OnItsWay(u) =>
            score[u] # 0 \/ stored[u] + CacheMax <= counter

ReplayInv == IInv /\ KindsFit /\ NumbersDrawn /\ CachedOrOld

\* What a step of a request does to the requests.
LEMMA StepMoves ==
    ASSUME Types, NEW t \in Tasks, Step(t)
    PROVE  /\ \A s \in Tasks \ {t} : task'[s] = task[s]
           /\ \/ task'[t] = Idle
              \/ /\ task'[t].kind = task[t].kind /\ task'[t].ulid = task[t].ulid
                 /\ task'[t].seq \in {task[t].seq, counter', stored[task[t].ulid]}
                 /\ task'[t].pc = "cache" => Insert(t)
           /\ task[t].pc # "idle"
<1>1. task \in [Tasks -> TaskRecord] /\ task[t] \in TaskRecord /\ counter \in Nat
      /\ stored \in [Ulids -> Nat]
  BY DEF Types, TypeOK, TaskRecord
<1>2. \A s \in Tasks \ {t} : task'[s] = task[s]
  BY <1>1 DEF Step, Alloc, Insert, InsertRefused, Lookup, LookupNull, CacheMsg, Ack, Update,
              PatchRead, PatchWrite, Publish, GoTo, Finish
<1>3. task[t].pc # "idle"
  BY DEF Step, Alloc, Insert, InsertRefused, Lookup, LookupNull, CacheMsg, Ack, Update,
         PatchRead, PatchWrite, Publish
<1>4. ASSUME NEW pc \in PCs, GoTo(t, pc)
      PROVE  /\ task'[t].kind = task[t].kind /\ task'[t].ulid = task[t].ulid
             /\ task'[t].seq = task[t].seq /\ task'[t].pc = pc
  BY <1>1, <1>4 DEF GoTo, TaskRecord
<1>5. Finish(t) => task'[t] = Idle
  BY <1>1 DEF Finish
<1>6. ASSUME NEW n \in Nat, NEW p \in PCs,
             task' = [task EXCEPT ![t].seq = n, ![t].pc = p]
      PROVE  /\ task'[t].kind = task[t].kind /\ task'[t].ulid = task[t].ulid
             /\ task'[t].seq = n /\ task'[t].pc = p
  <2>1. task'[t] = [task[t] EXCEPT !.seq = n, !.pc = p]
    BY <1>1, <1>6
  <2>2. /\ [task[t] EXCEPT !.seq = n, !.pc = p] \in TaskRecord
        /\ [task[t] EXCEPT !.seq = n, !.pc = p].pc = p
        /\ [task[t] EXCEPT !.seq = n, !.pc = p].seq = n
        /\ [task[t] EXCEPT !.seq = n, !.pc = p].kind = task[t].kind
        /\ [task[t] EXCEPT !.seq = n, !.pc = p].ulid = task[t].ulid
    <3>1. task[t] \in TaskRecord /\ p \in PCs /\ n \in Nat
      BY <1>1
    <3> QED
      BY <3>1, RecordUpdate
  <2> QED
    BY <2>1, <2>2
<1> DEFINE Goal == \/ task'[t] = Idle
                   \/ /\ task'[t].kind = task[t].kind /\ task'[t].ulid = task[t].ulid
                      /\ task'[t].seq \in {task[t].seq, counter', stored[task[t].ulid]}
                      /\ task'[t].pc = "cache" => Insert(t)
<1>7. ASSUME Alloc(t)  PROVE Goal
  <2> DEFINE n == counter + 1
             p == AfterAlloc(task[t].kind)
  <2>1. n \in Nat /\ p \in PCs /\ p # "cache"
    BY <1>1 DEF AfterAlloc, PCs
  <2>2. task' = [task EXCEPT ![t].seq = n, ![t].pc = p] /\ counter' = n
    BY <1>7 DEF Alloc
  <2> HIDE DEF n, p
  <2> QED
    BY <1>6, <2>1, <2>2
<1>8. ASSUME Insert(t)  PROVE Goal
  BY <1>4, <1>8 DEF Insert, PCs
<1>9. ASSUME InsertRefused(t)  PROVE Goal
  BY <1>4, <1>5, <1>9 DEF InsertRefused, PCs
<1>10. ASSUME Lookup(t)  PROVE Goal
  <2> DEFINE n == stored[task[t].ulid]
             p == "reack"
  <2>1. n \in Nat /\ p \in PCs /\ p # "cache"
    BY <1>1, <1>10, InFlightFacts DEF Lookup, PCs
  <2>2. task' = [task EXCEPT ![t].seq = n, ![t].pc = p]
    BY <1>10 DEF Lookup
  <2> HIDE DEF p
  <2> QED
    BY <1>6, <2>1, <2>2
<1>11. ASSUME LookupNull(t)  PROVE Goal
  BY <1>5, <1>11 DEF LookupNull
<1>12. ASSUME CacheMsg(t)  PROVE Goal
  BY <1>4, <1>12 DEF CacheMsg, PCs
<1>13. ASSUME Ack(t)  PROVE Goal
  BY <1>4, <1>5, <1>13 DEF Ack, PCs
<1>14. ASSUME Update(t)  PROVE Goal
  BY <1>4, <1>14 DEF Update, PCs
<1>15. ASSUME PatchRead(t)  PROVE Goal
  <2>1. CASE task[t].ulid \in DOMAIN hash
    <3> DEFINE c == hash[task[t].ulid]
    <3>1. task'[t] = [task[t] EXCEPT !.copy = c, !.pc = "hset"]
      BY <1>1, <1>15, <2>1 DEF PatchRead
    <3> HIDE DEF c
    <3> DEFINE q == [task[t] EXCEPT !.copy = c]
    <3>2. q = [pc |-> task[t].pc, kind |-> task[t].kind, ulid |-> task[t].ulid,
               seq |-> task[t].seq, copy |-> c]
      BY <1>1 DEF TaskRecord
    <3>3. [q EXCEPT !.pc = "hset"] = [pc |-> "hset", kind |-> task[t].kind,
              ulid |-> task[t].ulid, seq |-> task[t].seq, copy |-> c]
      <4> HIDE DEF q
      <4> QED
        BY <3>2
    <3> QED
      BY <3>1, <3>3
  <2>2. CASE task[t].ulid \notin DOMAIN hash
    BY <1>4, <1>15, <2>2 DEF PatchRead, PCs
  <2> QED
    BY <2>1, <2>2
<1>16. ASSUME PatchWrite(t)  PROVE Goal
  BY <1>4, <1>16 DEF PatchWrite, PCs
<1>17. ASSUME Publish(t)  PROVE Goal
  BY <1>5, <1>17 DEF Publish
<1>18. Goal
  <2> HIDE DEF Goal
  <2> QED
    BY <1>7, <1>8, <1>9, <1>10, <1>11, <1>12, <1>13, <1>14, <1>15, <1>16, <1>17 DEF Step
<1> QED
  BY <1>2, <1>3, <1>18

\* A request that begins.
LEMMA ArriveMoves ==
    ASSUME Types, NEW t \in Tasks, Arrive(t)
    PROVE  /\ \A s \in Tasks \ {t} : task'[s] = task[s]
           /\ task'[t].seq = 0 /\ task'[t].pc = "alloc" /\ task[t].pc = "idle"
           /\ task'[t].kind = "send" => task'[t].ulid \in Messages
           /\ task'[t].kind = "group" => task'[t].ulid \in Events
           /\ UNCHANGED <<counter, score, hash, stored, node, crashes, losses>>
<1>1. PICK u \in Ulids, kind \in Kinds :
          /\ Begin(t, kind, u)
          /\ kind = "send" => u \in Messages
          /\ kind = "group" => u \in Events
  BY DEF Arrive, BeginSend, BeginGroupEvent, BeginEdit, BeginDelete, BeginReact, Begin
<1> DEFINE r == Accepted(kind, u)
<1>2. r.seq = 0 /\ r.pc = "alloc" /\ r.kind = kind /\ r.ulid = u
  BY DEF Accepted
<1>3. task' = [task EXCEPT ![t] = r] /\ task[t].pc = "idle"
      /\ UNCHANGED <<counter, score, hash, stored, node, crashes, losses>>
  BY <1>1 DEF Begin, redisVars, mongoVars, nodeVars
<1> HIDE DEF r
<1> QED
  BY <1>1, <1>2, <1>3 DEF Types, TypeOK

LEMMA KindsFitNext ==
    ASSUME Types, KindsFit, [Next]_vars
    PROVE  KindsFit'
<1>1. ASSUME NEW t \in Tasks, Arrive(t)  PROVE KindsFit'
  BY <1>1, ArriveMoves DEF KindsFit
<1>2. ASSUME NEW t \in Tasks, Step(t)  PROVE KindsFit'
  BY <1>2, StepMoves DEF KindsFit, Idle
<1>3. CASE Fail \/ UNCHANGED vars
  <2>1. \A s \in Tasks : task'[s] = Idle \/ task'[s] = task[s]
    BY <1>3 DEF Fail, Crash, StartRead, StartSet, RedisLoss, vars, Types, TypeOK
  <2> QED
    BY <2>1 DEF KindsFit, Idle
<1> QED
  BY <1>1, <1>2, <1>3 DEF Next

\* What a step of a request does to the counter and to Mongo.
LEMMA StepWrites ==
    ASSUME Types, NEW t \in Tasks, Step(t)
    PROVE  /\ counter' \in {counter, counter + 1}
           /\ UNCHANGED <<node, crashes, losses>>
           /\ Insert(t) \/ UNCHANGED stored
           /\ CacheMsg(t) \/ UNCHANGED score
  BY DEF Step, Alloc, Insert, InsertRefused, Lookup, LookupNull, CacheMsg, Ack, Update,
         PatchRead, PatchWrite, Publish, redisVars, mongoVars, nodeVars, bounds

LEMMA NumbersDrawnNext ==
    ASSUME IInv, NumbersDrawn, [Next]_vars
    PROVE  NumbersDrawn'
<1> SUFFICES ASSUME Undisturbed'
             PROVE  /\ \A g \in Gateways : node'[g] = "up"
                    /\ \A u \in Ulids : stored'[u] <= counter'
                    /\ \A t \in Tasks : task'[t].seq <= counter'
  BY DEF NumbersDrawn
<1>1. /\ Types /\ counter \in Nat /\ stored \in [Ulids -> Nat]
      /\ \A s \in Tasks : task[s].seq \in Nat
      /\ crashes \in Nat /\ losses \in Nat
  BY IInvParts DEF Types, TypeOK
<1>2. ASSUME NEW t \in Tasks, Arrive(t)
      PROVE  /\ \A g \in Gateways : node'[g] = "up"
             /\ \A u \in Ulids : stored'[u] <= counter'
             /\ \A s \in Tasks : task'[s].seq <= counter'
  BY <1>1, <1>2, ArriveMoves DEF NumbersDrawn, Undisturbed
<1>3. ASSUME NEW t \in Tasks, Step(t)
      PROVE  /\ \A g \in Gateways : node'[g] = "up"
             /\ \A u \in Ulids : stored'[u] <= counter'
             /\ \A s \in Tasks : task'[s].seq <= counter'
  <2>1. /\ Undisturbed /\ counter <= counter' /\ counter' \in Nat
        /\ \A g \in Gateways : node'[g] = "up"
    BY <1>1, <1>3, StepWrites DEF NumbersDrawn, Undisturbed
  <2>2. /\ \A u \in Ulids : stored[u] <= counter
        /\ \A s \in Tasks : task[s].seq <= counter
    BY <2>1 DEF NumbersDrawn
  <2>3. task[t].ulid \in Ulids
    BY <1>1, <1>3, StepMoves, InFlightFacts
  <2>4. ASSUME NEW u \in Ulids  PROVE stored'[u] <= counter'
    <3>1. stored'[u] = stored[u] \/ stored'[u] = task[t].seq
      BY <1>1, <1>3, StepWrites DEF Insert, Store
    <3> QED
      BY <1>1, <2>1, <2>2, <3>1
  <2>5. ASSUME NEW s \in Tasks  PROVE task'[s].seq <= counter'
    <3>1. task'[s].seq \in {task[s].seq, counter', stored[task[t].ulid], 0}
      BY <1>1, <1>3, StepMoves DEF Idle
    <3> QED
      BY <1>1, <2>1, <2>2, <2>3, <3>1
  <2> QED
    BY <2>1, <2>4, <2>5
<1>4. ASSUME Fail \/ UNCHANGED vars
      PROVE  /\ \A g \in Gateways : node'[g] = "up"
             /\ \A u \in Ulids : stored'[u] <= counter'
             /\ \A s \in Tasks : task'[s].seq <= counter'
  <2>1. UNCHANGED vars
    <3>1. \A g \in Gateways : ~Crash(g)
      BY <1>1 DEF Crash, Undisturbed
    <3>2. ~RedisLoss
      BY <1>1 DEF RedisLoss, Undisturbed
    <3>3. ASSUME NEW g \in Gateways, StartRead(g) \/ StartSet(g)  PROVE FALSE
      <4>1. crashes = 0 /\ losses = 0
        BY <3>3 DEF StartRead, StartSet, Undisturbed, bounds
      <4> QED
        BY <3>3, <4>1 DEF StartRead, StartSet, NumbersDrawn, Undisturbed
    <3> QED
      BY <1>4, <3>1, <3>2, <3>3 DEF Fail
  <2> QED
    BY <2>1 DEF vars, redisVars, mongoVars, nodeVars, bounds, NumbersDrawn, Undisturbed
<1> QED
  BY <1>2, <1>3, <1>4 DEF Next

\* The numbers above n that are stored are distinct and at most the counter.
LEMMA NewerCounted ==
    ASSUME NEW sc \in [Ulids -> Nat], NEW c \in Nat, NEW n \in Nat, n <= c,
           \A v \in Ulids : sc[v] # 0 => sc[v] = stored[v],
           \A v \in Ulids : stored[v] <= c,
           NumbersDistinct
    PROVE  LET H == {v \in Ulids : sc[v] > n}
           IN  /\ Cardinality(H) \in Nat
               /\ Cardinality(H) + n <= c
<1> DEFINE H == {v \in Ulids : sc[v] > n}
           T == (n + 1)..c
           f == [v \in H |-> sc[v]]
<1>1. IsFiniteSet(T) /\ Cardinality(T) = c - n
  <2>1. n + 1 \in Int /\ c \in Int
    OBVIOUS
  <2>2. IsFiniteSet((n + 1)..c)
        /\ Cardinality((n + 1)..c) = IF n + 1 > c THEN 0 ELSE c - (n + 1) + 1
    BY <2>1, FS_Interval
  <2>3. (IF n + 1 > c THEN 0 ELSE c - (n + 1) + 1) = c - n
    OBVIOUS
  <2> QED
    BY <2>2, <2>3
<1>2. \A v \in H : v \in Ulids /\ sc[v] > n /\ sc[v] # 0 /\ sc[v] = stored[v] /\ sc[v] \in T
  OBVIOUS
<1>3. \A v, w \in H : sc[v] = sc[w] => v = w
  BY <1>2 DEF NumbersDistinct
<1>4. f \in [H -> T] /\ \A v \in H : f[v] = sc[v]
  BY <1>2
<1> HIDE DEF H, T, f
<1>5. f \in Injection(H, T)
  BY <1>3, <1>4 DEF Injection, IsInjective
<1>6. IsFiniteSet(H) /\ Cardinality(H) <= Cardinality(T)
  BY <1>1, <1>5, FS_Injection
<1>7. Cardinality(H) \in Nat
  BY <1>6, FS_CardinalityType
<1> QED
  BY <1>1, <1>6, <1>7 DEF H

\* Who is trimmed is CacheMax numbers old (storage.js:84).
LEMMA CachingKeepsTheNewest ==
    ASSUME ReplayInv, Undisturbed, NEW t \in Tasks, CacheMsg(t), NEW u \in Messages,
           stored[u] # 0, ~OnItsWay(u)'
    PROVE  score'[u] # 0 \/ stored[u] + CacheMax <= counter
<1> DEFINE v == task[t].ulid
           sc == [score EXCEPT ![v] = task[t].seq]
<1>1. /\ Types /\ counter \in Nat /\ stored \in [Ulids -> Nat] /\ score \in [Ulids -> Nat]
      /\ u \in Ulids /\ task \in [Tasks -> TaskRecord] /\ CacheMax \in Nat
  BY IInvParts, LogAssumption DEF ReplayInv, Types, TypeOK, TaskRecord, Ulids
<1>2. v \in Ulids /\ stored[v] = task[t].seq /\ task[t].seq \in Nat
  BY <1>1, InFlightFacts DEF CacheMsg, ReplayInv, IInv, HoldersAgree, Fresh, TaskShape
<1>3. score' = Trimmed(sc)
  BY DEF CacheMsg
<1>4. sc \in [Ulids -> Nat] /\ \A w \in Ulids : sc[w] = IF w = v THEN stored[v] ELSE score[w]
  BY <1>1, <1>2
<1>5. \A s \in Tasks : s # t => task'[s] = task[s]
  BY <1>1 DEF CacheMsg, GoTo
<1>6. u # v => ~OnItsWay(u)
  BY <1>5 DEF OnItsWay
<1> HIDE DEF sc, v
<1>7. CASE u # v /\ score[u] = 0
  BY <1>6, <1>7 DEF ReplayInv, CachedOrOld
<1>8. CASE u = v \/ score[u] # 0
  <2>1. sc[u] = stored[u]
    BY <1>1, <1>4, <1>8 DEF ReplayInv, IInv, CacheFaithful
  <2> DEFINE H == {w \in Ulids : sc[w] > stored[u]}
  <2>2. \A w \in Ulids : sc[w] # 0 => sc[w] = stored[w]
    BY <1>4 DEF ReplayInv, IInv, CacheFaithful
  <2>3. \A w \in Ulids : stored[w] <= counter
    BY DEF ReplayInv, NumbersDrawn
  <2>4. Cardinality(H) \in Nat /\ Cardinality(H) + stored[u] <= counter
    <3>1. NumbersDistinct /\ stored[u] <= counter /\ stored[u] \in Nat
      BY <1>1, <2>3 DEF ReplayInv, IInv
    <3> QED
      BY <1>1, <1>4, <2>2, <2>3, <3>1, NewerCounted
  <2>5. score'[u] = IF Cardinality(H) < CacheMax THEN sc[u] ELSE 0
    BY <1>1, <1>3, <2>1 DEF Trimmed
  <2> HIDE DEF H
  <2> QED
    BY <1>1, <2>1, <2>4, <2>5
<1> QED
  BY <1>7, <1>8

LEMMA CachedOrOldNext ==
    ASSUME ReplayInv, [Next]_vars
    PROVE  CachedOrOld'
<1> SUFFICES ASSUME Undisturbed', NEW u \in Messages, stored'[u] # 0, ~OnItsWay(u)'
             PROVE  score'[u] # 0 \/ stored'[u] + CacheMax <= counter'
  BY DEF CachedOrOld
<1>1. /\ Types /\ counter \in Nat /\ stored \in [Ulids -> Nat] /\ u \in Ulids
      /\ task \in [Tasks -> TaskRecord] /\ CacheMax \in Nat
      /\ crashes \in Nat /\ losses \in Nat
  BY IInvParts, LogAssumption DEF ReplayInv, Types, TypeOK, TaskRecord, Ulids
<1> DEFINE Goal == score'[u] # 0 \/ stored'[u] + CacheMax <= counter'
<1>2. ASSUME Undisturbed, UNCHANGED <<score, stored>>, counter <= counter', counter' \in Nat,
             \A s \in Tasks : task'[s] = task[s] \/ task[s].pc # "cache"
      PROVE  Goal
  <2>1. ~OnItsWay(u)
    BY <1>2 DEF OnItsWay
  <2>2. score[u] # 0 \/ stored[u] + CacheMax <= counter
    BY <1>2, <2>1 DEF ReplayInv, CachedOrOld
  <2>3. stored[u] \in Nat
    BY <1>1
  <2> QED
    BY <1>1, <1>2, <2>2, <2>3
<1>3. ASSUME NEW t \in Tasks, Arrive(t)  PROVE Goal
  <2>1. \A s \in Tasks : task'[s] = task[s] \/ task[s].pc # "cache"
    BY <1>1, <1>3, ArriveMoves
  <2>2. Undisturbed /\ UNCHANGED <<score, stored, counter>>
    BY <1>1, <1>3, ArriveMoves DEF Undisturbed
  <2> HIDE DEF Goal
  <2> QED
    BY <1>1, <1>2, <2>1, <2>2
<1>4. ASSUME NEW t \in Tasks, Step(t)  PROVE Goal
  <2>1. /\ Undisturbed /\ counter <= counter' /\ counter' \in Nat
    BY <1>1, <1>4, StepWrites DEF Undisturbed
  <2>2. \A s \in Tasks \ {t} : task'[s] = task[s]
    BY <1>1, <1>4, StepMoves
  <2>3. CASE CacheMsg(t)
    <3>1. UNCHANGED <<stored, counter>>
      BY <2>3 DEF CacheMsg, mongoVars
    <3>2. score'[u] # 0 \/ stored[u] + CacheMax <= counter
      BY <2>1, <2>3, <3>1, CachingKeepsTheNewest
    <3> QED
      BY <3>1, <3>2
  <2>4. CASE Insert(t)
    <3>1. task[t].ulid \in Ulids /\ UNCHANGED <<score, counter>> /\ task[t].pc = "insert"
      BY <1>1, <2>4, InFlightFacts DEF Insert, redisVars
    <3>2. CASE u = task[t].ulid
      <4>1. task[t].kind = "send"
        <5>1. task[t].kind \in {"send", "group"}
          BY <3>1 DEF ReplayInv, IInv, TaskShape
        <5>2. u \notin Events
          BY LogAssumption
        <5> QED
          BY <3>2, <5>1, <5>2 DEF ReplayInv, KindsFit
      <4>2. task'[t].pc = "cache" /\ task'[t].ulid = u
        BY <1>1, <2>4, <3>2, <4>1 DEF Insert, GoTo, TaskRecord
      <4> QED
        BY <4>2 DEF OnItsWay
    <3>3. CASE u # task[t].ulid
      <4>1. stored'[u] = stored[u]
        BY <1>1, <2>4, <3>1, <3>3 DEF Insert, Store
      <4>2. ~OnItsWay(u)
        BY <2>2, <3>1 DEF OnItsWay
      <4>3. score[u] # 0 \/ stored[u] + CacheMax <= counter
        BY <2>1, <4>1, <4>2 DEF ReplayInv, CachedOrOld
      <4> QED
        BY <3>1, <4>1, <4>3
    <3> QED
      BY <3>2, <3>3
  <2>5. CASE ~CacheMsg(t) /\ ~Insert(t)
    <3>1. UNCHANGED <<score, stored>>
      BY <1>1, <1>4, <2>5, StepWrites
    <3>2. task[t].pc # "cache"
      BY <1>4, <2>5 DEF Step, Alloc, Insert, InsertRefused, Lookup, LookupNull, Ack, Update,
                        PatchRead, PatchWrite, Publish
    <3>3. \A s \in Tasks : task'[s] = task[s] \/ task[s].pc # "cache"
      BY <2>2, <3>2
    <3> HIDE DEF Goal
    <3> QED
      BY <1>2, <2>1, <3>1, <3>3
  <2> QED
    BY <2>3, <2>4, <2>5
<1>5. ASSUME Fail \/ UNCHANGED vars  PROVE Goal
  <2>1. ~RedisLoss /\ \A g \in Gateways : ~Crash(g)
    BY <1>1 DEF RedisLoss, Crash, Undisturbed
  <2>2. \A g \in Gateways : ~StartRead(g) /\ ~StartSet(g)
    <3>1. ASSUME NEW g \in Gateways, StartRead(g) \/ StartSet(g)  PROVE FALSE
      <4>1. crashes = 0 /\ losses = 0
        BY <3>1 DEF StartRead, StartSet, Undisturbed, bounds
      <4> QED
        BY <3>1, <4>1 DEF StartRead, StartSet, ReplayInv, NumbersDrawn, Undisturbed
    <3> QED
      BY <3>1
  <2>3. UNCHANGED <<score, stored, counter, task, crashes, losses>>
    BY <1>5, <2>1, <2>2 DEF Fail, vars, redisVars, mongoVars, bounds
  <2>4. Undisturbed
    BY <2>3 DEF Undisturbed
  <2> HIDE DEF Goal
  <2> QED
    BY <1>1, <1>2, <2>3, <2>4
<1> QED
  BY <1>3, <1>4, <1>5 DEF Next

LEMMA InitReplayInv == Init => ReplayInv
<1> SUFFICES ASSUME Init PROVE ReplayInv
  OBVIOUS
<1>1. KindsFit /\ NumbersDrawn /\ CachedOrOld
  BY DEF Init, KindsFit, NumbersDrawn, CachedOrOld, Idle, Ulids
<1> QED
  BY <1>1, InitIInv DEF ReplayInv

LEMMA ReplayInvNext ==
    ASSUME ReplayInv, [Next]_vars
    PROVE  ReplayInv'
<1>1. IInv' /\ Types
  BY IInvParts, TypesNext, AgreementNext, CacheFaithfulNext DEF ReplayInv, IInv, Types, Agreement
<1>2. KindsFit' /\ NumbersDrawn' /\ CachedOrOld'
  BY <1>1, KindsFitNext, NumbersDrawnNext, CachedOrOldNext DEF ReplayInv
<1> QED
  BY <1>1, <1>2 DEF ReplayInv

\* The invariant is enough: what the cache lacks lies below every cursor replayed.
LEMMA ReplayInvSuffices ==
    ASSUME ReplayInv, LiveMax <= CacheMax
    PROVE  MessagesReplayed
<1> SUFFICES ASSUME Undisturbed, NEW from \in 0..counter, Replayable(from),
                    NEW u \in Messages, Settled(u), stored[u] > from
             PROVE  \E m \in Replay(from) : m.ulid = u /\ m.seq = stored[u]
  BY DEF MessagesReplayed
<1>1. /\ counter \in Nat /\ stored \in [Ulids -> Nat] /\ u \in Ulids
      /\ CacheMax \in Nat /\ LiveMax \in Nat /\ from \in Nat
  BY IInvParts, LogAssumption DEF ReplayInv, Types, TypeOK, Ulids
<1>2. CASE CacheRange(from) = {}
  <2>1. [ulid |-> u, seq |-> stored[u], content |-> content[u]] \in MongoRange(from)
    BY <1>1 DEF MongoRange
  <2> QED
    BY <1>2, <2>1 DEF Replay
<1>3. CASE CacheRange(from) # {}
  <2>1. ~OnItsWay(u) /\ stored[u] # 0
    BY DEF OnItsWay, Settled
  <2>2. counter - from <= LiveMax
    BY DEF Replayable
  <2>3. stored[u] \in Nat
    BY <1>1
  <2>4. ~(stored[u] + CacheMax <= counter)
    BY <1>1, <2>2, <2>3
  <2>5. score[u] # 0
    BY <2>1, <2>4 DEF ReplayInv, CachedOrOld
  <2>6. score[u] = stored[u] /\ u \in DOMAIN hash
    BY <1>1, <2>5 DEF ReplayInv, IInv, CacheFaithful
  <2>7. [ulid |-> u, seq |-> score[u], content |-> hash[u]] \in CacheRange(from)
    BY <2>6 DEF CacheRange
  <2> QED
    BY <1>3, <2>6, <2>7 DEF Replay
<1> QED
  BY <1>2, <1>3

\* What a HELLO or SYNC_REQ replays lacks no message above the cursor that is stored and
\* cached, whatever requests interleave, as long as nothing rewinds the counter; the code
\* has CACHE_MAX = 500 (storage.js:22) and LIVE_MAX = 100 (engine.js:11).
THEOREM NothingMissedInReplay ==
    ASSUME LiveMax <= CacheMax
    PROVE  Spec => []MessagesReplayed
<1>1. Init => ReplayInv
  BY InitReplayInv
<1>2. ReplayInv /\ [Next]_vars => ReplayInv'
  BY ReplayInvNext
<1>3. ReplayInv => MessagesReplayed
  BY ReplayInvSuffices
<1> QED
  BY <1>1, <1>2, <1>3, PTL DEF Spec

-----------------------------------------------------------------------------
(***************************************************************************)
(* The store implements OrderedLog: Insert is Accept, Ack is Acknowledge,  *)
(* the Publish of a message or a group event is Broadcast, and all other   *)
(* steps stutter.                                                          *)
(***************************************************************************)

LEMMA InitRefines == Init => Log!Init
BY DEF Init, Log!Init, Announced

LEMMA InsertAccepts ==
    ASSUME IInv, NEW t \in Tasks, Insert(t)
    PROVE  Log!Accept(task[t].ulid) /\ task[t].ulid \in Ulids
<1> DEFINE u == task[t].ulid
           n == task[t].seq
<1>1. u \in Ulids /\ n \in Nat /\ n # 0 /\ stored \in [Ulids -> Nat]
  BY InFlightFacts, IInvParts DEF Insert, Types, TaskShape, TypeOK
<1>2. stored[u] = 0 /\ \A v \in Ulids : stored[v] # n
  BY <1>1 DEF Insert, Collides, StoredSeqs
<1>3. stored' = [stored EXCEPT ![u] = n] /\ stored'[u] = n
  BY <1>1 DEF Insert, Store
<1>4. UNCHANGED <<acked, Announced>>
  BY DEF Insert, Announced
<1> QED
  BY <1>1, <1>2, <1>3, <1>4 DEF Log!Accept

LEMMA AckAcknowledges ==
    ASSUME IInv, NEW t \in Tasks, Ack(t)
    PROVE  Log!Acknowledge(task[t].ulid) /\ task[t].ulid \in Ulids
<1>1. /\ task[t].ulid \in Ulids /\ task[t].seq # 0
      /\ Fresh(t) \/ task[t].pc = "reack"
  BY InFlightFacts, IInvParts DEF Ack, Types, TaskShape, Fresh
<1>2. stored[task[t].ulid] = task[t].seq
  BY <1>1 DEF IInv, HoldersAgree
<1>3. UNCHANGED <<stored, Announced>>
  BY DEF Ack, Announced, mongoVars
<1> QED
  BY <1>1, <1>2, <1>3 DEF Ack, Log!Acknowledge

LEMMA PublishBroadcasts ==
    ASSUME IInv, NEW t \in Tasks, Publish(t)
    PROVE  \/ Log!Broadcast(task[t].ulid) /\ task[t].ulid \in Ulids
           \/ UNCHANGED <<stored, acked, Announced>>
<1>1. UNCHANGED <<stored, acked>>
  BY DEF Publish, mongoVars
<1>2. CASE Fresh(t)
  <2>1. task[t].ulid \in Ulids /\ task[t].seq # 0 /\ stored[task[t].ulid] = task[t].seq
        /\ task[t].ulid \notin Announced
    BY <1>2, InFlightFacts, IInvParts
       DEF Publish, Types, TaskShape, IInv, HoldersAgree, OneBroadcaster
  <2>2. Announced' = Announced \cup {task[t].ulid}
    BY <1>2, AgreementPublish
  <2> QED
    BY <1>1, <2>1, <2>2 DEF Log!Broadcast
<1>3. CASE ~Fresh(t)
  BY <1>1, <1>3, AgreementPublish
<1> QED
  BY <1>2, <1>3

LEMMA NextRefines ==
    ASSUME IInv, [Next]_vars
    PROVE  [Log!Next]_(Log!vars)
<1> USE DEF redisVars, mongoVars, nodeVars, bounds
<1>1. ASSUME UNCHANGED <<stored, acked, published>>
      PROVE  UNCHANGED Log!vars
  BY <1>1 DEF Log!vars, Announced
<1>2. ASSUME NEW t \in Tasks, Arrive(t)
      PROVE  UNCHANGED Log!vars
  BY <1>1, <1>2 DEF Arrive, BeginSend, BeginGroupEvent, BeginEdit, BeginDelete, BeginReact, Begin
<1>3. ASSUME NEW t \in Tasks, Step(t)
      PROVE  [Log!Next]_(Log!vars)
  <2>1. CASE Insert(t)
    BY <2>1, InsertAccepts DEF Log!Next
  <2>2. CASE Ack(t)
    BY <2>2, AckAcknowledges DEF Log!Next
  <2>3. CASE Publish(t)
    BY <2>3, PublishBroadcasts DEF Log!Next, Log!vars
  <2>4. CASE ~Insert(t) /\ ~Ack(t) /\ ~Publish(t)
    <3>1. UNCHANGED <<stored, acked, published>>
      BY <1>3, <2>4 DEF Step, Alloc, InsertRefused, Lookup, LookupNull, CacheMsg, Update,
                        PatchRead, PatchWrite
    <3> QED
      BY <1>1, <3>1
  <2> QED
    BY <2>1, <2>2, <2>3, <2>4
<1>4. CASE Fail \/ UNCHANGED vars
  BY <1>1, <1>4 DEF Fail, Crash, StartRead, StartSet, RedisLoss, vars
<1> QED
  BY <1>2, <1>3, <1>4 DEF Next

\* For every set of messages, nodes and requests, and any number of crashes,
\* restarts and losses of Redis, a message keeps the number it was first stored
\* under, every ACK carries that number, and it is broadcast at most once.
THEOREM ImplementsOrderedLog == Spec => LogSpec
<1>1. Init => Log!Init
  BY InitRefines
<1>2. IInv /\ [Next]_vars => [Log!Next]_(Log!vars)
  BY NextRefines
<1> QED
  BY <1>1, <1>2, IInvCorrect, PTL DEF Spec, LogSpec, Log!Spec
=============================================================================
