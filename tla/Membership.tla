------------------------------ MODULE Membership ------------------------------
(***************************************************************************)
(* The members and admins of ONE conversation: the Redis sets every check  *)
(* reads, the conversation's document in Mongo they are written through    *)
(* to, the requests that change them (GROUP_OP, POST /conversations) and   *)
(* the start of a node, which fills Redis again from Mongo                 *)
(* (lib/core/storage.js, lib/core/engine.js, server.js).                   *)
(*                                                                         *)
(* A change is several writes, each awaited; requests of all gateways      *)
(* interleave between them, and a node can die between any two.  The       *)
(* numbers of the group events are ConversationLog's matter: here an event *)
(* is its effect on the members a client shows.                            *)
(***************************************************************************)
EXTENDS Integers, Sequences, FiniteSets

CONSTANTS
    Users,
    Founders,      \* the members at the start; their admins are the same
    Gateways,
    Tasks,         \* slots for requests in flight
    Home,          \* the gateway each slot runs on
    Requests,      \* the requests [op, actor, target] of a run
    MaxOps, MaxCrashes, MaxLosses     \* bounds of the model

GroupOps == {"join", "add", "remove", "promote", "demote", "leave"}

\* What the parameters have to be; a module that instantiates this one assumes it again.
ParametersOK ==
    /\ Founders \subseteq Users
    /\ Home \in [Tasks -> Gateways]
    /\ Requests \subseteq [op : GroupOps \cup {"create"}, actor : Users, target : Users]
    /\ MaxOps \in Nat /\ MaxCrashes \in Nat /\ MaxLosses \in Nat

ASSUME MembershipAssumption == ParametersOK

\* Redis: conv:{id}:members, the users with the conversation in user:{id}:convs,
\* conv:{id}:admins.  Mongo: the arrays of the document.
RedisSets == {"members", "convs", "admins"}
Stores == RedisSets \cup {"docMembers", "docAdmins"}

VARIABLES
    has,           \* the users in each store
    task,          \* the requests in flight
    node,          \* per gateway: "up", "down", "exists" or "rebuild"
    found,         \* per starting gateway: the document it read
    lost,          \* per starting gateway: the members key did not exist
    told,          \* what a client that has heard all events shows
    clean,         \* history: users with no overlapping or interrupted change
    created,       \* history: a POST /conversations was answered with 200
    ops, crashes, losses

vars == <<has, task, node, found, lost, told, clean, created, ops, crashes, losses>>

Idle == [pc |-> "idle", op |-> "none", actor |-> "none", target |-> "none", todo |-> << >>]

NoDoc == [members |-> {}, admins |-> {}]

\* The user a group event is about; POST /conversations is about two.
Subject(r) == IF r.op \in {"join", "leave"} THEN r.actor ELSE r.target

Subjects(r) == IF r.op = "create" THEN {r.actor, r.target} ELSE {Subject(r)}

InFlight(u) == \E t \in Tasks : task[t].pc # "idle" /\ u \in Subjects(task[t])

Init ==
    /\ has = [s \in Stores |-> Founders]
    /\ task = [t \in Tasks |-> Idle]
    /\ node = [g \in Gateways |-> "up"]
    /\ found = [g \in Gateways |-> NoDoc]
    /\ lost = [g \in Gateways |-> FALSE]
    /\ told = [members |-> Founders, admins |-> Founders]
    /\ clean = Users /\ created = FALSE
    /\ ops = 0 /\ crashes = 0 /\ losses = 0

-----------------------------------------------------------------------------
(***************************************************************************)
(* The writes of a change, in their order                                  *)
(***************************************************************************)

Put(s, u, on) == [store |-> s, user |-> u, on |-> on]

addMember(u) == <<Put("members", u, TRUE), Put("convs", u, TRUE), Put("docMembers", u, TRUE)>>

\* Mutant of removeMember: user:{u}:convs is forgotten.
removeMemberShort(u) == <<Put("members", u, FALSE), Put("docMembers", u, FALSE)>>

removeMember(u) ==
    <<Put("members", u, FALSE), Put("convs", u, FALSE), Put("docMembers", u, FALSE)>>

setAdmin(u, on) == <<Put("admins", u, on), Put("docAdmins", u, on)>>

Change(r) ==
    CASE r.op = "add" -> addMember(r.target)
      [] r.op = "join" -> addMember(r.actor) \o setAdmin(r.actor, TRUE)
      [] r.op = "remove" -> removeMember(r.target)
      [] r.op = "leave" -> removeMember(r.actor)
      [] r.op = "promote" -> setAdmin(r.target, TRUE)
      [] r.op = "demote" -> setAdmin(r.target, FALSE)
      [] r.op = "create" -> addMember(r.actor) \o addMember(r.target) \o setAdmin(r.actor, TRUE)

-----------------------------------------------------------------------------
(***************************************************************************)
(* Requests, one action per await                                          *)
(***************************************************************************)

others == <<node, found, lost, ops, crashes, losses>>

GoTo(t, pc) == task' = [task EXCEPT ![t].pc = pc]

StartWriting(t) == task' = [task EXCEPT ![t].pc = "write", ![t].todo = Change(task[t])]

Finish(t) == task' = [task EXCEPT ![t] = Idle]

Begin(t, r) ==
    /\ task[t].pc = "idle" /\ node[Home[t]] = "up" /\ ops < MaxOps
    /\ r.op \in {"add", "create"} => r.target # r.actor
    /\ ops' = ops + 1
    /\ task' = [task EXCEPT ![t] =
          [pc |-> IF r.op = "create" THEN "exists" ELSE "admin",
           op |-> r.op, actor |-> r.actor, target |-> r.target, todo |-> << >>]]
    /\ clean' = IF \E g \in Gateways : node[g] \in {"exists", "rebuild"}
                THEN clean \ Subjects(r)
                ELSE {u \in clean : u \in Subjects(r) => ~InFlight(u)}
    /\ UNCHANGED <<has, node, found, lost, told, created, crashes, losses>>

\* groupOp: const actorIsAdmin = await this.storage.isAdmin(convId, actorId)
ReadAdmin(t) ==
    /\ task[t].pc = "admin"
    /\ \/ task[t].op = "leave" /\ StartWriting(t)
       \/ task[t].op = "join" /\ GoTo(t, "member")
       \/ /\ task[t].op \notin {"leave", "join"}
          /\ IF task[t].actor \in has["admins"] THEN StartWriting(t) ELSE Finish(t)
    /\ UNCHANGED <<has, told, clean, created, others>>

\* Self-join: isMember, then memberCount.
JoinMember(t) ==
    /\ task[t].pc = "member"
    /\ GoTo(t, IF task[t].actor \in has["members"] THEN "event" ELSE "count")
    /\ UNCHANGED <<has, told, clean, created, others>>

\* Mutant of JoinCount: the refusal is lost.
JoinCountUnrefused(t) ==
    /\ task[t].pc = "count"
    /\ IF has["members"] = {} THEN StartWriting(t) ELSE GoTo(t, "event")
    /\ UNCHANGED <<has, told, clean, created, others>>

JoinCount(t) ==
    /\ task[t].pc = "count"
    /\ IF has["members"] = {} THEN StartWriting(t) ELSE Finish(t)
    /\ UNCHANGED <<has, told, clean, created, others>>

\* Mutant of CreateExists: only the caller is added.
CreateExistsAlone(t) ==
    /\ task[t].pc = "exists"
    /\ IF has["members"] = {}
       THEN task' = [task EXCEPT ![t].pc = "write",
                                 ![t].todo = addMember(task[t].actor) \o setAdmin(task[t].actor, TRUE)]
       ELSE GoTo(t, "push")
    /\ UNCHANGED <<has, told, clean, created, others>>

\* POST: const existingMembers = await storage.members(convId)
CreateExists(t) ==
    /\ task[t].pc = "exists"
    /\ IF has["members"] = {} THEN StartWriting(t) ELSE GoTo(t, "push")
    /\ UNCHANGED <<has, told, clean, created, others>>

\* Mutant of Write: the last write is not followed by the event.
WriteOn(t) ==
    /\ task[t].pc = "write" /\ task[t].todo # << >>
    /\ LET w == Head(task[t].todo)
       IN  has' = [has EXCEPT ![w.store] = IF w.on THEN @ \cup {w.user} ELSE @ \ {w.user}]
    /\ task' = [task EXCEPT ![t].todo = Tail(@)]
    /\ UNCHANGED <<told, clean, created, others>>

Write(t) ==
    /\ task[t].pc = "write"
    /\ LET w == Head(task[t].todo)
       IN  has' = [has EXCEPT ![w.store] = IF w.on THEN @ \cup {w.user} ELSE @ \ {w.user}]
    /\ task' = [task EXCEPT ![t].todo = Tail(@),
                            ![t].pc = IF Len(task[t].todo) > 1 THEN "write"
                                      ELSE IF task[t].op = "create" THEN "push" ELSE "event"]
    /\ UNCHANGED <<told, clean, created, others>>

\* groupEvent and the broadcast; what the clients make of GROUP_EVT.
Event(t) ==
    /\ task[t].pc = "event"
    /\ LET u == Subject(task[t])
       IN  told' =
             CASE task[t].op \in {"add", "join"} -> [told EXCEPT !.members = @ \cup {u}]
               [] task[t].op \in {"remove", "leave"} -> [told EXCEPT !.members = @ \ {u}]
               [] task[t].op = "promote" -> [told EXCEPT !.admins = @ \cup {u}]
               [] task[t].op = "demote" -> [told EXCEPT !.admins = @ \ {u}]
    /\ Finish(t)
    /\ UNCHANGED <<has, clean, created, others>>

\* pushConvToOnlineMembers sends the members and admins as additions; 200.
Answer(t) ==
    /\ task[t].pc = "push"
    /\ told' = [members |-> told.members \cup has["members"],
                admins |-> told.admins \cup has["admins"]]
    /\ created' = TRUE
    /\ Finish(t)
    /\ UNCHANGED <<has, clean, others>>

-----------------------------------------------------------------------------
(***************************************************************************)
(* Nodes and Redis fail                                                    *)
(***************************************************************************)

Crash(g) ==
    /\ node[g] = "up" /\ crashes < MaxCrashes
    /\ crashes' = crashes + 1
    /\ node' = [node EXCEPT ![g] = "down"]
    /\ clean' = {u \in clean : \A t \in Tasks :
                    Home[t] = g /\ task[t].pc # "idle" => u \notin Subjects(task[t])}
    /\ task' = [t \in Tasks |-> IF Home[t] = g THEN Idle ELSE task[t]]
    /\ UNCHANGED <<has, found, lost, told, created, ops, losses>>

\* _rebuildRedisIfNeeded: await this.convs.find(..)
StartDocs(g) ==
    /\ node[g] = "down"
    /\ node' = [node EXCEPT ![g] = "exists"]
    /\ found' = [found EXCEPT ![g] = [members |-> has["docMembers"], admins |-> has["docAdmins"]]]
    /\ clean' = {u \in clean : ~InFlight(u)}
    /\ UNCHANGED <<has, task, lost, told, created, ops, crashes, losses>>

\* await checkPipe.exec(): EXISTS; Redis has no empty sets.
StartExists(g) ==
    /\ node[g] = "exists"
    /\ node' = [node EXCEPT ![g] = "rebuild"]
    /\ lost' = [lost EXCEPT ![g] = (has["members"] = {})]
    /\ UNCHANGED <<has, task, found, told, clean, created, ops, crashes, losses>>

\* await rebuildPipe.exec()
StartRebuild(g) ==
    /\ node[g] = "rebuild"
    /\ node' = [node EXCEPT ![g] = "up"]
    /\ has' = IF lost[g] /\ found[g].members # {}
              THEN [has EXCEPT !["members"] = @ \cup found[g].members,
                               !["admins"] = @ \cup found[g].admins,
                               !["convs"] = @ \cup found[g].members]
              ELSE has
    /\ UNCHANGED <<task, found, lost, told, clean, created, ops, crashes, losses>>

\* Redis comes back empty.
RedisLoss ==
    /\ losses < MaxLosses
    /\ losses' = losses + 1
    /\ has' = [s \in Stores |-> IF s \in RedisSets THEN {} ELSE has[s]]
    /\ clean' = {}
    /\ UNCHANGED <<task, node, found, lost, told, created, ops, crashes>>

-----------------------------------------------------------------------------
Step(t) ==
    \/ ReadAdmin(t)
    \/ JoinMember(t)
    \/ JoinCount(t)
    \/ CreateExists(t)
    \/ Write(t)
    \/ Event(t)
    \/ Answer(t)

Start(g) == StartDocs(g) \/ StartExists(g) \/ StartRebuild(g)

Next ==
    \/ \E t \in Tasks : Step(t) \/ \E r \in Requests : Begin(t, r)
    \/ \E g \in Gateways : Crash(g) \/ Start(g)
    \/ RedisLoss

Spec == Init /\ [][Next]_vars

-----------------------------------------------------------------------------
(***************************************************************************)
(* Properties                                                              *)
(***************************************************************************)

Pcs == {"idle", "admin", "member", "count", "exists", "write", "event", "push"}

\* Types of the variables; a request that is writing has something to write.
TypeOK ==
    /\ has \in [Stores -> SUBSET Users]
    /\ \A t \in Tasks : task[t].pc \in Pcs /\ (task[t].pc = "write" <=> task[t].todo # << >>)
    /\ node \in [Gateways -> {"up", "down", "exists", "rebuild"}]
    /\ found \in [Gateways -> [members : SUBSET Users, admins : SUBSET Users]]
    /\ lost \in [Gateways -> BOOLEAN]
    /\ told \in [members : SUBSET Users, admins : SUBSET Users]
    /\ clean \subseteq Users /\ created \in BOOLEAN

\* No request is under way and every node is up.
Quiet ==
    /\ \A t \in Tasks : task[t].pc = "idle"
    /\ \A g \in Gateways : node[g] = "up"

\* The stores agree about every user on whom no two changes overlapped and no
\* crash interrupted one, whatever happened to the other users and however
\* often nodes restarted (lib/core/storage.js:170-196, 245-270).
CleanUsersAgree ==
    \A u \in clean : ~InFlight(u) =>
        /\ u \in has["members"] <=> u \in has["docMembers"]
        /\ u \in has["members"] <=> u \in has["convs"]
        /\ u \in has["admins"] <=> u \in has["docAdmins"]

\* A client that has handled every group event and pushed conversation shows
\* such a user as a member exactly if the server's checks take it for one
\* (lib/core/engine.js:113-137, SyncClient.js:522-537).
EventsTellMembers ==
    \A u \in clean : ~InFlight(u) => (u \in told.members <=> u \in has["members"])

\* server.js:143 "Idempotent: check if conv already exists (DM case)": once a
\* POST was answered and no other is under way both parties are members, in
\* Redis and in Mongo, however many of them asked.
CreatedIsComplete ==
    created /\ Quiet =>
        \A r \in Requests : r.op = "create" =>
            {r.actor, r.target} \subseteq has["members"] \cap has["convs"] \cap has["docMembers"]

=============================================================================
