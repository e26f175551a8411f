--------------------------- MODULE GatewaySessions ---------------------------
(***************************************************************************)
(* The tables of ONE gateway process for one conversation: who is          *)
(* connected (byUser), which sockets a broadcast goes to (convIndex), and  *)
(* the interest count that decides whether the process is subscribed to    *)
(* the conversation's channel (lib/core/gateway.js, lib/fanout.js).        *)
(*                                                                         *)
(* JavaScript runs a handler without interruption up to its next await; an *)
(* action is such a stretch, and the handlers of all sockets interleave at *)
(* the awaits.  In particular a socket can close while its HELLO is being  *)
(* processed.  Each session sends one HELLO, as WsClient does.             *)
(***************************************************************************)
EXTENDS Integers, Sequences, FiniteSets

CONSTANTS
    Users,
    Sessions,
    Owner          \* the user whose token a session presents

ASSUME SessionsAssumption ==
    /\ Owner \in [Sessions -> Users]
    /\ IsFiniteSet(Sessions)

VARIABLES
    ws,            \* per session: "new", "open" or "closed"
    hello,         \* per session: where _onHello is
    closing,       \* per session: where _onClose is
    registered,    \* the sessions in byUser
    convs,         \* the sessions whose `convs` has the conversation
    index,         \* convIndex.get(convId)
    interest,      \* FanOut.interest.get(convId), 0 if absent
    commands,      \* SUBSCRIBE and UNSUBSCRIBE on their way to Redis, in order
    subscribed,    \* Redis: is the process subscribed
    members,       \* Redis: conv:{id}:members (with user:{id}:convs)
    push,          \* POST /conversations: where the handler is
    kick,          \* GROUP_OP remove or leave: where the handler is
    given,         \* history: the members that POST /conversations added
    known          \* history: the sessions whose HELLO found the user a member

tables == <<convs, index, interest, commands>>
history == <<given, known>>
vars == <<ws, hello, closing, registered, tables, subscribed, members, push, kick, history>>

SessionsOf(u) == {s \in registered : Owner[s] = u}

\* A loop over a user's sessions: `for (const sess of byUser.get(uid) || [])`.
\* A session that registers during the loop may be visited or not; one that
\* leaves is not visited any more.
NoLoop == [pc |-> "idle", users |-> {}, user |-> "none", first |-> {}, seen |-> {}]

Init ==
    /\ ws = [s \in Sessions |-> "new"]
    /\ hello = [s \in Sessions |-> "none"]
    /\ closing = [s \in Sessions |-> "none"]
    /\ registered = {} /\ convs = {} /\ index = {}
    /\ interest = 0 /\ commands = << >> /\ subscribed = FALSE
    /\ members = {}
    /\ push = NoLoop /\ kick = NoLoop
    /\ given = {} /\ known = {}

-----------------------------------------------------------------------------
\* Mutant of addInterest: subscribes again for every socket but counts once.
addInterestOnce ==
    /\ interest' = 1
    /\ commands' = IF interest = 0 THEN Append(commands, "subscribe") ELSE commands

\* const n = (interest.get(convId) || 0) + 1; if (n === 1) await sub.subscribe(..)
addInterest ==
    /\ interest' = interest + 1
    /\ commands' = IF interest = 0 THEN Append(commands, "subscribe") ELSE commands

\* n <= 0: interest.delete(convId); await sub.unsubscribe(..)
removeInterest ==
    /\ interest' = IF interest <= 1 THEN 0 ELSE interest - 1
    /\ commands' = IF interest <= 1 THEN Append(commands, "unsubscribe") ELSE commands

\* s.convs.add(convId); _indexAdd(convId, s); await fanout.addInterest(convId)
Attach(s) ==
    /\ convs' = convs \cup {s}
    /\ index' = index \cup {s}
    /\ addInterest

\* Mutant of Detach: the socket stays in the index.
DetachKeepingIndex(s) ==
    /\ convs' = convs \ {s}
    /\ index' = index
    /\ removeInterest

\* sess.convs.delete(convId); _indexRemove(..); await fanout.removeInterest(..)
Detach(s) ==
    /\ convs' = convs \ {s}
    /\ index' = index \ {s}
    /\ removeInterest

-----------------------------------------------------------------------------
(***************************************************************************)
(* Connection and HELLO                                                    *)
(***************************************************************************)

Connect(s) ==
    /\ ws[s] = "new"
    /\ ws' = [ws EXCEPT ![s] = "open"]
    /\ UNCHANGED <<hello, closing, registered, tables, subscribed, members, push, kick, history>>

\* The HELLO frame arrives; _onHello runs up to `await this.auth(..)`.
HelloArrives(s) ==
    /\ ws[s] = "open" /\ hello[s] = "none"
    /\ hello' = [hello EXCEPT ![s] = "auth"]
    /\ UNCHANGED <<ws, closing, registered, tables, subscribed, members, push, kick, history>>

\* The token is refused; the client hears ERR 401.
HelloRefused(s) ==
    /\ hello[s] = "auth"
    /\ hello' = [hello EXCEPT ![s] = "refused"]
    /\ UNCHANGED <<ws, closing, registered, tables, subscribed, members, push, kick, history>>

\* s.userId is set, byUser gets the session, presence is being written.
HelloAuthenticated(s) ==
    /\ hello[s] = "auth"
    /\ registered' = registered \cup {s}
    /\ hello' = [hello EXCEPT ![s] = "convs"]
    /\ UNCHANGED <<ws, closing, tables, subscribed, members, push, kick, history>>

\* await storage.getConvsForUser(userId), joined with the client's cursors,
\* which name the conversation if the client has it.
HelloConvs(s) ==
    /\ hello[s] = "convs"
    /\ \E named \in BOOLEAN :
          hello' = [hello EXCEPT ![s] =
                       IF named \/ Owner[s] \in members THEN "attach" ELSE "done"]
    /\ known' = IF Owner[s] \in members /\ kick.user # Owner[s] THEN known \cup {s} ELSE known
    /\ UNCHANGED <<ws, closing, registered, tables, subscribed, members, push, kick, given>>

\* The loop body for the conversation; what follows (WELCOME, replay, inbox)
\* leaves the tables alone.
HelloAttach(s) ==
    /\ hello[s] = "attach"
    /\ Attach(s)
    /\ hello' = [hello EXCEPT ![s] = "done"]
    /\ UNCHANGED <<ws, closing, registered, subscribed, members, push, kick, history>>

-----------------------------------------------------------------------------
(***************************************************************************)
(* The socket closes: _onClose                                             *)
(***************************************************************************)

\* for (const convId of s.convs) { _indexRemove; await removeInterest }.  The
\* session keeps the conversation in `convs`.
LeaveConvs(s) ==
    IF s \in convs
    THEN index' = index \ {s} /\ removeInterest
    ELSE UNCHANGED <<index, interest, commands>>

\* The last session of a user first waits for the DEL of the presence key; the
\* others, and those that are not registered, leave at once.
Close(s) ==
    /\ ws[s] = "open"
    /\ ws' = [ws EXCEPT ![s] = "closed"]
    /\ registered' = registered \ {s}
    /\ IF s \in registered /\ SessionsOf(Owner[s]) = {s}
       THEN /\ closing' = [closing EXCEPT ![s] = "presence"]
            /\ UNCHANGED <<index, interest, commands>>
       ELSE /\ closing' = [closing EXCEPT ![s] = "done"]
            /\ LeaveConvs(s)
    /\ UNCHANGED <<hello, convs, subscribed, members, push, kick, history>>

ClosePresenceDeleted(s) ==
    /\ closing[s] = "presence"
    /\ closing' = [closing EXCEPT ![s] = "done"]
    /\ LeaveConvs(s)
    /\ UNCHANGED <<ws, hello, registered, convs, subscribed, members, push, kick, history>>

-----------------------------------------------------------------------------
(***************************************************************************)
(* POST /conversations: addMember for every member, then                   *)
(* pushConvToOnlineMembers                                                 *)
(***************************************************************************)

\* The conversation is created once, with any members.
PushCreate(S) ==
    /\ push.pc = "idle"
    /\ push' = [push EXCEPT !.pc = "adding", !.users = S]
    /\ UNCHANGED <<ws, hello, closing, registered, tables, subscribed, members, kick, history>>

\* for (const uid of allMembers) await storage.addMember(convId, uid)
PushAddMember(u) ==
    /\ push.pc = "adding" /\ u \in push.users
    /\ push' = [push EXCEPT !.users = @ \ {u}]
    /\ members' = members \cup {u}
    /\ given' = IF kick.user # u THEN given \cup {u} ELSE given
    /\ UNCHANGED <<ws, hello, closing, registered, tables, subscribed, kick, known>>

\* const members = await this.storage.members(convId)
PushMembers ==
    /\ push.pc = "adding" /\ push.users = {}
    /\ push' = [push EXCEPT !.pc = "user", !.users = members]
    /\ UNCHANGED <<ws, hello, closing, registered, tables, subscribed, members, kick, history>>

\* Mutant of PushUser: one session per user.
PushUserOneSession(u) ==
    /\ push.pc = "user" /\ u \in push.users
    /\ \E S \in SUBSET SessionsOf(u) :
          /\ Cardinality(S) <= 1
          /\ push' = [push EXCEPT !.pc = "sessions", !.users = @ \ {u}, !.user = u,
                                  !.first = S, !.seen = SessionsOf(u) \ S]
    /\ UNCHANGED <<ws, hello, closing, registered, tables, subscribed, members, kick, history>>

\* for (const uid of members)
PushUser(u) ==
    /\ push.pc = "user" /\ u \in push.users
    /\ push' = [push EXCEPT !.pc = "sessions", !.users = @ \ {u}, !.user = u,
                            !.first = SessionsOf(u), !.seen = {}]
    /\ UNCHANGED <<ws, hello, closing, registered, tables, subscribed, members, kick, history>>

\* if (!sess.convs.has(convId)) attach it; the metadata are sent in any case.
PushSession(s) ==
    /\ push.pc = "sessions" /\ s \in SessionsOf(push.user) \ push.seen
    /\ push' = [push EXCEPT !.seen = @ \cup {s}]
    /\ IF s \in convs THEN UNCHANGED tables ELSE Attach(s)
    /\ UNCHANGED <<ws, hello, closing, registered, subscribed, members, kick, history>>

PushUserDone ==
    /\ push.pc = "sessions"
    /\ (SessionsOf(push.user) \cap push.first) \subseteq push.seen
    /\ push' = [NoLoop EXCEPT !.pc = "user", !.users = push.users]
    /\ UNCHANGED <<ws, hello, closing, registered, tables, subscribed, members, kick, history>>

PushDone ==
    /\ push.pc = "user" /\ push.users = {}
    /\ push' = [push EXCEPT !.pc = "done"]
    /\ UNCHANGED <<ws, hello, closing, registered, tables, subscribed, members, kick, history>>

-----------------------------------------------------------------------------
(***************************************************************************)
(* GROUP_OP add, remove and leave: _onGroupOp                              *)
(***************************************************************************)

\* The added member's sessions are not looked at.
GroupAdd(u) ==
    /\ u \notin members
    /\ members' = members \cup {u}
    /\ UNCHANGED <<ws, hello, closing, registered, tables, subscribed, push, kick, history>>

\* await engine.groupOp(..): the member is gone; then the event is published.
KickMember(u) ==
    /\ kick.pc = "idle" /\ u \in members
    /\ members' = members \ {u}
    /\ kick' = [NoLoop EXCEPT !.pc = "publish", !.user = u]
    /\ given' = given \ {u} /\ known' = {s \in known : Owner[s] # u}
    /\ UNCHANGED <<ws, hello, closing, registered, tables, subscribed, push>>

KickPublished ==
    /\ kick.pc = "publish"
    /\ kick' = [kick EXCEPT !.pc = "sessions", !.first = SessionsOf(kick.user)]
    /\ UNCHANGED <<ws, hello, closing, registered, tables, subscribed, members, push, history>>

KickSession(s) ==
    /\ kick.pc = "sessions" /\ s \in SessionsOf(kick.user) \ kick.seen
    /\ kick' = [kick EXCEPT !.seen = @ \cup {s}]
    /\ IF s \in convs THEN Detach(s) ELSE UNCHANGED tables
    /\ UNCHANGED <<ws, hello, closing, registered, subscribed, members, push, history>>

KickDone ==
    /\ kick.pc = "sessions"
    /\ (SessionsOf(kick.user) \cap kick.first) \subseteq kick.seen
    /\ kick' = [NoLoop EXCEPT !.pc = "done"]
    /\ UNCHANGED <<ws, hello, closing, registered, tables, subscribed, members, push, history>>

-----------------------------------------------------------------------------
\* Redis executes the oldest command of the subscriber connection.
RedisCommand ==
    /\ commands # << >>
    /\ subscribed' = (Head(commands) = "subscribe")
    /\ commands' = Tail(commands)
    /\ UNCHANGED <<ws, hello, closing, registered, convs, index, interest, members, push, kick, history>>

Socket(s) ==
    \/ Connect(s)
    \/ HelloArrives(s)
    \/ HelloRefused(s)
    \/ HelloAuthenticated(s)
    \/ HelloConvs(s)
    \/ HelloAttach(s)
    \/ Close(s)
    \/ ClosePresenceDeleted(s)

Create ==
    \/ \E S \in SUBSET Users : PushCreate(S)
    \/ PushMembers
    \/ \E u \in Users : PushAddMember(u) \/ PushUser(u)
    \/ \E s \in Sessions : PushSession(s)
    \/ PushUserDone
    \/ PushDone

Group ==
    \/ \E u \in Users : GroupAdd(u) \/ KickMember(u)
    \/ KickPublished
    \/ \E s \in Sessions : KickSession(s)
    \/ KickDone

Next == (\E s \in Sessions : Socket(s)) \/ Create \/ Group \/ RedisCommand

Spec == Init /\ [][Next]_vars

-----------------------------------------------------------------------------
(***************************************************************************)
(* Properties                                                              *)
(***************************************************************************)

Loops(pcs) == [pc : pcs, users : SUBSET Users, user : Users \cup {"none"},
               first : SUBSET Sessions, seen : SUBSET Sessions]

\* Types of the variables; the index holds only sessions that know the
\* conversation.
TypeOK ==
    /\ ws \in [Sessions -> {"new", "open", "closed"}]
    /\ hello \in [Sessions -> {"none", "auth", "refused", "convs", "attach", "done"}]
    /\ closing \in [Sessions -> {"none", "presence", "done"}]
    /\ registered \subseteq Sessions /\ convs \subseteq Sessions /\ index \subseteq convs
    /\ interest \in Nat
    /\ commands \in Seq({"subscribe", "unsubscribe"})
    /\ subscribed \in BOOLEAN
    /\ members \subseteq Users
    /\ push \in Loops({"idle", "adding", "user", "sessions", "done"})
    /\ kick \in Loops({"idle", "publish", "sessions", "done"})
    /\ given \subseteq Users /\ known \subseteq Sessions

\* Once Redis has executed what was sent, the process is subscribed if a socket
\* is in the index, whatever order HELLOs, closes, pushes and removals run in: no
\* socket loses the broadcasts because another one left, and SUBSCRIBE and
\* UNSUBSCRIBE, which nobody waits for, do not overtake each other
\* (lib/fanout.js:17-26 with the callers in lib/core/gateway.js).
IndexedHearBroadcasts == commands = << >> /\ index # {} => subscribed

\* An open socket whose HELLO is finished is in the index of every conversation its user
\* was given by POST /conversations - although the HELLO may have read the user's
\* conversations before the new one was there: byUser is filled before that read, and the
\* push runs after the members were added - and of every one its HELLO found its user a
\* member of, in whatever order HELLOs, the push, group operations and closes run.  One who
\* is added by GROUP_OP while connected is left out: nothing files it under the
\* conversation (lib/core/gateway.js:113-141, 157-169, 199-208).
MembersAreIndexed ==
    \A s \in Sessions :
        /\ ws[s] = "open" /\ hello[s] = "done"
        /\ s \in known \/ (push.pc = "done" /\ Owner[s] \in given)
        => s \in index

=============================================================================
