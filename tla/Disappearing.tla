----------------------------- MODULE Disappearing -----------------------------
(***************************************************************************)
(* The sweep that tombstones messages whose time has run out               *)
(* (DisappearingStore.sweep, runSweep and the interval of each node), next *)
(* to users who edit or delete the same messages.  A sweep takes a list of *)
(* the documents and then works through it with awaits; every change goes  *)
(* to Mongo first and then, by reading and writing back the cached         *)
(* document, to Redis.                                                     *)
(***************************************************************************)
EXTENDS Integers, Sequences

CONSTANTS
    Timed,     \* the messages with a ttl; `find` returns them in any order
    Sweepers,  \* the nodes that hold a socket of the conversation
    Requests,  \* slots for users' requests in flight
    Kinds,     \* which requests users make, among "edit" and "delete"
    MaxFails,  \* bound of the model: failed or crashed sweeps
    MaxRequests \* bound of the model: requests

ASSUME DisappearingAssumption ==
    Kinds \subseteq {"edit", "delete"} /\ MaxFails \in Nat /\ MaxRequests \in Nat

VARIABLES
    doc,       \* Mongo: per message, whether it has a payload, is deleted, is expired
    cache,     \* Redis: the same of the cached document; or Uncached
    due,       \* messages whose ts + ttl is not after now
    job,       \* per sweeper: where it is, the message it works on, what is left of its
               \* list, what it has swept
    request,   \* the users' requests in flight
    edited,    \* history: the messages users asked to edit
    published, \* history: the number of EXPIRED frames per message
    fails,
    requests

sweepVars == <<doc, cache, due, job, request, edited, published, fails, requests>>

Uncached == [cached |-> FALSE]
Fresh == [payload |-> TRUE, deleted |-> FALSE, expired |-> FALSE]
NoJob == [pc |-> "idle", at |-> "none", todo |-> {}, swept |-> << >>, got |-> Uncached]
NoRequest == [pc |-> "idle", kind |-> "none", m |-> "none", got |-> Uncached]

SweepInit ==
    /\ doc = [m \in Timed |-> Fresh]
    /\ cache \in [Timed -> {Fresh, Uncached}]
    /\ due = {}
    /\ job = [s \in Sweepers |-> NoJob]
    /\ request = [r \in Requests |-> NoRequest]
    /\ published = [m \in Timed |-> 0]
    /\ edited = {} /\ fails = 0 /\ requests = 0

-----------------------------------------------------------------------------
(***************************************************************************)
(* What the updates do to a document, in Mongo and in the cache            *)
(***************************************************************************)

\* Mutant of Expired: the payload is not unset.
ExpiredKeeping(d) == [d EXCEPT !.expired = TRUE]

Expired(d) == [d EXCEPT !.expired = TRUE, !.payload = FALSE]

Changed(kind, d) == IF kind = "edit" THEN [d EXCEPT !.payload = TRUE]
                    ELSE [d EXCEPT !.deleted = TRUE, !.payload = FALSE]

-----------------------------------------------------------------------------
(***************************************************************************)
(* The sweep                                                               *)
(***************************************************************************)

\* Time passes.
Tick(m) ==
    /\ m \notin due
    /\ due' = due \cup {m}
    /\ UNCHANGED <<doc, cache, job, request, edited, published, fails, requests>>

\* Mutant of ToSweep: `return` for `continue`, when a tombstone comes first.
ToSweepUntilTombstone ==
    IF \E m \in Timed : doc[m].deleted \/ doc[m].expired THEN {} ELSE due

\* The documents of the list that the loop does not skip.
ToSweep == {m \in due : ~doc[m].deleted /\ ~doc[m].expired}

\* The interval fires on an idle node: `live` is read.
Start(s) ==
    /\ job[s].pc = "idle" /\ ToSweep # {}
    /\ job' = [job EXCEPT ![s] = [NoJob EXCEPT !.pc = "mongo", !.todo = ToSweep]]
    /\ UNCHANGED <<doc, cache, due, request, edited, published, fails, requests>>

\* A number is drawn and the next document of the list updated, whatever has become of it
\* since.
Tombstone(s) ==
    /\ job[s].pc = "mongo"
    /\ \E m \in job[s].todo :
          /\ doc' = [doc EXCEPT ![m] = Expired(@)]
          /\ job' = [job EXCEPT ![s] = [@ EXCEPT !.pc = "read", !.at = m, !.todo = job[s].todo \ {m}]]
    /\ UNCHANGED <<cache, due, request, edited, published, fails, requests>>

\* The job of s when it is through with a message.
Through(s) ==
    [pc |-> IF job[s].todo = {} THEN "publish" ELSE "mongo", at |-> "none",
     todo |-> job[s].todo, swept |-> Append(job[s].swept, job[s].at), got |-> Uncached]

\* Mutant of ReadCached: a message that is not cached is not announced.
ReadCachedOrForget(s) ==
    /\ job[s].pc = "read"
    /\ LET was == cache[job[s].at] IN
       job' = [job EXCEPT ![s] =
           IF was = Uncached THEN [Through(s) EXCEPT !.swept = job[s].swept]
           ELSE [@ EXCEPT !.pc = "write", !.got = was]]
    /\ UNCHANGED <<doc, cache, due, request, edited, published, fails, requests>>

\* updateCachedDoc: HGET.
ReadCached(s) ==
    /\ job[s].pc = "read"
    /\ LET was == cache[job[s].at] IN
       job' = [job EXCEPT ![s] =
           IF was = Uncached THEN Through(s) ELSE [@ EXCEPT !.pc = "write", !.got = was]]
    /\ UNCHANGED <<doc, cache, due, request, edited, published, fails, requests>>

\* updateCachedDoc: HSET of what was read, patched.
WriteCached(s) ==
    /\ job[s].pc = "write"
    /\ cache' = [cache EXCEPT ![job[s].at] = Expired(job[s].got)]
    /\ job' = [job EXCEPT ![s] = Through(s)]
    /\ UNCHANGED <<doc, due, request, edited, published, fails, requests>>

\* runSweep publishes the frames after the whole list is done.
AnnounceExpired(s) ==
    /\ job[s].pc = "publish"
    /\ published' = [published EXCEPT ![Head(job[s].swept)] = @ + 1]
    /\ job' = [job EXCEPT ![s] =
           IF Len(job[s].swept) = 1 THEN NoJob ELSE [job[s] EXCEPT !.swept = Tail(@)]]
    /\ UNCHANGED <<doc, cache, due, request, edited, fails, requests>>

\* An error of Mongo or Redis is swallowed by the interval, or the node dies.
SweepFails(s) ==
    /\ job[s].pc # "idle" /\ fails < MaxFails
    /\ fails' = fails + 1
    /\ job' = [job EXCEPT ![s] = NoJob]
    /\ UNCHANGED <<doc, cache, due, request, edited, published, requests>>

-----------------------------------------------------------------------------
(***************************************************************************)
(* Edits and deletes                                                       *)
(***************************************************************************)

\* requireTarget: only an edit is refused for a deleted message, none for an expired one.
Ask(r, kind, m) ==
    /\ request[r].pc = "idle" /\ requests < MaxRequests
    /\ kind = "edit" => ~doc[m].deleted
    /\ requests' = requests + 1
    /\ request' = [request EXCEPT ![r] = [pc |-> "mongo", kind |-> kind, m |-> m, got |-> Uncached]]
    /\ edited' = IF kind = "edit" THEN edited \cup {m} ELSE edited
    /\ UNCHANGED <<doc, cache, due, job, published, fails>>

UpdateFor(r) ==
    /\ request[r].pc = "mongo"
    /\ doc' = [doc EXCEPT ![request[r].m] = Changed(request[r].kind, @)]
    /\ request' = [request EXCEPT ![r].pc = "read"]
    /\ UNCHANGED <<cache, due, job, edited, published, fails, requests>>

ReadFor(r) ==
    /\ request[r].pc = "read"
    /\ LET was == cache[request[r].m] IN
       request' = [request EXCEPT ![r] =
           IF was = Uncached THEN NoRequest ELSE [@ EXCEPT !.pc = "write", !.got = was]]
    /\ UNCHANGED <<doc, cache, due, job, edited, published, fails, requests>>

WriteFor(r) ==
    /\ request[r].pc = "write"
    /\ cache' = [cache EXCEPT ![request[r].m] = Changed(request[r].kind, request[r].got)]
    /\ request' = [request EXCEPT ![r] = NoRequest]
    /\ UNCHANGED <<doc, due, job, edited, published, fails, requests>>

-----------------------------------------------------------------------------
Sweep(s) == Start(s) \/ Tombstone(s) \/ ReadCached(s) \/ WriteCached(s) \/ AnnounceExpired(s)

Serve(r) == UpdateFor(r) \/ ReadFor(r) \/ WriteFor(r)

SweepNext ==
    \/ \E m \in Timed : Tick(m)
    \/ \E s \in Sweepers : Sweep(s) \/ SweepFails(s)
    \/ \E r \in Requests : Serve(r) \/ \E kind \in Kinds, m \in Timed : Ask(r, kind, m)

SweepSpec == SweepInit /\ [][SweepNext]_sweepVars

-----------------------------------------------------------------------------
(***************************************************************************)
(* Properties                                                              *)
(***************************************************************************)

\* What a replay sends for m: of the cached document if there is one.
Replays(m) ==
    LET d == IF cache[m] = Uncached THEN doc[m] ELSE cache[m] IN
    CASE d.deleted -> "DELETED" [] d.expired -> "EXPIRED" [] OTHER -> "MSG"

\* Somebody has changed m in Mongo and is about to see to its cached document.
AtWork(m) ==
    \/ \E s \in Sweepers : job[s].pc \in {"read", "write"} /\ job[s].at = m
    \/ \E r \in Requests : request[r].pc \in {"read", "write"} /\ request[r].m = m

Waiting(m) == \E s \in Sweepers : \E i \in DOMAIN job[s].swept : job[s].swept[i] = m

Docs == [payload : BOOLEAN, deleted : BOOLEAN, expired : BOOLEAN]

CachedDocs == Docs \cup {Uncached}

\* Types; what is written back has been read, what a sweeper has to announce is expired.
SweepTypeOK ==
    /\ doc \in [Timed -> Docs] /\ cache \in [Timed -> CachedDocs]
    /\ due \subseteq Timed /\ edited \subseteq Timed /\ published \in [Timed -> Nat]
    /\ job \in [Sweepers -> [pc : {"idle", "mongo", "read", "write", "publish"},
                             at : Timed \cup {"none"}, todo : SUBSET Timed,
                             swept : Seq(Timed), got : CachedDocs]]
    /\ request \in [Requests -> [pc : {"idle", "mongo", "read", "write"},
                                 kind : Kinds \cup {"none"}, m : Timed \cup {"none"},
                                 got : CachedDocs]]
    /\ \A s \in Sweepers : /\ job[s].pc = "write" => job[s].got \in Docs
                           /\ \A i \in DOMAIN job[s].swept : doc[job[s].swept[i]].expired
    /\ \A r \in Requests : request[r].pc = "write" => request[r].got \in Docs
    /\ fails \in 0..MaxFails /\ requests \in 0..MaxRequests

\* A message nobody edits whose payload has been taken out of Mongo is a tombstone for a
\* replay too, and its payload is in no cache, when those who took it out are through and
\* none of them failed: two sweeps and deletes may read and write back the cached document
\* in any order (lib/core/storage.js:90-97, lib/disappearing/storage.js:18-22).
TombstonesStay ==
    fails = 0 => \A m \in Timed \ edited : ~doc[m].payload /\ ~AtWork(m) =>
        /\ Replays(m) # "MSG"
        /\ cache[m] # Uncached => ~cache[m].payload

\* PARITY-AUDIT.md:47-49: "the engine actually tombstones expired messages, broadcasts
\* `EXPIRED`": a message that sweeps have expired is announced, or waits for it, unless one
\* of them failed.
ExpiredIsAnnounced ==
    fails = 0 => \A m \in Timed : doc[m].expired /\ ~AtWork(m) => published[m] > 0 \/ Waiting(m)

\* Both: a tombstone stays, and everybody is told.
ExpiryReachesAll == TombstonesStay /\ ExpiredIsAnnounced

\* A message whose time has run out becomes a tombstone, though sweeps fail half way, leave
\* tombstones that the next list begins with, and another node works on the same list.
DueIsSwept == \A m \in Timed : m \in due ~> ~doc[m].payload
=============================================================================
