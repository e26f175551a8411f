--------------------------------- MODULE Polls ---------------------------------
(***************************************************************************)
(* ONE poll: PollStore.vote and the tallies it publishes (lib/poll), and   *)
(* what the devices show of them (SyncClient, POLL_CREATED, POLL_TALLY,    *)
(* MSG).  Votes interleave at their awaits; devices lose their connection. *)
(***************************************************************************)
EXTENDS Integers, Sequences, FiniteSets

CONSTANTS
    Voters, Options,
    Booths,        \* slots for votes in flight
    Devices,
    MaxVotes, MaxDrops     \* bounds of the model

ASSUME PollsAssumption ==
    Voters # {} /\ {MaxVotes, MaxDrops} \subseteq Nat

VARIABLES
    multi,         \* poll.multi: several options may be picked
    votes,         \* Mongo: poll.votes; {} is no entry
    ballot,        \* the votes in flight
    pollWire,      \* per device: frames on their way
    online,        \* per device
    shown,         \* per device: the poll it shows
    inbox,         \* per device: POLL_CREATED is queued for it
    last,          \* history: what each user voted last
    cleanVoters,   \* history: users whose own votes did not overlap
    alone,         \* history: no two votes overlapped
    unheard,       \* history: devices the last tally did not reach
    ballots, drops

pollVars == <<multi, votes, ballot, pollWire, online, shown, inbox, last, cleanVoters, alone,
              unheard, ballots, drops>>

NoVotes == [u \in Voters |-> {}]

NoBallot == [pc |-> "idle", by |-> CHOOSE u \in Voters : TRUE, picks |-> {}, tally |-> NoVotes]

\* A poll as a device has it.  Its tally is told apart by the votes it counts.
NoPoll == [known |-> "none", tally |-> NoVotes]

Created == [known |-> "poll", tally |-> NoVotes]

\* The bubble of a poll whose question and options did not come with it.
Blank == [known |-> "blank", tally |-> NoVotes]

\* Every device has the poll, or is offline with POLL_CREATED in the user's inbox.
PollsInit ==
    /\ multi \in BOOLEAN /\ votes = NoVotes
    /\ ballot = [t \in Booths |-> NoBallot]
    /\ pollWire = [d \in Devices |-> << >>]
    /\ online \in [Devices -> BOOLEAN]
    /\ shown = [d \in Devices |-> IF online[d] THEN Created ELSE NoPoll]
    /\ inbox = [d \in Devices |-> ~online[d]]
    /\ last = NoVotes /\ cleanVoters = Voters /\ alone = TRUE /\ unheard = {}
    /\ ballots = 0 /\ drops = 0

Voting(u) == \E t \in Booths : ballot[t].pc # "idle" /\ ballot[t].by = u

-----------------------------------------------------------------------------
(***************************************************************************)
(* The server                                                              *)
(***************************************************************************)

devices == <<multi, pollWire, online, shown, inbox, unheard, drops>>
voting == <<last, cleanVoters, alone, ballots>>

Accepted(picks) == multi \/ Cardinality(picks) <= 1

\* VOTE; no picks retract the vote.  The poll is found; its picks are accepted or
\* the vote ends here.
CastVote(t, u, picks) ==
    /\ ballot[t].pc = "idle" /\ ballots < MaxVotes
    /\ ballots' = ballots + 1
    /\ IF Accepted(picks)
       THEN /\ ballot' = [ballot EXCEPT ![t] = [pc |-> "update", by |-> u, picks |-> picks, tally |-> votes]]
            /\ last' = [last EXCEPT ![u] = picks]
            /\ cleanVoters' = IF Voting(u) THEN cleanVoters \ {u} ELSE cleanVoters
            /\ alone' = (alone /\ \A b \in Booths : ballot[b].pc = "idle")
       ELSE UNCHANGED <<ballot, last, cleanVoters, alone>>
    /\ UNCHANGED <<votes, devices>>

\* Mutant of StoreVote: the votes found before are written back with the new one.
StoreWhole(t) ==
    /\ ballot[t].pc = "update"
    /\ votes' = [ballot[t].tally EXCEPT ![ballot[t].by] = ballot[t].picks]
    /\ ballot' = [ballot EXCEPT ![t].pc = "publish", ![t].tally = votes']
    /\ UNCHANGED <<voting, devices>>

\* Mutant of StoreVote: returnDocument: 'before'.
StoreBefore(t) ==
    /\ ballot[t].pc = "update"
    /\ votes' = [votes EXCEPT ![ballot[t].by] = ballot[t].picks]
    /\ ballot' = [ballot EXCEPT ![t].pc = "publish", ![t].tally = votes]
    /\ UNCHANGED <<voting, devices>>

\* findOneAndUpdate of the user's own entry; the tally is of what it returns.
StoreVote(t) ==
    /\ ballot[t].pc = "update"
    /\ votes' = [votes EXCEPT ![ballot[t].by] = ballot[t].picks]
    /\ ballot' = [ballot EXCEPT ![t].pc = "publish", ![t].tally = votes']
    /\ UNCHANGED <<voting, devices>>

\* POLL_TALLY to the sockets of this moment; it is not queued for anyone offline.
PublishTally(t) ==
    /\ ballot[t].pc = "publish"
    /\ pollWire' = [d \in Devices |->
          IF online[d] THEN Append(pollWire[d], [type |-> "POLL_TALLY", tally |-> ballot[t].tally]) ELSE pollWire[d]]
    /\ ballot' = [ballot EXCEPT ![t] = NoBallot]
    /\ unheard' = {d \in Devices : ~online[d]}
    /\ UNCHANGED <<multi, votes, voting, online, shown, inbox, drops>>

-----------------------------------------------------------------------------
(***************************************************************************)
(* The user's click                                                        *)
(***************************************************************************)

\* PollCard: voters[userId] ?? [].  The server's `voters` is a number.
MyVotes(u) == {}

\* Another click on an option takes it back; without `multi` it replaces.
Toggled(mine, o) ==
    IF o \in mine THEN mine \ {o} ELSE IF multi THEN mine \cup {o} ELSE {o}

Click(t, u, o) == CastVote(t, u, Toggled(MyVotes(u), o))

-----------------------------------------------------------------------------
(***************************************************************************)
(* The devices                                                             *)
(***************************************************************************)

Drop(d) ==
    /\ online[d] /\ drops < MaxDrops
    /\ drops' = drops + 1
    /\ online' = [online EXCEPT ![d] = FALSE]
    /\ pollWire' = [pollWire EXCEPT ![d] = << >>]
    /\ unheard' = unheard \cup IF pollWire[d] # << >> THEN {d} ELSE {}
    /\ UNCHANGED <<multi, votes, ballot, voting, shown, inbox>>

\* HELLO replays the stored document as MSG, whose payload a poll does not have,
\* if the device's cursor is below it; then the inbox is drained.
Reconnect(d) ==
    /\ ~online[d]
    /\ online' = [online EXCEPT ![d] = TRUE]
    /\ pollWire' = [pollWire EXCEPT ![d] =
          (IF shown[d].known = "none" THEN << [type |-> "MSG", tally |-> NoVotes] >> ELSE << >>)
          \o (IF inbox[d] THEN << [type |-> "POLL_CREATED", tally |-> NoVotes] >> ELSE << >>)]
    /\ inbox' = [inbox EXCEPT ![d] = FALSE]
    /\ UNCHANGED <<multi, votes, ballot, voting, shown, unheard, drops>>

\* MSG and POLL_CREATED replace the message; POLL_TALLY needs `msg?.poll`.
Shows(poll, f) ==
    CASE f.type = "MSG" -> Blank
      [] f.type = "POLL_CREATED" -> Created
      [] f.type = "POLL_TALLY" -> IF poll.known = "poll" THEN [poll EXCEPT !.tally = f.tally] ELSE poll

DeviceReceives(d) ==
    /\ pollWire[d] # << >>
    /\ pollWire' = [pollWire EXCEPT ![d] = Tail(@)]
    /\ shown' = [shown EXCEPT ![d] = Shows(@, Head(pollWire[d]))]
    /\ UNCHANGED <<multi, votes, ballot, voting, online, inbox, unheard, drops>>

Vote(t) == StoreVote(t) \/ PublishTally(t)

PollsNext ==
    \/ \E t \in Booths :
          \/ Vote(t)
          \/ \E u \in Voters : \/ \E o \in Options : Click(t, u, o)
                             \/ \E picks \in SUBSET Options : CastVote(t, u, picks)
    \/ \E d \in Devices : Drop(d) \/ Reconnect(d) \/ DeviceReceives(d)

PollsSpec == PollsInit /\ [][PollsNext]_pollVars

-----------------------------------------------------------------------------
(***************************************************************************)
(* Properties                                                              *)
(***************************************************************************)

Tallies == [Voters -> SUBSET Options]

Polls == [known : {"none", "blank", "poll"}, tally : Tallies]

Frames == [type : {"MSG", "POLL_CREATED", "POLL_TALLY"}, tally : Tallies]

PollIsQuiet == (\A t \in Booths : ballot[t].pc = "idle") /\ (\A d \in Devices : pollWire[d] = << >> /\ online[d])

\* Types; a device counts votes only of a poll it knows.
PollsTypeOK ==
    /\ {multi, alone} \subseteq BOOLEAN
    /\ votes \in Tallies /\ last \in Tallies /\ cleanVoters \subseteq Voters
    /\ ballot \in [Booths -> [pc : {"idle", "update", "publish"}, by : Voters,
                             picks : SUBSET Options, tally : Tallies]]
    /\ pollWire \in [Devices -> Seq(Frames)] /\ shown \in [Devices -> Polls]
    /\ {online, inbox} \subseteq [Devices -> BOOLEAN] /\ unheard \subseteq Devices
    /\ \A d \in Devices : shown[d].known # "poll" => shown[d].tally = NoVotes
    /\ ballots \in 0..MaxVotes /\ drops \in 0..MaxDrops

\* A user whose own votes did not overlap has the vote given last, however many
\* others vote at the same time (lib/poll/storage.js:24-33).
VotesKept == \A u \in cleanVoters : ~Voting(u) => votes[u] = last[u]

\* If no votes overlapped, every device that has the poll and was reached by the last tally
\* ends up with the tally of all votes (lib/poll/wire.js:15-18, SyncClient.js:477-485).
\* PARITY-AUDIT.md:43-44: "The server is the source of truth for the tally".
LastTallyIsFinal ==
    PollIsQuiet /\ alone =>
        \A d \in Devices \ unheard : shown[d].known = "poll" => shown[d].tally = votes

\* Both: the votes are kept, and shown.
VotesCount == VotesKept /\ LastTallyIsFinal

=============================================================================
