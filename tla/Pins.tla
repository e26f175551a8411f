--------------------------------- MODULE Pins ---------------------------------
(***************************************************************************)
(* The pinned messages of ONE conversation: PinEngine.pin and              *)
(* PinStore.setPin (lib/pin).  The set is in Redis, is written through to  *)
(* the conversation's document and, as a flag, to the message's.  Requests *)
(* interleave at their awaits; members pin existing messages, and neither  *)
(* nodes nor Redis fail.                                                   *)
(***************************************************************************)
EXTENDS Integers, FiniteSets

CONSTANTS
    Messages,
    Tasks,         \* slots for requests in flight
    PinMax,        \* PIN_MAX
    MaxOps         \* bound of the model: requests

ASSUME PinsAssumption ==
    /\ IsFiniteSet(Messages) /\ Messages # {} /\ IsFiniteSet(Tasks) /\ Tasks # {}
    /\ PinMax \in Nat \ {0} /\ MaxOps \in Nat

VARIABLES
    pins,          \* Redis: conv:{id}:pins
    docPins,       \* Mongo: pins of the conversation
    flagged,       \* Mongo: the messages with pinned = true
    task,          \* the requests in flight
    clean,         \* history: messages on which no two requests overlapped
    ops

vars == <<pins, docPins, flagged, task, clean, ops>>

\* The places a request can be at, each before an await.
Pcs == {"idle", "pinned?", "count", "redis", "conv", "message"}

InFlight(m) == \E t \in Tasks : task[t].pc # "idle" /\ task[t].m = m

Put(S, m, on) == IF on THEN S \cup {m} ELSE S \ {m}

Init ==
    /\ pins = {} /\ docPins = {} /\ flagged = {}
    /\ task = [t \in Tasks |-> [pc |-> "idle", m |-> CHOOSE m \in Messages : TRUE, on |-> FALSE]]
    /\ clean = Messages
    /\ ops = 0

GoTo(t, pc) == task' = [task EXCEPT ![t].pc = pc]

\* PIN, past its membership check and requireTarget.  An unpin checks nothing
\* more; its number is drawn and it goes on.
Begin(t, m, on) ==
    /\ task[t].pc = "idle" /\ ops < MaxOps
    /\ ops' = ops + 1
    /\ task' = [task EXCEPT ![t] = [pc |-> IF on THEN "pinned?" ELSE "redis", m |-> m, on |-> on]]
    /\ clean' = IF InFlight(m) THEN clean \ {m} ELSE clean
    /\ UNCHANGED <<pins, docPins, flagged>>

\* await this.store.isPinned(..): pinning again needs no slot.
IsPinned(t) ==
    /\ task[t].pc = "pinned?"
    /\ GoTo(t, IF task[t].m \in pins THEN "redis" ELSE "count")
    /\ UNCHANGED <<pins, docPins, flagged, clean, ops>>

\* Mutant of Count: `<=` for `<`.
CountOneMore(t) ==
    /\ task[t].pc = "count"
    /\ GoTo(t, IF Cardinality(pins) <= PinMax THEN "redis" ELSE "idle")
    /\ UNCHANGED <<pins, docPins, flagged, clean, ops>>

\* ensure(await this.store.count(convId) < PIN_MAX), then the number is drawn.
Count(t) ==
    /\ task[t].pc = "count"
    /\ GoTo(t, IF Cardinality(pins) < PinMax THEN "redis" ELSE "idle")
    /\ UNCHANGED <<pins, docPins, flagged, clean, ops>>

\* sadd or srem
SetRedis(t) ==
    /\ task[t].pc = "redis"
    /\ pins' = Put(pins, task[t].m, task[t].on)
    /\ GoTo(t, "conv")
    /\ UNCHANGED <<docPins, flagged, clean, ops>>

\* Mutant of SetConv: an unpin is not written through.
SetConvOnlyAdds(t) ==
    /\ task[t].pc = "conv"
    /\ docPins' = IF task[t].on THEN docPins \cup {task[t].m} ELSE docPins
    /\ GoTo(t, "message")
    /\ UNCHANGED <<pins, flagged, clean, ops>>

\* $addToSet or $pull on the conversation
SetConv(t) ==
    /\ task[t].pc = "conv"
    /\ docPins' = Put(docPins, task[t].m, task[t].on)
    /\ GoTo(t, "message")
    /\ UNCHANGED <<pins, flagged, clean, ops>>

\* $set: { pinned: on }; then PINNED is published.
SetMessage(t) ==
    /\ task[t].pc = "message"
    /\ flagged' = Put(flagged, task[t].m, task[t].on)
    /\ GoTo(t, "idle")
    /\ UNCHANGED <<pins, docPins, clean, ops>>

Pin(t) == IsPinned(t) \/ Count(t) \/ SetRedis(t) \/ SetConv(t) \/ SetMessage(t)

Next == \E t \in Tasks : Pin(t) \/ \E m \in Messages, on \in BOOLEAN : Begin(t, m, on)

Spec == Init /\ [][Next]_vars

-----------------------------------------------------------------------------
(***************************************************************************)
(* Properties                                                              *)
(***************************************************************************)

\* Types of the variables.
TypeOK ==
    /\ pins \subseteq Messages /\ docPins \subseteq Messages /\ flagged \subseteq Messages
    /\ task \in [Tasks -> [pc : Pcs, m : Messages, on : BOOLEAN]]
    /\ clean \subseteq Messages /\ ops \in Nat

\* The limit can be passed, but by no more than the requests that run at the same
\* time: the check and the sadd are two awaits apart, and a request that passed
\* the check saw a free slot (lib/pin/engine.js:21-24).
PinsBounded == Cardinality(pins) <= PinMax + Cardinality(Tasks) - 1

\* The three copies agree on a message whose pins and unpins did not overlap
\* (lib/pin/storage.js:21-32).
CopiesAgree ==
    \A m \in clean : ~InFlight(m) =>
        /\ m \in pins <=> m \in docPins
        /\ m \in pins <=> m \in flagged

=============================================================================
