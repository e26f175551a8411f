----------------------------- MODULE SeqCounter -----------------------------
(***************************************************************************)
(* How the gateways of one deployment draw the sequence numbers of ONE     *)
(* conversation: nextSeq and SeqBatcher (lib/common/seq.js) over the Redis *)
(* counter conv:{id}:seq.                                                  *)
(*                                                                         *)
(* SeqBatcher.next hands numbers out of a local window and asks Redis for  *)
(* a new one when the window is used up.  The request is awaited, so       *)
(* several calls of one gateway can be waiting at the same time; their     *)
(* replies come back in the order of the requests (one Redis connection),  *)
(* and each call that resumes OVERWRITES the window of the conversation.   *)
(* With Window = 1 the code calls INCR directly, which is the same thing:  *)
(* a window of one number is used up as soon as it is stored.              *)
(*                                                                         *)
(* The start of a node, which rewinds the counter, is in ConversationLog.  *)
(***************************************************************************)
EXTENDS Integers, Sequences

CONSTANTS
    Gateways,      \* the nodes that write to the conversation
    Window,        \* SEQ_WINDOW: numbers per INCRBY
    MaxCounter,    \* bound of the model: the counter is not moved beyond it
    MaxWaiting     \* bound of the model: calls of a gateway awaiting Redis

ASSUME SeqCounterAssumption ==
    /\ Window \in Nat \ {0}
    /\ MaxCounter \in Nat
    /\ MaxWaiting \in Nat

VARIABLES
    counter,       \* Redis: conv:{id}:seq
    window,        \* per gateway: SeqBatcher.state of the conversation
    asked,         \* per gateway: INCRBY commands sent and not yet executed
    replies,       \* per gateway: INCRBY results whose caller has not resumed
    up,            \* per gateway: is the process alive
    issued         \* history: the numbers handed out, in the order of the returns

vars == <<counter, window, asked, replies, up, issued>>

(***************************************************************************)
(* A window that is absent from the map and one that is used up lead to    *)
(* the same branch of next().                                              *)
(***************************************************************************)
NoWindow == [current |-> 0, max |-> 0]

Exhausted(g) == window[g].current >= window[g].max

\* Mutant of WindowAfter: one number too early.
WindowAfterEarly(top) == [current |-> top - Window - 1, max |-> top]

\* `const top = await redis.incrby(..)`: the window the resumed caller stores,
\* after it has taken the first number for itself.
WindowAfter(top) == [current |-> top - Window + 1, max |-> top]

Issue(g, n) == issued' = Append(issued, [gw |-> g, n |-> n])

Init ==
    /\ counter = 0
    /\ window = [g \in Gateways |-> NoWindow]
    /\ asked = [g \in Gateways |-> 0]
    /\ replies = [g \in Gateways |-> << >>]
    /\ up = [g \in Gateways |-> TRUE]
    /\ issued = << >>

\* Mutant of NextFromWindow: `return st.current++`.
NextFromWindowPost(g) ==
    /\ up[g]
    /\ ~Exhausted(g)
    /\ window' = [window EXCEPT ![g].current = @ + 1]
    /\ Issue(g, window[g].current)
    /\ UNCHANGED <<counter, asked, replies, up>>

\* next() with numbers left in the window: no await, one synchronous step.
NextFromWindow(g) ==
    /\ up[g]
    /\ ~Exhausted(g)
    /\ window' = [window EXCEPT ![g].current = @ + 1]
    /\ Issue(g, window[g].current + 1)
    /\ UNCHANGED <<counter, asked, replies, up>>

\* next() with nothing left: the INCRBY is sent and the call suspends.
NextAsk(g) ==
    /\ up[g]
    /\ Exhausted(g)
    /\ asked[g] + Len(replies[g]) < MaxWaiting
    /\ asked' = [asked EXCEPT ![g] = @ + 1]
    /\ UNCHANGED <<counter, window, replies, up, issued>>

\* Redis executes the oldest INCRBY of g; its result travels back.
RedisIncrBy(g) ==
    /\ asked[g] > 0
    /\ counter + Window <= MaxCounter
    /\ counter' = counter + Window
    /\ asked' = [asked EXCEPT ![g] = @ - 1]
    /\ replies' = IF up[g] THEN [replies EXCEPT ![g] = Append(@, counter + Window)]
                           ELSE replies
    /\ UNCHANGED <<window, up, issued>>

\* The oldest waiting call resumes: it stores the window and returns.
NextResume(g) ==
    /\ up[g]
    /\ replies[g] # << >>
    /\ LET w == WindowAfter(Head(replies[g]))
       IN  /\ window' = [window EXCEPT ![g] = w]
           /\ Issue(g, w.current)
    /\ replies' = [replies EXCEPT ![g] = Tail(@)]
    /\ UNCHANGED <<counter, asked, up>>

\* The process ends: what is left of its window is skipped for ever, and the
\* commands that are already on the wire still reach Redis.
Stop(g) ==
    /\ up[g]
    /\ up' = [up EXCEPT ![g] = FALSE]
    /\ window' = [window EXCEPT ![g] = NoWindow]
    /\ replies' = [replies EXCEPT ![g] = << >>]
    /\ UNCHANGED <<counter, asked, issued>>

Next ==
    \E g \in Gateways :
        \/ NextFromWindow(g)
        \/ NextAsk(g)
        \/ RedisIncrBy(g)
        \/ NextResume(g)
        \/ Stop(g)

Spec == Init /\ [][Next]_vars

-----------------------------------------------------------------------------
(***************************************************************************)
(* Properties                                                              *)
(***************************************************************************)

\* Types of the variables.  A stored window is never inverted and never starts
\* below zero, whatever number of calls resumed on top of one another.
TypeOK ==
    /\ counter \in Nat
    /\ window \in [Gateways -> [current : Nat, max : Nat]]
    /\ \A g \in Gateways : window[g].current <= window[g].max
    /\ asked \in [Gateways -> Nat]
    /\ replies \in [Gateways -> Seq(Nat)]
    /\ up \in [Gateways -> BOOLEAN]
    /\ issued \in Seq([gw : Gateways, n : Nat])

\* No sequence number is handed out twice, by one gateway or by two, although
\* concurrent callers of one gateway overwrite each other's window
\* (SeqBatcher.next, lib/common/seq.js:36-44).
NeverIssuedTwice ==
    \A i, j \in 1..Len(issued) : i # j => issued[i].n # issued[j].n

\* The numbers one gateway hands out only go up, although a window can be
\* replaced while some of its numbers have not been used
\* (test/perf.test.js, group 30: "stays monotonic").
MonotonicPerGateway ==
    \A i, j \in 1..Len(issued) :
        i < j /\ issued[i].gw = issued[j].gw => issued[i].n < issued[j].n

\* Every number handed out is covered by the counter in Redis: onHello and
\* onSyncReq compare cursors with the counter, so a number above it would hide
\* a message from every reconnecting client (lib/core/engine.js:35-37).
CounterCoversIssued ==
    \A i \in 1..Len(issued) : issued[i].n <= counter

-----------------------------------------------------------------------------
(***************************************************************************)
(* The inductive invariant.                                                *)
(***************************************************************************)

\* The numbers gateway g may still hand out without asking Redis again: the
\* rest of its window, and the windows that are on their way to it.
Owns(g, n) ==
    \/ window[g].current < n /\ n <= window[g].max
    \/ \E k \in 1..Len(replies[g]) :
           replies[g][k] - Window < n /\ n <= replies[g][k]

\* A process that has ended holds no window and receives nothing.
StoppedHoldsNothing ==
    \A g \in Gateways : ~up[g] => window[g] = NoWindow /\ replies[g] = << >>

\* Windows lie below the counter, and those on their way to one gateway are
\* above its current one and follow one another without overlapping.
WindowsInOrder ==
    \A g \in Gateways :
        /\ window[g].max <= counter
        /\ \A k \in 1..Len(replies[g]) :
              /\ window[g].max + Window <= replies[g][k]
              /\ replies[g][k] <= counter
              /\ \A j \in 1..(k - 1) : replies[g][j] + Window <= replies[g][k]

\* No number is owned by two gateways, and an owned number is not issued yet.
OwnedOnceAndFresh ==
    \A g \in Gateways : \A n \in 1..counter :
        Owns(g, n) => /\ \A h \in Gateways : Owns(h, n) => h = g
                      /\ \A i \in 1..Len(issued) : issued[i].n # n

\* A live gateway is past every number it has handed out.
IssuedBehindWindow ==
    \A i \in 1..Len(issued) :
        /\ issued[i].n >= 1
        /\ up[issued[i].gw] => issued[i].n <= window[issued[i].gw].current

IInv ==
    /\ TypeOK
    /\ StoppedHoldsNothing
    /\ WindowsInOrder
    /\ OwnedOnceAndFresh
    /\ IssuedBehindWindow
    /\ NeverIssuedTwice
    /\ MonotonicPerGateway
    /\ CounterCoversIssued
-----------------------------------------------------------------------------
=============================================================================
