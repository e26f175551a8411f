-------------------------------- MODULE Typing --------------------------------
(***************************************************************************)
(* "... is typing": one user types in several conversations, another one   *)
(* sees it.  The author's client sends a start with every key and a stop   *)
(* three seconds after the last, from ONE timer for all conversations; the *)
(* gateway stamps the time at which the sign expires; the viewer's client  *)
(* keeps a timer per conversation and author (SyncClient.js, Composer.jsx, *)
(* lib/core/gateway.js).                                                   *)
(*                                                                         *)
(* Times are counted down: `left` is what remains until then, by the clock *)
(* of the viewer, and a timer that is due may fire late.  Frames are lost  *)
(* with the connections they are sent on.                                  *)
(***************************************************************************)
EXTENDS Integers, Sequences

CONSTANTS
    Convs,
    StopAfter,     \* ticks from the last key to the stop
    Expiry,        \* ticks from a frame to its expiry, the viewer's clock ahead or behind
    MaxKeys        \* bound of the model: keys pressed

\* What the parameters have to be; the module that instantiates this one assumes it.
TypingAssumption == {StopAfter, Expiry, MaxKeys} \subseteq Nat

VARIABLES
    stopper,       \* author: _typingTimer
    up,            \* TYPING frames on their way to the gateway
    down,          \* TYPING_EVT frames on their way to the viewer
    typing,        \* viewer, per conversation: the event whose sign is shown, 0 if none
    cleanup,       \* viewer, per conversation: its entry of _typingCleanup
    events,        \* the events the viewer has seen; their numbers stand for expiresAt
    keys

vars == <<stopper, up, down, typing, cleanup, events, keys>>

NoTimer == [left |-> -1, of |-> 0]
Less(n) == IF n > 0 THEN n - 1 ELSE n

Init ==
    /\ stopper = [left |-> -1, conv |-> CHOOSE c \in Convs : TRUE]
    /\ up = << >> /\ down = << >>
    /\ typing = [c \in Convs |-> 0]
    /\ cleanup = [c \in Convs |-> NoTimer]
    /\ events = 0 /\ keys = 0

\* WsClient.send: dropped while the socket is not open.
Sent(c, state) ==
    \E open \in BOOLEAN :
        up' = IF open THEN Append(up, [conv |-> c, state |-> state]) ELSE up

\* handleInput, sendTyping: the timer of the conversation typed in before is cleared.
Key(c) ==
    /\ keys < MaxKeys /\ keys' = keys + 1
    /\ Sent(c, 1)
    /\ stopper' = [left |-> StopAfter, conv |-> c]
    /\ UNCHANGED <<down, typing, cleanup, events>>

StopFires ==
    /\ stopper.left = 0
    /\ Sent(stopper.conv, 0)
    /\ stopper' = [stopper EXCEPT !.left = -1]
    /\ UNCHANGED <<down, typing, cleanup, events, keys>>

\* _onTyping: to whoever hears the conversation.
Publish ==
    /\ up # << >> /\ up' = Tail(up)
    /\ \E heard \in BOOLEAN :
          down' = IF heard THEN Append(down, [conv |-> Head(up).conv, state |-> Head(up).state,
                                              left |-> Expiry])
                  ELSE down
    /\ UNCHANGED <<stopper, typing, cleanup, events, keys>>

\* Mutant of Shown: a timer that runs is left to run.
ShownKeepingTimer(f) ==
    IF f.state = 1
    THEN /\ typing' = [typing EXCEPT ![f.conv] = events + 1]
         /\ cleanup' = [cleanup EXCEPT ![f.conv] =
                           IF @ = NoTimer THEN [left |-> f.left + 1, of |-> events + 1] ELSE @]
    ELSE /\ typing' = [typing EXCEPT ![f.conv] = 0]
         /\ cleanup' = [cleanup EXCEPT ![f.conv] = NoTimer]

\* TYPING_EVT: a start sets the sign and its timer anew, a stop takes both away.
Shown(f) ==
    IF f.state = 1
    THEN /\ typing' = [typing EXCEPT ![f.conv] = events + 1]
         /\ cleanup' = [cleanup EXCEPT ![f.conv] = [left |-> f.left + 1, of |-> events + 1]]
    ELSE /\ typing' = [typing EXCEPT ![f.conv] = 0]
         /\ cleanup' = [cleanup EXCEPT ![f.conv] = NoTimer]

Arrives ==
    /\ down # << >> /\ down' = Tail(down)
    /\ Shown(Head(down))
    /\ events' = events + 1
    /\ UNCHANGED <<stopper, up, keys>>

\* _cleanTyping: nothing to do if a newer event has set another expiry.
CleanupFires(c) ==
    /\ cleanup[c].left = 0
    /\ typing' = [typing EXCEPT ![c] = IF @ = cleanup[c].of THEN 0 ELSE @]
    /\ cleanup' = [cleanup EXCEPT ![c] = NoTimer]
    /\ UNCHANGED <<stopper, up, down, events, keys>>

\* Time passes.
Tick ==
    /\ stopper' = [stopper EXCEPT !.left = Less(@)]
    /\ down' = [i \in 1..Len(down) |-> [down[i] EXCEPT !.left = Less(@)]]
    /\ cleanup' = [c \in Convs |-> [cleanup[c] EXCEPT !.left = Less(@)]]
    /\ UNCHANGED <<up, typing, events, keys>>

Next ==
    \/ \E c \in Convs : Key(c) \/ CleanupFires(c)
    \/ StopFires \/ Publish \/ Arrives \/ Tick

\* Time passes, and the timers that are due fire.
Fairness == WF_vars(Tick) /\ \A c \in Convs : WF_vars(CleanupFires(c))

Spec == Init /\ [][Next]_vars /\ Fairness

\* A sign that somebody types does not stay: although a stop is lost with a connection, or
\* never sent because its author went on in another conversation, the signs of every
\* conversation come to an end when no more keys are pressed (SyncClient.js:425-447,
\* 736-747, 833-837).
TypingEnds == []<>(\A c \in Convs : typing[c] = 0)
=============================================================================
