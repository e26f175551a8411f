------------------------------- MODULE Throttle -------------------------------
(***************************************************************************)
(* The load that ONE socket of the gateway may cause: the token bucket     *)
(* that its frames draw on, and the bytes that wait for a slow consumer    *)
(* (Session in lib/core/gateway.js).                                       *)
(*                                                                         *)
(* Tokens are counted in units, so that a tick of the clock refills one:   *)
(* with a tick of a millisecond and 20 tokens a second a token is 50 units *)
(* and a full bucket of 30 tokens 1500.  Only what passes the bucket is    *)
(* counted: HELLO, receipts, SYNC_REQ, PRESENCE, TYPING and PING do not    *)
(* ask it.                                                                 *)
(***************************************************************************)
EXTENDS Integers

CONSTANTS
    RateCap,          \* RATE_CAP, in units
    TokenUnits,       \* one token
    MaxBackpressure,  \* MAX_BACKPRESSURE
    MaxFrame,         \* the longest frame that is sent
    MaxClock          \* bound of the model: the time that passes

ASSUME ThrottleAssumption ==
    /\ {RateCap, TokenUnits, MaxBackpressure, MaxFrame} \subseteq Nat
    /\ MaxClock \in Nat

VARIABLES
    clock,         \* Date.now()
    tokens,        \* Session.tokens
    lastRefill,    \* Session.lastRefill
    ready,         \* ws.readyState is OPEN
    buffered,      \* ws.bufferedAmount
    mark,          \* observer: the time since which the frames are counted
    spent          \* observer: the units that the frames served since have cost

observer == <<mark, spent>>
rateVars == <<clock, tokens, lastRefill, ready, buffered, observer>>

RateInit ==
    /\ clock = 0 /\ tokens = RateCap /\ lastRefill = 0
    /\ ready = TRUE /\ buffered = 0
    /\ mark = 0 /\ spent = 0

-----------------------------------------------------------------------------

\* Math.min(RATE_CAP, tokens + elapsed * RATE_REFILL)
Refilled ==
    LET more == tokens + (clock - lastRefill)
    IN  IF more > RateCap THEN RateCap ELSE more

\* Mutant of Send: what waits is not looked at.
SendAlways(size) == buffered' = IF ready THEN buffered + size ELSE buffered

\* Session.send: dropped if the socket is closing or the consumer slow.
Send(size) ==
    buffered' = IF ready /\ buffered <= MaxBackpressure THEN buffered + size ELSE buffered

\* _guard, allow() is true: the handler runs, and answers or not.
Serve(size) ==
    /\ Refilled >= TokenUnits
    /\ tokens' = Refilled - TokenUnits /\ lastRefill' = clock
    /\ spent' = spent + TokenUnits
    /\ Send(size)
    /\ UNCHANGED <<clock, ready, mark>>

\* _guard, allow() is false: ERR RATE_LIMITED.
Refuse(size) ==
    /\ Refilled < TokenUnits
    /\ tokens' = Refilled /\ lastRefill' = clock
    /\ Send(size)
    /\ UNCHANGED <<clock, ready, observer>>

\* Another frame for the socket: a broadcast, a replay, the answer to an unguarded frame.
Push(size) ==
    /\ Send(size)
    /\ UNCHANGED <<clock, tokens, lastRefill, ready, observer>>

\* The network takes some of what waits.
Drain ==
    /\ buffered > 0
    /\ \E n \in 0..(buffered - 1) : buffered' = n
    /\ UNCHANGED <<clock, tokens, lastRefill, ready, observer>>

Closing ==
    /\ ready /\ ready' = FALSE
    /\ UNCHANGED <<clock, tokens, lastRefill, buffered, observer>>

Tick ==
    /\ clock < MaxClock /\ clock' = clock + 1
    /\ UNCHANGED <<tokens, lastRefill, ready, buffered, observer>>

\* An observer begins to count, at any time.
Observe ==
    /\ mark' = clock /\ spent' = 0
    /\ UNCHANGED <<clock, tokens, lastRefill, ready, buffered>>

RateNext ==
    \/ \E size \in 0..MaxFrame : Serve(size) \/ Refuse(size) \/ Push(size)
    \/ Drain \/ Closing \/ Tick \/ Observe

RateSpec == RateInit /\ [][RateNext]_rateVars

-----------------------------------------------------------------------------

\* Types of the variables.
RateTypeOK ==
    /\ clock \in Nat /\ lastRefill \in 0..clock /\ mark \in 0..clock
    /\ tokens \in 0..RateCap
    /\ ready \in BOOLEAN /\ buffered \in Nat /\ spent \in Nat

\* In no period, whenever it begins and ends, does a socket have more frames served than a
\* full bucket and the refill of that period pay for, however frames, refusals and pauses
\* alternate (lib/core/gateway.js:37-43, 99-103).
NoBurst == spent <= RateCap + (clock - mark)

\* What waits for a slow consumer stays below the limit and one frame
\* (lib/core/gateway.js:32-36).
BufferBounded == buffered <= MaxBackpressure + MaxFrame

\* The load that one socket causes is bounded, in frames served and in bytes kept.
LoadIsBounded == NoBurst /\ BufferBounded

=============================================================================
