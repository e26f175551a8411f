------------------------------ MODULE Connection ------------------------------
(***************************************************************************)
(* The connection of one client: WsClient (sockets, reconnect timers, the  *)
(* ping interval, the limit on refused tokens), what SyncClient does when  *)
(* its status changes (drain of the OutQueue, here with one message), and  *)
(* the server's handling of the first frames of a session, where the       *)
(* verification of the token is awaited while further frames are served.   *)
(*                                                                         *)
(* Frames of a socket are lost with it.  Frames other than HELLO, SEND and *)
(* their answers are left out, and so are the lengths of the delays.       *)
(***************************************************************************)
EXTENDS Integers, Sequences, FiniteSets

CONSTANTS
    AuthFailMax,   \* AUTH_FAIL_MAX
    Rejection,     \* the code of the ERR frame for a token that does not verify: "UNAUTH"
                   \* (lib/auth) or "other" (UserStore.verify throws what jose throws)
    MaxDrops,      \* bound of the model: connections the network ends
    MaxStale       \* bound of the model: tokens that do not verify

ASSUME ConnectionAssumption ==
    AuthFailMax \in Nat /\ Rejection \in {"UNAUTH", "other"} /\ MaxDrops \in Nat /\ MaxStale \in Nat

Sockets == 1..(MaxDrops + MaxStale + 1)

VARIABLES
    sock,       \* per socket: "none", "connecting", "open", "closing" or "closed"
    ws,         \* _ws: the last socket made, 0 if none
    opening,    \* sockets whose onopen awaits getToken
    timer,      \* reconnect timers that have not fired
    fast,       \* _fastReconnect
    authFails,  \* _authFailCount
    dead,       \* _dead
    pings,      \* ping intervals that run
    pingTimer,  \* _pingTimer refers to one of them
    queue,      \* the message: "new", "queued", or "gone" from the queue
    up,         \* frames from the client on the socket ws
    down,       \* frames to the client on the socket ws
    session,    \* the server's session of ws: "none", "verifying", "member" or "refused"
    token,      \* the token the session has been given
    drops, stale    \* connections cut, tokens that did not verify

client == <<fast, authFails, dead, pings, pingTimer>>
server == <<session, token>>
vars == <<sock, ws, opening, timer, client, queue, up, down, server, drops, stale>>

Init ==
    /\ sock = [s \in Sockets |-> "none"] /\ ws = 0 /\ opening = {} /\ timer = 0
    /\ fast = FALSE /\ authFails = 0 /\ dead = FALSE
    /\ pings = 0 /\ pingTimer = FALSE
    /\ queue = "new" /\ up = << >> /\ down = << >>
    /\ session = "none" /\ token = "none"
    /\ drops = 0 /\ stale = 0

IsOpen == ws # 0 /\ sock[ws] = "open"

\* WsClient.send: dropped unless the current socket is open.
Sent(frames) == up' = IF IsOpen THEN up \o frames ELSE up

\* _stopPing
StopPing ==
    /\ pings' = IF pingTimer THEN pings - 1 ELSE pings
    /\ pingTimer' = FALSE

-----------------------------------------------------------------------------
(***************************************************************************)
(* The client                                                              *)
(***************************************************************************)

\* connect(): a new socket takes the place of _ws.
Connect ==
    IF dead THEN UNCHANGED <<sock, ws, up, down, server>>
    ELSE /\ ws' = ws + 1
         /\ sock' = [sock EXCEPT ![ws + 1] = "connecting"]
         /\ up' = << >> /\ down' = << >> /\ session' = "none" /\ token' = "none"

\* SyncClient.start
Start ==
    /\ ws = 0 /\ ~dead
    /\ Connect
    /\ UNCHANGED <<opening, timer, client, queue, drops, stale>>

TimerFires ==
    /\ timer > 0 /\ ws < Cardinality(Sockets)
    /\ timer' = timer - 1
    /\ Connect
    /\ UNCHANGED <<opening, client, queue, drops, stale>>

\* sendMessage: into the queue, and onto the socket if it is open.
SendMessage ==
    /\ queue = "new" /\ ~dead
    /\ queue' = "queued"
    /\ Sent(<< <<"SEND">> >>)
    /\ UNCHANGED <<sock, ws, opening, timer, client, down, server, drops, stale>>

\* onopen, to its await; a client that has been destroyed closes the socket instead.
Open(s) ==
    /\ sock[s] = "connecting"
    /\ sock' = [sock EXCEPT ![s] = IF dead THEN "closing" ELSE "open"]
    /\ opening' = IF dead THEN opening ELSE opening \cup {s}
    /\ authFails' = IF dead THEN authFails ELSE 0
    /\ UNCHANGED <<ws, timer, fast, dead, pings, pingTimer, queue, up, down, server, drops, stale>>

\* getToken answers: HELLO on the socket of this onopen, an interval, status "open"; the
\* queue is drained onto the current socket, whichever it is by now.
TokenComes(s, tok) ==
    /\ s \in opening
    /\ tok = "stale" => stale < MaxStale
    /\ stale' = IF tok = "stale" THEN stale + 1 ELSE stale
    /\ opening' = opening \ {s}
    /\ pings' = pings + 1 /\ pingTimer' = TRUE
    /\ LET hello == IF s = ws THEN << <<"HELLO", tok>> >> ELSE << >>
           drained == IF queue = "queued" THEN << <<"SEND">> >> ELSE << >>
       IN Sent(hello \o drained)
    /\ UNCHANGED <<sock, ws, timer, fast, authFails, dead, queue, down, server, drops>>

\* Mutant of Close: after reconnect() the timer is forgotten.
CloseUnlessFast(s) ==
    /\ sock[s] = "closing"
    /\ sock' = [sock EXCEPT ![s] = "closed"]
    /\ StopPing
    /\ timer' = IF dead \/ fast THEN timer ELSE timer + 1
    /\ fast' = FALSE
    /\ up' = << >> /\ down' = << >>
    /\ UNCHANGED <<ws, opening, authFails, dead, queue, server, drops, stale>>

\* onclose: with the short delay or the long one, a timer connects again.
Close(s) ==
    /\ sock[s] = "closing"
    /\ sock' = [sock EXCEPT ![s] = "closed"]
    /\ StopPing
    /\ timer' = IF dead THEN timer ELSE timer + 1
    /\ fast' = IF dead THEN fast ELSE FALSE
    /\ up' = << >> /\ down' = << >>
    /\ UNCHANGED <<ws, opening, authFails, dead, queue, server, drops, stale>>

\* Mutant of Refused: it connects at once and does not wait for onclose.
RefusedAtOnce ==
    /\ authFails' = authFails + 1 /\ fast' = TRUE /\ dead' = FALSE
    /\ ws' = ws + 1
    /\ sock' = [sock EXCEPT ![ws] = "closing", ![ws + 1] = "connecting"]

\* notifyAuthFailed: reconnect(), or the end.
Refused ==
    /\ authFails' = authFails + 1
    /\ IF authFails < AuthFailMax THEN fast' = TRUE /\ dead' = dead
                                  ELSE fast' = fast /\ dead' = TRUE
    /\ ws' = ws
    /\ sock' = [sock EXCEPT ![ws] = "closing"]

\* The answer to a refused HELLO.
ReceiveErr ==
    /\ IsOpen /\ down # << >> /\ Head(down) = <<"ERR", Rejection>>
    /\ down' = Tail(down)
    /\ IF Rejection = "UNAUTH" THEN Refused ELSE UNCHANGED <<authFails, fast, dead, ws, sock>>
    /\ UNCHANGED <<opening, timer, pings, pingTimer, queue, up, server, drops, stale>>

\* WELCOME; ACK takes the message out of the queue; NOT_MEMBER is shown and no more.
Receive ==
    /\ IsOpen /\ down # << >> /\ Head(down) # <<"ERR", Rejection>>
    /\ down' = Tail(down)
    /\ queue' = IF Head(down) = <<"ACK">> THEN "gone" ELSE queue
    /\ UNCHANGED <<sock, ws, opening, timer, client, up, server, drops, stale>>

\* SyncClient.destroy
Destroy ==
    /\ ~dead
    /\ dead' = TRUE
    /\ StopPing
    /\ queue' = "gone"
    /\ sock' = IF IsOpen THEN [sock EXCEPT ![ws] = "closing"] ELSE sock
    /\ UNCHANGED <<ws, opening, timer, fast, authFails, up, down, server, drops, stale>>

\* The network or the server ends the connection, or it is not made.
Drop ==
    /\ drops < MaxDrops /\ ws # 0 /\ sock[ws] \in {"connecting", "open"}
    /\ drops' = drops + 1
    /\ sock' = [sock EXCEPT ![ws] = "closing"]
    /\ UNCHANGED <<ws, opening, timer, client, queue, up, down, server, stale>>

-----------------------------------------------------------------------------
(***************************************************************************)
(* The server's session                                                    *)
(***************************************************************************)

Answered(frame) == down' = IF IsOpen THEN Append(down, frame) ELSE down

\* _onHello, to the await of `auth`; the next frame is served meanwhile.
ServeHello ==
    /\ IsOpen /\ up # << >> /\ Head(up)[1] = "HELLO"
    /\ up' = Tail(up)
    /\ session' = "verifying" /\ token' = Head(up)[2]
    /\ UNCHANGED <<sock, ws, opening, timer, client, queue, down, drops, stale>>

\* The session gets its userId and WELCOME is sent; or an ERR, and the socket stays open.
Verify ==
    /\ IsOpen /\ session = "verifying"
    /\ session' = IF token = "good" THEN "member" ELSE "refused"
    /\ Answered(IF token = "good" THEN <<"WELCOME">> ELSE <<"ERR", Rejection>>)
    /\ UNCHANGED <<sock, ws, opening, timer, client, queue, up, token, drops, stale>>

\* _onSend: requireMember refuses a session without a userId.
ServeSend ==
    /\ IsOpen /\ up # << >> /\ Head(up)[1] = "SEND"
    /\ up' = Tail(up)
    /\ Answered(IF session = "member" THEN <<"ACK">> ELSE <<"ERR", "NOT_MEMBER">>)
    /\ UNCHANGED <<sock, ws, opening, timer, client, queue, server, drops, stale>>

-----------------------------------------------------------------------------
TokenArrives == \E s \in Sockets, tok \in {"good", "stale"} : TokenComes(s, tok)
Opens == \E s \in Sockets : Open(s)
Closes == \E s \in Sockets : Close(s)
Serve == ServeHello \/ Verify \/ ServeSend
Hear == Receive \/ ReceiveErr

Next ==
    \/ Start \/ SendMessage \/ TimerFires \/ Opens \/ TokenArrives \/ Closes \/ Hear
    \/ Destroy \/ Drop
    \/ Serve

Spec == Init /\ [][Next]_vars

\* Timers fire, sockets that are not cut off open and close, promises are settled and
\* frames on an open socket are served in their turn.
FairSpec ==
    /\ Spec
    /\ WF_vars(Start) /\ WF_vars(TimerFires) /\ WF_vars(Opens) /\ WF_vars(TokenArrives)
    /\ WF_vars(Closes) /\ WF_vars(Hear) /\ WF_vars(Verify) /\ WF_vars(ServeHello \/ ServeSend)

-----------------------------------------------------------------------------
(***************************************************************************)
(* Properties                                                              *)
(***************************************************************************)

Live(s) == sock[s] \in {"connecting", "open", "closing"}

\* Types; a session is a member's only if its token verified.
TypeOK ==
    /\ sock \in [Sockets -> {"none", "connecting", "open", "closing", "closed"}]
    /\ ws \in 0..Cardinality(Sockets) /\ opening \subseteq Sockets
    /\ timer \in Nat /\ authFails \in Nat /\ pings \in Nat
    /\ fast \in BOOLEAN /\ dead \in BOOLEAN /\ pingTimer \in BOOLEAN
    /\ queue \in {"new", "queued", "gone"}
    /\ session \in {"none", "verifying", "member", "refused"}
    /\ session = "member" => token = "good"

\* However drops, refused tokens and destroy() fall together, the client has one socket
\* or one timer that will make one, never two (WsClient.js:59-90, 96-107).
OneConnection == Cardinality({s \in Sockets : Live(s)}) + timer <= 1

\* CLIENT_SDK_PLAN.md:646: "Token refresh | expire token | reconnect attempt | Re-issues
\* token, reconnects": a client that has been started and is not destroyed ends up with
\* a session, once the network holds and the tokens are good.
ComesBack == <>[](ws > 0 => dead \/ (session = "member" /\ sock[ws] = "open"))

=============================================================================
