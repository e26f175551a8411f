----------------------------- MODULE Client_proofs -----------------------------
(***************************************************************************)
(* The client.  WsClient never has two connections, whatever is cut,       *)
(* refused or destroyed and in what order: every socket but the last one   *)
(* made is closed or not made yet, and a timer runs only after the last    *)
(* one closed.                                                             *)
(*                                                                         *)
(* What the browser keeps: there is no hole under the cursor of a HELLO as *)
(* long as the database is whole, which is to say that what it has and     *)
(* what is being written names no message that neither has; and without    *)
(* encryption the last write of a message is the one that counts.          *)
(***************************************************************************)
EXTENDS Connection, Persistence, FiniteSetTheorems, TLAPS

-----------------------------------------------------------------------------
(* The connection (WsClient.js).                                           *)

\* The sockets made before the last one have closed, those after it are not made yet.
OthersAreOver ==
    \A s \in Sockets : /\ s < ws => sock[s] = "closed"
                       /\ s > ws => sock[s] = "none"
                       /\ s = ws => sock[s] # "none"

\* A reconnect timer is the only one, and the last socket has closed.
TimerReplaces == timer \in {0, 1} /\ (timer = 1 => ws \in Sockets /\ sock[ws] = "closed")

\* _pingTimer refers to an interval that runs.
PingRuns == pingTimer => pings > 0

ConnectionInv == TypeOK /\ OthersAreOver /\ TimerReplaces /\ PingRuns

-----------------------------------------------------------------------------
(* How many sockets a model has.                                           *)

LEMMA SocketsCounted ==
    /\ MaxDrops \in Nat /\ MaxStale \in Nat /\ AuthFailMax \in Nat
    /\ IsFiniteSet(Sockets) /\ Cardinality(Sockets) = MaxDrops + MaxStale + 1
  <1>1. MaxDrops \in Nat /\ MaxStale \in Nat /\ AuthFailMax \in Nat
    BY ConnectionAssumption
  <1>2. 1 \in Int /\ MaxDrops + MaxStale + 1 \in Int /\ ~(1 > MaxDrops + MaxStale + 1)
    BY <1>1
  <1> QED  BY <1>1, <1>2, FS_Interval DEF Sockets

LEMMA SocketNumbers ==
    ASSUME NEW n \in 0..Cardinality(Sockets)
    PROVE  /\ n # 0 => n \in Sockets
           /\ n < Cardinality(Sockets) => n + 1 \in Sockets /\ n + 1 \in 0..Cardinality(Sockets)
  BY SocketsCounted DEF Sockets

LEMMA InitInv == Init => ConnectionInv
  <1> SUFFICES ASSUME Init  PROVE ConnectionInv
    OBVIOUS
  <1>1. 0 \in 0..Cardinality(Sockets)
    BY SocketsCounted
  <1>2. TypeOK
    BY <1>1 DEF Init, TypeOK
  <1>3. \A s \in Sockets : s \in Nat /\ s > 0
    BY SocketsCounted DEF Sockets
  <1>4. OthersAreOver
    BY <1>3 DEF Init, OthersAreOver
  <1> QED  BY <1>2, <1>4 DEF Init, ConnectionInv, TimerReplaces, PingRuns

-----------------------------------------------------------------------------
(* connect(): allowed when no socket is left.                              *)

LEMMA ConnectKeeps ==
    ASSUME ConnectionInv, Connect, ws < Cardinality(Sockets),
           ws = 0 \/ (ws \in Sockets /\ sock[ws] = "closed")
    PROVE  /\ sock' \in [Sockets -> {"none", "connecting", "open", "closing", "closed"}]
           /\ ws' \in 0..Cardinality(Sockets) /\ OthersAreOver'
           /\ session' \in {"none", "verifying", "member", "refused"}
           /\ session' = "member" => token' = "good"
  <1>1. CASE dead
    BY <1>1 DEF Connect, ConnectionInv, TypeOK, OthersAreOver, server
  <1>2. CASE ~dead
    <2>1. /\ ws' = ws + 1 /\ sock' = [sock EXCEPT ![ws + 1] = "connecting"]
          /\ session' = "none"
      BY <1>2 DEF Connect
    <2>2. ws + 1 \in Sockets /\ ws + 1 \in 0..Cardinality(Sockets)
      BY SocketNumbers DEF ConnectionInv, TypeOK
    <2>3. sock' \in [Sockets -> {"none", "connecting", "open", "closing", "closed"}]
      BY <2>1 DEF ConnectionInv, TypeOK
    <2>4. \A s \in Sockets : s \in Nat /\ s > 0
      BY SocketsCounted DEF Sockets
    <2>5. OthersAreOver'
      <3>1. ws \in Nat
        BY SocketsCounted DEF ConnectionInv, TypeOK
      <3>2. ASSUME NEW s \in Sockets
            PROVE  /\ s < ws + 1 => sock'[s] = "closed"
                   /\ s > ws + 1 => sock'[s] = "none"
                   /\ s = ws + 1 => sock'[s] # "none"
        <4>1. sock'[s] = IF s = ws + 1 THEN "connecting" ELSE sock[s]
          BY <2>1, <2>2 DEF ConnectionInv, TypeOK
        <4>2. s = ws => sock[s] = "closed"
          BY <2>4, <3>1
        <4>3. s < ws => sock[s] = "closed"
          BY DEF ConnectionInv, OthersAreOver
        <4>4. s > ws => sock[s] = "none"
          BY DEF ConnectionInv, OthersAreOver
        <4> QED  BY <2>4, <3>1, <4>1, <4>2, <4>3, <4>4
      <3> QED  BY <2>1, <3>2 DEF OthersAreOver
    <2> QED  BY <2>1, <2>2, <2>3, <2>5
  <1> QED  BY <1>1, <1>2

(* What changes the state of the last socket only, and does not unmake it. *)

LEMMA LastSocketOnly ==
    ASSUME ConnectionInv, ws' = ws, ws \in Sockets,
           NEW st \in {"connecting", "open", "closing", "closed"},
           sock' = [sock EXCEPT ![ws] = st]
    PROVE  /\ sock' \in [Sockets -> {"none", "connecting", "open", "closing", "closed"}]
           /\ OthersAreOver' /\ sock'[ws] = st
  <1>1. \A s \in Sockets : s \in Nat
    BY SocketsCounted DEF Sockets
  <1> QED  BY <1>1 DEF ConnectionInv, TypeOK, OthersAreOver

(* A socket that is neither over nor to come is the last one made.         *)

LEMMA LiveIsLast ==
    ASSUME ConnectionInv, NEW s \in Sockets, Live(s)
    PROVE  s = ws /\ timer = 0
  <1>1. s \in Nat /\ ws \in Nat
    BY SocketsCounted DEF Sockets, ConnectionInv, TypeOK
  <1>2. ~(s < ws) /\ ~(s > ws)
    BY DEF ConnectionInv, OthersAreOver, Live
  <1>3. s = ws
    BY <1>1, <1>2
  <1> QED  BY <1>3 DEF ConnectionInv, TimerReplaces, Live

LEMMA StopPingKeeps ==
    ASSUME ConnectionInv, StopPing
    PROVE  pings' \in Nat /\ pingTimer' = FALSE
  BY DEF ConnectionInv, TypeOK, PingRuns, StopPing

-----------------------------------------------------------------------------
(* One lemma for each group of steps.                                      *)

LEMMA ConnectSteps == ConnectionInv /\ (Start \/ TimerFires) => ConnectionInv'
  <1> SUFFICES ASSUME ConnectionInv, Start \/ TimerFires  PROVE ConnectionInv'
    OBVIOUS
  <1>1. CASE Start
    <2>1. ws = 0 /\ Connect /\ ws < Cardinality(Sockets) /\ timer = 0 /\ timer' = timer
      BY <1>1, SocketsCounted DEF Start, ConnectionInv, TimerReplaces, Sockets
    <2>2. /\ sock' \in [Sockets -> {"none", "connecting", "open", "closing", "closed"}]
          /\ ws' \in 0..Cardinality(Sockets) /\ OthersAreOver'
          /\ session' \in {"none", "verifying", "member", "refused"}
          /\ session' = "member" => token' = "good"
      BY <2>1, ConnectKeeps
    <2>3. TypeOK'
      BY <1>1, <2>1, <2>2 DEF Start, ConnectionInv, TypeOK, client
    <2>4. PingRuns'
      BY <1>1 DEF Start, client, ConnectionInv, PingRuns
    <2> QED  BY <2>1, <2>2, <2>3, <2>4 DEF ConnectionInv, TimerReplaces
  <1>2. CASE TimerFires
    <2>1. /\ Connect /\ ws < Cardinality(Sockets) /\ timer = 1 /\ timer' = 0
          /\ ws \in Sockets /\ sock[ws] = "closed"
      BY <1>2 DEF TimerFires, ConnectionInv, TimerReplaces
    <2>2. /\ sock' \in [Sockets -> {"none", "connecting", "open", "closing", "closed"}]
          /\ ws' \in 0..Cardinality(Sockets) /\ OthersAreOver'
          /\ session' \in {"none", "verifying", "member", "refused"}
          /\ session' = "member" => token' = "good"
      BY <2>1, ConnectKeeps
    <2>3. TypeOK'
      BY <1>2, <2>1, <2>2 DEF TimerFires, ConnectionInv, TypeOK, client
    <2>4. PingRuns'
      BY <1>2 DEF TimerFires, client, ConnectionInv, PingRuns
    <2> QED  BY <2>1, <2>2, <2>3, <2>4 DEF ConnectionInv, TimerReplaces
  <1> QED  BY <1>1, <1>2

LEMMA OpenSteps == ConnectionInv /\ (Opens \/ TokenArrives) => ConnectionInv'
  <1> SUFFICES ASSUME ConnectionInv, Opens \/ TokenArrives  PROVE ConnectionInv'
    OBVIOUS
  <1>1. ASSUME NEW s \in Sockets, Open(s)  PROVE ConnectionInv'
    <2>1. Live(s)
      BY <1>1 DEF Open, Live
    <2>2. s = ws /\ timer = 0 /\ ws \in Sockets /\ ws' = ws /\ timer' = timer
      BY <1>1, <2>1, LiveIsLast DEF Open
    <2>3. PICK st \in {"connecting", "open", "closing", "closed"} :
              sock' = [sock EXCEPT ![ws] = st]
      BY <1>1, <2>2 DEF Open
    <2>4. /\ sock' \in [Sockets -> {"none", "connecting", "open", "closing", "closed"}]
          /\ OthersAreOver'
      BY <2>2, <2>3, LastSocketOnly
    <2>5. TypeOK'
      BY <1>1, <2>2, <2>4 DEF Open, ConnectionInv, TypeOK, server
    <2>6. PingRuns'
      BY <1>1 DEF Open, ConnectionInv, PingRuns
    <2> QED  BY <2>2, <2>4, <2>5, <2>6 DEF ConnectionInv, TimerReplaces
  <1>2. ASSUME NEW s \in Sockets, NEW tok \in {"good", "stale"}, TokenComes(s, tok)
        PROVE  ConnectionInv'
    <2>1. /\ UNCHANGED <<sock, ws, timer, fast, authFails, dead, queue, session, token>>
          /\ opening' \subseteq opening /\ pings' = pings + 1 /\ pingTimer' = TRUE
      BY <1>2 DEF TokenComes, server
    <2>2. TypeOK'
      BY <2>1 DEF ConnectionInv, TypeOK
    <2> QED  BY <2>1, <2>2 DEF ConnectionInv, TypeOK, OthersAreOver, TimerReplaces, PingRuns
  <1> QED  BY <1>1, <1>2 DEF Opens, TokenArrives

LEMMA CloseSteps == ConnectionInv /\ Closes => ConnectionInv'
  <1> SUFFICES ASSUME ConnectionInv, NEW s \in Sockets, Close(s)  PROVE ConnectionInv'
    BY DEF Closes
  <1>1. Live(s)
    BY DEF Close, Live
  <1>2. s = ws /\ timer = 0 /\ ws \in Sockets /\ ws' = ws
    BY <1>1, LiveIsLast DEF Close
  <1>3. sock' = [sock EXCEPT ![ws] = "closed"]
    BY <1>2 DEF Close
  <1>4. /\ sock' \in [Sockets -> {"none", "connecting", "open", "closing", "closed"}]
        /\ OthersAreOver' /\ sock'[ws] = "closed"
    BY <1>2, <1>3, LastSocketOnly
  <1>5. pings' \in Nat /\ pingTimer' = FALSE
    BY StopPingKeeps DEF Close
  <1>6. timer' \in {0, 1}
    BY <1>2 DEF Close
  <1>7. fast' \in BOOLEAN
    <2>1. fast \in BOOLEAN /\ fast' = IF dead THEN fast ELSE FALSE
      BY DEF Close, ConnectionInv, TypeOK
    <2> QED  BY <2>1, Zenon
  <1>8. TypeOK'
    <2>1. UNCHANGED <<ws, opening, authFails, dead, queue, session, token>>
      BY DEF Close, server
    <2>2. timer' \in Nat
      BY <1>6
    <2>3. pingTimer' \in BOOLEAN
      BY <1>5, Zenon
    <2> QED  BY <1>4, <1>5, <1>7, <2>1, <2>2, <2>3 DEF ConnectionInv, TypeOK
  <1> QED  BY <1>2, <1>4, <1>5, <1>6, <1>8 DEF ConnectionInv, TimerReplaces, PingRuns

LEMMA HearSteps == ConnectionInv /\ Hear => ConnectionInv'
  <1> SUFFICES ASSUME ConnectionInv, Hear  PROVE ConnectionInv'
    OBVIOUS
  <1>1. CASE Receive
    <2>1. /\ UNCHANGED <<sock, ws, opening, timer, fast, authFails, dead, pings, pingTimer,
                         session, token>>
          /\ queue' \in {queue, "gone"}
      BY <1>1 DEF Receive, client, server
    <2> QED  BY <2>1 DEF ConnectionInv, TypeOK, OthersAreOver, TimerReplaces, PingRuns
  <1>2. CASE ReceiveErr /\ Rejection # "UNAUTH"
    BY <1>2 DEF ReceiveErr, server, ConnectionInv, TypeOK, OthersAreOver, TimerReplaces,
                PingRuns
  <1>3. CASE ReceiveErr /\ Rejection = "UNAUTH"
    <2>1. ws \in Sockets /\ Live(ws)
      BY <1>3, SocketNumbers DEF ReceiveErr, IsOpen, Live, ConnectionInv, TypeOK
    <2>2. timer = 0 /\ timer' = timer /\ ws' = ws /\ sock' = [sock EXCEPT ![ws] = "closing"]
      BY <1>3, <2>1, LiveIsLast DEF ReceiveErr, Refused
    <2>3. /\ sock' \in [Sockets -> {"none", "connecting", "open", "closing", "closed"}]
          /\ OthersAreOver'
      BY <2>1, <2>2, LastSocketOnly
    <2>4. authFails' \in Nat /\ fast' \in BOOLEAN /\ dead' \in BOOLEAN
      <3>1. fast \in BOOLEAN /\ dead \in BOOLEAN /\ authFails \in Nat
        BY DEF ConnectionInv, TypeOK
      <3>2. authFails' = authFails + 1
        BY <1>3 DEF ReceiveErr, Refused
      <3>3. (fast' = TRUE /\ dead' = dead) \/ (fast' = fast /\ dead' = TRUE)
        BY <1>3, Zenon DEF ReceiveErr, Refused
      <3>4. fast' \in BOOLEAN /\ dead' \in BOOLEAN
        BY <3>1, <3>3, Zenon
      <3> QED  BY <3>1, <3>2, <3>4
    <2>5. TypeOK'
      BY <1>3, <2>2, <2>3, <2>4 DEF ReceiveErr, ConnectionInv, TypeOK, server
    <2>6. PingRuns'
      BY <1>3 DEF ReceiveErr, ConnectionInv, PingRuns
    <2> QED  BY <2>2, <2>3, <2>5, <2>6 DEF ConnectionInv, TimerReplaces
  <1> QED  BY <1>1, <1>2, <1>3 DEF Hear

LEMMA EndSteps == ConnectionInv /\ (Destroy \/ Drop) => ConnectionInv'
  <1> SUFFICES ASSUME ConnectionInv, Destroy \/ Drop  PROVE ConnectionInv'
    OBVIOUS
  <1>1. CASE Destroy /\ ~IsOpen
    <2>1. pings' \in Nat /\ pingTimer' = FALSE
      BY <1>1, StopPingKeeps DEF Destroy
    <2>2. /\ UNCHANGED <<sock, ws, opening, timer, fast, authFails, session, token>>
          /\ queue' = "gone" /\ dead' = TRUE
      BY <1>1 DEF Destroy, server
    <2> QED  BY <2>1, <2>2 DEF ConnectionInv, TypeOK, OthersAreOver, TimerReplaces, PingRuns
  <1>2. CASE Destroy /\ IsOpen
    <2>1. ws \in Sockets /\ Live(ws)
      BY <1>2, SocketNumbers DEF IsOpen, Live, ConnectionInv, TypeOK
    <2>2. timer = 0 /\ timer' = timer /\ ws' = ws /\ sock' = [sock EXCEPT ![ws] = "closing"]
      BY <1>2, <2>1, LiveIsLast DEF Destroy
    <2>3. /\ sock' \in [Sockets -> {"none", "connecting", "open", "closing", "closed"}]
          /\ OthersAreOver'
      BY <2>1, <2>2, LastSocketOnly
    <2>4. pings' \in Nat /\ pingTimer' = FALSE
      BY <1>2, StopPingKeeps DEF Destroy
    <2>5. TypeOK'
      BY <1>2, <2>2, <2>3, <2>4 DEF Destroy, ConnectionInv, TypeOK, server
    <2> QED  BY <2>2, <2>3, <2>4, <2>5 DEF ConnectionInv, TimerReplaces, PingRuns
  <1>3. CASE Drop
    <2>1. ws \in Sockets /\ Live(ws)
      BY <1>3, SocketNumbers DEF Drop, Live, ConnectionInv, TypeOK
    <2>2. timer = 0 /\ timer' = timer /\ ws' = ws /\ sock' = [sock EXCEPT ![ws] = "closing"]
      BY <1>3, <2>1, LiveIsLast DEF Drop
    <2>3. /\ sock' \in [Sockets -> {"none", "connecting", "open", "closing", "closed"}]
          /\ OthersAreOver'
      BY <2>1, <2>2, LastSocketOnly
    <2>4. TypeOK'
      BY <1>3, <2>2, <2>3 DEF Drop, ConnectionInv, TypeOK, client, server
    <2>5. PingRuns'
      BY <1>3 DEF Drop, client, ConnectionInv, PingRuns
    <2> QED  BY <2>2, <2>3, <2>4, <2>5 DEF ConnectionInv, TimerReplaces
  <1> QED  BY <1>1, <1>2, <1>3

\* Only a token that verified makes a member of a session.
LEMMA ServerSteps == ConnectionInv /\ (Serve \/ SendMessage) => ConnectionInv'
  <1> SUFFICES ASSUME ConnectionInv, Serve \/ SendMessage  PROVE ConnectionInv'
    OBVIOUS
  <1>1. UNCHANGED <<sock, ws, opening, timer, fast, authFails, dead, pings, pingTimer>>
    BY DEF Serve, ServeHello, Verify, ServeSend, SendMessage, client
  <1>2. /\ queue' \in {queue, "queued"}
        /\ session' \in {"none", "verifying", "member", "refused"}
        /\ session' = "member" => token' = "good"
    <2>1. CASE ServeHello
      BY <2>1 DEF ServeHello
    <2>2. CASE Verify
      BY <2>2 DEF Verify
    <2>3. CASE ServeSend \/ SendMessage
      BY <2>3 DEF ServeSend, SendMessage, server, ConnectionInv, TypeOK
    <2> QED  BY <2>1, <2>2, <2>3 DEF Serve
  <1> QED  BY <1>1, <1>2 DEF ConnectionInv, TypeOK, OthersAreOver, TimerReplaces, PingRuns

LEMMA StepInv == ConnectionInv /\ [Next]_vars => ConnectionInv'
  <1> SUFFICES ASSUME ConnectionInv, [Next]_vars  PROVE ConnectionInv'
    OBVIOUS
  <1>1. CASE UNCHANGED vars
    BY <1>1 DEF vars, client, server, ConnectionInv, TypeOK, OthersAreOver, TimerReplaces,
                PingRuns
  <1>2. CASE Next
    BY <1>2, ConnectSteps, OpenSteps, CloseSteps, HearSteps, EndSteps, ServerSteps DEF Next
  <1> QED  BY <1>1, <1>2

-----------------------------------------------------------------------------
(* The theorems.                                                           *)

\* The inductive invariant holds of every behaviour of the connection.
THEOREM Invariance == Spec => []ConnectionInv
  BY InitInv, StepInv, PTL DEF Spec

\* Types; a session that HELLO made a member's has a token that verified
\* (gateway.js:88-120).
THEOREM TypeCorrect == Spec => []TypeOK
  <1>1. ConnectionInv => TypeOK
    BY DEF ConnectionInv
  <1> QED  BY <1>1, Invariance, PTL

\* One socket or one timer that will make one, never two, with any limit of refusals and
\* any number of cut connections and stale tokens (WsClient.js:59-90, 96-107).
THEOREM NeverTwoConnections == Spec => []OneConnection
  <1>1. ConnectionInv => OneConnection
    <2> SUFFICES ASSUME ConnectionInv  PROVE OneConnection
      OBVIOUS
    <2> DEFINE alive == {s \in Sockets : Live(s)}
    <2>1. CASE alive = {}
      <3>1. Cardinality(alive) = 0
        BY <2>1, FS_EmptySet
      <3> QED  BY <3>1 DEF ConnectionInv, TimerReplaces, OneConnection
    <2>2. CASE alive # {}
      <3>1. alive = {ws} /\ timer = 0
        BY <2>2, LiveIsLast
      <3>2. Cardinality(alive) = 1
        BY <3>1, FS_Singleton
      <3> QED  BY <3>1, <3>2 DEF OneConnection
    <2> QED  BY <2>1, <2>2
  <1> QED  BY <1>1, Invariance, PTL

-----------------------------------------------------------------------------
(* What the browser keeps (IdbStore.js).                                   *)

\* A message that is in the database or on its way there.
Kept == DOMAIN messages \cup {puts[i].n : i \in {j \in DOMAIN puts : puts[j].store = "messages"}}

Covered(n) == 1..n \subseteq Kept

\* All that is written is under the key of account a.
OneKey(a) ==
    /\ \A n \in DOMAIN messages : messages[n].key = KeyOf(a)
    /\ conv # NoConv => conv.key = KeyOf(a)
    /\ \A i \in DOMAIN puts : puts[i].store # "cursors" => puts[i].value.key = KeyOf(a)

\* An intact database has no hole, neither below a message nor below a number that a load
\* can take for lastSeq.
NoneMissing ==
    /\ \A n \in Kept : Covered(n)
    /\ Covered(cursor) /\ Covered(conv.lastSeq)
    /\ \A i \in DOMAIN puts :
          /\ puts[i].store = "cursors" => Covered(puts[i].n)
          /\ puts[i].store = "conversations" => Covered(puts[i].value.lastSeq)

\* A session shows what is written; between two sessions one user's data are complete.
InStep ==
    /\ conv = NoConv => Kept = {} \/ \E i \in DOMAIN puts : puts[i].store = "conversations"
    /\ IF user = NoUser THEN puts = << >> /\ \E a \in Accounts \cup {NoUser} : OneKey(a)
       ELSE OneKey(user) /\ DOMAIN screen = Kept /\ Covered(reached)

WholeDisk == intact => version = 5 /\ NoneMissing /\ InStep

Concerns(w, n) == w.store = "messages" /\ w.n = n

\* The record of message n has, or will have, v patches: the last write of it has as many,
\* without one the database has.
Current(n, v) ==
    /\ \A i \in DOMAIN puts :
          Concerns(puts[i], n) /\ (\A j \in DOMAIN puts : Concerns(puts[j], n) => j <= i)
              => puts[i].value.patches = v
    /\ (\A i \in DOMAIN puts : ~Concerns(puts[i], n))
          => n \in DOMAIN messages /\ messages[n].patches = v

\* The writes new bring the record of message n to v patches.
Renews(new, n, v) ==
    /\ \E i \in 1..Len(new) : Concerns(new[i], n)
    /\ \A i \in 1..Len(new) : Concerns(new[i], n) => new[i].value.patches = v

UpToDate == user # NoUser /\ ~encrypts => \A n \in DOMAIN screen : Current(n, screen[n])

-----------------------------------------------------------------------------
(* Sequences.                                                              *)

LEMMA Removed ==
    ASSUME NEW S, NEW s \in Seq(S), NEW i \in 1..Len(s)
    PROVE  /\ RemoveAt(s, i) \in Seq(S) /\ Len(RemoveAt(s, i)) = Len(s) - 1
           /\ \A j \in 1..(Len(s) - 1) : RemoveAt(s, i)[j] = IF j < i THEN s[j] ELSE s[j + 1]
  <1> DEFINE a == SubSeq(s, 1, i - 1)
             b == SubSeq(s, i + 1, Len(s))
  <1>1. Len(s) \in Nat /\ i \in Nat /\ 1 <= i /\ i <= Len(s)
    OBVIOUS
  <1>2. a \in Seq(S) /\ Len(a) = i - 1 /\ \A j \in 1..(i - 1) : a[j] = s[j]
    <2>1. \A j \in 1..(i - 1) : j \in 1..Len(s)
      BY <1>1
    <2>2. /\ Len(a) = i - 1 /\ \A j \in 1..(i - 1) : a[j] = s[j]
      BY <1>1
    <2>3. a \in Seq(S)
      BY <1>1, <2>1
    <2> QED  BY <2>2, <2>3
  <1>3. b \in Seq(S) /\ Len(b) = Len(s) - i /\ \A j \in 1..(Len(s) - i) : b[j] = s[j + i]
    <2>1. /\ Len(b) = Len(s) - i /\ \A j \in 1..(Len(s) - i) : b[j] = s[j + i]
      BY <1>1
    <2>2. b \in Seq(S)
      BY <1>1
    <2> QED  BY <2>1, <2>2
  <1>4. RemoveAt(s, i) = a \o b
    BY DEF RemoveAt
  <1> HIDE DEF a, b
  <1>5. a \o b \in Seq(S) /\ Len(a \o b) = Len(s) - 1
    <2>1. a \o b \in Seq(S) /\ Len(a \o b) = Len(a) + Len(b)
      <3>1. a \in Seq(S) /\ b \in Seq(S)
        BY <1>2, <1>3
      <3> QED  BY ONLY <3>1
    <2>2. Len(a) + Len(b) = Len(s) - 1
      BY <1>1, <1>2, <1>3
    <2> QED  BY <2>1, <2>2
  <1>6. ASSUME NEW j \in 1..(Len(s) - 1)  PROVE (a \o b)[j] = IF j < i THEN s[j] ELSE s[j + 1]
    <2>1. CASE j < i
      BY <1>1, <1>2, <1>3, <2>1
    <2>2. CASE ~(j < i)
      <3>1. (a \o b)[j] = b[j - (i - 1)] /\ j - (i - 1) \in 1..(Len(s) - i)
        BY <1>1, <1>2, <1>3, <2>2
      <3>2. (j - (i - 1)) + i = j + 1
        BY <1>1
      <3> QED  BY <1>3, <2>2, <3>1, <3>2
    <2> QED  BY <2>1, <2>2
  <1> QED  BY <1>4, <1>5, <1>6

\* t is s without its element i.
Without(s, i, t) ==
    /\ DOMAIN t = 1..(Len(s) - 1)
    /\ \A j \in 1..(Len(s) - 1) :
          LET k == IF j < i THEN j ELSE j + 1
          IN  k \in 1..Len(s) /\ k # i /\ t[j] = s[k]
    /\ \A k \in 1..Len(s) : k # i =>
          LET j == IF k < i THEN k ELSE k - 1
          IN  j \in 1..(Len(s) - 1) /\ t[j] = s[k]

\* What a removal leaves, and in which order.
LEMMA Left ==
    ASSUME NEW S, NEW s \in Seq(S), NEW i \in 1..Len(s)
    PROVE  RemoveAt(s, i) \in Seq(S) /\ Without(s, i, RemoveAt(s, i))
  <1>1. /\ RemoveAt(s, i) \in Seq(S) /\ Len(RemoveAt(s, i)) = Len(s) - 1
        /\ \A j \in 1..(Len(s) - 1) : RemoveAt(s, i)[j] = IF j < i THEN s[j] ELSE s[j + 1]
    BY Removed
  <1>2. Len(s) \in Nat /\ i \in Nat
    OBVIOUS
  <1>3. DOMAIN RemoveAt(s, i) = 1..(Len(s) - 1)
    BY <1>1
  <1> HIDE DEF RemoveAt
  <1>4. ASSUME NEW j \in 1..(Len(s) - 1)
        PROVE  LET k == IF j < i THEN j ELSE j + 1
               IN  k \in 1..Len(s) /\ k # i /\ RemoveAt(s, i)[j] = s[k]
    BY <1>1, <1>2
  <1>5. ASSUME NEW k \in 1..Len(s), k # i
        PROVE  LET j == IF k < i THEN k ELSE k - 1
               IN  j \in 1..(Len(s) - 1) /\ RemoveAt(s, i)[j] = s[k]
    <2>1. CASE k < i
      BY <1>1, <1>2, <2>1
    <2>2. CASE ~(k < i)
      <3>1. k - 1 \in 1..(Len(s) - 1) /\ ~(k - 1 < i) /\ (k - 1) + 1 = k
        BY <1>2, <1>5, <2>2
      <3> QED  BY <1>1, <2>2, <3>1
    <2> QED  BY <2>1, <2>2
  <1> QED  BY <1>1, <1>3, <1>4, <1>5 DEF Without

\* What is appended.
LEMMA Appended ==
    ASSUME NEW S, NEW s \in Seq(S), NEW t \in Seq(S)
    PROVE  /\ s \o t \in Seq(S) /\ DOMAIN (s \o t) = 1..(Len(s) + Len(t))
           /\ \A i \in 1..Len(s) : i \in 1..(Len(s) + Len(t)) /\ (s \o t)[i] = s[i]
           /\ \A i \in 1..Len(t) : Len(s) + i \in 1..(Len(s) + Len(t)) /\ (s \o t)[Len(s) + i] = t[i]
           /\ \A i \in 1..(Len(s) + Len(t)) :
                 \/ i \in 1..Len(s) /\ (s \o t)[i] = s[i]
                 \/ i > Len(s) /\ i - Len(s) \in 1..Len(t) /\ (s \o t)[i] = t[i - Len(s)]
  <1>1. Len(s) \in Nat /\ Len(t) \in Nat
    OBVIOUS
  <1>2. s \o t \in Seq(S) /\ Len(s \o t) = Len(s) + Len(t)
    OBVIOUS
  <1>3. ASSUME NEW i \in 1..Len(s)
        PROVE  i \in 1..(Len(s) + Len(t)) /\ (s \o t)[i] = s[i]
    BY <1>1, <1>2
  <1>4. ASSUME NEW i \in 1..Len(t)
        PROVE  Len(s) + i \in 1..(Len(s) + Len(t)) /\ (s \o t)[Len(s) + i] = t[i]
    BY <1>1, <1>2
  <1>5. ASSUME NEW i \in 1..(Len(s) + Len(t))
        PROVE  \/ i \in 1..Len(s) /\ (s \o t)[i] = s[i]
               \/ i > Len(s) /\ i - Len(s) \in 1..Len(t) /\ (s \o t)[i] = t[i - Len(s)]
    <2>1. CASE i <= Len(s)
      BY <1>1, <1>2, <2>1
    <2>2. CASE i > Len(s)
      BY <1>1, <1>2, <2>2
    <2> QED  BY <1>1, <2>1, <2>2
  <1> QED  BY <1>2, <1>3, <1>4, <1>5

\* SetToSeq lists each member.
LEMMA Listed ==
    ASSUME NEW S, IsFiniteSet(S)
    PROVE  /\ SetToSeq(S) \in Seq(S)
           /\ \A x \in S : \E i \in 1..Len(SetToSeq(S)) : SetToSeq(S)[i] = x
  <1> DEFINE n == Cardinality(S)
             f == SetToSeq(S)
  <1>1. n \in Nat /\ ExistsBijection(1..n, S)
    BY FS_CardinalityType
  <1>2. \E g \in [1..n -> S] : IsInjective(g)
    BY <1>1 DEF ExistsBijection, Bijection, Injection
  <1>3. f \in [1..n -> S] /\ IsInjective(f)
    BY <1>2 DEF SetToSeq
  <1>4. f \in Injection(1..n, S)
    BY <1>3 DEF Injection
  <1>5. Cardinality(1..n) = n
    BY <1>1, FS_Interval
  <1> HIDE DEF n, f
  <1>6. f \in Surjection(1..n, S)
    <2>1. Cardinality(1..n) = Cardinality(S)
      BY <1>5 DEF n
    <2> QED  BY <1>4, <2>1, FS_Injection
  <1>7. f \in Seq(S) /\ Len(f) = n
    BY <1>1, <1>3
  <1>8. \A x \in S : \E i \in 1..n : f[i] = x
    BY <1>6 DEF Surjection
  <1> QED  BY <1>7, <1>8 DEF f

-----------------------------------------------------------------------------
(* The types.                                                              *)

LEMMA Bounds == MaxPosts \in Nat /\ MaxPatches \in Nat /\ FromVersions \subseteq 1..5
  BY PersistenceAssumption

LEMMA KeyTypes ==
    ASSUME NEW a \in Accounts
    PROVE  /\ KeyOf(a) \in Keys /\ a # NoUser /\ KeyOf(a) # NoConv.key /\ a # Plain
           /\ Readable(KeyOf(a), a)
  BY PersistenceAssumption DEF KeyOf, Keys, NoUser, Plain, NoConv, Readable

\* The records have the keys of accounts, NoConv has not.
LEMMA ConvTypes ==
    ASSUME posted \in Nat, NEW c \in ConvRecords
    PROVE  /\ c.lastSeq \in 0..posted
           /\ c # NoConv => c.key \in Keys
           /\ c.key \in Keys => c # NoConv
  <1>1. NoConv.key \notin Keys /\ NoConv.lastSeq = 0
    BY PersistenceAssumption DEF Keys, Plain, NoConv
  <1>2. 0 \in 0..posted
    OBVIOUS
  <1> QED  BY <1>1, <1>2 DEF ConvRecords

LEMMA WriteTypes ==
    ASSUME NEW w \in Writes
    PROVE  /\ w.store \in {"messages", "conversations", "cursors"}
           /\ w.store = "messages" => w.n \in 1..posted /\ w.value \in MessageRecords
           /\ w.store = "conversations" => w.value \in ConvRecords
           /\ w.store = "cursors" => w.n \in 1..posted
  BY DEF Writes

LEMMA MessageWritten ==
    ASSUME NEW a \in Accounts, NEW n \in 1..posted, NEW p \in 0..MaxPatches
    PROVE  /\ PutMessage(a, n, p) \in Writes /\ PutMessage(a, n, p).store = "messages"
           /\ PutMessage(a, n, p).n = n /\ PutMessage(a, n, p).value.key = KeyOf(a)
           /\ PutMessage(a, n, p).value.patches = p
  BY KeyTypes DEF PutMessage, Writes, MessageRecords

LEMMA ConvWritten ==
    ASSUME NEW a \in Accounts, NEW n \in 0..posted
    PROVE  /\ PutConv(a, n) \in Writes /\ PutConv(a, n).store = "conversations"
           /\ PutConv(a, n).value.key = KeyOf(a) /\ PutConv(a, n).value.lastSeq = n
  BY KeyTypes DEF PutConv, Writes, ConvRecords

LEMMA CursorWritten ==
    ASSUME NEW n \in 1..posted
    PROVE  /\ PutCursor(n) \in Writes /\ PutCursor(n).store = "cursors" /\ PutCursor(n).n = n
  BY DEF PutCursor, Writes

\* A finite set of numbers that is not empty has a largest member.
LEMMA LargestExists ==
    ASSUME NEW S \in SUBSET Nat, IsFiniteSet(S), S # {}
    PROVE  \E n \in S : \A m \in S : m <= n
  <1> DEFINE Up(n) == {m \in S : m > n}
             T == {Up(n) : n \in S}
             R == StrictSubsetOrdering(S)
  <1>1. T \subseteq FiniteSubsetsOf(S) /\ T # {}
    <2>1. \A n \in S : Up(n) \in SUBSET S /\ IsFiniteSet(Up(n))
      BY FS_Subset
    <2> QED  BY <2>1 DEF FiniteSubsetsOf
  <1>2. IsWellFoundedOn(R, FiniteSubsetsOf(S))
    BY FS_StrictSubsetOrderingWellFounded
  <1>3. \E x \in T : \A y \in T : <<y, x>> \notin R
    <2> HIDE DEF T, R
    <2> QED  BY <1>1, <1>2, WFMin
  <1>4. PICK n \in S : \A y \in T : <<y, Up(n)>> \notin R
    BY <1>3
  <1>5. ASSUME NEW m \in S, m > n  PROVE FALSE
    <2>1. /\ Up(m) \in SUBSET S /\ Up(n) \in SUBSET S /\ Up(m) \in T
          /\ Up(m) \subseteq Up(n) /\ m \in Up(n) /\ m \notin Up(m)
      <3>1. \A x \in S : x > m => x > n
        BY <1>5
      <3>2. ~(m > m)
        OBVIOUS
      <3> QED  BY <1>5, <3>1, <3>2
    <2> HIDE DEF Up, T
    <2>2. <<Up(m), Up(n)>> \in R
      BY <2>1 DEF StrictSubsetOrdering
    <2> QED  BY <1>4, <2>1, <2>2
  <1>6. \A m \in S : m <= n
    BY <1>5
  <1> QED  BY <1>6

\* What sendRead takes for the last message.
LEMMA LastShown ==
    ASSUME DiskTypeOK, DOMAIN screen # {}
    PROVE  LET last == CHOOSE n \in DOMAIN screen : \A i \in DOMAIN screen : i <= n
           IN  last \in DOMAIN screen /\ last \in 1..posted
  <1>1. DOMAIN screen \subseteq 1..posted /\ posted \in Nat
    BY Bounds DEF DiskTypeOK
  <1>2. IsFiniteSet(DOMAIN screen) /\ DOMAIN screen \in SUBSET Nat
    <2>1. IsFiniteSet(1..posted)
      BY <1>1, FS_Interval
    <2> QED  BY <1>1, <2>1, FS_Subset
  <1>3. \E n \in DOMAIN screen : \A i \in DOMAIN screen : i <= n
    BY <1>2, LargestExists
  <1> QED  BY <1>1, <1>3

\* The types that depend on how far the conversation has come.
LEMMA WritesGrow ==
    ASSUME posted \in Nat, posted' \in Nat, posted <= posted'
    PROVE  Writes \subseteq Writes' /\ ConvRecords \subseteq ConvRecords'
  <1>1. 1..posted \subseteq 1..posted' /\ 0..posted \subseteq 0..posted'
    OBVIOUS
  <1>2. MessageRecords = MessageRecords' /\ Keys = Keys'
    BY DEF MessageRecords, Keys
  <1>3. ConvRecords \subseteq ConvRecords'
    BY <1>1, <1>2 DEF ConvRecords
  <1> QED  BY <1>1, <1>2, <1>3 DEF Writes

\* DiskTypeOK, part by part.
LEMMA DiskTypeParts ==
    ASSUME DiskTypeOK
    PROVE  /\ encrypts \in BOOLEAN /\ intact \in BOOLEAN /\ version \in 1..5
           /\ posted \in Nat /\ posted <= MaxPosts /\ reached \in 0..posted /\ cursor \in 0..posted
           /\ user \in Accounts \cup {NoUser}
           /\ DOMAIN screen \subseteq 1..posted /\ screen \in [DOMAIN screen -> 0..MaxPatches]
           /\ DOMAIN messages \subseteq 1..posted /\ messages \in [DOMAIN messages -> MessageRecords]
           /\ conv \in ConvRecords /\ puts \in Seq(Writes)
           /\ Len(puts) \in Nat /\ DOMAIN puts = 1..Len(puts)
           /\ \A i \in DOMAIN puts : puts[i] \in Writes
  BY Bounds DEF DiskTypeOK

-----------------------------------------------------------------------------
(* SyncClient.start: what is read, and what is written back.               *)

Base == Upgraded(version)
Known(u) == Base.conv # NoConv /\ Readable(Base.conv.key, u)
Loaded(u) == {n \in DOMAIN Base.messages : Known(u) /\ Readable(Base.messages[n].key, u)}
WrittenBack(u) == {PutMessage(u, n, Base.messages[n].patches) : n \in Loaded(u)}

\* What an upgrade leaves.
LEMMA BaseTypes ==
    ASSUME DiskTypeOK
    PROVE  /\ DOMAIN Base.messages \subseteq 1..posted /\ DOMAIN Base.messages \subseteq DOMAIN messages
           /\ Base.messages \in [DOMAIN Base.messages -> MessageRecords]
           /\ \A n \in DOMAIN Base.messages : Base.messages[n] = messages[n]
           /\ Base.conv \in ConvRecords /\ Base.cursor \in 0..posted
           /\ version = 5 => Base.messages = messages /\ Base.conv = conv /\ Base.cursor = cursor
  <1> USE DiskTypeParts
  <1>1. DOMAIN Nothing = {} /\ Nothing \in [{} -> MessageRecords]
    BY DEF Nothing
  <1>2. NoConv \in ConvRecords /\ 0 \in 0..posted
    BY DEF ConvRecords
  <1>3. Base.messages \in {Nothing, messages} /\ Base.conv \in {NoConv, conv} /\ Base.cursor \in {0, cursor}
    BY DEF Base, Upgraded
  <1>4. version = 5 => Base.messages = messages /\ Base.conv = conv /\ Base.cursor = cursor
    BY DEF Base, Upgraded
  <1>5. CASE Base.messages = Nothing
    BY <1>1, <1>2, <1>3, <1>4, <1>5
  <1>6. CASE Base.messages = messages
    BY <1>2, <1>3, <1>4, <1>6
  <1> QED  BY <1>3, <1>5, <1>6

LEMMA LoadedTypes ==
    ASSUME DiskTypeOK, NEW u \in Accounts
    PROVE  /\ Loaded(u) \subseteq DOMAIN Base.messages
           /\ \A n \in Loaded(u) :
                 /\ n \in 1..posted /\ Base.messages[n].patches \in 0..MaxPatches
                 /\ PutMessage(u, n, Base.messages[n].patches) \in Writes
           /\ [n \in Loaded(u) |-> Base.messages[n].patches] \in [Loaded(u) -> 0..MaxPatches]
           /\ IsFiniteSet(WrittenBack(u)) /\ WrittenBack(u) \subseteq Writes
  <1>1. Loaded(u) \subseteq DOMAIN Base.messages
    BY DEF Loaded
  <1>2. ASSUME NEW n \in Loaded(u)
        PROVE  /\ n \in 1..posted /\ Base.messages[n].patches \in 0..MaxPatches
               /\ PutMessage(u, n, Base.messages[n].patches) \in Writes
    <2>1. n \in 1..posted /\ Base.messages[n] \in MessageRecords
      BY <1>1, BaseTypes
    <2>2. Base.messages[n].patches \in 0..MaxPatches
      BY <2>1 DEF MessageRecords
    <2> QED  BY <2>1, <2>2, MessageWritten
  <1>3. WrittenBack(u) \subseteq Writes
    BY <1>2 DEF WrittenBack
  <1>4. IsFiniteSet(WrittenBack(u))
    <2> DEFINE f == [w \in WrittenBack(u) |-> w.n]
    <2>1. \A w \in WrittenBack(u) : \E n \in Loaded(u) :
              w = PutMessage(u, n, Base.messages[n].patches) /\ w.n = n /\ n \in 1..posted
      BY <1>2 DEF WrittenBack, PutMessage
    <2>2. f \in [WrittenBack(u) -> 1..posted]
      BY <2>1
    <2>3. IsInjective(f)
      BY <2>1 DEF IsInjective
    <2>4. f \in Injection(WrittenBack(u), 1..posted)
      BY <2>2, <2>3 DEF Injection
    <2>5. IsFiniteSet(1..posted)
      <3>1. posted \in Int /\ 1 \in Int
        BY DiskTypeParts
      <3> QED  BY <3>1, FS_Interval
    <2> HIDE DEF f
    <2> QED  BY <2>4, <2>5, FS_Injection
  <1> QED  BY <1>1, <1>2, <1>3, <1>4

\* The writes of a start are those of the messages it loads.
LEMMA SignInWrites ==
    ASSUME DiskTypeOK, NEW u \in Accounts
    PROVE  LET back == SetToSeq(WrittenBack(u)) IN
           /\ back \in Seq(Writes) /\ Len(back) \in Nat
           /\ \A i \in 1..Len(back) : \E n \in Loaded(u) :
                 back[i] = PutMessage(u, n, Base.messages[n].patches)
           /\ \A n \in Loaded(u) : \E i \in 1..Len(back) :
                 back[i] = PutMessage(u, n, Base.messages[n].patches)
  <1> DEFINE back == SetToSeq(WrittenBack(u))
  <1>1. back \in Seq(WrittenBack(u)) /\ \A x \in WrittenBack(u) : \E i \in 1..Len(back) : back[i] = x
    BY LoadedTypes, Listed
  <1> HIDE DEF back
  <1>2. Len(back) \in Nat /\ \A i \in 1..Len(back) : back[i] \in WrittenBack(u)
    BY ONLY <1>1
  <1>3. back \in Seq(Writes)
    BY ONLY <1>1, LoadedTypes, DiskTypeOK, u \in Accounts
  <1>4. \A i \in 1..Len(back) : \E n \in Loaded(u) :
            back[i] = PutMessage(u, n, Base.messages[n].patches)
    BY <1>2 DEF WrittenBack
  <1>5. \A n \in Loaded(u) : \E i \in 1..Len(back) :
            back[i] = PutMessage(u, n, Base.messages[n].patches)
    BY <1>1 DEF WrittenBack
  <1> QED  BY <1>2, <1>3, <1>4, <1>5 DEF back

LEMMA SignInForm ==
    ASSUME NEW u, SignIn(u)
    PROVE  /\ user = NoUser /\ user' = u /\ version' = 5
           /\ intact' = (intact /\ (Known(u) \/ Base.conv = NoConv))
           /\ messages' = Base.messages /\ conv' = Base.conv /\ cursor' = Base.cursor
           /\ screen' = [n \in Loaded(u) |-> Base.messages[n].patches]
           /\ reached' = IF Base.conv = NoConv \/ ~Readable(Base.conv.key, u) THEN 0
                         ELSE IF Base.cursor # 0 THEN Base.cursor ELSE Base.conv.lastSeq
           /\ puts' = puts \o SetToSeq(WrittenBack(u))
           /\ encrypts' = encrypts /\ posted' = posted
  BY DEF SignIn, Base, Known, Loaded, WrittenBack, Write, LastSeqOf

-----------------------------------------------------------------------------
(* Type correctness.                                                       *)

LEMMA DiskTypeInit == ASSUME DiskInit PROVE DiskTypeOK
  <1>1. /\ posted \in 0..MaxPosts /\ version \in 1..5 /\ 0 \in 0..posted
        /\ encrypts \in BOOLEAN /\ intact \in BOOLEAN /\ puts \in Seq(Writes)
        /\ reached = 0 /\ user = NoUser
    BY Bounds DEF DiskInit
  <1>2. DOMAIN Nothing = {} /\ \A S : Nothing \in [{} -> S]
    BY DEF Nothing
  <1>3. DOMAIN screen \subseteq 1..posted /\ screen \in [DOMAIN screen -> 0..MaxPatches]
    BY <1>2 DEF DiskInit
  <1>4. CASE version = 5
    <2>1. messages = Nothing /\ conv = NoConv /\ cursor = 0
      BY <1>4 DEF DiskInit
    <2> QED  BY <1>1, <1>2, <1>3, <2>1 DEF DiskTypeOK, ConvRecords
  <1>5. CASE version # 5
    <2>1. PICK u \in Accounts, kept \in SUBSET (1..posted), read \in 0..posted :
             /\ messages = [n \in kept |-> [key |-> KeyOf(u), patches |-> 0]]
             /\ conv = [key |-> KeyOf(u), lastSeq |-> posted] /\ cursor = read
      BY <1>5 DEF DiskInit
    <2>2. KeyOf(u) \in Keys /\ posted \in 0..posted /\ 0 \in 0..MaxPatches
      BY <1>1, KeyTypes, Bounds
    <2>3. messages \in [kept -> MessageRecords] /\ DOMAIN messages = kept
      BY <2>1, <2>2 DEF MessageRecords
    <2>4. conv \in ConvRecords
      BY <2>1, <2>2 DEF ConvRecords
    <2> QED  BY <1>1, <1>3, <2>1, <2>3, <2>4 DEF DiskTypeOK
  <1> QED  BY <1>4, <1>5

LEMMA DiskTypeNext == ASSUME DiskTypeOK, [DiskNext]_diskVars PROVE DiskTypeOK'
  <1> USE DiskTypeParts
  <1>1. ASSUME posted' = posted
        PROVE  Writes' = Writes /\ ConvRecords' = ConvRecords /\ MessageRecords' = MessageRecords
    BY <1>1 DEF Writes, ConvRecords, MessageRecords, Keys
  <1>2. ASSUME NEW u \in Accounts, SignIn(u)  PROVE DiskTypeOK'
    <2>1. posted' = posted /\ encrypts' = encrypts /\ version' = 5 /\ user' = u
      BY <1>2, SignInForm
    <2>2. /\ messages' \in [DOMAIN messages' -> MessageRecords] /\ DOMAIN messages' \subseteq 1..posted
          /\ conv' \in ConvRecords /\ cursor' \in 0..posted
      BY <1>2, SignInForm, BaseTypes
    <2>3. screen' \in [DOMAIN screen' -> 0..MaxPatches] /\ DOMAIN screen' \subseteq 1..posted
      BY <1>2, SignInForm, LoadedTypes
    <2>4. intact' \in BOOLEAN
      <3>1. intact' = (intact /\ (Known(u) \/ Base.conv = NoConv))
        BY <1>2, SignInForm
      <3> QED  BY <3>1, Zenon
    <2>5. reached' \in 0..posted
      <3>1. Base.cursor \in 0..posted /\ Base.conv.lastSeq \in 0..posted /\ 0 \in 0..posted
        BY BaseTypes, ConvTypes
      <3> QED  BY <1>2, <3>1, SignInForm
    <2>6. puts' \in Seq(Writes)
      <3>1. puts' = puts \o SetToSeq(WrittenBack(u)) /\ SetToSeq(WrittenBack(u)) \in Seq(Writes)
        BY <1>2, SignInForm, SignInWrites
      <3> QED  BY <3>1, Appended
    <2> QED  BY <1>1, <2>1, <2>2, <2>3, <2>4, <2>5, <2>6 DEF DiskTypeOK
  <1>3. ASSUME NEW way \in {"close", "signOut"}, End(way)  PROVE DiskTypeOK'
    <2>1. DOMAIN Nothing = {} /\ \A S : Nothing \in [{} -> S]
      BY DEF Nothing
    <2>2. screen' = Nothing /\ reached' = 0 /\ 0 \in 0..posted /\ user' = NoUser
      <3>1. 0 \in 0..posted
        OBVIOUS
      <3> QED  BY <1>3, <3>1 DEF End
    <2>3. posted' = posted /\ encrypts' = encrypts /\ UNCHANGED disk
      BY <1>3 DEF End
    <2>4. puts' \in Seq(Writes)
      <3>1. puts' = << >> \/ puts' = puts
        BY <1>3, Zenon DEF End
      <3>2. << >> \in Seq(Writes) /\ puts \in Seq(Writes)
        OBVIOUS
      <3> QED  BY <3>1, <3>2, Zenon
    <2>5. intact' \in BOOLEAN
      <3>1. intact' = (intact /\ puts = << >>)
        BY <1>3 DEF End
      <3> QED  BY <3>1, Zenon
    <2>6. DOMAIN screen' \subseteq 1..posted /\ screen' \in [DOMAIN screen' -> 0..MaxPatches]
      BY <2>1, <2>2
    <2> QED  BY <1>1, <2>2, <2>3, <2>4, <2>5, <2>6 DEF DiskTypeOK, disk
  <1>4. CASE Post
    <2>1. posted' = posted + 1 /\ posted' \in 0..MaxPosts /\ posted <= posted'
      BY <1>4, Bounds DEF Post
    <2>2. Writes \subseteq Writes' /\ ConvRecords \subseteq ConvRecords'
      BY <2>1, WritesGrow
    <2>3. 1..posted \subseteq 1..posted' /\ 0..posted \subseteq 0..posted'
      BY <2>1
    <2>4. MessageRecords' = MessageRecords
      BY DEF MessageRecords, Keys
    <2>5. UNCHANGED <<encrypts, user, screen, reached, version, messages, conv, cursor, puts, intact>>
      BY <1>4 DEF Post, disk
    <2>6. puts' \in Seq(Writes')
      <3>1. \A i \in 1..Len(puts) : puts[i] \in Writes'
        BY <2>2
      <3> QED  BY <2>5, <3>1
    <2> QED  BY <2>1, <2>2, <2>3, <2>4, <2>5, <2>6 DEF DiskTypeOK
  <1>5. CASE InsertMsg
    <2> DEFINE n == reached + 1
               new == <<PutConv(user, reached), PutMessage(user, n, 0), PutConv(user, n)>>
    <2>1. user \in Accounts /\ n \in 1..posted /\ n \in 0..posted /\ 0 \in 0..MaxPatches
      BY <1>5, Bounds DEF InsertMsg
    <2>2. new \in Seq(Writes)
      BY <2>1, MessageWritten, ConvWritten
    <2>3. /\ screen' = [i \in DOMAIN screen \cup {n} |-> IF i = n THEN 0 ELSE screen[i]]
          /\ reached' = n /\ puts' = puts \o new
          /\ UNCHANGED <<encrypts, posted, user, version, messages, conv, cursor, intact>>
      BY <1>5 DEF InsertMsg, Write, disk
    <2> HIDE DEF new, n
    <2>4. puts' \in Seq(Writes)
      BY <2>2, <2>3, Appended
    <2>5. DOMAIN screen' \subseteq 1..posted /\ screen' \in [DOMAIN screen' -> 0..MaxPatches]
      BY <2>1, <2>3
    <2> QED  BY <1>1, <2>1, <2>3, <2>4, <2>5 DEF DiskTypeOK
  <1>6. CASE Read
    <2> DEFINE last == CHOOSE n \in DOMAIN screen : \A i \in DOMAIN screen : i <= n
               new == <<PutConv(user, reached), PutCursor(last)>>
    <2>1. user \in Accounts /\ DOMAIN screen # {}
      BY <1>6 DEF Read
    <2>2. last \in 1..posted
      BY <2>1, LastShown
    <2>3. /\ puts' = puts \o new
          /\ UNCHANGED <<encrypts, posted, user, screen, reached, version, messages, conv, cursor, intact>>
      BY <1>6 DEF Read, Write, disk
    <2> HIDE DEF last
    <2>4. new \in Seq(Writes)
      BY <2>1, <2>2, ConvWritten, CursorWritten
    <2> HIDE DEF new
    <2>5. puts' \in Seq(Writes)
      BY <2>3, <2>4, Appended
    <2> QED  BY <1>1, <2>3, <2>5 DEF DiskTypeOK
  <1>7. ASSUME NEW n \in 1..MaxPosts, Patch(n)  PROVE DiskTypeOK'
    <2> DEFINE new == <<PutMessage(user, n, screen[n] + 1)>>
    <2>1. user \in Accounts /\ n \in DOMAIN screen /\ n \in 1..posted
      BY <1>7 DEF Patch
    <2>2. screen[n] + 1 \in 0..MaxPatches
      BY <1>7, <2>1, Bounds DEF Patch
    <2>3. /\ puts' = puts \o new /\ screen' = [screen EXCEPT ![n] = screen[n] + 1]
          /\ UNCHANGED <<encrypts, posted, user, reached, version, messages, conv, cursor, intact>>
      BY <1>7 DEF Patch, Write, disk
    <2>4. new \in Seq(Writes)
      BY <2>1, <2>2, MessageWritten
    <2> HIDE DEF new
    <2>5. puts' \in Seq(Writes)
      BY <2>3, <2>4, Appended
    <2>6. DOMAIN screen' = DOMAIN screen /\ screen' \in [DOMAIN screen -> 0..MaxPatches]
      BY <2>1, <2>2, <2>3
    <2> QED  BY <1>1, <2>3, <2>5, <2>6 DEF DiskTypeOK
  <1>8. ASSUME NEW i \in DOMAIN puts, Apply(i)  PROVE DiskTypeOK'
    <2> DEFINE p == puts[i]
    <2>1. p \in Writes /\ i \in 1..Len(puts)
      OBVIOUS
    <2>2. /\ puts' = RemoveAt(puts, i)
          /\ messages' = IF p.store # "messages" THEN messages
                         ELSE [m \in DOMAIN messages \cup {p.n} |-> IF m = p.n THEN p.value ELSE messages[m]]
          /\ conv' = IF p.store = "conversations" THEN p.value ELSE conv
          /\ cursor' = IF p.store = "cursors" THEN p.n ELSE cursor
          /\ UNCHANGED <<encrypts, posted, user, screen, reached, version, intact>>
      BY <1>8 DEF Apply
    <2> HIDE DEF p
    <2>3. puts' \in Seq(Writes)
      BY <2>1, <2>2, Left
    <2>4. messages' \in [DOMAIN messages' -> MessageRecords] /\ DOMAIN messages' \subseteq 1..posted
      <3>1. CASE p.store # "messages"
        BY <2>2, <3>1
      <3>2. CASE p.store = "messages"
        <4>1. p.n \in 1..posted /\ p.value \in MessageRecords
          BY <2>1, <3>2, WriteTypes
        <4> QED  BY <2>2, <3>2, <4>1
      <3> QED  BY <3>1, <3>2
    <2>5. conv' \in ConvRecords /\ cursor' \in 0..posted
      BY <2>1, <2>2, WriteTypes
    <2> QED  BY <1>1, <2>2, <2>3, <2>4, <2>5 DEF DiskTypeOK
  <1>9. CASE UNCHANGED diskVars
    BY <1>1, <1>9 DEF diskVars, disk, DiskTypeOK
  <1> QED  BY <1>2, <1>3, <1>4, <1>5, <1>6, <1>7, <1>8, <1>9 DEF DiskNext

\* Everything keeps its type.
THEOREM DiskTypeCorrect == DiskSpec => []DiskTypeOK
  <1>1. DiskInit => DiskTypeOK
    BY DiskTypeInit
  <1>2. DiskTypeOK /\ [DiskNext]_diskVars => DiskTypeOK'
    BY DiskTypeNext
  <1> QED  BY <1>1, <1>2, PTL DEF DiskSpec


-----------------------------------------------------------------------------
(* No hole under the cursor.                                               *)

\* Kept, as a condition on one number.
LEMMA KeptIs == \A n : n \in Kept <=>
    n \in DOMAIN messages \/ \E i \in DOMAIN puts : puts[i].store = "messages" /\ puts[i].n = n
  BY DEF Kept

LEMMA KeptIsNumbers == ASSUME DiskTypeOK PROVE Kept \subseteq 1..posted
  BY DiskTypeParts, WriteTypes DEF Kept

\* The writes new are asked for, all under the key of account a; K is what is kept then.
Asks(a, new, K) ==
    /\ new \in Seq(Writes) /\ puts' = puts \o new /\ UNCHANGED <<encrypts, messages, conv, cursor>>
    /\ K = Kept \cup {new[i].n : i \in {j \in 1..Len(new) : new[j].store = "messages"}}
    /\ \A n \in K : 1..n \subseteq K
    /\ \A i \in 1..Len(new) :
          /\ new[i].store # "cursors" => new[i].value.key = KeyOf(a)
          /\ new[i].store = "cursors" => 1..new[i].n \subseteq K
          /\ new[i].store = "conversations" => 1..new[i].value.lastSeq \subseteq K

\* Then the records stay complete.
LEMMA WritesAdded ==
    ASSUME DiskTypeOK, NEW a, NEW new, NEW K, OneKey(a), NoneMissing, Asks(a, new, K)
    PROVE  /\ Kept' = K /\ NoneMissing' /\ OneKey(a)'
           /\ \A i \in DOMAIN puts : i \in DOMAIN puts' /\ puts'[i] = puts[i]
           /\ \A i \in 1..Len(new) : \E j \in DOMAIN puts' : puts'[j] = new[i]
  <1> USE DEF Asks
  <1>1. /\ DOMAIN puts = 1..Len(puts) /\ DOMAIN puts' = 1..(Len(puts) + Len(new))
        /\ \A i \in 1..Len(puts) : i \in 1..(Len(puts) + Len(new)) /\ puts'[i] = puts[i]
        /\ \A i \in 1..Len(new) : Len(puts) + i \in 1..(Len(puts) + Len(new)) /\ puts'[Len(puts) + i] = new[i]
        /\ \A i \in 1..(Len(puts) + Len(new)) :
              \/ i \in 1..Len(puts) /\ puts'[i] = puts[i]
              \/ i - Len(puts) \in 1..Len(new) /\ puts'[i] = new[i - Len(puts)]
    <2>1. puts \in Seq(Writes) /\ DOMAIN puts = 1..Len(puts)
      BY DiskTypeParts
    <2>2. new \in Seq(Writes) /\ puts' = puts \o new
      OBVIOUS
    <2> QED  BY ONLY <2>1, <2>2, Appended
  <1>2. \A j \in DOMAIN puts' : \/ j \in DOMAIN puts /\ puts'[j] = puts[j]
                                \/ \E i \in 1..Len(new) : puts'[j] = new[i]
    BY <1>1
  <1>3. /\ \A i \in DOMAIN puts : i \in DOMAIN puts' /\ puts'[i] = puts[i]
        /\ \A i \in 1..Len(new) : \E j \in DOMAIN puts' : puts'[j] = new[i]
    BY <1>1
  <1>4. Kept' = K
    <2>1. ASSUME NEW n \in Kept'  PROVE n \in K
      <3>1. n \in DOMAIN messages \/ \E j \in DOMAIN puts' : puts'[j].store = "messages" /\ puts'[j].n = n
        BY <2>1 DEF Kept
      <3> QED  BY <1>2, <3>1, KeptIs
    <2>2. ASSUME NEW n \in K  PROVE n \in Kept'
      <3>1. \/ n \in DOMAIN messages
            \/ \E i \in DOMAIN puts : puts[i].store = "messages" /\ puts[i].n = n
            \/ \E i \in 1..Len(new) : new[i].store = "messages" /\ new[i].n = n
        BY KeptIs
      <3>2. n \in DOMAIN messages' \/ \E j \in DOMAIN puts' : puts'[j].store = "messages" /\ puts'[j].n = n
        BY <1>3, <3>1
      <3> QED  BY <3>2 DEF Kept
    <2> QED  BY <2>1, <2>2
  <1>5. NoneMissing'
    <2>1. Kept \subseteq K
      OBVIOUS
    <2>2. \A n : Covered(n) => 1..n \subseteq K
      BY <2>1 DEF Covered
    <2>3. \A n : 1..n \subseteq K => Covered(n)'
      BY <1>4 DEF Covered
    <2>4. Covered(cursor)' /\ Covered(conv.lastSeq)'
      BY <2>2, <2>3 DEF NoneMissing
    <2>5. \A n \in Kept' : Covered(n)'
      BY <1>4, <2>3
    <2>6. ASSUME NEW j \in DOMAIN puts'
          PROVE  /\ puts'[j].store = "cursors" => 1..puts'[j].n \subseteq K
                 /\ puts'[j].store = "conversations" => 1..puts'[j].value.lastSeq \subseteq K
      BY <1>2, <2>2 DEF NoneMissing
    <2> QED  BY <2>3, <2>4, <2>5, <2>6 DEF NoneMissing, Covered
  <1>6. OneKey(a)'
    <2>1. \A j \in DOMAIN puts' : puts'[j].store # "cursors" => puts'[j].value.key = KeyOf(a)
      BY <1>2 DEF OneKey
    <2>2. KeyOf(a)' = KeyOf(a)
      BY DEF KeyOf
    <2> QED  BY <2>1, <2>2 DEF OneKey
  <1> QED  BY <1>3, <1>4, <1>5, <1>6

LEMMA WholeDiskInit == ASSUME DiskInit PROVE WholeDisk
  <1> SUFFICES ASSUME intact PROVE version = 5 /\ NoneMissing /\ InStep
    BY DEF WholeDisk
  <1>1. version = 5 /\ user = NoUser /\ puts = << >> /\ screen = Nothing
    BY DEF DiskInit
  <1>2. messages = Nothing /\ conv = NoConv /\ cursor = 0
    BY <1>1 DEF DiskInit
  <1>3. DOMAIN messages = {} /\ DOMAIN puts = {} /\ conv.lastSeq = 0
    BY <1>1, <1>2 DEF Nothing, NoConv
  <1>4. Kept = {} /\ Covered(0)
    BY <1>3 DEF Kept, Covered
  <1>5. NoneMissing
    BY <1>2, <1>3, <1>4 DEF NoneMissing
  <1>6. OneKey(NoUser)
    BY <1>2, <1>3 DEF OneKey
  <1> QED  BY <1>1, <1>4, <1>5, <1>6 DEF InStep

\* A session begins: the whole database is loaded and written back.
LEMMA WholeDiskSignIn ==
    ASSUME DiskTypeOK, WholeDisk, NEW u \in Accounts, SignIn(u)
    PROVE  WholeDisk'
  <1> DEFINE back == SetToSeq(WrittenBack(u))
  <1> SUFFICES ASSUME intact' PROVE version' = 5 /\ NoneMissing' /\ InStep'
    BY DEF WholeDisk
  <1>1. /\ user = NoUser /\ user' = u /\ version' = 5 /\ encrypts' = encrypts
        /\ messages' = Base.messages /\ conv' = Base.conv /\ cursor' = Base.cursor
        /\ DOMAIN screen' = Loaded(u)
        /\ reached' = IF Base.conv = NoConv \/ ~Readable(Base.conv.key, u) THEN 0
                      ELSE IF Base.cursor # 0 THEN Base.cursor ELSE Base.conv.lastSeq
        /\ puts' = puts \o back
    BY SignInForm
  <1>2. intact /\ (Known(u) \/ Base.conv = NoConv)
    BY SignInForm
  <1>3. version = 5 /\ NoneMissing /\ InStep
    BY <1>2 DEF WholeDisk
  <1>4. Base.messages = messages /\ Base.conv = conv /\ Base.cursor = cursor
    BY <1>3, BaseTypes
  <1>5. puts = << >> /\ \E a \in Accounts \cup {NoUser} : OneKey(a)
    BY <1>1, <1>3 DEF InStep
  <1>6. Kept = DOMAIN messages
    <2>1. DOMAIN puts = {}
      BY <1>5
    <2> QED  BY <2>1, KeptIs
  <1>7. u # NoUser
    BY KeyTypes
  <1>8. Loaded(u) = DOMAIN messages /\ OneKey(u)
    <2>1. CASE conv = NoConv
      <3>1. DOMAIN messages = {}
        BY <1>3, <1>5, <1>6, <2>1 DEF InStep
      <3> QED  BY <1>4, <1>5, <2>1, <3>1 DEF Loaded, OneKey
    <2>2. CASE conv # NoConv
      <3>1. Known(u) /\ Readable(conv.key, u)
        BY <1>2, <1>4, <2>2 DEF Known
      <3>2. PICK a \in Accounts \cup {NoUser} : OneKey(a)
        BY <1>5
      <3>3. conv.key = KeyOf(a) /\ a # Plain
        BY <2>2, <3>2, PersistenceAssumption DEF OneKey, Plain, NoUser
      <3>4. KeyOf(a) = KeyOf(u)
        BY <3>1, <3>3 DEF Readable, KeyOf
      <3>5. OneKey(u)
        BY <3>2, <3>4 DEF OneKey
      <3>6. \A n \in DOMAIN messages : Readable(messages[n].key, u)
        BY <3>5, KeyTypes DEF OneKey
      <3> QED  BY <1>4, <3>1, <3>5, <3>6 DEF Loaded
    <2> QED  BY <2>1, <2>2
  <1>9. /\ back \in Seq(Writes)
        /\ \A i \in 1..Len(back) : \E n \in Loaded(u) :
              back[i] = PutMessage(u, n, Base.messages[n].patches)
    BY SignInWrites
  <1> HIDE DEF back
  <1>10. \A i \in 1..Len(back) : /\ back[i].store = "messages" /\ back[i].n \in DOMAIN messages
                                 /\ back[i].value.key = KeyOf(u)
    BY <1>8, <1>9, LoadedTypes, MessageWritten
  <1>11. Kept = Kept \cup {back[i].n : i \in {j \in 1..Len(back) : back[j].store = "messages"}}
    BY <1>6, <1>10
  <1>12. Kept' = Kept /\ NoneMissing' /\ OneKey(u)'
    <2>1. \A n \in Kept : 1..n \subseteq Kept
      BY <1>3 DEF NoneMissing, Covered
    <2>2. \A i \in 1..Len(back) :
              /\ back[i].store # "cursors" => back[i].value.key = KeyOf(u)
              /\ back[i].store = "cursors" => 1..back[i].n \subseteq Kept
              /\ back[i].store = "conversations" => 1..back[i].value.lastSeq \subseteq Kept
      BY <1>10
    <2>3. Asks(u, back, Kept)
      BY <1>1, <1>4, <1>9, <1>11, <2>1, <2>2 DEF Asks
    <2> QED  BY <1>3, <1>8, <2>3, WritesAdded
  <1>13. Covered(reached)'
    <2>1. Covered(0)
      BY DEF Covered
    <2>2. Covered(cursor) /\ Covered(conv.lastSeq)
      BY <1>3 DEF NoneMissing
    <2>3. Covered(reached')
      BY <1>1, <1>4, <2>1, <2>2
    <2> QED  BY <1>12, <2>3 DEF Covered
  <1>14. conv' = NoConv => Kept' = {}
    BY <1>1, <1>3, <1>4, <1>5, <1>12 DEF InStep
  <1> QED  BY <1>1, <1>6, <1>7, <1>8, <1>12, <1>13, <1>14 DEF InStep, OneKey, KeyOf

\* A session writes: what it names is what it shows.
LEMMA WholeDiskWrites ==
    ASSUME DiskTypeOK, NoneMissing, InStep, NEW u \in Accounts, user = u, user' = u,
           NEW new, NEW K, Asks(u, new, K), DOMAIN screen' = K, 1..reached' \subseteq K,
           K = {} \/ Kept # {} \/ (\E i \in 1..Len(new) : new[i].store = "conversations")
    PROVE  NoneMissing' /\ InStep'
  <1>1. u # NoUser
    BY KeyTypes
  <1>2. OneKey(u)
    BY <1>1 DEF InStep, OneKey, KeyOf
  <1>3. /\ Kept' = K /\ NoneMissing' /\ OneKey(u)'
        /\ \A i \in DOMAIN puts : i \in DOMAIN puts' /\ puts'[i] = puts[i]
        /\ \A i \in 1..Len(new) : \E j \in DOMAIN puts' : puts'[j] = new[i]
    BY <1>2, WritesAdded
  <1>4. Covered(reached)'
    BY <1>3 DEF Covered
  <1>5. conv' = NoConv => Kept' = {} \/ \E i \in DOMAIN puts' : puts'[i].store = "conversations"
    <2>1. conv' = NoConv => Kept = {} \/ \E i \in DOMAIN puts : puts[i].store = "conversations"
      BY DEF InStep, Asks
    <2> QED  BY <1>3, <2>1
  <1> QED  BY <1>1, <1>3, <1>4, <1>5 DEF InStep, OneKey, KeyOf

\* What a transaction changes.
LEMMA ApplyForm ==
    ASSUME DiskTypeOK, NEW i \in DOMAIN puts, Apply(i)
    PROVE  LET p == puts[i] IN
           /\ p \in Writes /\ puts' = RemoveAt(puts, i)
           /\ DOMAIN messages' = IF p.store = "messages" THEN DOMAIN messages \cup {p.n} ELSE DOMAIN messages
           /\ \A m \in DOMAIN messages' :
                 messages'[m] = IF p.store = "messages" /\ m = p.n THEN p.value ELSE messages[m]
           /\ conv' = IF p.store = "conversations" THEN p.value ELSE conv
           /\ cursor' = IF p.store = "cursors" THEN p.n ELSE cursor
           /\ UNCHANGED <<encrypts, posted, user, screen, reached, version, intact>>
           /\ \A j \in DOMAIN puts' : \E k \in DOMAIN puts : k # i /\ puts'[j] = puts[k]
           /\ \A k \in DOMAIN puts : k # i => \E j \in DOMAIN puts' : puts'[j] = puts[k]
  <1> DEFINE p == puts[i]
  <1>1. p \in Writes /\ i \in 1..Len(puts) /\ puts \in Seq(Writes) /\ DOMAIN puts = 1..Len(puts)
    BY DiskTypeParts
  <1>2. /\ puts' = RemoveAt(puts, i)
        /\ messages' = IF p.store # "messages" THEN messages
                       ELSE [m \in DOMAIN messages \cup {p.n} |-> IF m = p.n THEN p.value ELSE messages[m]]
        /\ conv' = IF p.store = "conversations" THEN p.value ELSE conv
        /\ cursor' = IF p.store = "cursors" THEN p.n ELSE cursor
        /\ UNCHANGED <<encrypts, posted, user, screen, reached, version, intact>>
    BY DEF Apply
  <1> HIDE DEF p
  <1>3. /\ \A j \in DOMAIN puts' : \E k \in DOMAIN puts : k # i /\ puts'[j] = puts[k]
        /\ \A k \in DOMAIN puts : k # i => \E j \in DOMAIN puts' : puts'[j] = puts[k]
    <2>1. /\ DOMAIN puts' = 1..(Len(puts) - 1)
          /\ \A j \in 1..(Len(puts) - 1) :
                LET k == IF j < i THEN j ELSE j + 1
                IN  k \in 1..Len(puts) /\ k # i /\ puts'[j] = puts[k]
          /\ \A k \in 1..Len(puts) : k # i =>
                LET j == IF k < i THEN k ELSE k - 1
                IN  j \in 1..(Len(puts) - 1) /\ puts'[j] = puts[k]
      <3>1. Without(puts, i, puts')
        BY <1>1, <1>2, Left
      <3> QED  BY <3>1 DEF Without
    <2> QED  BY <1>1, <2>1
  <1>4. DOMAIN messages' = IF p.store = "messages" THEN DOMAIN messages \cup {p.n} ELSE DOMAIN messages
    BY <1>2
  <1>5. \A m \in DOMAIN messages' :
            messages'[m] = IF p.store = "messages" /\ m = p.n THEN p.value ELSE messages[m]
    BY <1>2
  <1> QED  BY <1>1, <1>2, <1>3, <1>4, <1>5 DEF p

LEMMA WholeDiskApply ==
    ASSUME DiskTypeOK, NoneMissing, InStep, NEW i \in DOMAIN puts, Apply(i)
    PROVE  NoneMissing' /\ InStep'
  <1> DEFINE p == puts[i]
  <1>1. /\ p \in Writes
        /\ DOMAIN messages' = IF p.store = "messages" THEN DOMAIN messages \cup {p.n} ELSE DOMAIN messages
        /\ \A m \in DOMAIN messages' :
              messages'[m] = IF p.store = "messages" /\ m = p.n THEN p.value ELSE messages[m]
        /\ conv' = IF p.store = "conversations" THEN p.value ELSE conv
        /\ cursor' = IF p.store = "cursors" THEN p.n ELSE cursor
        /\ UNCHANGED <<encrypts, posted, user, screen, reached, version, intact>>
        /\ \A j \in DOMAIN puts' : \E k \in DOMAIN puts : k # i /\ puts'[j] = puts[k]
        /\ \A k \in DOMAIN puts : k # i => \E j \in DOMAIN puts' : puts'[j] = puts[k]
    BY ApplyForm
  <1>2. user # NoUser /\ user \in Accounts /\ OneKey(user) /\ DOMAIN screen = Kept /\ Covered(reached)
    <2>1. user # NoUser
      BY DEF InStep
    <2> QED  BY <2>1, DiskTypeParts DEF InStep
  <1>3. p.store \in {"messages", "conversations", "cursors"} /\ p \in {puts[j] : j \in DOMAIN puts}
    BY <1>1, WriteTypes
  <1>4. Kept' = Kept
    <2>1. ASSUME NEW n \in Kept'  PROVE n \in Kept
      <3>1. n \in DOMAIN messages' \/ \E j \in DOMAIN puts' : puts'[j].store = "messages" /\ puts'[j].n = n
        BY <2>1 DEF Kept
      <3> QED  BY <1>1, <3>1, KeptIs
    <2>2. ASSUME NEW n \in Kept  PROVE n \in Kept'
      <3>1. n \in DOMAIN messages \/ \E k \in DOMAIN puts : puts[k].store = "messages" /\ puts[k].n = n
        BY <2>2, KeptIs
      <3>2. n \in DOMAIN messages' \/ \E j \in DOMAIN puts' : puts'[j].store = "messages" /\ puts'[j].n = n
        BY <1>1, <3>1
      <3> QED  BY <3>2 DEF Kept
    <2> QED  BY <2>1, <2>2
  <1>5. \A n : Covered(n)' <=> Covered(n)
    BY <1>4 DEF Covered
  <1>6. NoneMissing'
    <2>1. \A n \in Kept' : Covered(n)'
      BY <1>4, <1>5 DEF NoneMissing
    <2>2. Covered(cursor') /\ Covered(conv'.lastSeq)
      BY <1>1, <1>3 DEF NoneMissing
    <2>3. Covered(cursor)' /\ Covered(conv.lastSeq)'
      BY <1>4, <2>2 DEF Covered
    <2>4. ASSUME NEW j \in DOMAIN puts'
          PROVE  /\ puts'[j].store = "cursors" => Covered(puts'[j].n)
                 /\ puts'[j].store = "conversations" => Covered(puts'[j].value.lastSeq)
      BY <1>1 DEF NoneMissing
    <2>5. ASSUME NEW j \in DOMAIN puts'
          PROVE  /\ puts'[j].store = "cursors" => Covered(puts[j].n)'
                 /\ puts'[j].store = "conversations" => Covered(puts[j].value.lastSeq)'
      BY <1>4, <2>4 DEF Covered
    <2> QED  BY <2>1, <2>3, <2>5 DEF NoneMissing
  <1>7. OneKey(user)'
    <2>1. KeyOf(user)' = KeyOf(user)
      BY <1>1 DEF KeyOf
    <2>2. \A n \in DOMAIN messages' : messages'[n].key = KeyOf(user)
      BY <1>1, <1>2 DEF OneKey
    <2>3. conv' # NoConv => conv'.key = KeyOf(user)
      BY <1>1, <1>2 DEF OneKey
    <2>4. \A j \in DOMAIN puts' : puts'[j].store # "cursors" => puts'[j].value.key = KeyOf(user)
      BY <1>1, <1>2 DEF OneKey
    <2> QED  BY <2>1, <2>2, <2>3, <2>4 DEF OneKey
  <1>8. conv' = NoConv => Kept' = {} \/ \E j \in DOMAIN puts' : puts'[j].store = "conversations"
    <2>1. CASE p.store = "conversations"
      <3>1. p.value.key = KeyOf(user)
        BY <1>2, <2>1 DEF OneKey
      <3>2. p.value # NoConv
        BY <1>2, <3>1, KeyTypes
      <3> QED  BY <1>1, <2>1, <3>2
    <2>2. CASE p.store # "conversations"
      <3>1. conv' = NoConv => Kept = {} \/ \E k \in DOMAIN puts : k # i /\ puts[k].store = "conversations"
        BY <1>1, <2>2 DEF InStep
      <3> QED  BY <1>1, <1>4, <3>1
    <2> QED  BY <2>1, <2>2
  <1> HIDE DEF p
  <1>9. DOMAIN screen' = Kept' /\ Covered(reached)'
    BY <1>1, <1>2, <1>4 DEF Covered
  <1> QED  BY <1>1, <1>2, <1>6, <1>7, <1>8, <1>9 DEF InStep

LEMMA WholeDiskNext ==
    ASSUME DiskTypeOK, WholeDisk, [DiskNext]_diskVars
    PROVE  WholeDisk'
  <1>1. ASSUME NEW u \in Accounts, SignIn(u)  PROVE WholeDisk'
    BY <1>1, WholeDiskSignIn
  <1>2. ASSUME NEW way \in {"close", "signOut"}, End(way)  PROVE WholeDisk'
    <2> SUFFICES ASSUME intact' PROVE version' = 5 /\ NoneMissing' /\ InStep'
      BY DEF WholeDisk
    <2>1. /\ user # NoUser /\ user' = NoUser /\ intact /\ puts = << >>
          /\ UNCHANGED <<encrypts, version, messages, conv, cursor>>
      BY <1>2 DEF End, disk
    <2>2. puts' = puts
      BY <1>2, <2>1 DEF End
    <2>3. version = 5 /\ NoneMissing /\ InStep
      BY <2>1 DEF WholeDisk
    <2>4. NoneMissing'
      BY <2>1, <2>2, <2>3 DEF NoneMissing, Kept, Covered
    <2>5. PICK u \in Accounts : u = user
      BY <2>1, DiskTypeParts
    <2>6. OneKey(u)
      BY <2>1, <2>3, <2>5 DEF InStep
    <2>7. OneKey(u)'
      BY <2>1, <2>2, <2>6 DEF OneKey, KeyOf
    <2>8. conv = NoConv => Kept = {}
      BY <2>1, <2>3 DEF InStep
    <2>9. conv' = NoConv => Kept' = {}
      BY <2>1, <2>2, <2>8 DEF Kept
    <2> QED  BY <2>1, <2>2, <2>3, <2>4, <2>7, <2>9 DEF InStep
  <1>3. CASE Post
    <2>1. UNCHANGED <<encrypts, user, screen, reached, version, messages, conv, cursor, puts, intact>>
      BY <1>3 DEF Post, disk
    <2>2. NoneMissing' = NoneMissing
      BY <2>1 DEF NoneMissing, Kept, Covered
    <2>3. InStep' = InStep
      BY <2>1 DEF InStep, Kept, Covered, OneKey, KeyOf
    <2> QED  BY <2>1, <2>2, <2>3 DEF WholeDisk
  <1>4. CASE InsertMsg
    <2> SUFFICES ASSUME intact PROVE NoneMissing' /\ InStep' /\ version' = 5
      BY <1>4 DEF WholeDisk, InsertMsg
    <2> DEFINE n == reached + 1
               new == <<PutConv(user, reached), PutMessage(user, n, 0), PutConv(user, n)>>
               K == Kept \cup {n}
    <2>1. NoneMissing /\ InStep /\ version = 5 /\ version' = 5
      BY <1>4 DEF WholeDisk, InsertMsg, disk
    <2>2. PICK u \in Accounts : u = user
      BY <1>4, DiskTypeParts DEF InsertMsg
    <2>3. user' = user /\ DOMAIN screen' = DOMAIN screen \cup {n} /\ reached' = n
      BY <1>4 DEF InsertMsg
    <2>4. puts' = puts \o new /\ UNCHANGED <<encrypts, messages, conv, cursor>>
      BY <1>4 DEF InsertMsg, Write, disk
    <2>5. n \in 1..posted /\ n \in 0..posted /\ reached \in 0..posted /\ 0 \in 0..MaxPatches
      BY <1>4, Bounds, DiskTypeParts DEF InsertMsg
    <2>6. /\ PutConv(u, reached) \in Writes /\ PutConv(u, reached).store = "conversations"
          /\ PutConv(u, reached).value.key = KeyOf(u) /\ PutConv(u, reached).value.lastSeq = reached
          /\ PutMessage(u, n, 0) \in Writes /\ PutMessage(u, n, 0).store = "messages"
          /\ PutMessage(u, n, 0).n = n /\ PutMessage(u, n, 0).value.key = KeyOf(u)
          /\ PutConv(u, n) \in Writes /\ PutConv(u, n).store = "conversations"
          /\ PutConv(u, n).value.key = KeyOf(u) /\ PutConv(u, n).value.lastSeq = n
      BY <2>5, MessageWritten, ConvWritten
    <2>7. DOMAIN screen = Kept /\ 1..reached \subseteq Kept
      BY <2>1, <2>2, KeyTypes DEF InStep, Covered
    <2>8. 1..n \subseteq K
      <3>1. 1..n \subseteq 1..reached \cup {n}
        BY <2>5
      <3> QED  BY <2>7, <3>1
    <2>9. new \in Seq(Writes) /\ DOMAIN new = 1..3 /\ Len(new) = 3
          /\ new[1] = PutConv(u, reached) /\ new[2] = PutMessage(u, n, 0) /\ new[3] = PutConv(u, n)
      BY <2>2, <2>6
    <2> HIDE DEF new
    <2>10. Asks(u, new, K)
      <3>1. K = Kept \cup {new[i].n : i \in {j \in 1..Len(new) : new[j].store = "messages"}}
        <4>1. \A i \in 1..Len(new) : new[i].store = "messages" => new[i].n = n
          BY <2>6, <2>9
        <4>2. 2 \in 1..Len(new) /\ new[2].store = "messages" /\ new[2].n = n
          BY <2>6, <2>9
        <4> QED  BY <4>1, <4>2
      <3>2. \A m \in K : 1..m \subseteq K
        BY <2>1, <2>8 DEF NoneMissing, Covered
      <3>3. \A i \in 1..Len(new) :
                /\ new[i].store # "cursors" => new[i].value.key = KeyOf(u)
                /\ new[i].store = "cursors" => 1..new[i].n \subseteq K
                /\ new[i].store = "conversations" => 1..new[i].value.lastSeq \subseteq K
        BY <2>6, <2>7, <2>8, <2>9
      <3> QED  BY <2>4, <2>9, <3>1, <3>2, <3>3 DEF Asks
    <2>11. 1 \in 1..Len(new) /\ new[1].store = "conversations"
      BY <2>6, <2>9
    <2>12. DOMAIN screen' = K /\ 1..reached' \subseteq K
      BY <2>3, <2>7, <2>8
    <2> HIDE DEF K, n
    <2> QED  BY <2>1, <2>2, <2>3, <2>10, <2>11, <2>12, WholeDiskWrites
  <1>5. CASE Read
    <2> SUFFICES ASSUME intact PROVE NoneMissing' /\ InStep' /\ version' = 5
      BY <1>5 DEF WholeDisk, Read
    <2> DEFINE last == CHOOSE n \in DOMAIN screen : \A i \in DOMAIN screen : i <= n
               new == <<PutConv(user, reached), PutCursor(last)>>
    <2>1. NoneMissing /\ InStep /\ version = 5 /\ version' = 5
      BY <1>5 DEF WholeDisk, Read, disk
    <2>2. PICK u \in Accounts : u = user
      BY <1>5, DiskTypeParts DEF Read
    <2>3. UNCHANGED <<encrypts, user, screen, reached, messages, conv, cursor>> /\ puts' = puts \o new
      BY <1>5 DEF Read, Write, disk
    <2>4. last \in DOMAIN screen /\ last \in 1..posted /\ reached \in 0..posted
      BY <1>5, LastShown, DiskTypeParts DEF Read
    <2> HIDE DEF last
    <2>5. /\ PutConv(u, reached) \in Writes /\ PutConv(u, reached).store = "conversations"
          /\ PutConv(u, reached).value.key = KeyOf(u) /\ PutConv(u, reached).value.lastSeq = reached
          /\ PutCursor(last) \in Writes /\ PutCursor(last).store = "cursors" /\ PutCursor(last).n = last
      BY <2>4, ConvWritten, CursorWritten
    <2>6. DOMAIN screen = Kept /\ 1..reached \subseteq Kept
      BY <2>1, <2>2, KeyTypes DEF InStep, Covered
    <2>7. \A m \in Kept : 1..m \subseteq Kept
      BY <2>1 DEF NoneMissing, Covered
    <2>8. /\ new \in Seq(Writes) /\ Len(new) = 2
          /\ new[1] = PutConv(u, reached) /\ new[2] = PutCursor(last)
      BY <2>2, <2>5
    <2> HIDE DEF new
    <2>9. Asks(u, new, Kept)
      <3>1. Kept = Kept \cup {new[i].n : i \in {j \in 1..Len(new) : new[j].store = "messages"}}
        BY <2>5, <2>8
      <3>2. \A i \in 1..Len(new) :
                /\ new[i].store # "cursors" => new[i].value.key = KeyOf(u)
                /\ new[i].store = "cursors" => 1..new[i].n \subseteq Kept
                /\ new[i].store = "conversations" => 1..new[i].value.lastSeq \subseteq Kept
        BY <2>4, <2>5, <2>6, <2>7, <2>8
      <3> QED  BY <2>3, <2>7, <2>8, <3>1, <3>2 DEF Asks
    <2>10. DOMAIN screen' = Kept /\ 1..reached' \subseteq Kept /\ user' = u
      BY <2>2, <2>3, <2>6
    <2>11. Kept # {}
      BY <2>4, <2>6
    <2> QED  BY <2>1, <2>2, <2>9, <2>10, <2>11, WholeDiskWrites
  <1>6. ASSUME NEW n \in 1..MaxPosts, Patch(n)  PROVE WholeDisk'
    <2> SUFFICES ASSUME intact PROVE NoneMissing' /\ InStep' /\ version' = 5
      BY <1>6 DEF WholeDisk, Patch
    <2> DEFINE new == <<PutMessage(user, n, screen[n] + 1)>>
    <2>1. NoneMissing /\ InStep /\ version = 5 /\ version' = 5
      BY <1>6 DEF WholeDisk, Patch, disk
    <2>2. PICK u \in Accounts : u = user
      BY <1>6, DiskTypeParts DEF Patch
    <2>3. /\ UNCHANGED <<encrypts, user, reached, messages, conv, cursor>>
          /\ DOMAIN screen' = DOMAIN screen /\ puts' = puts \o new
      BY <1>6 DEF Patch, Write, disk
    <2>4. n \in DOMAIN screen /\ n \in 1..posted /\ screen[n] + 1 \in 0..MaxPatches
      BY <1>6, Bounds, DiskTypeParts DEF Patch
    <2>5. LET w == PutMessage(u, n, screen[n] + 1)
          IN  w \in Writes /\ w.store = "messages" /\ w.n = n /\ w.value.key = KeyOf(u)
      BY <2>4, MessageWritten
    <2>6. DOMAIN screen = Kept /\ 1..reached \subseteq Kept
      BY <2>1, <2>2, KeyTypes DEF InStep, Covered
    <2>7. \A m \in Kept : 1..m \subseteq Kept
      BY <2>1 DEF NoneMissing, Covered
    <2>8. new \in Seq(Writes) /\ Len(new) = 1 /\ new[1] = PutMessage(u, n, screen[n] + 1)
      BY <2>2, <2>5
    <2> HIDE DEF new
    <2>9. Asks(u, new, Kept)
      <3>1. Kept = Kept \cup {new[i].n : i \in {j \in 1..Len(new) : new[j].store = "messages"}}
        BY <2>4, <2>5, <2>6, <2>8
      <3>2. \A i \in 1..Len(new) :
                /\ new[i].store # "cursors" => new[i].value.key = KeyOf(u)
                /\ new[i].store = "cursors" => 1..new[i].n \subseteq Kept
                /\ new[i].store = "conversations" => 1..new[i].value.lastSeq \subseteq Kept
        BY <2>5, <2>8
      <3> QED  BY <2>3, <2>7, <2>8, <3>1, <3>2 DEF Asks
    <2>10. DOMAIN screen' = Kept /\ 1..reached' \subseteq Kept /\ user' = u
      BY <2>2, <2>3, <2>6
    <2>11. Kept # {}
      BY <2>4, <2>6
    <2> QED  BY <2>1, <2>2, <2>9, <2>10, <2>11, WholeDiskWrites
  <1>7. ASSUME NEW i \in DOMAIN puts, Apply(i)  PROVE WholeDisk'
    <2>1. version' = version /\ intact' = intact
      BY <1>7 DEF Apply
    <2> QED  BY <1>7, <2>1, WholeDiskApply DEF WholeDisk
  <1>8. CASE UNCHANGED diskVars
    <2>1. UNCHANGED <<encrypts, user, screen, reached, version, messages, conv, cursor, puts, intact>>
      BY <1>8 DEF diskVars, disk
    <2>2. NoneMissing' = NoneMissing
      BY <2>1 DEF NoneMissing, Kept, Covered
    <2>3. InStep' = InStep
      BY <2>1 DEF InStep, Kept, Covered, OneKey, KeyOf
    <2> QED  BY <2>1, <2>2, <2>3 DEF WholeDisk
  <1> QED  BY <1>1, <1>2, <1>3, <1>4, <1>5, <1>6, <1>7, <1>8 DEF DiskNext

\* The cursor of a HELLO stands for messages the client has: there is none at or below it
\* that is neither shown nor will be sent, whatever was reloaded when, if the sessions
\* before ended with nothing under way and were the same user's.
THEOREM NoHoleLeft == DiskSpec => []NoHole
  <1> DEFINE IInv == DiskTypeOK /\ WholeDisk
  <1>1. DiskInit => IInv
    BY DiskTypeInit, WholeDiskInit
  <1>2. IInv /\ [DiskNext]_diskVars => IInv'
    BY DiskTypeNext, WholeDiskNext
  <1>3. IInv => NoHole
    BY DEF WholeDisk, InStep, Covered, NoHole
  <1> QED  BY <1>1, <1>2, <1>3, PTL DEF DiskSpec

-----------------------------------------------------------------------------
(* What is stored is what is shown.                                        *)

\* Writes of others leave a message's record as it will be.
LEMMA CurrentKept ==
    ASSUME DiskTypeOK, NEW new \in Seq(Writes), puts' = puts \o new, messages' = messages,
           NEW n, \A i \in 1..Len(new) : ~Concerns(new[i], n), NEW v, Current(n, v)
    PROVE  Current(n, v)'
  <1>1. /\ DOMAIN puts = 1..Len(puts) /\ DOMAIN puts' = 1..(Len(puts) + Len(new))
        /\ \A i \in 1..Len(puts) : i \in 1..(Len(puts) + Len(new)) /\ puts'[i] = puts[i]
        /\ \A i \in 1..Len(new) : Len(puts) + i \in 1..(Len(puts) + Len(new)) /\ puts'[Len(puts) + i] = new[i]
        /\ \A i \in 1..(Len(puts) + Len(new)) :
              \/ i \in 1..Len(puts) /\ puts'[i] = puts[i]
              \/ i > Len(puts) /\ i - Len(puts) \in 1..Len(new) /\ puts'[i] = new[i - Len(puts)]
    <2>1. puts \in Seq(Writes) /\ DOMAIN puts = 1..Len(puts)
      BY DiskTypeParts
    <2> QED  BY ONLY <2>1, Appended, new \in Seq(Writes), puts' = puts \o new
  <1>2. Len(puts) \in Nat /\ Len(new) \in Nat
    BY DiskTypeParts
  <1>3. ASSUME NEW i \in DOMAIN puts', Concerns(puts'[i], n),
               \A j \in DOMAIN puts' : Concerns(puts'[j], n) => j <= i
        PROVE  puts'[i].value.patches = v
    <2>1. i \in DOMAIN puts /\ puts'[i] = puts[i]
      BY <1>1, <1>3
    <2>2. \A j \in DOMAIN puts : Concerns(puts[j], n) => j <= i
      BY <1>1, <1>3
    <2> QED  BY <1>3, <2>1, <2>2 DEF Current
  <1>4. ASSUME \A i \in DOMAIN puts' : ~Concerns(puts'[i], n)
        PROVE  n \in DOMAIN messages' /\ messages'[n].patches = v
    <2>1. \A i \in DOMAIN puts : ~Concerns(puts[i], n)
      BY <1>1, <1>4
    <2> QED  BY <2>1 DEF Current
  <1> QED  BY <1>3, <1>4 DEF Current, Concerns

\* The last write of a message counts.
LEMMA CurrentWritten ==
    ASSUME DiskTypeOK, NEW new \in Seq(Writes), puts' = puts \o new,
           NEW n, NEW v, Renews(new, n, v)
    PROVE  Current(n, v)'
  <1>1. /\ DOMAIN puts = 1..Len(puts) /\ DOMAIN puts' = 1..(Len(puts) + Len(new))
        /\ \A i \in 1..Len(puts) : i \in 1..(Len(puts) + Len(new)) /\ puts'[i] = puts[i]
        /\ \A i \in 1..Len(new) : Len(puts) + i \in 1..(Len(puts) + Len(new)) /\ puts'[Len(puts) + i] = new[i]
        /\ \A i \in 1..(Len(puts) + Len(new)) :
              \/ i \in 1..Len(puts) /\ puts'[i] = puts[i]
              \/ i > Len(puts) /\ i - Len(puts) \in 1..Len(new) /\ puts'[i] = new[i - Len(puts)]
    <2>1. puts \in Seq(Writes) /\ DOMAIN puts = 1..Len(puts)
      BY DiskTypeParts
    <2> QED  BY ONLY <2>1, Appended, new \in Seq(Writes), puts' = puts \o new
  <1>2. Len(puts) \in Nat /\ Len(new) \in Nat
    BY DiskTypeParts
  <1>3. PICK k \in 1..Len(new) : Concerns(new[k], n)
    BY DEF Renews
  <1>4. Len(puts) + k \in DOMAIN puts' /\ Concerns(puts'[Len(puts) + k], n)
    BY <1>1, <1>3
  <1>5. ASSUME NEW i \in DOMAIN puts', Concerns(puts'[i], n),
               \A j \in DOMAIN puts' : Concerns(puts'[j], n) => j <= i
        PROVE  puts'[i].value.patches = v
    <2>1. Len(puts) + k <= i
      BY <1>4, <1>5
    <2>2. i > Len(puts) /\ i \notin 1..Len(puts)
      BY <1>1, <1>2, <2>1
    <2>3. i - Len(puts) \in 1..Len(new) /\ puts'[i] = new[i - Len(puts)]
      BY <1>1, <2>2
    <2> QED  BY <1>5, <2>3 DEF Renews
  <1> QED  BY <1>4, <1>5 DEF Current, Concerns

\* Without encryption the writes of a store are done in turn.
LEMMA CurrentApply ==
    ASSUME DiskTypeOK, ~encrypts, NEW i \in DOMAIN puts, Apply(i), NEW n, NEW v, Current(n, v)
    PROVE  Current(n, v)'
  <1> DEFINE p == puts[i]
  <1>1. /\ DOMAIN messages' = IF p.store = "messages" THEN DOMAIN messages \cup {p.n} ELSE DOMAIN messages
        /\ \A m \in DOMAIN messages' :
              messages'[m] = IF p.store = "messages" /\ m = p.n THEN p.value ELSE messages[m]
    BY ApplyForm
  <1>2. \A j \in 1..(i - 1) : puts[j].store # p.store
    BY DEF Apply, MayApply
  <1>3. /\ DOMAIN puts = 1..Len(puts) /\ Len(puts) \in Nat /\ DOMAIN puts' = 1..(Len(puts) - 1)
        /\ \A j \in 1..(Len(puts) - 1) :
              LET k == IF j < i THEN j ELSE j + 1
              IN  k \in 1..Len(puts) /\ k # i /\ puts'[j] = puts[k]
        /\ \A k \in 1..Len(puts) : k # i =>
              LET j == IF k < i THEN k ELSE k - 1
              IN  j \in 1..(Len(puts) - 1) /\ puts'[j] = puts[k]
    <2>1. /\ puts \in Seq(Writes) /\ i \in 1..Len(puts) /\ Len(puts) \in Nat
          /\ DOMAIN puts = 1..Len(puts) /\ puts' = RemoveAt(puts, i)
      BY DiskTypeParts, ApplyForm
    <2>2. Without(puts, i, puts')
      BY <2>1, Left
    <2> QED  BY <2>1, <2>2 DEF Without
  <1> HIDE DEF p
  <1>4. ASSUME NEW j \in DOMAIN puts', Concerns(puts'[j], n),
               \A m \in DOMAIN puts' : Concerns(puts'[m], n) => m <= j
        PROVE  puts'[j].value.patches = v
    <2> DEFINE k == IF j < i THEN j ELSE j + 1
    <2>1. k \in DOMAIN puts /\ k # i /\ puts'[j] = puts[k]
      BY <1>3
    <2>2. ASSUME NEW m \in DOMAIN puts, Concerns(puts[m], n)  PROVE m <= k
      <3>1. CASE m = i
        <4>1. ~(k < i)
          <5> SUFFICES ASSUME k < i PROVE FALSE
            OBVIOUS
          <5>1. k \in 1..(i - 1)
            BY <1>3, <2>1
          <5> QED  BY <1>2, <1>4, <2>1, <2>2, <3>1, <5>1 DEF Concerns, p
        <4> QED  BY <1>3, <2>1, <3>1, <4>1
      <3>2. CASE m # i
        <4> DEFINE l == IF m < i THEN m ELSE m - 1
        <4>1. l \in DOMAIN puts' /\ puts'[l] = puts[m]
          BY <1>3, <3>2
        <4>2. l <= j
          BY <1>4, <2>2, <4>1
        <4> QED  BY <1>3, <3>2, <4>2
      <3> QED  BY <3>1, <3>2
    <2> HIDE DEF k
    <2> QED  BY <1>4, <2>1, <2>2 DEF Current
  <1>5. ASSUME \A j \in DOMAIN puts' : ~Concerns(puts'[j], n)
        PROVE  n \in DOMAIN messages' /\ messages'[n].patches = v
    <2>1. \A k \in DOMAIN puts : k # i => ~Concerns(puts[k], n)
      BY <1>3, <1>5
    <2>2. CASE Concerns(p, n)
      <3>1. \A k \in DOMAIN puts : Concerns(puts[k], n) => k <= i
        BY <1>3, <2>1
      <3>2. p.value.patches = v
        BY <2>2, <3>1 DEF Current, p
      <3> QED  BY <1>1, <2>2, <3>2 DEF Concerns
    <2>3. CASE ~Concerns(p, n)
      <3>1. \A k \in DOMAIN puts : ~Concerns(puts[k], n)
        BY <2>1, <2>3 DEF p
      <3>2. n \in DOMAIN messages /\ messages[n].patches = v
        BY <3>1 DEF Current
      <3> QED  BY <1>1, <2>3, <3>2 DEF Concerns
    <2> QED  BY <2>2, <2>3
  <1> QED  BY <1>4, <1>5 DEF Current, Concerns

LEMMA UpToDateSignIn ==
    ASSUME DiskTypeOK, NEW u \in Accounts, SignIn(u)
    PROVE  UpToDate'
  <1> DEFINE back == SetToSeq(WrittenBack(u))
  <1>1. DOMAIN screen' = Loaded(u) /\ \A n \in Loaded(u) : screen'[n] = Base.messages[n].patches
    BY SignInForm
  <1>2. puts' = puts \o back
    BY SignInForm
  <1>3. /\ back \in Seq(Writes)
        /\ \A i \in 1..Len(back) : \E n \in Loaded(u) :
              back[i] = PutMessage(u, n, Base.messages[n].patches)
        /\ \A n \in Loaded(u) : \E i \in 1..Len(back) :
              back[i] = PutMessage(u, n, Base.messages[n].patches)
    BY SignInWrites
  <1> HIDE DEF back
  <1>4. \A n \in Loaded(u) : LET w == PutMessage(u, n, Base.messages[n].patches)
            IN  w.store = "messages" /\ w.n = n /\ w.value.patches = Base.messages[n].patches
    BY LoadedTypes, MessageWritten
  <1>5. ASSUME NEW n \in Loaded(u), NEW v, v = Base.messages[n].patches
        PROVE  Current(n, v)'
    <2>1. \E i \in 1..Len(back) : Concerns(back[i], n)
      BY <1>3, <1>4 DEF Concerns
    <2>2. \A i \in 1..Len(back) : Concerns(back[i], n) => back[i].value.patches = v
      BY <1>3, <1>4, <1>5 DEF Concerns
    <2>3. Renews(back, n, v)
      BY <2>1, <2>2 DEF Renews
    <2> QED  BY <1>2, <1>3, <2>3, CurrentWritten
  <1>6. ASSUME NEW n \in DOMAIN screen'
        PROVE  Current(n, screen[n])'
    <2>1. PICK v : v = screen'[n] /\ v = Base.messages[n].patches
      BY <1>1
    <2>2. Current(n, v)'
      BY <1>1, <1>5, <2>1
    <2> QED  BY <2>1, <2>2 DEF Current
  <1> QED  BY <1>6 DEF UpToDate

\* A session writes what it changes on the screen.
LEMMA UpToDateWrites ==
    ASSUME DiskTypeOK, UpToDate, UNCHANGED <<encrypts, user, messages>>,
           NEW new \in Seq(Writes), puts' = puts \o new,
           \A n \in DOMAIN screen' :
              \/ /\ n \in DOMAIN screen /\ screen'[n] = screen[n]
                 /\ \A i \in 1..Len(new) : ~Concerns(new[i], n)
              \/ Renews(new, n, screen'[n])
    PROVE  UpToDate'
  <1> SUFFICES ASSUME user # NoUser, ~encrypts, NEW n \in DOMAIN screen'
               PROVE  Current(n, screen[n])'
    BY DEF UpToDate
  <1>1. PICK v : v = screen'[n]
    OBVIOUS
  <1>2. Current(n, v)'
    <2>1. CASE /\ n \in DOMAIN screen /\ screen'[n] = screen[n]
               /\ \A i \in 1..Len(new) : ~Concerns(new[i], n)
      <3>1. Current(n, screen[n])
        BY <2>1 DEF UpToDate
      <3>2. Current(n, v)
        BY <1>1, <2>1, <3>1
      <3>3. messages' = messages
        OBVIOUS
      <3> QED  BY <2>1, <3>2, <3>3, CurrentKept
    <2>2. CASE Renews(new, n, screen'[n])
      BY <1>1, <2>2, CurrentWritten
    <2> QED  BY <2>1, <2>2
  <1> QED  BY <1>1, <1>2 DEF Current

LEMMA UpToDateNext ==
    ASSUME DiskTypeOK, UpToDate, [DiskNext]_diskVars
    PROVE  UpToDate'
  <1>1. ASSUME NEW u \in Accounts, SignIn(u)  PROVE UpToDate'
    BY <1>1, UpToDateSignIn
  <1>2. ASSUME NEW way \in {"close", "signOut"}, End(way)  PROVE UpToDate'
    BY <1>2 DEF End, UpToDate
  <1>3. CASE Post
    <2>1. UNCHANGED <<encrypts, user, screen, messages, puts>>
      BY <1>3 DEF Post, disk
    <2> QED  BY <2>1 DEF UpToDate, Current
  <1>4. CASE InsertMsg
    <2> DEFINE n == reached + 1
               new == <<PutConv(user, reached), PutMessage(user, n, 0), PutConv(user, n)>>
    <2>1. user \in Accounts /\ n \in 1..posted /\ n \in 0..posted /\ reached \in 0..posted /\ 0 \in 0..MaxPatches
      BY <1>4, Bounds, DiskTypeParts DEF InsertMsg
    <2>2. /\ screen' = [i \in DOMAIN screen \cup {n} |-> IF i = n THEN 0 ELSE screen[i]]
          /\ puts' = puts \o new /\ UNCHANGED <<encrypts, user, messages>>
      BY <1>4 DEF InsertMsg, Write, disk
    <2>3. /\ PutConv(user, reached) \in Writes /\ PutConv(user, reached).store = "conversations"
          /\ PutConv(user, n) \in Writes /\ PutConv(user, n).store = "conversations"
          /\ PutMessage(user, n, 0) \in Writes /\ PutMessage(user, n, 0).store = "messages"
          /\ PutMessage(user, n, 0).n = n /\ PutMessage(user, n, 0).value.patches = 0
      BY <2>1, MessageWritten, ConvWritten
    <2>4. new \in Seq(Writes) /\ Len(new) = 3
          /\ new[1] = PutConv(user, reached) /\ new[2] = PutMessage(user, n, 0) /\ new[3] = PutConv(user, n)
      BY <2>3
    <2> HIDE DEF new, n
    <2>5. \A m : \A i \in 1..Len(new) : Concerns(new[i], m) => i = 2 /\ m = n
      BY <2>3, <2>4 DEF Concerns
    <2>6. screen'[n] = 0 /\ Renews(new, n, 0)
      BY <2>2, <2>3, <2>4, <2>5 DEF Concerns, Renews
    <2>7. \A m \in DOMAIN screen' :
              \/ /\ m \in DOMAIN screen /\ screen'[m] = screen[m]
                 /\ \A i \in 1..Len(new) : ~Concerns(new[i], m)
              \/ Renews(new, m, screen'[m])
      BY <2>2, <2>5, <2>6
    <2> QED  BY <2>2, <2>4, <2>7, UpToDateWrites
  <1>5. CASE Read
    <2> DEFINE last == CHOOSE n \in DOMAIN screen : \A i \in DOMAIN screen : i <= n
               new == <<PutConv(user, reached), PutCursor(last)>>
    <2>1. user \in Accounts /\ last \in 1..posted /\ reached \in 0..posted
      BY <1>5, LastShown, DiskTypeParts DEF Read
    <2>2. UNCHANGED <<encrypts, user, screen, messages>> /\ puts' = puts \o new
      BY <1>5 DEF Read, Write, disk
    <2> HIDE DEF last
    <2>3. /\ PutConv(user, reached) \in Writes /\ PutConv(user, reached).store = "conversations"
          /\ PutCursor(last) \in Writes /\ PutCursor(last).store = "cursors"
      BY <2>1, ConvWritten, CursorWritten
    <2>4. new \in Seq(Writes) /\ Len(new) = 2 /\ new[1] = PutConv(user, reached) /\ new[2] = PutCursor(last)
      BY <2>3
    <2> HIDE DEF new
    <2>5. \A m : \A i \in 1..Len(new) : ~Concerns(new[i], m)
      BY <2>3, <2>4 DEF Concerns
    <2>6. \A m \in DOMAIN screen' :
              \/ /\ m \in DOMAIN screen /\ screen'[m] = screen[m]
                 /\ \A i \in 1..Len(new) : ~Concerns(new[i], m)
              \/ Renews(new, m, screen'[m])
      BY <2>2, <2>5
    <2> QED  BY <2>2, <2>4, <2>6, UpToDateWrites
  <1>6. ASSUME NEW n \in 1..MaxPosts, Patch(n)  PROVE UpToDate'
    <2> DEFINE new == <<PutMessage(user, n, screen[n] + 1)>>
    <2>1. user \in Accounts /\ n \in DOMAIN screen /\ n \in 1..posted /\ screen[n] + 1 \in 0..MaxPatches
      BY <1>6, Bounds, DiskTypeParts DEF Patch
    <2>2. /\ screen' = [screen EXCEPT ![n] = screen[n] + 1]
          /\ puts' = puts \o new /\ UNCHANGED <<encrypts, user, messages>>
      BY <1>6 DEF Patch, Write, disk
    <2>3. LET w == PutMessage(user, n, screen[n] + 1)
          IN  w \in Writes /\ w.store = "messages" /\ w.n = n /\ w.value.patches = screen[n] + 1
      BY <2>1, MessageWritten
    <2>4. new \in Seq(Writes) /\ Len(new) = 1 /\ new[1] = PutMessage(user, n, screen[n] + 1)
      BY <2>3
    <2> HIDE DEF new
    <2>5. \A m : \A i \in 1..Len(new) : Concerns(new[i], m) => i = 1 /\ m = n
      BY <2>3, <2>4 DEF Concerns
    <2>6. screen'[n] = screen[n] + 1 /\ Renews(new, n, screen[n] + 1)
      BY <2>1, <2>2, <2>3, <2>4, <2>5, DiskTypeParts DEF Concerns, Renews
    <2>7. \A m \in DOMAIN screen' :
              \/ /\ m \in DOMAIN screen /\ screen'[m] = screen[m]
                 /\ \A i \in 1..Len(new) : ~Concerns(new[i], m)
              \/ Renews(new, m, screen'[m])
      BY <2>2, <2>5, <2>6, DiskTypeParts
    <2> QED  BY <2>2, <2>4, <2>7, UpToDateWrites
  <1>7. ASSUME NEW i \in DOMAIN puts, Apply(i)  PROVE UpToDate'
    <2>1. UNCHANGED <<encrypts, user, screen>>
      BY <1>7, ApplyForm
    <2> SUFFICES ASSUME user # NoUser, ~encrypts, NEW n \in DOMAIN screen'
                 PROVE  Current(n, screen[n])'
      BY <2>1 DEF UpToDate
    <2>2. PICK v : v = screen[n]
      OBVIOUS
    <2>3. Current(n, v)
      BY <2>1, <2>2 DEF UpToDate
    <2>4. Current(n, v)'
      BY <1>7, <2>3, CurrentApply
    <2> QED  BY <2>1, <2>2, <2>4 DEF Current
  <1>8. CASE UNCHANGED diskVars
    <2>1. UNCHANGED <<encrypts, user, screen, messages, puts>>
      BY <1>8 DEF diskVars, disk
    <2> QED  BY <2>1 DEF UpToDate, Current
  <1> QED  BY <1>1, <1>2, <1>3, <1>4, <1>5, <1>6, <1>7, <1>8 DEF DiskNext

\* Without encryption, with nothing under way for a message its record is the one that is
\* shown, whoever signed out or closed the tab before.
THEOREM StoredStaysCurrent == DiskSpec => []StoredIsCurrent
  <1> DEFINE IInv == DiskTypeOK /\ UpToDate
  <1>1. DiskInit => IInv
    <2>1. DiskInit => UpToDate
      BY DEF DiskInit, UpToDate
    <2> QED  BY <2>1, DiskTypeInit
  <1>2. IInv /\ [DiskNext]_diskVars => IInv'
    BY DiskTypeNext, UpToDateNext
  <1>3. IInv => StoredIsCurrent
    BY DEF UpToDate, Current, Concerns, StoredIsCurrent
  <1> QED  BY <1>1, <1>2, <1>3, PTL DEF DiskSpec

=============================================================================
