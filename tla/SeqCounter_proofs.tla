-------------------------- MODULE SeqCounter_proofs --------------------------
(***************************************************************************)
(* Proofs about SeqCounter for every set of gateways, every window size    *)
(* and every bound: no number is handed out twice, and each gateway hands  *)
(* its numbers out in increasing order.                                    *)
(***************************************************************************)
EXTENDS SeqCounter, TLAPS

\* Elements of a sequence that has lost its head or gained a last element.
LEMMA TailElements ==
    ASSUME NEW S, NEW s \in Seq(S), s # << >>
    PROVE  /\ Head(s) \in S
           /\ Head(s) = s[1]
           /\ Len(s) \in Nat \ {0}
           /\ Tail(s) \in Seq(S)
           /\ Len(Tail(s)) = Len(s) - 1
           /\ \A k \in 1..Len(Tail(s)) : k + 1 \in 1..Len(s) /\ Tail(s)[k] = s[k + 1]
OBVIOUS

LEMMA AppendElements ==
    ASSUME NEW S, NEW s \in Seq(S), NEW e \in S
    PROVE  /\ Append(s, e) \in Seq(S)
           /\ Len(Append(s, e)) = Len(s) + 1
           /\ Append(s, e)[Len(s) + 1] = e
           /\ \A k \in 1..Len(s) : Append(s, e)[k] = s[k]
OBVIOUS

LEMMA IssuedElements ==
    ASSUME TypeOK, NEW i \in 1..Len(issued)
    PROVE  issued[i] \in [gw : Gateways, n : Nat]
<1> DEFINE R == [gw : Gateways, n : Nat]
<1>1. issued \in Seq(R)
  BY DEF TypeOK
<1> HIDE DEF R
<1>2. issued[i] \in R
  BY <1>1
<1> QED
  BY <1>2 DEF R

\* The initial state satisfies the inductive invariant: nothing is owned.
LEMMA InitIInv == Init => IInv
<1> SUFFICES ASSUME Init PROVE IInv
  OBVIOUS
<1>1. TypeOK
  BY DEF Init, TypeOK, NoWindow
<1>2. StoppedHoldsNothing
  BY DEF Init, StoppedHoldsNothing
<1>3. WindowsInOrder
  <2> SUFFICES ASSUME NEW g \in Gateways
               PROVE  /\ window[g].max <= counter
                      /\ 1..Len(replies[g]) = {}
    BY DEF WindowsInOrder
  <2>1. window[g] = NoWindow /\ replies[g] = << >> /\ counter = 0
    BY DEF Init
  <2> QED
    BY <2>1 DEF NoWindow
<1>4. OwnedOnceAndFresh
  BY DEF Init, OwnedOnceAndFresh
<1>5. IssuedBehindWindow /\ NeverIssuedTwice /\ MonotonicPerGateway /\ CounterCoversIssued
  BY DEF Init, IssuedBehindWindow, NeverIssuedTwice, MonotonicPerGateway, CounterCoversIssued
<1> QED
  BY <1>1, <1>2, <1>3, <1>4, <1>5 DEF IInv

\* Handing out a number that its gateway owns and that lies above the window
\* position keeps the history free of repetitions and increasing per gateway.
LEMMA IssueKeepsHistory ==
    ASSUME IInv, NEW g \in Gateways, NEW n \in Nat, up[g], Issue(g, n),
           Owns(g, n), window[g].current < n, n <= counter,
           counter' = counter
    PROVE  /\ issued' \in Seq([gw : Gateways, n : Nat])
           /\ Len(issued') = Len(issued) + 1
           /\ issued'[Len(issued) + 1] = [gw |-> g, n |-> n]
           /\ \A i \in 1..Len(issued) : issued'[i] = issued[i]
           /\ NeverIssuedTwice'
           /\ MonotonicPerGateway'
           /\ CounterCoversIssued'
<1> DEFINE e == [gw |-> g, n |-> n]
<1> DEFINE R == [gw : Gateways, n : Nat]
<1>1. /\ issued \in Seq(R) /\ e \in R /\ counter \in Nat /\ Len(issued) \in Nat
      /\ \A i \in 1..Len(issued) : issued[i] \in R
  <2>1. issued \in Seq(R) /\ counter \in Nat
    BY DEF IInv, TypeOK
  <2>2. e \in R
    OBVIOUS
  <2> HIDE DEF R
  <2> QED
    BY <2>1, <2>2
<1> HIDE DEF R
<1>2. /\ issued' \in Seq(R)
      /\ Len(issued') = Len(issued) + 1
      /\ issued'[Len(issued) + 1] = e
      /\ \A i \in 1..Len(issued) : issued'[i] = issued[i]
  BY <1>1, AppendElements DEF Issue
<1>3. \A i \in 1..Len(issued) : issued[i].n # n
  <2>1. n \in 1..counter
    BY <1>1 DEF IInv, TypeOK
  <2> QED
    BY <2>1 DEF IInv, OwnedOnceAndFresh
<1>4. \A i \in 1..Len(issued) : issued[i].gw = g => issued[i].n < n
  <2> SUFFICES ASSUME NEW i \in 1..Len(issued), issued[i].gw = g
               PROVE  issued[i].n < n
    OBVIOUS
  <2>1. issued[i].n <= window[g].current
    BY DEF IInv, IssuedBehindWindow
  <2>2. issued[i].n \in Nat /\ window[g].current \in Nat
    BY <1>1 DEF IInv, TypeOK, R
  <2> QED
    BY <2>1, <2>2
<1>5. NeverIssuedTwice'
  BY <1>1, <1>2, <1>3 DEF IInv, NeverIssuedTwice
<1>6. MonotonicPerGateway'
  <2> SUFFICES ASSUME NEW i \in 1..Len(issued'), NEW j \in 1..Len(issued'),
                      i < j, issued'[i].gw = issued'[j].gw
               PROVE  issued'[i].n < issued'[j].n
    BY DEF MonotonicPerGateway
  <2>1. i \in 1..Len(issued) /\ issued'[i] = issued[i]
    BY <1>1, <1>2
  <2>2. CASE j = Len(issued) + 1
    BY <2>1, <2>2, <1>2, <1>4
  <2>3. CASE j \in 1..Len(issued)
    BY <2>1, <2>3, <1>2 DEF IInv, MonotonicPerGateway
  <2> QED
    BY <2>2, <2>3, <1>1, <1>2
<1>7. CounterCoversIssued'
  BY <1>1, <1>2 DEF IInv, CounterCoversIssued
<1> QED
  BY <1>2, <1>5, <1>6, <1>7 DEF R

\* Taking the next number of the local window.
LEMMA StepNextFromWindow ==
    ASSUME IInv, NEW g \in Gateways, NextFromWindow(g)
    PROVE  IInv'
<1> DEFINE n == window[g].current + 1
<1>1. /\ window[g].current \in Nat /\ window[g].max \in Nat /\ counter \in Nat
      /\ n <= window[g].max
      /\ window[g].max <= counter
  BY DEF IInv, TypeOK, WindowsInOrder, NextFromWindow, Exhausted
<1>2. Owns(g, n) /\ n \in Nat /\ n <= counter /\ window[g].current < n
  BY <1>1 DEF Owns
<1>3. /\ issued' \in Seq([gw : Gateways, n : Nat])
      /\ Len(issued') = Len(issued) + 1
      /\ issued'[Len(issued) + 1] = [gw |-> g, n |-> n]
      /\ \A i \in 1..Len(issued) : issued'[i] = issued[i]
      /\ NeverIssuedTwice'
      /\ MonotonicPerGateway'
      /\ CounterCoversIssued'
  BY <1>2, IssueKeepsHistory DEF NextFromWindow
<1>4. /\ window'[g].current = n /\ window'[g].max = window[g].max
      /\ \A h \in Gateways : h # g => window'[h] = window[h]
      /\ replies' = replies /\ up' = up /\ asked' = asked /\ counter' = counter
  BY DEF NextFromWindow, IInv, TypeOK
<1>5. TypeOK'
  BY <1>1, <1>2, <1>3, <1>4 DEF NextFromWindow, IInv, TypeOK
<1>6. StoppedHoldsNothing'
  BY <1>4 DEF NextFromWindow, IInv, StoppedHoldsNothing
<1>7. WindowsInOrder'
  BY <1>4 DEF IInv, WindowsInOrder
<1>8. OwnedOnceAndFresh'
  <2> SUFFICES ASSUME NEW f \in Gateways, NEW m \in 1..counter, Owns(f, m)'
               PROVE  /\ \A h \in Gateways : Owns(h, m)' => h = f
                      /\ \A i \in 1..Len(issued') : issued'[i].n # m
    BY <1>4 DEF OwnedOnceAndFresh
  <2>1. ASSUME NEW h \in Gateways, Owns(h, m)'
        PROVE  Owns(h, m)
    BY <2>1, <1>1, <1>4 DEF Owns
  <2>2. \A h \in Gateways : Owns(h, m)' => h = f
    BY <2>1 DEF IInv, OwnedOnceAndFresh
  <2>3. m # n
    <3>1. CASE f = g
      <4>1. ~(window'[g].current < n)
        BY <1>1, <1>4
      <4>2. \A k \in 1..Len(replies[g]) :
               replies[g][k] \in Nat /\ window[g].max + Window <= replies[g][k]
        BY DEF IInv, TypeOK, WindowsInOrder
      <4> QED
        BY <3>1, <4>1, <4>2, <1>1, <1>4, SeqCounterAssumption DEF Owns
    <3>2. CASE f # g
      <4>1. n \in 1..counter
        BY <1>1
      <4> QED
        BY <3>2, <4>1, <1>2, <2>1 DEF IInv, OwnedOnceAndFresh
    <3> QED
      BY <3>1, <3>2
  <2>4. \A i \in 1..Len(issued) : issued[i].n # m
    BY <2>1 DEF IInv, OwnedOnceAndFresh
  <2>5. \A i \in 1..Len(issued') : issued'[i].n # m
    <3>1. Len(issued) \in Nat
      BY DEF IInv, TypeOK
    <3> QED
      BY <2>3, <2>4, <1>3, <3>1
  <2> QED
    BY <2>2, <2>5
<1>9. IssuedBehindWindow'
  <2> SUFFICES ASSUME NEW i \in 1..Len(issued')
               PROVE  /\ issued'[i].n >= 1
                      /\ up[issued'[i].gw] => issued'[i].n <= window'[issued'[i].gw].current
    BY <1>4 DEF IssuedBehindWindow
  <2>1. CASE i = Len(issued) + 1
    BY <2>1, <1>1, <1>3, <1>4
  <2>2. CASE i \in 1..Len(issued)
    <3>1. issued[i] \in [gw : Gateways, n : Nat]
      BY <2>2, IssuedElements DEF IInv
    <3>2. /\ issued[i].n >= 1
          /\ up[issued[i].gw] => issued[i].n <= window[issued[i].gw].current
      BY <2>2 DEF IInv, IssuedBehindWindow
    <3> QED
      BY <2>2, <3>1, <3>2, <1>1, <1>3, <1>4
  <2>3. Len(issued) \in Nat
    BY DEF IInv, TypeOK
  <2> QED
    BY <2>1, <2>2, <2>3, <1>3
<1> QED
  BY <1>3, <1>5, <1>6, <1>7, <1>8, <1>9 DEF IInv

\* Sending the INCRBY changes neither the windows nor the history.
LEMMA StepNextAsk ==
    ASSUME IInv, NEW g \in Gateways, NextAsk(g)
    PROVE  IInv'
<1>1. UNCHANGED <<counter, window, replies, up, issued>>
  BY DEF NextAsk
<1>2. TypeOK'
  BY DEF IInv, TypeOK, NextAsk
<1>3. /\ StoppedHoldsNothing' /\ WindowsInOrder' /\ IssuedBehindWindow'
      /\ NeverIssuedTwice' /\ MonotonicPerGateway' /\ CounterCoversIssued'
  BY <1>1 DEF IInv, StoppedHoldsNothing, WindowsInOrder, IssuedBehindWindow,
              NeverIssuedTwice, MonotonicPerGateway, CounterCoversIssued
<1>4. OwnedOnceAndFresh'
  BY <1>1 DEF IInv, OwnedOnceAndFresh, Owns
<1> QED
  BY <1>2, <1>3, <1>4 DEF IInv

\* Redis moves the counter: the new window lies above everything granted so far.
LEMMA StepRedisIncrBy ==
    ASSUME IInv, NEW g \in Gateways, RedisIncrBy(g)
    PROVE  IInv'
<1>1. /\ counter \in Nat /\ Window \in Nat \ {0} /\ counter' = counter + Window
      /\ UNCHANGED <<window, up, issued>>
      /\ replies \in [Gateways -> Seq(Nat)]
      /\ asked \in [Gateways -> Nat]
      /\ window \in [Gateways -> [current : Nat, max : Nat]]
  BY SeqCounterAssumption DEF RedisIncrBy, IInv, TypeOK
<1>2. /\ replies' \in [Gateways -> Seq(Nat)]
      /\ \A h \in Gateways : (h # g \/ ~up[g]) => replies'[h] = replies[h]
      /\ up[g] => replies'[g] = Append(replies[g], counter + Window)
  BY <1>1, AppendElements DEF RedisIncrBy
<1>3. \A h \in Gateways : \A k \in 1..Len(replies'[h]) :
          \/ k \in 1..Len(replies[h]) /\ replies'[h][k] = replies[h][k]
          \/ h = g /\ up[g] /\ k = Len(replies[g]) + 1 /\ replies'[h][k] = counter + Window
  <2> TAKE h \in Gateways
  <2>1. CASE h = g /\ up[g]
    <3>1. replies[g] \in Seq(Nat) /\ counter + Window \in Nat /\ Len(replies[g]) \in Nat
      BY <1>1
    <3>2. replies'[g] = Append(replies[g], counter + Window)
      BY <2>1, <1>2
    <3>3. /\ Len(replies'[g]) = Len(replies[g]) + 1
          /\ replies'[g][Len(replies[g]) + 1] = counter + Window
          /\ \A k \in 1..Len(replies[g]) : replies'[g][k] = replies[g][k]
      BY <3>1, <3>2, AppendElements
    <3>4. \A k \in 1..Len(replies'[g]) : k \in 1..Len(replies[g]) \/ k = Len(replies[g]) + 1
      BY <3>1, <3>3
    <3> QED
      BY <2>1, <3>3, <3>4
  <2>2. CASE h # g \/ ~up[g]
    BY <2>2, <1>2
  <2> QED
    BY <2>1, <2>2
<1>4. TypeOK'
  BY <1>1, <1>2 DEF RedisIncrBy, IInv, TypeOK
<1>5. StoppedHoldsNothing'
  BY <1>1, <1>2 DEF IInv, StoppedHoldsNothing
<1>6. WindowsInOrder'
  <2> SUFFICES ASSUME NEW h \in Gateways
               PROVE  /\ window[h].max <= counter'
                      /\ \A k \in 1..Len(replies'[h]) :
                            /\ window[h].max + Window <= replies'[h][k]
                            /\ replies'[h][k] <= counter'
                            /\ \A j \in 1..(k - 1) : replies'[h][j] + Window <= replies'[h][k]
    BY <1>1 DEF WindowsInOrder
  <2>1. /\ window[h].max \in Nat /\ window[h].max <= counter /\ Len(replies[h]) \in Nat
        /\ \A k \in 1..Len(replies[h]) :
              /\ replies[h][k] \in Nat
              /\ window[h].max + Window <= replies[h][k]
              /\ replies[h][k] <= counter
              /\ \A j \in 1..(k - 1) : replies[h][j] + Window <= replies[h][k]
    BY <1>1 DEF IInv, WindowsInOrder
  <2>2. window[h].max <= counter'
    BY <2>1, <1>1
  <2>3. ASSUME NEW k \in 1..Len(replies'[h])
        PROVE  /\ window[h].max + Window <= replies'[h][k]
               /\ replies'[h][k] <= counter'
               /\ \A j \in 1..(k - 1) : replies'[h][j] + Window <= replies'[h][k]
    <3>0. \A j \in 1..(k - 1) : j \in 1..Len(replies[h]) /\ replies'[h][j] = replies[h][j]
      <4> TAKE j \in 1..(k - 1)
      <4>1. Len(replies'[h]) \in Nat
        BY <1>2
      <4>2. j \in 1..Len(replies'[h]) /\ j < k
        BY <4>1
      <4>3. k <= Len(replies[h]) + 1
        BY <1>3, <2>1
      <4> QED
        BY <4>2, <4>3, <1>3, <2>1
    <3>1. CASE k \in 1..Len(replies[h]) /\ replies'[h][k] = replies[h][k]
      <4>1. window[h].max + Window <= replies'[h][k]
        BY <3>1, <2>1
      <4>2. replies'[h][k] <= counter'
        BY <3>1, <2>1, <1>1
      <4>3. \A j \in 1..(k - 1) : replies'[h][j] + Window <= replies'[h][k]
        BY <3>0, <3>1, <2>1
      <4> QED
        BY <4>1, <4>2, <4>3
    <3>2. CASE k = Len(replies[h]) + 1 /\ replies'[h][k] = counter + Window
      <4>1. window[h].max + Window <= replies'[h][k]
        BY <3>2, <2>1, <1>1
      <4>2. replies'[h][k] <= counter'
        BY <3>2, <1>1
      <4>3. \A j \in 1..(k - 1) : replies'[h][j] + Window <= replies'[h][k]
        <5> TAKE j \in 1..(k - 1)
        <5>1. replies'[h][j] = replies[h][j] /\ replies[h][j] \in Nat /\ replies[h][j] <= counter
          BY <3>0, <2>1
        <5> QED
          BY <5>1, <3>2, <1>1
      <4> QED
        BY <4>1, <4>2, <4>3
    <3> QED
      BY <3>1, <3>2, <1>3
  <2> QED
    BY <2>2, <2>3
<1>7. OwnedOnceAndFresh'
  <2>1. ASSUME NEW h \in Gateways, NEW m \in 1..counter', Owns(h, m)'
        PROVE  (Owns(h, m) /\ m \in 1..counter) \/ (h = g /\ m > counter)
    <3>0. window[h].max \in Nat /\ window[h].max <= counter
      BY <1>1 DEF IInv, WindowsInOrder
    <3>1. CASE window'[h].current < m /\ m <= window'[h].max
      BY <3>0, <3>1, <1>1 DEF Owns
    <3>2. CASE \E k \in 1..Len(replies'[h]) :
                  replies'[h][k] - Window < m /\ m <= replies'[h][k]
      <4>1. PICK k \in 1..Len(replies'[h]) :
                  replies'[h][k] - Window < m /\ m <= replies'[h][k]
        BY <3>2
      <4>2. CASE k \in 1..Len(replies[h]) /\ replies'[h][k] = replies[h][k]
        <5>1. replies[h][k] \in Nat /\ replies[h][k] <= counter
          BY <4>2, <1>1 DEF IInv, WindowsInOrder
        <5>2. Owns(h, m)
          BY <4>1, <4>2 DEF Owns
        <5>3. m \in 1..counter
          BY <4>1, <4>2, <5>1, <1>1
        <5> QED
          BY <5>2, <5>3
      <4>3. CASE h = g /\ replies'[h][k] = counter + Window
        BY <4>1, <4>3, <1>1
      <4> QED
        BY <4>2, <4>3, <1>3
    <3>3. \/ window'[h].current < m /\ m <= window'[h].max
          \/ \E k \in 1..Len(replies'[h]) :
                  replies'[h][k] - Window < m /\ m <= replies'[h][k]
      BY <2>1, Zenon DEF Owns
    <3> QED
      BY <3>1, <3>2, <3>3
  <2>2. \A i \in 1..Len(issued) : issued[i].n \in Nat /\ issued[i].n <= counter
    BY IssuedElements DEF IInv, CounterCoversIssued
  <2> SUFFICES ASSUME NEW f \in Gateways, NEW m \in 1..counter', Owns(f, m)'
               PROVE  /\ \A h \in Gateways : Owns(h, m)' => h = f
                      /\ \A i \in 1..Len(issued) : issued[i].n # m
    BY <1>1 DEF OwnedOnceAndFresh
  <2>3. CASE m > counter
    BY <2>1, <2>2, <2>3, <1>1
  <2>4. CASE m \in 1..counter
    <3>1. ~ (m > counter)
      BY <2>4, <1>1
    <3>2. \A h \in Gateways : Owns(h, m)' => Owns(h, m)
      BY <2>1, <3>1
    <3>3. Owns(f, m)
      BY <3>2
    <3>4. /\ \A h \in Gateways : Owns(h, m) => h = f
          /\ \A i \in 1..Len(issued) : issued[i].n # m
      BY <2>4, <3>3 DEF IInv, OwnedOnceAndFresh
    <3> QED
      BY <3>2, <3>4
  <2>5. m > counter \/ m \in 1..counter
    BY <1>1
  <2> QED
    BY <2>3, <2>4, <2>5, Zenon
<1>8. IssuedBehindWindow' /\ NeverIssuedTwice' /\ MonotonicPerGateway'
  BY <1>1 DEF IInv, IssuedBehindWindow, NeverIssuedTwice, MonotonicPerGateway
<1>9. CounterCoversIssued'
  <2>1. \A i \in 1..Len(issued) : issued[i].n \in Nat /\ issued[i].n <= counter
    BY IssuedElements DEF IInv, CounterCoversIssued
  <2> QED
    BY <2>1, <1>1 DEF CounterCoversIssued
<1> QED
  BY <1>4, <1>5, <1>6, <1>7, <1>8, <1>9 DEF IInv

\* The oldest waiting call stores its window and takes the first number of it.
LEMMA StepNextResume ==
    ASSUME IInv, NEW g \in Gateways, NextResume(g)
    PROVE  IInv'
<1> DEFINE top == Head(replies[g])
<1> DEFINE n == top - Window + 1
<1>1. /\ counter \in Nat /\ Window \in Nat \ {0} /\ counter' = counter /\ up' = up
      /\ asked' = asked /\ up[g]
      /\ replies \in [Gateways -> Seq(Nat)] /\ replies[g] # << >>
      /\ window \in [Gateways -> [current : Nat, max : Nat]]
  BY SeqCounterAssumption DEF NextResume, IInv, TypeOK
<1>2. /\ top = replies[g][1] /\ top \in Nat
      /\ Len(replies[g]) \in Nat \ {0}
      /\ Tail(replies[g]) \in Seq(Nat)
      /\ Len(Tail(replies[g])) = Len(replies[g]) - 1
      /\ \A k \in 1..Len(Tail(replies[g])) :
            k + 1 \in 1..Len(replies[g]) /\ Tail(replies[g])[k] = replies[g][k + 1]
  <2>1. replies[g] \in Seq(Nat)
    BY <1>1
  <2> QED
    BY <2>1, <1>1, TailElements
<1>3. window[g].max + Window <= top /\ top <= counter /\ window[g].current <= window[g].max
      /\ window[g].max \in Nat /\ window[g].current \in Nat
  <2>1. 1 \in 1..Len(replies[g])
    BY <1>2
  <2> QED
    BY <2>1, <1>1, <1>2 DEF IInv, WindowsInOrder, TypeOK
<1>4. /\ window' = [window EXCEPT ![g] = [current |-> n, max |-> top]]
      /\ Issue(g, n)
      /\ replies' = [replies EXCEPT ![g] = Tail(@)]
  BY DEF NextResume, WindowAfter
<1>5. n \in Nat /\ 1 <= n /\ n <= top /\ n <= counter /\ window[g].current < n
      /\ top - Window < n
  BY <1>1, <1>2, <1>3
<1>6. Owns(g, n)
  <2>1. 1 \in 1..Len(replies[g])
    BY <1>2
  <2> QED
    BY <2>1, <1>2, <1>5 DEF Owns
<1>7. /\ issued' \in Seq([gw : Gateways, n : Nat])
      /\ Len(issued') = Len(issued) + 1
      /\ issued'[Len(issued) + 1] = [gw |-> g, n |-> n]
      /\ \A i \in 1..Len(issued) : issued'[i] = issued[i]
      /\ NeverIssuedTwice'
      /\ MonotonicPerGateway'
      /\ CounterCoversIssued'
  BY <1>1, <1>4, <1>5, <1>6, IssueKeepsHistory
<1>8. /\ window'[g].current = n /\ window'[g].max = top
      /\ replies'[g] = Tail(replies[g])
      /\ \A h \in Gateways : h # g => window'[h] = window[h] /\ replies'[h] = replies[h]
  BY <1>1, <1>4
<1>9. TypeOK'
  <2>1. window' \in [Gateways -> [current : Nat, max : Nat]]
    BY <1>1, <1>2, <1>4, <1>5
  <2>2. \A h \in Gateways : window'[h].current <= window'[h].max
    BY <1>5, <1>8 DEF IInv, TypeOK
  <2>3. replies' \in [Gateways -> Seq(Nat)]
    BY <1>1, <1>2, <1>4
  <2> QED
    BY <2>1, <2>2, <2>3, <1>1, <1>7 DEF IInv, TypeOK
<1>10. StoppedHoldsNothing'
  BY <1>1, <1>8 DEF IInv, StoppedHoldsNothing
<1>11. WindowsInOrder'
  <2> SUFFICES ASSUME NEW h \in Gateways
               PROVE  /\ window'[h].max <= counter
                      /\ \A k \in 1..Len(replies'[h]) :
                            /\ window'[h].max + Window <= replies'[h][k]
                            /\ replies'[h][k] <= counter
                            /\ \A j \in 1..(k - 1) : replies'[h][j] + Window <= replies'[h][k]
    BY <1>1 DEF WindowsInOrder
  <2>1. CASE h # g
    BY <2>1, <1>8 DEF IInv, WindowsInOrder
  <2>2. CASE h = g
    <3>1. \A k \in 1..Len(replies[g]) :
             /\ replies[g][k] <= counter
             /\ \A j \in 1..(k - 1) : replies[g][j] + Window <= replies[g][k]
      BY DEF IInv, WindowsInOrder
    <3>2. ASSUME NEW k \in 1..Len(replies'[g])
          PROVE  /\ top + Window <= replies'[g][k]
                 /\ replies'[g][k] <= counter
                 /\ \A j \in 1..(k - 1) : replies'[g][j] + Window <= replies'[g][k]
      <4>1. k + 1 \in 1..Len(replies[g]) /\ replies'[g][k] = replies[g][k + 1]
        BY <1>2, <1>8
      <4>2. 1 \in 1..((k + 1) - 1)
        BY <1>2, <1>8
      <4>3. top + Window <= replies'[g][k] /\ replies'[g][k] <= counter
        BY <4>1, <4>2, <3>1, <1>2
      <4>4. ASSUME NEW j \in 1..(k - 1)
            PROVE  replies'[g][j] + Window <= replies'[g][k]
        <5>1. j \in 1..Len(Tail(replies[g])) /\ j + 1 \in 1..((k + 1) - 1)
          BY <1>2, <1>8
        <5>2. replies'[g][j] = replies[g][j + 1]
          BY <5>1, <1>2, <1>8
        <5> QED
          BY <5>1, <5>2, <4>1, <3>1
      <4> QED
        BY <4>3, <4>4
    <3> QED
      BY <2>2, <3>2, <1>3, <1>8
  <2> QED
    BY <2>1, <2>2
<1>12. OwnedOnceAndFresh'
  <2>1. ASSUME NEW h \in Gateways, NEW m \in 1..counter, Owns(h, m)'
        PROVE  Owns(h, m) /\ (h = g => m # n)
    <3>1. CASE h # g
      BY <2>1, <3>1, <1>8 DEF Owns
    <3>2. CASE h = g
      <4>1. CASE window'[g].current < m /\ m <= window'[g].max
        <5>1. 1 \in 1..Len(replies[g])
          BY <1>2
        <5> QED
          BY <3>2, <4>1, <5>1, <1>1, <1>2, <1>5, <1>8 DEF Owns
      <4>2. CASE \E k \in 1..Len(replies'[g]) :
                    replies'[g][k] - Window < m /\ m <= replies'[g][k]
        <5>1. PICK k \in 1..Len(replies'[g]) :
                    replies'[g][k] - Window < m /\ m <= replies'[g][k]
          BY <4>2
        <5>2. k + 1 \in 1..Len(replies[g]) /\ replies'[g][k] = replies[g][k + 1]
              /\ replies[g][k + 1] \in Nat
          BY <1>1, <1>2, <1>8
        <5>3. Owns(g, m)
          BY <5>1, <5>2 DEF Owns
        <5>4. top + Window <= replies'[g][k]
          BY <1>1, <1>8, <1>11 DEF WindowsInOrder
        <5> QED
          BY <3>2, <5>1, <5>2, <5>3, <5>4, <1>1, <1>2, <1>5
      <4>3. \/ window'[g].current < m /\ m <= window'[g].max
            \/ \E k \in 1..Len(replies'[g]) :
                  replies'[g][k] - Window < m /\ m <= replies'[g][k]
        BY <2>1, <3>2, Zenon DEF Owns
      <4> QED
        BY <4>1, <4>2, <4>3
    <3> QED
      BY <3>1, <3>2
  <2> SUFFICES ASSUME NEW f \in Gateways, NEW m \in 1..counter, Owns(f, m)'
               PROVE  /\ \A h \in Gateways : Owns(h, m)' => h = f
                      /\ \A i \in 1..Len(issued') : issued'[i].n # m
    BY <1>1 DEF OwnedOnceAndFresh
  <2>2. \A h \in Gateways : Owns(h, m)' => h = f
    BY <2>1 DEF IInv, OwnedOnceAndFresh
  <2>3. m # n
    BY <2>1, <1>1, <1>5, <1>6 DEF IInv, OwnedOnceAndFresh
  <2>4. \A i \in 1..Len(issued) : issued[i].n # m
    BY <2>1 DEF IInv, OwnedOnceAndFresh
  <2>5. Len(issued) \in Nat
    BY DEF IInv, TypeOK
  <2> QED
    BY <2>2, <2>3, <2>4, <2>5, <1>7
<1>13. IssuedBehindWindow'
  <2> SUFFICES ASSUME NEW i \in 1..Len(issued')
               PROVE  /\ issued'[i].n >= 1
                      /\ up[issued'[i].gw] => issued'[i].n <= window'[issued'[i].gw].current
    BY <1>1 DEF IssuedBehindWindow
  <2>1. CASE i = Len(issued) + 1
    BY <2>1, <1>5, <1>7, <1>8
  <2>2. CASE i \in 1..Len(issued)
    <3>1. issued[i] \in [gw : Gateways, n : Nat]
      BY <2>2, IssuedElements DEF IInv
    <3>2. /\ issued[i].n >= 1
          /\ up[issued[i].gw] => issued[i].n <= window[issued[i].gw].current
      BY <2>2 DEF IInv, IssuedBehindWindow
    <3> QED
      BY <2>2, <3>1, <3>2, <1>3, <1>5, <1>7, <1>8
  <2>3. Len(issued) \in Nat
    BY DEF IInv, TypeOK
  <2> QED
    BY <2>1, <2>2, <2>3, <1>7
<1> QED
  BY <1>7, <1>9, <1>10, <1>11, <1>12, <1>13 DEF IInv

\* A process that ends gives up its window and its pending replies.
LEMMA StepStop ==
    ASSUME IInv, NEW g \in Gateways, Stop(g)
    PROVE  IInv'
<1>1. /\ counter' = counter /\ asked' = asked /\ issued' = issued
      /\ up' = [up EXCEPT ![g] = FALSE]
      /\ window' = [window EXCEPT ![g] = NoWindow]
      /\ replies' = [replies EXCEPT ![g] = << >>]
      /\ counter \in Nat
      /\ up \in [Gateways -> BOOLEAN]
      /\ replies \in [Gateways -> Seq(Nat)]
      /\ window \in [Gateways -> [current : Nat, max : Nat]]
  BY DEF Stop, IInv, TypeOK
<1>2. /\ window'[g].current = 0 /\ window'[g].max = 0 /\ window'[g] = NoWindow
      /\ replies'[g] = << >> /\ 1..Len(replies'[g]) = {} /\ ~up'[g]
      /\ \A h \in Gateways : h # g => /\ window'[h] = window[h]
                                     /\ replies'[h] = replies[h]
                                     /\ up'[h] = up[h]
  BY <1>1 DEF NoWindow
<1>3. TypeOK'
  <2>1. window' \in [Gateways -> [current : Nat, max : Nat]]
    BY <1>1 DEF NoWindow
  <2>2. \A h \in Gateways : window'[h].current <= window'[h].max
    <3> TAKE h \in Gateways
    <3>1. CASE h = g
      BY <3>1, <1>2
    <3>2. CASE h # g
      BY <3>2, <1>2 DEF IInv, TypeOK
    <3> QED
      BY <3>1, <3>2
  <2> QED
    BY <2>1, <2>2, <1>1 DEF IInv, TypeOK
<1>4. StoppedHoldsNothing'
  BY <1>2 DEF IInv, StoppedHoldsNothing
<1>5. WindowsInOrder'
  BY <1>1, <1>2 DEF IInv, WindowsInOrder
<1>6. OwnedOnceAndFresh'
  <2>1. ASSUME NEW h \in Gateways, NEW m \in 1..counter, Owns(h, m)'
        PROVE  Owns(h, m)
    BY <2>1, <1>1, <1>2 DEF Owns
  <2> QED
    BY <2>1, <1>1 DEF IInv, OwnedOnceAndFresh
<1>7. IssuedBehindWindow'
  <2> SUFFICES ASSUME NEW i \in 1..Len(issued)
               PROVE  /\ issued[i].n >= 1
                      /\ up'[issued[i].gw] => issued[i].n <= window'[issued[i].gw].current
    BY <1>1 DEF IssuedBehindWindow
  <2>1. issued[i].gw \in Gateways
    BY IssuedElements DEF IInv
  <2> QED
    BY <2>1, <1>1, <1>2 DEF IInv, IssuedBehindWindow
<1>8. NeverIssuedTwice' /\ MonotonicPerGateway' /\ CounterCoversIssued'
  BY <1>1 DEF IInv, NeverIssuedTwice, MonotonicPerGateway, CounterCoversIssued
<1> QED
  BY <1>3, <1>4, <1>5, <1>6, <1>7, <1>8 DEF IInv

-----------------------------------------------------------------------------
\* The inductive invariant holds in every reachable state.
THEOREM IInvCorrect == Spec => []IInv
<1>1. IInv /\ [Next]_vars => IInv'
  <2> SUFFICES ASSUME IInv, [Next]_vars
               PROVE  IInv'
    OBVIOUS
  <2>1. CASE UNCHANGED vars
    BY <2>1 DEF vars, IInv, TypeOK, StoppedHoldsNothing, WindowsInOrder, OwnedOnceAndFresh,
                Owns, IssuedBehindWindow, NeverIssuedTwice, MonotonicPerGateway,
                CounterCoversIssued
  <2>2. ASSUME NEW g \in Gateways, NextFromWindow(g) PROVE IInv'
    BY <2>2, StepNextFromWindow
  <2>3. ASSUME NEW g \in Gateways, NextAsk(g) PROVE IInv'
    BY <2>3, StepNextAsk
  <2>4. ASSUME NEW g \in Gateways, RedisIncrBy(g) PROVE IInv'
    BY <2>4, StepRedisIncrBy
  <2>5. ASSUME NEW g \in Gateways, NextResume(g) PROVE IInv'
    BY <2>5, StepNextResume
  <2>6. ASSUME NEW g \in Gateways, Stop(g) PROVE IInv'
    BY <2>6, StepStop
  <2> QED
    BY <2>1, <2>2, <2>3, <2>4, <2>5, <2>6 DEF Next
<1> QED
  BY <1>1, InitIInv, PTL DEF Spec

\* Types: a stored window is never inverted and never starts below zero.
THEOREM TypeCorrect == Spec => []TypeOK
<1>1. IInv => TypeOK
  BY DEF IInv
<1> QED
  BY <1>1, IInvCorrect, PTL

\* SeqBatcher.next never hands the same number of a conversation out twice,
\* for any number of gateways, any window and any interleaving of the calls.
THEOREM UniqueNumbers == Spec => []NeverIssuedTwice
<1>1. IInv => NeverIssuedTwice
  BY DEF IInv
<1> QED
  BY <1>1, IInvCorrect, PTL

\* The numbers one gateway hands out only go up.
THEOREM GatewayMonotonic == Spec => []MonotonicPerGateway
<1>1. IInv => MonotonicPerGateway
  BY DEF IInv
<1> QED
  BY <1>1, IInvCorrect, PTL

\* The counter in Redis is an upper bound of what has been handed out.
THEOREM CounterIsUpperBound == Spec => []CounterCoversIssued
<1>1. IInv => CounterCoversIssued
  BY DEF IInv
<1> QED
  BY <1>1, IInvCorrect, PTL
=============================================================================
