---------------------------- MODULE Features_proofs ----------------------------
(***************************************************************************)
(* Theorems about the features that are done to messages and conversations *)
(* besides sending, for every set of messages, users, devices, processes   *)
(* and requests and every limit: the types of each; that too many pins     *)
(* take concurrent requests (Pins); that what was viewed is erased where   *)
(* it was announced (ViewOnce); that no vote is lost and the last tally is *)
(* final (Polls); that expired messages stay tombstones and are announced  *)
(* (Disappearing); that a client shows the stored subject or timer         *)
(* (Settings); and that an exported text is read back as what was          *)
(* exported (Portability).                                                 *)
(***************************************************************************)
EXTENDS Pins, ViewOnce, Polls, Disappearing, Settings, Portability, FiniteSetTheorems,
        SequenceTheorems, WellFoundedInduction, TLAPS

-----------------------------------------------------------------------------
(***************************************************************************)
(* Sequences: Append, Tail and the last element                            *)
(***************************************************************************)

\* What is appended to a queue of frames, and what is left of one.
LEMMA Appended ==
    ASSUME NEW S, NEW s \in Seq(S), NEW e \in S
    PROVE  /\ \A i \in DOMAIN s : i \in DOMAIN Append(s, e) /\ Append(s, e)[i] = s[i] /\ i < Len(s) + 1
           /\ Len(s) + 1 \in DOMAIN Append(s, e) /\ Append(s, e)[Len(s) + 1] = e /\ Len(s) \in Nat
           /\ \A i \in DOMAIN Append(s, e) : i \in DOMAIN s \/ i = Len(s) + 1
<1>1. /\ Len(s) \in Nat /\ Len(Append(s, e)) = Len(s) + 1
      /\ DOMAIN s = 1..Len(s) /\ DOMAIN Append(s, e) = 1..(Len(s) + 1)
  OBVIOUS
<1> QED
  BY <1>1

\* What is left of a queue of frames when the first is taken.
LEMMA Shifted ==
    ASSUME NEW S, NEW s \in Seq(S), s # << >>
    PROVE  /\ \A i \in DOMAIN Tail(s) : i + 1 \in DOMAIN s /\ Tail(s)[i] = s[i + 1] /\ i \in Nat /\ i > 0
           /\ \A i \in DOMAIN s : i \in Nat /\ (i = 1 \/ (i > 1 /\ i - 1 \in DOMAIN Tail(s) /\ Tail(s)[i - 1] = s[i]))
           /\ 1 \in DOMAIN s /\ s[1] = Head(s)
<1>1. /\ Len(s) \in Nat \ {0} /\ Len(Tail(s)) = Len(s) - 1
      /\ DOMAIN s = 1..Len(s) /\ DOMAIN Tail(s) = 1..(Len(s) - 1)
  OBVIOUS
<1>2. \A i \in 1..(Len(s) - 1) : Tail(s)[i] = s[i + 1]
  BY <1>1
<1> QED
  BY <1>1, <1>2

\* The last element of a sequence after Append and after Tail.
LEMMA LastOf ==
    ASSUME NEW S, NEW s \in Seq(S), NEW e \in S
    PROVE  /\ Append(s, e) # << >> /\ Append(s, e)[Len(Append(s, e))] = e
           /\ s # << >> /\ Tail(s) = << >> => s[Len(s)] = Head(s)
           /\ s # << >> /\ Tail(s) # << >> => Tail(s)[Len(Tail(s))] = s[Len(s)]
<1>1. Len(s) \in Nat /\ Len(Append(s, e)) = Len(s) + 1
  OBVIOUS
<1>2. Append(s, e)[Len(s) + 1] = e /\ Append(s, e) # << >>
  BY <1>1
<1>3. s # << >> => /\ Len(s) > 0 /\ Tail(s) \in Seq(S) /\ Len(Tail(s)) = Len(s) - 1
                   /\ \A i \in 1..(Len(s) - 1) : Tail(s)[i] = s[i + 1]
  OBVIOUS
<1>4. ASSUME s # << >>, Tail(s) = << >> PROVE s[Len(s)] = Head(s)
  <2>1. Len(Tail(s)) = 0
    <3>1. Len(<< >>) = 0
      OBVIOUS
    <3> QED
      BY <1>4, <3>1, Zenon
  <2>2. Len(s) = 1
    BY <1>1, <1>4, <1>3, <2>1
  <2> QED
    BY <1>4, <2>2
<1>5. ASSUME s # << >>, Tail(s) # << >> PROVE Tail(s)[Len(Tail(s))] = s[Len(s)]
  <2>1. Len(Tail(s)) # 0
    BY <1>5, <1>3
  <2>2. Len(s) - 1 \in 1..(Len(s) - 1) /\ Len(Tail(s)) = Len(s) - 1
    BY <1>1, <1>5, <1>3, <2>1
  <2> QED
    BY <1>1, <1>5, <1>3, <2>2
<1> QED
  BY <1>1, <1>2, <1>4, <1>5

\* A sequence that has not one element is not empty without its first.
LEMMA NotTheLast ==
    ASSUME NEW S, NEW s \in Seq(S), s # << >>, Len(s) # 1
    PROVE  Tail(s) # << >>
<1>1. Len(s) \in Nat \ {0} /\ Len(Tail(s)) = Len(s) - 1 /\ DOMAIN Tail(s) = 1..(Len(s) - 1)
  OBVIOUS
<1>2. 1 \in DOMAIN Tail(s)
  BY <1>1
<1>3. DOMAIN << >> = {}
  OBVIOUS
<1> QED
  BY ONLY <1>2, <1>3

\* A sequence over a set is one over a larger set.
LEMMA SequencesGrow ==
    ASSUME NEW S, NEW T, S \subseteq T, NEW s \in Seq(S)
    PROVE  s \in Seq(T)
OBVIOUS

-----------------------------------------------------------------------------
(***************************************************************************)
(* Pins                                                                    *)
(***************************************************************************)

\* A message that is put on a list or taken off it leaves a set of messages.
LEMMA PutType ==
    ASSUME NEW S \in SUBSET Messages, NEW m \in Messages, NEW on
    PROVE  Put(S, m, on) \in SUBSET Messages
BY DEF Put

\* The variables keep their types (every request's place, message and direction).
THEOREM PinsTypeCorrect == Spec => []TypeOK
<1>1. Init => TypeOK
  BY PinsAssumption DEF Init, TypeOK, Pcs
<1>2. TypeOK /\ [Next]_vars => TypeOK'
  <2> SUFFICES ASSUME TypeOK, [Next]_vars PROVE TypeOK'
    OBVIOUS
  <2> USE DEF TypeOK, Pcs
  <2>1. ASSUME NEW t \in Tasks, NEW m \in Messages, NEW on \in BOOLEAN, Begin(t, m, on)
        PROVE  TypeOK'
    BY <2>1, SMTT(30) DEF Begin
  <2>2. ASSUME NEW t \in Tasks, IsPinned(t) PROVE TypeOK'
    BY <2>2 DEF IsPinned, GoTo
  <2>3. ASSUME NEW t \in Tasks, Count(t) PROVE TypeOK'
    BY <2>3 DEF Count, GoTo
  <2>4. ASSUME NEW t \in Tasks, SetRedis(t) PROVE TypeOK'
    BY <2>4, PutType DEF SetRedis, GoTo
  <2>5. ASSUME NEW t \in Tasks, SetConv(t) PROVE TypeOK'
    BY <2>5, PutType DEF SetConv, GoTo
  <2>6. ASSUME NEW t \in Tasks, SetMessage(t) PROVE TypeOK'
    BY <2>6, PutType DEF SetMessage, GoTo
  <2>7. CASE UNCHANGED vars
    BY <2>7 DEF vars
  <2> QED
    BY <2>1, <2>2, <2>3, <2>4, <2>5, <2>6, <2>7 DEF Next, Pin
<1> QED
  BY <1>1, <1>2, PTL DEF Spec

-----------------------------------------------------------------------------
(***************************************************************************)
(* The limit                                                               *)
(***************************************************************************)

\* The requests that will add their message to the set without another check.
Admitted == {t \in Tasks : task[t].pc = "redis" /\ task[t].on}

Claimed == {task[t].m : t \in Admitted}

\* The pins and the messages that are about to be pinned, together.  Counting
\* messages, not requests, makes it inductive: an unpin may turn several
\* requests that found their message pinned into requests that add it.
ClaimsBounded == Cardinality(pins \cup Claimed) <= PinMax + Cardinality(Tasks) - 1

\* What requests claim of the pins is finite.
LEMMA ClaimedFinite ==
    ASSUME TypeOK
    PROVE  /\ IsFiniteSet(pins) /\ IsFiniteSet(Claimed) /\ IsFiniteSet(pins \cup Claimed)
           /\ Cardinality(pins) \in Nat /\ Cardinality(Claimed) \in Nat
           /\ Cardinality(pins \cup Claimed) \in Nat
           /\ Cardinality(Claimed) <= Cardinality(Tasks)
           /\ Cardinality(Tasks) \in Nat
           /\ Claimed \subseteq Messages
<1>1. IsFiniteSet(Admitted) /\ Cardinality(Admitted) <= Cardinality(Tasks)
  BY FS_Subset, PinsAssumption DEF Admitted
<1>2. [t \in Admitted |-> task[t].m] \in Surjection(Admitted, Claimed)
  BY DEF Surjection, Claimed
<1>3. IsFiniteSet(Claimed) /\ Cardinality(Claimed) <= Cardinality(Admitted)
  BY <1>1, <1>2, FS_Surjection
<1>4. Claimed \subseteq Messages
  BY DEF Claimed, Admitted, TypeOK
<1>5. IsFiniteSet(pins) /\ IsFiniteSet(pins \cup Claimed)
  BY <1>4, FS_Subset, PinsAssumption, pins \cup Claimed \in SUBSET Messages, pins \in SUBSET Messages DEF TypeOK
<1>6. /\ Cardinality(pins) \in Nat /\ Cardinality(Claimed) \in Nat
      /\ Cardinality(pins \cup Claimed) \in Nat /\ Cardinality(Tasks) \in Nat
      /\ Cardinality(Admitted) \in Nat
  BY <1>1, <1>3, <1>5, FS_CardinalityType, PinsAssumption
<1> QED
  BY <1>1, <1>3, <1>4, <1>5, <1>6

\* A step that pins nothing and admits nothing new keeps the bound.
LEMMA NoNewClaim ==
    ASSUME TypeOK, ClaimsBounded, (pins \cup Claimed)' \subseteq pins \cup Claimed
    PROVE  ClaimsBounded'
<1>1. /\ IsFiniteSet(pins \cup Claimed)
      /\ Cardinality(pins \cup Claimed) \in Nat /\ Cardinality(Tasks) \in Nat
  BY ClaimedFinite
<1>2. /\ IsFiniteSet((pins \cup Claimed)')
      /\ Cardinality((pins \cup Claimed)') <= Cardinality(pins \cup Claimed)
  BY <1>1, FS_Subset
<1>3. Cardinality((pins \cup Claimed)') \in Nat
  BY <1>2, FS_CardinalityType
<1> QED
  BY <1>1, <1>2, <1>3, PinsAssumption DEF ClaimsBounded

\* At most Tasks - 1 pins more than PIN_MAX: PinEngine.pin checks the limit two
\* awaits before the sadd (lib/pin/engine.js:21-24).
THEOREM LimitIsNearlyKept == Spec => []PinsBounded
<1>1. Init => ClaimsBounded
  <2> SUFFICES ASSUME Init PROVE ClaimsBounded
    OBVIOUS
  <2>1. pins \cup Claimed = {}
    BY DEF Init, Claimed, Admitted
  <2>2. Cardinality(Tasks) \in Nat /\ Cardinality(pins \cup Claimed) = 0
    BY <2>1, FS_EmptySet, FS_CardinalityType, PinsAssumption
  <2> QED
    BY <2>2, PinsAssumption DEF ClaimsBounded
<1>2. TypeOK /\ TypeOK' /\ ClaimsBounded /\ [Next]_vars => ClaimsBounded'
  <2> SUFFICES ASSUME TypeOK, TypeOK', ClaimsBounded, [Next]_vars PROVE ClaimsBounded'
    OBVIOUS
  <2>1. ASSUME NEW t \in Tasks, NEW m \in Messages, NEW on \in BOOLEAN, Begin(t, m, on)
        PROVE  ClaimsBounded'
    <3>1. (pins \cup Claimed)' \subseteq pins \cup Claimed
      BY <2>1 DEF Begin, Claimed, Admitted, TypeOK
    <3> QED
      BY <3>1, NoNewClaim
  <2>2. ASSUME NEW t \in Tasks, IsPinned(t) PROVE ClaimsBounded'
    <3>1. (pins \cup Claimed)' \subseteq pins \cup Claimed
      BY <2>2 DEF IsPinned, GoTo, Claimed, Admitted, TypeOK
    <3> QED
      BY <3>1, NoNewClaim
  <2>3. ASSUME NEW t \in Tasks, Count(t) PROVE ClaimsBounded'
    <3>1. CASE Cardinality(pins) < PinMax
      <4>1. /\ IsFiniteSet(pins') /\ IsFiniteSet(Claimed')
            /\ Cardinality(pins') \in Nat /\ Cardinality(Claimed') \in Nat
            /\ Cardinality(pins' \cup Claimed') \in Nat
            /\ Cardinality(Claimed') <= Cardinality(Tasks)
            /\ Cardinality(Tasks) \in Nat
        <5>1. (TypeOK => (/\ IsFiniteSet(pins) /\ IsFiniteSet(Claimed)
            /\ Cardinality(pins) \in Nat /\ Cardinality(Claimed) \in Nat
            /\ Cardinality(pins \cup Claimed) \in Nat
            /\ Cardinality(Claimed) <= Cardinality(Tasks)
            /\ Cardinality(Tasks) \in Nat))'
          BY ClaimedFinite, PTL
        <5> QED
          BY <5>1
      <4>2. Cardinality(pins' \cup Claimed') <= Cardinality(pins') + Cardinality(Claimed')
        <5>1. /\ IsFiniteSet(pins' \cap Claimed')
              /\ Cardinality(pins' \cup Claimed') =
                     Cardinality(pins') + Cardinality(Claimed') - Cardinality(pins' \cap Claimed')
          BY <4>1, FS_Union, FS_Intersection
        <5>2. Cardinality(pins' \cap Claimed') \in Nat
          BY <5>1, FS_CardinalityType
        <5> QED
          BY <4>1, <5>1, <5>2
      <4>3. pins' = pins
        BY <2>3 DEF Count
      <4> QED
        BY <3>1, <4>1, <4>2, <4>3, PinsAssumption DEF ClaimsBounded
    <3>2. CASE ~(Cardinality(pins) < PinMax)
      <4>1. (pins \cup Claimed)' \subseteq pins \cup Claimed
        BY <2>3, <3>2 DEF Count, GoTo, Claimed, Admitted, TypeOK
      <4> QED
        BY <4>1, NoNewClaim
    <3> QED
      BY <3>1, <3>2
  <2>4. ASSUME NEW t \in Tasks, SetRedis(t) PROVE ClaimsBounded'
    <3>1. Claimed' \subseteq Claimed
      BY <2>4 DEF SetRedis, GoTo, Claimed, Admitted, TypeOK
    <3>2. pins' \subseteq pins \cup Claimed
      BY <2>4 DEF SetRedis, Put, Claimed, Admitted
    <3> QED
      BY <3>1, <3>2, NoNewClaim
  <2>5. ASSUME NEW t \in Tasks, SetConv(t) PROVE ClaimsBounded'
    <3>1. (pins \cup Claimed)' \subseteq pins \cup Claimed
      BY <2>5 DEF SetConv, GoTo, Claimed, Admitted, TypeOK
    <3> QED
      BY <3>1, NoNewClaim
  <2>6. ASSUME NEW t \in Tasks, SetMessage(t) PROVE ClaimsBounded'
    <3>1. (pins \cup Claimed)' \subseteq pins \cup Claimed
      BY <2>6 DEF SetMessage, GoTo, Claimed, Admitted, TypeOK
    <3> QED
      BY <3>1, NoNewClaim
  <2>7. CASE UNCHANGED vars
    BY <2>7 DEF vars, ClaimsBounded, Claimed, Admitted
  <2> QED
    BY <2>1, <2>2, <2>3, <2>4, <2>5, <2>6, <2>7 DEF Next, Pin
<1>3. TypeOK /\ ClaimsBounded => PinsBounded
  <2> SUFFICES ASSUME TypeOK, ClaimsBounded PROVE PinsBounded
    OBVIOUS
  <2>1. Cardinality(pins) <= Cardinality(pins \cup Claimed)
    BY ClaimedFinite, FS_Subset
  <2> QED
    BY <2>1, ClaimedFinite, PinsAssumption DEF ClaimsBounded, PinsBounded
<1> QED
  BY <1>1, <1>2, <1>3, PinsTypeCorrect, PTL DEF Spec

-----------------------------------------------------------------------------
(***************************************************************************)
(* The three copies                                                        *)
(***************************************************************************)

Agree(m) == (m \in pins <=> m \in docPins) /\ (m \in pins <=> m \in flagged)

\* Where the copies stand while request t works on message m.
Progress(t, m) ==
    /\ task[t].pc \in {"pinned?", "count", "redis"} => Agree(m)
    /\ task[t].pc \in {"conv", "message"} => (m \in pins <=> task[t].on)
    /\ task[t].pc = "message" => (m \in docPins <=> task[t].on)

\* A message without overlaps has at most one request, and the copies differ only
\* as far as that request has got.
CleanProgress(m) ==
    /\ \A t, u \in Tasks :
          task[t].pc # "idle" /\ task[u].pc # "idle" /\ task[t].m = m /\ task[u].m = m => t = u
    /\ ~InFlight(m) => Agree(m)
    /\ \A t \in Tasks : task[t].m = m => Progress(t, m)

CopiesInv == \A m \in clean : CleanProgress(m)

\* Redis, the conversation's document and the message's flag agree on a message
\* whose pins and unpins did not overlap (lib/pin/storage.js:21-32).
THEOREM CopiesStayEqual == Spec => []CopiesAgree
<1>1. Init => CopiesInv
  BY DEF Init, CopiesInv, CleanProgress, Progress, Agree, InFlight
<1>2. TypeOK /\ CopiesInv /\ [Next]_vars => CopiesInv'
  <2> SUFFICES ASSUME TypeOK, CopiesInv, [Next]_vars, NEW n \in Messages, n \in clean'
               PROVE  CleanProgress(n)'
    BY DEF CopiesInv, TypeOK, Next, Pin, Begin, IsPinned, Count, SetRedis, SetConv, SetMessage, vars
  <2>0. CleanProgress(n)
    BY DEF CopiesInv, Next, Pin, Begin, IsPinned, Count, SetRedis, SetConv, SetMessage, vars
  <2> USE DEF CleanProgress, Progress, Agree, InFlight, TypeOK, Pcs
  <2>1. ASSUME NEW t \in Tasks, NEW m \in Messages, NEW on \in BOOLEAN, Begin(t, m, on)
        PROVE  CleanProgress(n)'
    BY <2>0, <2>1 DEF Begin
  <2>2. ASSUME NEW t \in Tasks, IsPinned(t) PROVE CleanProgress(n)'
    BY <2>0, <2>2 DEF IsPinned, GoTo
  <2>3. ASSUME NEW t \in Tasks, Count(t) PROVE CleanProgress(n)'
    BY <2>0, <2>3 DEF Count, GoTo
  <2>4. ASSUME NEW t \in Tasks, SetRedis(t) PROVE CleanProgress(n)'
    BY <2>0, <2>4 DEF SetRedis, GoTo, Put
  <2>5. ASSUME NEW t \in Tasks, SetConv(t) PROVE CleanProgress(n)'
    BY <2>0, <2>5 DEF SetConv, GoTo, Put
  <2>6. ASSUME NEW t \in Tasks, SetMessage(t) PROVE CleanProgress(n)'
    BY <2>0, <2>6 DEF SetMessage, GoTo, Put
  <2>7. CASE UNCHANGED vars
    BY <2>0, <2>7 DEF vars
  <2> QED
    BY <2>1, <2>2, <2>3, <2>4, <2>5, <2>6, <2>7 DEF Next, Pin
<1>3. CopiesInv => CopiesAgree
  BY DEF CopiesInv, CleanProgress, Agree, CopiesAgree
<1> QED
  BY <1>1, <1>2, <1>3, PinsTypeCorrect, PTL DEF Spec

-----------------------------------------------------------------------------
(***************************************************************************)
(* View-once messages                                                      *)
(***************************************************************************)

\* One more viewer: the others stay entered.
LEMMA EnteredGrows ==
    ASSUME viewedBy \in Seq(Viewers), NEW u \in Viewers, viewedBy' = Append(viewedBy, u)
    PROVE  viewedBy' \in Seq(Viewers) /\ Entered \subseteq Entered' /\ u \in Entered'
<1>1. viewedBy' \in Seq(Viewers) /\ Len(viewedBy') = Len(viewedBy) + 1 /\ Len(viewedBy) \in Nat
  OBVIOUS
<1>2. DOMAIN viewedBy = 1..Len(viewedBy) /\ DOMAIN viewedBy' = 1..(Len(viewedBy) + 1)
  BY <1>1
<1>3. \A i \in DOMAIN viewedBy : i \in DOMAIN viewedBy' /\ viewedBy'[i] = viewedBy[i]
  BY <1>1, <1>2
<1>4. Len(viewedBy) + 1 \in DOMAIN viewedBy' /\ viewedBy'[Len(viewedBy) + 1] = u
  BY <1>1, <1>2
<1> QED
  BY <1>1, <1>3, <1>4 DEF Entered

\* The variables keep their types, and a request that is past the $push works for a user
\* that has been entered.
THEOREM ViewOnceTypeCorrect == ViewOnceSpec => []ViewOnceTypeOK
<1>1. ViewOnceInit => ViewOnceTypeOK
  <2> SUFFICES ASSUME ViewOnceInit PROVE ViewOnceTypeOK
    OBVIOUS
  <2>1. /\ payload \in BOOLEAN /\ cachedPayload \in BOOLEAN /\ viewedBy \in Seq(Viewers)
        /\ viewed \subseteq Entered /\ unaware \subseteq Screens /\ crashes \in 0..MaxCrashes
        /\ queued \subseteq Screens /\ hello = [d \in Screens |-> "idle"]
    BY ViewOnceAssumption DEF ViewOnceInit
  <2>2. /\ views \in [Views -> [pc : Steps, by : Viewers \cup {"none"}]]
        /\ \A t \in Views : views[t].pc = "idle"
    BY DEF ViewOnceInit, NoView, Steps
  <2>3. viewWire \in [Screens -> Seq({"viewed", "content", "erased"})]
    BY DEF ViewOnceInit
  <2>4. shows \in [Screens -> {"nothing", "content", "erased"}]
    BY DEF ViewOnceInit
  <2> QED
    BY <2>1, <2>2, <2>3, <2>4 DEF ViewOnceTypeOK
<1>2. ViewOnceTypeOK /\ [ViewOnceNext]_viewOnceVars => ViewOnceTypeOK'
  <2> SUFFICES ASSUME ViewOnceTypeOK, [ViewOnceNext]_viewOnceVars PROVE ViewOnceTypeOK'
    OBVIOUS
  <2> USE ViewOnceAssumption DEF ViewOnceTypeOK, Steps, storeVars
  <2>1. ASSUME NEW t \in Views, NEW u \in Viewers, View(t, u) PROVE ViewOnceTypeOK'
    BY <2>1 DEF View, Entered
  <2>2. ASSUME NEW t \in Views, Find(t) PROVE ViewOnceTypeOK'
    BY <2>2 DEF Find, NoView, Entered
  <2>3. ASSUME NEW t \in Views, Push(t) PROVE ViewOnceTypeOK'
    <3>1. views[t].by \in Viewers
      BY <2>3 DEF Push
    <3>2. viewedBy' \in Seq(Viewers) /\ Entered \subseteq Entered' /\ views[t].by \in Entered'
      BY <2>3, <3>1, EnteredGrows DEF Push
    <3> QED
      BY <2>3, <3>2 DEF Push
  <2>4. ASSUME NEW t \in Views, Unset(t) PROVE ViewOnceTypeOK'
    BY <2>4 DEF Unset, Entered
  <2>5. ASSUME NEW t \in Views, TellViewed(t) PROVE ViewOnceTypeOK'
    BY <2>5 DEF TellViewed, Entered, NoView
  <2>6. ASSUME NEW d \in Screens, ComesBack(d) PROVE ViewOnceTypeOK'
    <3>1. ASSUME HelloReads(d) PROVE ViewOnceTypeOK'
      BY <3>1 DEF HelloReads, Entered
    <3>2. ASSUME HelloSends(d) PROVE ViewOnceTypeOK'
      <4>1. hello[d] # "nothing" => Append(viewWire[d], hello[d]) \in Seq({"viewed", "content", "erased"})
        BY <3>2, AppendProperties DEF HelloSends
      <4>2. viewWire' \in [Screens -> Seq({"viewed", "content", "erased"})]
        BY <3>2, <4>1 DEF HelloSends
      <4>3. hello' \in [Screens -> {"idle", "nothing", "content", "erased", "drain", "trim"}]
        BY <3>2 DEF HelloSends
      <4> QED
        BY <3>2, <4>2, <4>3 DEF HelloSends, Entered
    <3>3. ASSUME DrainInbox(d) PROVE ViewOnceTypeOK'
      <4>1. Append(viewWire[d], "content") \in Seq({"viewed", "content", "erased"})
        BY AppendProperties
      <4> QED
        BY <3>3, <4>1 DEF DrainInbox, Entered
    <3>4. ASSUME TrimInbox(d) PROVE ViewOnceTypeOK'
      BY <3>4 DEF TrimInbox, Entered
    <3> QED
      BY <2>6, <3>1, <3>2, <3>3, <3>4 DEF ComesBack
  <2>7. ASSUME NEW d \in Screens, ScreenReceives(d) PROVE ViewOnceTypeOK'
    BY <2>7 DEF ScreenReceives, Entered
  <2>8. CASE Evict
    BY <2>8 DEF Evict, Entered
  <2>9. CASE ViewDies
    BY <2>9 DEF ViewDies, Entered, NoView
  <2>10. CASE UNCHANGED viewOnceVars
    BY <2>10 DEF viewOnceVars, Entered
  <2> QED
    BY <2>1, <2>2, <2>3, <2>4, <2>5, <2>6, <2>7, <2>8, <2>9, <2>10 DEF ViewOnceNext, Consume
<1> QED
  BY <1>1, <1>2, PTL DEF ViewOnceSpec

\* A VIEWED that is about to go out, or has gone out, means that the payload is unset.
Purged ==
    /\ \A t \in Views : views[t].pc = "publish" => ~payload
    /\ ViewedIsPurged

ViewedComes(d, i) == \E j \in DOMAIN viewWire[d] : i < j /\ viewWire[d][j] = "viewed"

\* Once somebody has viewed the message, a VIEWED is on its way behind every copy of it that
\* a device shows or is about to show, and no replay is about to send it.
ErasureComes ==
    viewed # {} => \A d \in Screens \ unaware :
        /\ hello[d] # "content"
        /\ shows[d] = "content" => ViewedComes(d, 0)
        /\ \A i \in DOMAIN viewWire[d] : viewWire[d][i] = "content" => ViewedComes(d, i)

\* What was viewed is gone from Mongo, and from every device that heard the last VIEWED with
\* nothing older still to be replayed to it and was not given the payload by a HELLO
\* afterwards: the payload is unset before VIEWED is published
\* (lib/viewonce/storage.js:13-15), and frames stay in order.
THEOREM ViewedErased == ViewOnceSpec => []ViewedIsErased
<1>1. ViewOnceInit => Purged /\ ErasureComes
  BY DEF ViewOnceInit, Purged, ViewedIsPurged, ErasureComes, NoView
<1>2. ViewOnceTypeOK /\ Purged /\ ErasureComes /\ [ViewOnceNext]_viewOnceVars => Purged'
  <2> SUFFICES ASSUME ViewOnceTypeOK, Purged, ErasureComes, [ViewOnceNext]_viewOnceVars PROVE Purged'
    OBVIOUS
  <2> USE DEF Purged, ViewedIsPurged, storeVars
  <2>1. ASSUME NEW t \in Views, NEW u \in Viewers, View(t, u) PROVE Purged'
    BY <2>1 DEF View, ViewOnceTypeOK
  <2>2. ASSUME NEW t \in Views, Find(t) PROVE Purged'
    BY <2>2 DEF Find, NoView, ViewOnceTypeOK
  <2>3. ASSUME NEW t \in Views, Push(t) PROVE Purged'
    BY <2>3 DEF Push, ViewOnceTypeOK
  <2>4. ASSUME NEW t \in Views, Unset(t) PROVE Purged'
    BY <2>4 DEF Unset
  <2>5. ASSUME NEW t \in Views, TellViewed(t) PROVE Purged'
    BY <2>5 DEF TellViewed, NoView, ViewOnceTypeOK
  <2>6. ASSUME NEW d \in Screens, ComesBack(d) \/ ScreenReceives(d) PROVE Purged'
    BY <2>6 DEF ComesBack, HelloReads, HelloSends, DrainInbox, TrimInbox, ScreenReceives
  <2>7. CASE Evict
    BY <2>7 DEF Evict
  <2>8. CASE ViewDies
    BY <2>8 DEF ViewDies, NoView
  <2>9. CASE UNCHANGED viewOnceVars
    BY <2>9 DEF viewOnceVars
  <2> QED
    BY <2>1, <2>2, <2>3, <2>4, <2>5, <2>6, <2>7, <2>8, <2>9 DEF ViewOnceNext, Consume
<1>3. ViewOnceTypeOK /\ Purged /\ ErasureComes /\ [ViewOnceNext]_viewOnceVars => ErasureComes'
  <2> SUFFICES ASSUME ViewOnceTypeOK, Purged, ErasureComes, [ViewOnceNext]_viewOnceVars
               PROVE  ErasureComes'
    OBVIOUS
  <2> USE DEF ErasureComes, ViewedComes, storeVars
  <2>1. ASSUME UNCHANGED <<viewWire, shows, viewed, unaware>>,
               \A d \in Screens : hello'[d] = "content" => hello[d] = "content"
        PROVE  ErasureComes'
    BY <2>1
  <2>2. ASSUME NEW t \in Views, TellViewed(t) PROVE ErasureComes'
    <3> SUFFICES ASSUME NEW d \in Screens \ unaware'
                 PROVE  /\ hello'[d] # "content"
                        /\ ViewedComes(d, 0)'
                        /\ \A i \in DOMAIN viewWire'[d] : viewWire'[d][i] = "content" => ViewedComes(d, i)'
      OBVIOUS
    <3>1. viewWire'[d] = Append(viewWire[d], "viewed") /\ hello'[d] # "content"
      BY <2>2 DEF TellViewed
    <3>2. viewWire[d] \in Seq({"viewed", "content", "erased"})
      BY DEF ViewOnceTypeOK
    <3> QED
      BY <3>1, <3>2, Appended
  <2>3. ASSUME NEW e \in Screens, HelloReads(e) PROVE ErasureComes'
    <3> SUFFICES ASSUME viewed # {}, NEW d \in Screens \ unaware'
                 PROVE  /\ hello'[d] # "content"
                        /\ shows'[d] = "content" => ViewedComes(d, 0)'
                        /\ \A i \in DOMAIN viewWire'[d] : viewWire'[d][i] = "content" => ViewedComes(d, i)'
      BY <2>3 DEF HelloReads
    <3>1. ~payload /\ viewWire' = viewWire /\ shows' = shows
      BY <2>3 DEF HelloReads, Purged, ViewedIsPurged
    <3>2. CASE d = e /\ shows[d] = "nothing"
      <4>1. hello'[d] = "erased" /\ viewWire'[d] = << >>
        BY <2>3, <3>1, <3>2 DEF HelloReads, ViewOnceTypeOK
      <4> QED
        BY <3>1, <3>2, <4>1
    <3>3. CASE ~(d = e /\ shows[d] = "nothing")
      <4>1. d \notin unaware /\ hello'[d] # "content"
        BY <2>3, <3>3 DEF HelloReads, ViewOnceTypeOK
      <4> QED
        BY <3>1, <4>1
    <3> QED
      BY <3>2, <3>3
  <2>4. ASSUME NEW e \in Screens, HelloSends(e) \/ DrainInbox(e) PROVE ErasureComes'
    <3> SUFFICES ASSUME viewed # {}, NEW d \in Screens \ unaware'
                 PROVE  /\ hello'[d] # "content"
                        /\ shows'[d] = "content" => ViewedComes(d, 0)'
                        /\ \A i \in DOMAIN viewWire'[d] : viewWire'[d][i] = "content" => ViewedComes(d, i)'
      BY <2>4 DEF HelloSends, DrainInbox
    <3>1. d \notin unaware /\ shows' = shows /\ hello'[d] # "content"
      BY <2>4 DEF HelloSends, DrainInbox, ViewOnceTypeOK
    <3>2. viewWire'[d] = viewWire[d] \/ viewWire'[d] = Append(viewWire[d], "erased")
      BY <2>4, <3>1 DEF HelloSends, DrainInbox, ViewOnceTypeOK
    <3>3. viewWire[d] \in Seq({"viewed", "content", "erased"})
      BY DEF ViewOnceTypeOK
    <3>4. CASE viewWire'[d] = Append(viewWire[d], "erased")
      BY <3>1, <3>3, <3>4, Appended
    <3> QED
      BY <3>1, <3>2, <3>4
  <2>5. ASSUME NEW e \in Screens, ScreenReceives(e) PROVE ErasureComes'
    <3> SUFFICES ASSUME viewed # {}, NEW d \in Screens \ unaware
                 PROVE  /\ hello'[d] # "content"
                        /\ shows'[d] = "content" => ViewedComes(d, 0)'
                        /\ \A i \in DOMAIN viewWire'[d] : viewWire'[d][i] = "content" => ViewedComes(d, i)'
      BY <2>5 DEF ScreenReceives
    <3>0. hello'[d] # "content"
      BY <2>5 DEF ScreenReceives
    <3>1. CASE d = e
      <4> DEFINE s == viewWire[d]
      <4>1. s \in Seq({"viewed", "content", "erased"}) /\ s # << >> /\ viewWire'[d] = Tail(s)
        BY <2>5, <3>1 DEF ScreenReceives, ViewOnceTypeOK
      <4>2. \A i \in DOMAIN Tail(s) : Tail(s)[i] = "content" =>
                \E j \in DOMAIN Tail(s) : i < j /\ Tail(s)[j] = "viewed"
        <5> SUFFICES ASSUME NEW i \in DOMAIN Tail(s), Tail(s)[i] = "content"
                     PROVE  \E j \in DOMAIN Tail(s) : i < j /\ Tail(s)[j] = "viewed"
          OBVIOUS
        <5>1. i + 1 \in DOMAIN s /\ s[i + 1] = "content" /\ i \in Nat /\ i > 0
          BY <4>1, Shifted
        <5>2. PICK j \in DOMAIN s : i + 1 < j /\ s[j] = "viewed"
          BY <5>1
        <5>3. j \in Nat /\ j - 1 \in DOMAIN Tail(s) /\ Tail(s)[j - 1] = s[j]
          BY <4>1, <5>1, <5>2, Shifted
        <5>4. i < j - 1 /\ Tail(s)[j - 1] = "viewed"
          BY <5>1, <5>2, <5>3
        <5> QED
          BY <5>3, <5>4
      <4>3. ASSUME shows'[d] = "content"
            PROVE  \E j \in DOMAIN Tail(s) : 0 < j /\ Tail(s)[j] = "viewed"
        <5>1. Head(s) # "viewed" /\ Head(s) = "content"
          BY <2>5, <3>1, <4>1, <4>3 DEF ScreenReceives, ViewOnceTypeOK
        <5>2. PICK j \in DOMAIN s : 1 < j /\ s[j] = "viewed"
          BY <4>1, <5>1, Shifted
        <5>3. j \in Nat /\ j - 1 \in DOMAIN Tail(s) /\ Tail(s)[j - 1] = s[j]
          BY <4>1, <5>2, Shifted
        <5>4. 0 < j - 1 /\ Tail(s)[j - 1] = "viewed"
          BY <5>2, <5>3
        <5> QED
          BY <5>3, <5>4
      <4> QED
        BY <3>0, <4>1, <4>2, <4>3
    <3>2. CASE d # e
      <4>1. shows'[d] = shows[d] /\ viewWire'[d] = viewWire[d]
        BY <2>5, <3>2 DEF ScreenReceives, ViewOnceTypeOK
      <4> QED
        BY <3>0, <4>1
    <3> QED
      BY <3>1, <3>2
  <2>6. ASSUME NEW e \in Screens, TrimInbox(e) PROVE ErasureComes'
    BY <2>1, <2>6 DEF TrimInbox, ViewOnceTypeOK
  <2>7. CASE ViewDies
    BY <2>1, <2>7 DEF ViewDies
  <2> QED
    BY <2>1, <2>2, <2>3, <2>4, <2>5, <2>6, <2>7
    DEF ViewOnceNext, Consume, ComesBack, View, Find, Push, Unset, Evict, viewOnceVars
<1>4. Purged /\ ErasureComes => ViewedIsErased
  BY DEF Purged, ErasureComes, ViewedComes, ViewedIsErased, ErasedForEveryone, ViewsAreOver
<1> QED
  BY <1>1, <1>2, <1>3, <1>4, ViewOnceTypeCorrect, PTL DEF ViewOnceSpec

-----------------------------------------------------------------------------
(***************************************************************************)
(* Polls                                                                   *)
(***************************************************************************)

\* The slots for votes start with values of their types.
LEMMA SomeVoter == NoBallot.by \in Voters /\ NoVotes \in Tallies /\ NoBallot \in
    [pc : {"idle", "update", "publish"}, by : Voters, picks : SUBSET Options, tally : Tallies]
<1>1. (CHOOSE u \in Voters : TRUE) \in Voters
  BY PollsAssumption
<1>2. NoVotes \in Tallies
  BY DEF NoVotes, Tallies
<1> QED
  BY <1>1, <1>2 DEF NoBallot

\* The parts of PollsTypeOK.
LEMMA PollsTypeParts ==
    ASSUME PollsTypeOK
    PROVE  /\ multi \in BOOLEAN /\ alone \in BOOLEAN
           /\ votes \in Tallies /\ last \in Tallies /\ cleanVoters \in SUBSET Voters
           /\ ballot \in [Booths -> [pc : {"idle", "update", "publish"}, by : Voters,
                                     picks : SUBSET Options, tally : Tallies]]
           /\ pollWire \in [Devices -> Seq(Frames)] /\ shown \in [Devices -> Polls]
           /\ online \in [Devices -> BOOLEAN] /\ inbox \in [Devices -> BOOLEAN]
           /\ unheard \in SUBSET Devices /\ ballots \in 0..MaxVotes /\ drops \in 0..MaxDrops
           /\ \A d \in Devices : shown[d].known # "poll" => shown[d].tally = NoVotes
BY DEF PollsTypeOK

\* The same, for the successor.
LEMMA PollsTypePartsNext ==
    ASSUME multi' \in BOOLEAN, alone' \in BOOLEAN,
           votes' \in Tallies, last' \in Tallies, cleanVoters' \in SUBSET Voters,
           ballot' \in [Booths -> [pc : {"idle", "update", "publish"}, by : Voters,
                                   picks : SUBSET Options, tally : Tallies]],
           pollWire' \in [Devices -> Seq(Frames)], shown' \in [Devices -> Polls],
           online' \in [Devices -> BOOLEAN], inbox' \in [Devices -> BOOLEAN],
           unheard' \in SUBSET Devices, ballots' \in 0..MaxVotes, drops' \in 0..MaxDrops,
           \A d \in Devices : shown'[d].known # "poll" => shown'[d].tally = NoVotes
    PROVE  PollsTypeOK'
BY DEF PollsTypeOK, NoVotes, Tallies, Polls, Frames

\* What a device shows after a frame is a poll, and counts votes only if it knows it.
LEMMA ShowsType ==
    ASSUME NEW p \in Polls, NEW f \in Frames, p.known # "poll" => p.tally = NoVotes
    PROVE  /\ Shows(p, f) \in Polls
           /\ Shows(p, f).known # "poll" => Shows(p, f).tally = NoVotes
           /\ f.type = "POLL_TALLY" /\ Shows(p, f).known = "poll" => Shows(p, f).tally = f.tally
           /\ f.type = "POLL_CREATED" => Shows(p, f).tally = NoVotes
           /\ f.type = "MSG" => Shows(p, f).known # "poll"
<1>1. CASE f.type = "MSG"
  BY <1>1, SomeVoter DEF Shows, Blank, Polls
<1>2. CASE f.type = "POLL_CREATED"
  BY <1>2, SomeVoter DEF Shows, Created, Polls
<1>3. CASE f.type = "POLL_TALLY"
  <2>1. f.tally \in Tallies
    BY DEF Frames
  <2>2. Shows(p, f) = IF p.known = "poll" THEN [p EXCEPT !.tally = f.tally] ELSE p
    BY <1>3 DEF Shows
  <2>3. CASE p.known = "poll"
    <3>1. Shows(p, f) = [p EXCEPT !.tally = f.tally]
      BY <2>2, <2>3
    <3>2. Shows(p, f) \in Polls /\ Shows(p, f).known = "poll" /\ Shows(p, f).tally = f.tally
      BY <2>1, <2>3, <3>1 DEF Polls
    <3> QED
      BY <1>3, <3>2
  <2>4. CASE p.known # "poll"
    BY <1>3, <2>2, <2>4
  <2> QED
    BY <2>3, <2>4
<1> QED
  BY <1>1, <1>2, <1>3 DEF Frames

\* The variables keep their types, and a device counts votes only of a poll it knows.
THEOREM PollsTypeCorrect == PollsSpec => []PollsTypeOK
<1>1. PollsInit => PollsTypeOK
  <2> SUFFICES ASSUME PollsInit PROVE PollsTypeOK
    OBVIOUS
  <2>1. multi \in BOOLEAN /\ alone \in BOOLEAN /\ votes \in Tallies /\ last \in Tallies
        /\ cleanVoters \in SUBSET Voters /\ unheard \in SUBSET Devices
        /\ ballots \in 0..MaxVotes /\ drops \in 0..MaxDrops
    BY SomeVoter, PollsAssumption DEF PollsInit
  <2>2. /\ online \in [Devices -> BOOLEAN] /\ inbox \in [Devices -> BOOLEAN]
        /\ pollWire \in [Devices -> Seq(Frames)]
    BY DEF PollsInit
  <2>3. ballot \in [Booths -> [pc : {"idle", "update", "publish"}, by : Voters,
                               picks : SUBSET Options, tally : Tallies]]
    BY SomeVoter DEF PollsInit
  <2>4. Created \in Polls /\ NoPoll \in Polls /\ Created.known = "poll" /\ NoPoll.tally = NoVotes
    BY SomeVoter DEF Created, NoPoll, Polls
  <2>5. shown \in [Devices -> Polls]
        /\ \A d \in Devices : shown[d].known # "poll" => shown[d].tally = NoVotes
    BY <2>4 DEF PollsInit
  <2> QED
    BY <2>1, <2>2, <2>3, <2>5 DEF PollsTypeOK
<1>2. PollsTypeOK /\ [PollsNext]_pollVars => PollsTypeOK'
  <2> SUFFICES ASSUME PollsTypeOK, [PollsNext]_pollVars PROVE PollsTypeOK'
    OBVIOUS
  <2> USE PollsTypeParts, PollsAssumption
  <2>1. ASSUME NEW t \in Booths, NEW u \in Voters, NEW picks \in SUBSET Options, CastVote(t, u, picks)
        PROVE  PollsTypeOK'
    <3>1. CASE Accepted(picks)
      <4> DEFINE b == [pc |-> "update", by |-> u, picks |-> picks, tally |-> votes]
      <4>1. b \in [pc : {"idle", "update", "publish"}, by : Voters,
                   picks : SUBSET Options, tally : Tallies]
        OBVIOUS
      <4>2. /\ ballot' = [ballot EXCEPT ![t] = b] /\ last' = [last EXCEPT ![u] = picks]
            /\ cleanVoters' = IF Voting(u) THEN cleanVoters \ {u} ELSE cleanVoters
            /\ alone' = (alone /\ \A c \in Booths : ballot[c].pc = "idle")
        BY <2>1, <3>1 DEF CastVote
      <4> HIDE DEF b
      <4>3. ballot' \in [Booths -> [pc : {"idle", "update", "publish"}, by : Voters,
                                    picks : SUBSET Options, tally : Tallies]]
        BY <4>1, <4>2
      <4>4. last' \in Tallies
        BY <4>2 DEF Tallies
      <4>5. cleanVoters' \in SUBSET Voters
        BY <4>2
      <4>6. alone' \in BOOLEAN
        BY <4>2, Zenon
      <4>7. ballots' \in 0..MaxVotes
        BY <2>1 DEF CastVote
      <4> QED
        BY <2>1, <4>3, <4>4, <4>5, <4>6, <4>7, PollsTypePartsNext DEF CastVote, devices
    <3>2. CASE ~Accepted(picks)
      BY <2>1, <3>2, PollsTypePartsNext DEF CastVote, devices
    <3> QED
      BY <3>1, <3>2
  <2>2. ASSUME NEW t \in Booths, StoreVote(t) PROVE PollsTypeOK'
    <3>1. votes' \in Tallies
      BY <2>2 DEF StoreVote, Tallies
    <3>2. ballot' \in [Booths -> [pc : {"idle", "update", "publish"}, by : Voters,
                                  picks : SUBSET Options, tally : Tallies]]
      <4> DEFINE b == [ballot[t] EXCEPT !.pc = "publish", !.tally = votes']
      <4>1. b \in [pc : {"idle", "update", "publish"}, by : Voters,
                   picks : SUBSET Options, tally : Tallies]
        BY <3>1
      <4>2. ballot' = [ballot EXCEPT ![t] = b]
        BY <2>2 DEF StoreVote
      <4> HIDE DEF b
      <4> QED
        BY <4>1, <4>2
    <3> QED
      BY <2>2, <3>1, <3>2, PollsTypePartsNext DEF StoreVote, devices, voting
  <2>3. ASSUME NEW t \in Booths, PublishTally(t) PROVE PollsTypeOK'
    <3>1. ballot' \in [Booths -> [pc : {"idle", "update", "publish"}, by : Voters,
                                  picks : SUBSET Options, tally : Tallies]]
      BY <2>3, SomeVoter DEF PublishTally
    <3>2. [type |-> "POLL_TALLY", tally |-> ballot[t].tally] \in Frames
      BY DEF Frames
    <3>3. pollWire' \in [Devices -> Seq(Frames)]
      BY <2>3, <3>2 DEF PublishTally
    <3>4. unheard' \in SUBSET Devices
      BY <2>3 DEF PublishTally
    <3> QED
      BY <2>3, <3>1, <3>3, <3>4, PollsTypePartsNext DEF PublishTally, voting
  <2>4. ASSUME NEW d \in Devices, Drop(d) PROVE PollsTypeOK'
    <3>1. pollWire' \in [Devices -> Seq(Frames)] /\ online' \in [Devices -> BOOLEAN]
          /\ unheard' \in SUBSET Devices /\ drops' \in 0..MaxDrops
      BY <2>4 DEF Drop
    <3> QED
      BY <2>4, <3>1, PollsTypePartsNext DEF Drop, voting
  <2>5. ASSUME NEW d \in Devices, Reconnect(d) PROVE PollsTypeOK'
    <3>1. [type |-> "MSG", tally |-> NoVotes] \in Frames /\ [type |-> "POLL_CREATED", tally |-> NoVotes] \in Frames
      BY SomeVoter DEF Frames
    <3>2. pollWire' \in [Devices -> Seq(Frames)]
      BY <2>5, <3>1 DEF Reconnect
    <3>3. online' \in [Devices -> BOOLEAN] /\ inbox' \in [Devices -> BOOLEAN]
      BY <2>5 DEF Reconnect
    <3> QED
      BY <2>5, <3>2, <3>3, PollsTypePartsNext DEF Reconnect, voting
  <2>6. ASSUME NEW d \in Devices, DeviceReceives(d) PROVE PollsTypeOK'
    <3>1. Head(pollWire[d]) \in Frames
      BY <2>6 DEF DeviceReceives
    <3>2. pollWire' \in [Devices -> Seq(Frames)]
      BY <2>6 DEF DeviceReceives
    <3>3. /\ shown' \in [Devices -> Polls]
          /\ \A e \in Devices : shown'[e].known # "poll" => shown'[e].tally = NoVotes
      <4> DEFINE p == Shows(shown[d], Head(pollWire[d]))
      <4>1. p \in Polls /\ (p.known # "poll" => p.tally = NoVotes)
        BY <3>1, ShowsType
      <4>2. shown' = [shown EXCEPT ![d] = p]
        BY <2>6 DEF DeviceReceives
      <4> HIDE DEF p
      <4> QED
        BY <4>1, <4>2
    <3> QED
      BY <2>6, <3>2, <3>3, PollsTypePartsNext DEF DeviceReceives, voting
  <2>7. CASE UNCHANGED pollVars
    BY <2>7, PollsTypePartsNext DEF pollVars
  <2>8. ASSUME NEW t \in Booths, NEW u \in Voters, NEW o \in Options, Click(t, u, o)
        PROVE  PollsTypeOK'
    <3>1. Toggled(MyVotes(u), o) \in SUBSET Options
      BY DEF Toggled, MyVotes
    <3> QED
      BY <2>1, <2>8, <3>1 DEF Click
  <2> QED
    BY <2>1, <2>2, <2>3, <2>4, <2>5, <2>6, <2>7, <2>8 DEF PollsNext, Vote
<1> QED
  BY <1>1, <1>2, PTL DEF PollsSpec

-----------------------------------------------------------------------------
\* Where the vote of a user stands whose own votes did not overlap.
VoteComes(u) ==
    /\ \A s, t \in Booths :
          ballot[s].pc # "idle" /\ ballot[t].pc # "idle" /\ ballot[s].by = u /\ ballot[t].by = u => s = t
    /\ \A t \in Booths : ballot[t].by = u =>
          /\ ballot[t].pc = "update" => ballot[t].picks = last[u]
          /\ ballot[t].pc = "publish" => votes[u] = last[u]
    /\ ~Voting(u) => votes[u] = last[u]

VotesCome == \A u \in cleanVoters : VoteComes(u)

LastFrame(d) == pollWire[d][Len(pollWire[d])]

\* What device d shows when it has taken its frames: the votes that are stored.
TallyComes(d) ==
    /\ pollWire[d] = << >> /\ shown[d].known = "poll" => shown[d].tally = votes
    /\ pollWire[d] # << >> =>
          /\ LastFrame(d).type = "POLL_TALLY" => LastFrame(d).tally = votes
          /\ LastFrame(d).type = "POLL_CREATED" => votes = NoVotes
    /\ inbox[d] => votes = NoVotes

\* While no two votes overlap there is one tally, which waits to be published or has reached
\* every device that was connected.
TalliesCome ==
    /\ \A d \in Devices : /\ online[d] => ~inbox[d]
                          /\ ~online[d] => pollWire[d] = << >>
    /\ alone =>
          /\ \A s, t \in Booths : ballot[s].pc # "idle" /\ ballot[t].pc # "idle" => s = t
          /\ \A t \in Booths : ballot[t].pc = "publish" => ballot[t].tally = votes
          /\ (\A t \in Booths : ballot[t].pc # "publish") =>
                \A d \in Devices \ unheard : TallyComes(d)

\* The votes of users whose own votes did not overlap are kept: each vote writes its own
\* entry of poll.votes (lib/poll/storage.js:24-33).
LEMMA VotesAreKept == PollsTypeOK /\ VotesCome /\ [PollsNext]_pollVars => VotesCome'
<1> SUFFICES ASSUME PollsTypeOK, VotesCome, [PollsNext]_pollVars, NEW w \in cleanVoters'
             PROVE  VoteComes(w)'
  BY DEF VotesCome
<1> USE PollsTypeParts
<1>0. w \in Voters
  BY DEF PollsNext, Vote, CastVote, StoreVote, PublishTally, Drop, Reconnect, DeviceReceives, Click,
         voting, devices, pollVars
<1>1. ASSUME NEW t \in Booths, NEW u \in Voters, NEW picks \in SUBSET Options, CastVote(t, u, picks)
      PROVE  VoteComes(w)'
  <2>1. CASE Accepted(picks)
    <3> DEFINE b == [pc |-> "update", by |-> u, picks |-> picks, tally |-> votes]
    <3>1. /\ ballot[t].pc = "idle" /\ votes' = votes
          /\ ballot' = [ballot EXCEPT ![t] = b] /\ last' = [last EXCEPT ![u] = picks]
          /\ cleanVoters' = IF Voting(u) THEN cleanVoters \ {u} ELSE cleanVoters
      BY <1>1, <2>1 DEF CastVote
    <3>2. b.pc = "update" /\ b.by = u /\ b.picks = picks
      OBVIOUS
    <3> HIDE DEF b
    <3>3. w \in cleanVoters /\ VoteComes(w)
      BY <3>1 DEF VotesCome
    <3>4. ballot'[t] = b /\ \A s \in Booths : s # t => ballot'[s] = ballot[s]
      BY <3>1
    <3>5. CASE w = u
      <4>1. ~Voting(u)
        BY <3>1, <3>5
      <4>2. last'[u] = picks
        BY <3>1 DEF Tallies
      <4>3. \A s \in Booths : ballot'[s].pc # "idle" /\ ballot'[s].by = w => s = t
        BY <3>4, <3>5, <4>1 DEF Voting
      <4>4. \A s \in Booths : ballot'[s].by = w /\ ballot'[s].pc = "update" => ballot'[s].picks = last'[w]
        BY <3>2, <3>4, <3>5, <4>2, <4>3
      <4>5. \A s \in Booths : ballot'[s].by = w => ballot'[s].pc # "publish"
        BY <3>2, <3>4, <3>5, <4>3
      <4>6. Voting(w)'
        BY <3>2, <3>4, <3>5 DEF Voting
      <4> QED
        BY <4>3, <4>4, <4>5, <4>6 DEF VoteComes
    <3>6. CASE w # u
      <4>1. last'[w] = last[w]
        BY <1>0, <3>1, <3>6 DEF Tallies
      <4>2. Voting(w)' <=> Voting(w)
        BY <3>1, <3>2, <3>4, <3>6 DEF Voting
      <4> QED
        BY <3>1, <3>2, <3>3, <3>4, <3>6, <4>1, <4>2 DEF VoteComes
    <3> QED
      BY <3>5, <3>6
  <2>2. CASE ~Accepted(picks)
    BY <1>1, <2>2 DEF CastVote, devices, VotesCome, VoteComes, Voting
  <2> QED
    BY <2>1, <2>2
<1>2. ASSUME NEW t \in Booths, StoreVote(t) PROVE VoteComes(w)'
  <2> DEFINE b == [ballot[t] EXCEPT !.pc = "publish", !.tally = votes']
  <2>1. /\ ballot[t].pc = "update" /\ votes' = [votes EXCEPT ![ballot[t].by] = ballot[t].picks]
        /\ ballot' = [ballot EXCEPT ![t] = b] /\ last' = last /\ cleanVoters' = cleanVoters
    BY <1>2 DEF StoreVote, voting
  <2>2. b.pc = "publish" /\ b.by = ballot[t].by /\ b.picks = ballot[t].picks
    OBVIOUS
  <2> HIDE DEF b
  <2>3. VoteComes(w)
    BY <2>1 DEF VotesCome
  <2>4. ballot'[t] = b /\ \A s \in Booths : s # t => ballot'[s] = ballot[s]
    BY <2>1
  <2>5. Voting(w)' <=> Voting(w)
    BY <2>1, <2>2, <2>4 DEF Voting
  <2>6. CASE ballot[t].by = w
    <3>1. votes'[w] = ballot[t].picks
      BY <1>0, <2>1, <2>6 DEF Tallies
    <3> QED
      BY <2>1, <2>2, <2>3, <2>4, <2>5, <2>6, <3>1 DEF VoteComes, Voting
  <2>7. CASE ballot[t].by # w
    <3>1. votes'[w] = votes[w]
      BY <1>0, <2>1, <2>7 DEF Tallies
    <3> QED
      BY <2>1, <2>2, <2>3, <2>4, <2>5, <2>7, <3>1 DEF VoteComes
  <2> QED
    BY <2>6, <2>7
<1>3. ASSUME NEW t \in Booths, PublishTally(t) PROVE VoteComes(w)'
  <2>1. /\ ballot[t].pc = "publish" /\ votes' = votes /\ last' = last /\ cleanVoters' = cleanVoters
        /\ ballot'[t] = NoBallot /\ \A s \in Booths : s # t => ballot'[s] = ballot[s]
    BY <1>3 DEF PublishTally, voting
  <2>2. NoBallot.pc = "idle"
    BY DEF NoBallot
  <2>3. VoteComes(w)
    BY <2>1 DEF VotesCome
  <2>4. \A s \in Booths : ballot'[s].pc # "idle" => s # t /\ ballot[s] = ballot'[s]
    BY <2>1, <2>2
  <2>5. CASE Voting(w)'
    <3>1. \A s \in Booths : ballot'[s].by = w =>
              /\ ballot'[s].pc = "update" => ballot'[s].picks = last'[w]
              /\ ballot'[s].pc = "publish" => votes'[w] = last'[w]
      BY <2>1, <2>3, <2>4 DEF VoteComes
    <3> QED
      BY <2>1, <2>3, <2>4, <2>5, <3>1 DEF VoteComes
  <2>6. CASE ~Voting(w)'
    <3>1. \A s \in Booths : ballot'[s].pc # "idle" => ballot'[s].by # w
      BY <2>6 DEF Voting
    <3>2. ballot[t].by = w => votes[w] = last[w]
      BY <2>1, <2>3 DEF VoteComes
    <3>3. ballot[t].by # w => ~Voting(w)
      BY <2>1, <3>1 DEF Voting
    <3>4. votes[w] = last[w]
      BY <2>3, <3>2, <3>3 DEF VoteComes
    <3> QED
      BY <2>1, <3>1, <3>4 DEF VoteComes, Voting
  <2> QED
    BY <2>5, <2>6
<1>4. ASSUME UNCHANGED <<votes, ballot, voting>> PROVE VoteComes(w)'
  BY <1>4 DEF voting, VotesCome, VoteComes, Voting
<1>5. ASSUME NEW t \in Booths, NEW u \in Voters, NEW o \in Options, Click(t, u, o) PROVE VoteComes(w)'
  <2>1. Toggled(MyVotes(u), o) \in SUBSET Options
    BY DEF Toggled, MyVotes
  <2> QED
    BY <1>1, <1>5, <2>1 DEF Click
<1> QED
  BY <1>1, <1>2, <1>3, <1>4, <1>5
  DEF PollsNext, Vote, Drop, Reconnect, DeviceReceives, pollVars, voting

\* What a device has taken, or will take last, is the tally of all votes.
LEMMA TalliesAreFinal == PollsTypeOK /\ TalliesCome /\ [PollsNext]_pollVars => TalliesCome'
<1> SUFFICES ASSUME PollsTypeOK, TalliesCome, [PollsNext]_pollVars PROVE TalliesCome'
  OBVIOUS
<1> USE PollsTypeParts
<1>1. ASSUME NEW t \in Booths, NEW u \in Voters, NEW picks \in SUBSET Options, CastVote(t, u, picks)
      PROVE  TalliesCome'
  <2>1. UNCHANGED <<votes, pollWire, online, shown, inbox, unheard>> /\ ballot[t].pc = "idle"
    BY <1>1 DEF CastVote, devices
  <2>2. CASE Accepted(picks)
    <3> DEFINE b == [pc |-> "update", by |-> u, picks |-> picks, tally |-> votes]
    <3>1. /\ ballot' = [ballot EXCEPT ![t] = b]
          /\ alone' = (alone /\ \A c \in Booths : ballot[c].pc = "idle")
      BY <1>1, <2>2 DEF CastVote
    <3>2. b.pc = "update"
      OBVIOUS
    <3> HIDE DEF b
    <3>3. ballot'[t] = b /\ \A c \in Booths : c # t => ballot'[c] = ballot[c]
      BY <3>1
    <3>4. ASSUME alone' PROVE alone /\ \A c \in Booths : ballot[c].pc = "idle"
      BY <3>1, <3>4, Zenon
    <3>5. \A d \in Devices : TallyComes(d) => TallyComes(d)'
      BY <2>1 DEF TallyComes, LastFrame
    <3> QED
      BY <2>1, <3>2, <3>3, <3>4, <3>5 DEF TalliesCome
  <2>3. CASE ~Accepted(picks)
    BY <1>1, <2>1, <2>3 DEF CastVote, TalliesCome, TallyComes, LastFrame
  <2> QED
    BY <2>2, <2>3
<1>2. ASSUME NEW t \in Booths, StoreVote(t) PROVE TalliesCome'
  <2> DEFINE b == [ballot[t] EXCEPT !.pc = "publish", !.tally = votes']
  <2>1. /\ ballot[t].pc = "update" /\ ballot' = [ballot EXCEPT ![t] = b]
        /\ UNCHANGED <<alone, pollWire, online, shown, inbox, unheard>>
    BY <1>2 DEF StoreVote, voting, devices
  <2>2. b.pc = "publish" /\ b.tally = votes'
    OBVIOUS
  <2> HIDE DEF b
  <2>3. ballot'[t] = b /\ \A c \in Booths : c # t => ballot'[c] = ballot[c]
    BY <2>1
  <2> QED
    BY <2>1, <2>2, <2>3 DEF TalliesCome
<1>3. ASSUME NEW t \in Booths, PublishTally(t) PROVE TalliesCome'
  <2> DEFINE f == [type |-> "POLL_TALLY", tally |-> ballot[t].tally]
  <2>1. /\ ballot[t].pc = "publish" /\ UNCHANGED <<votes, alone, online, shown, inbox>>
        /\ pollWire' = [d \in Devices |-> IF online[d] THEN Append(pollWire[d], f) ELSE pollWire[d]]
        /\ unheard' = {d \in Devices : ~online[d]}
        /\ ballot'[t] = NoBallot /\ \A c \in Booths : c # t => ballot'[c] = ballot[c]
    BY <1>3 DEF PublishTally, voting
  <2>2. f \in Frames /\ f.type = "POLL_TALLY" /\ f.tally = ballot[t].tally
    BY DEF Frames
  <2> HIDE DEF f
  <2>3. NoBallot.pc = "idle"
    BY DEF NoBallot
  <2>4. ASSUME alone, NEW d \in Devices \ unheard' PROVE TallyComes(d)'
    <3>1. online[d] /\ ~inbox'[d] /\ pollWire'[d] = Append(pollWire[d], f)
      BY <2>1 DEF TalliesCome
    <3>2. pollWire'[d] # << >> /\ LastFrame(d)' = f
      BY <2>2, <3>1, LastOf DEF LastFrame
    <3>3. ballot[t].tally = votes'
      BY <2>1, <2>4 DEF TalliesCome
    <3> QED
      BY <2>2, <3>1, <3>2, <3>3 DEF TallyComes
  <2>5. \A d \in Devices : (online'[d] => ~inbox'[d]) /\ (~online'[d] => pollWire'[d] = << >>)
    BY <2>1 DEF TalliesCome
  <2>6. ASSUME alone'
        PROVE  /\ \A r, s \in Booths : ballot'[r].pc # "idle" /\ ballot'[s].pc # "idle" => r = s
               /\ \A s \in Booths : ballot'[s].pc = "publish" => ballot'[s].tally = votes'
    BY <2>1, <2>3, <2>6 DEF TalliesCome
  <2> QED
    BY <2>1, <2>4, <2>5, <2>6 DEF TalliesCome
<1>4. ASSUME NEW e \in Devices, Drop(e) PROVE TalliesCome'
  <2>1. /\ online[e] /\ UNCHANGED <<votes, ballot, alone, shown, inbox>>
        /\ online' = [online EXCEPT ![e] = FALSE] /\ pollWire' = [pollWire EXCEPT ![e] = << >>]
        /\ unheard' = unheard \cup IF pollWire[e] # << >> THEN {e} ELSE {}
    BY <1>4 DEF Drop, voting
  <2>2. ASSUME NEW d \in Devices \ unheard', TallyComes(d) PROVE TallyComes(d)'
    <3>1. d = e => pollWire[d] = << >>
      BY <2>1
    <3>2. pollWire'[d] = pollWire[d]
      BY <2>1, <3>1
    <3> QED
      BY <2>1, <2>2, <3>2 DEF TallyComes, LastFrame
  <2>3. \A d \in Devices : (online'[d] => ~inbox'[d]) /\ (~online'[d] => pollWire'[d] = << >>)
    BY <2>1 DEF TalliesCome
  <2> QED
    BY <2>1, <2>2, <2>3 DEF TalliesCome
<1>5. ASSUME NEW e \in Devices, Reconnect(e) PROVE TalliesCome'
  <2> DEFINE m == [type |-> "MSG", tally |-> NoVotes]
             c == [type |-> "POLL_CREATED", tally |-> NoVotes]
  <2>1. /\ ~online[e] /\ UNCHANGED <<votes, ballot, alone, shown, unheard>>
        /\ online' = [online EXCEPT ![e] = TRUE] /\ inbox' = [inbox EXCEPT ![e] = FALSE]
        /\ pollWire' = [pollWire EXCEPT ![e] =
              (IF shown[e].known = "none" THEN << m >> ELSE << >>) \o (IF inbox[e] THEN << c >> ELSE << >>)]
    BY <1>5 DEF Reconnect, voting
  <2>2. m.type = "MSG" /\ c.type = "POLL_CREATED"
    OBVIOUS
  <2> HIDE DEF m, c
  <2>3. ASSUME NEW d \in Devices \ unheard, TallyComes(d) PROVE TallyComes(d)'
    <3>1. CASE d # e
      <4>1. pollWire'[d] = pollWire[d] /\ inbox'[d] = inbox[d]
        BY <2>1, <3>1
      <4> QED
        BY <2>1, <2>3, <4>1 DEF TallyComes, LastFrame
    <3>2. CASE d = e /\ inbox[e]
      <4>1. pollWire'[d] = (IF shown[e].known = "none" THEN << m >> ELSE << >>) \o << c >>
        BY <2>1, <3>2
      <4>2. pollWire'[d] # << >> /\ LastFrame(d)' = c
        <5>1. CASE shown[e].known = "none"
          BY <4>1, <5>1 DEF LastFrame
        <5>2. CASE shown[e].known # "none"
          BY <4>1, <5>2 DEF LastFrame
        <5> QED
          BY <5>1, <5>2
      <4>3. votes' = NoVotes /\ NoVotes' = NoVotes
        BY <2>1, <2>3, <3>2 DEF TallyComes, NoVotes
      <4>4. ~inbox'[d]
        BY <2>1, <3>2
      <4> QED
        BY <2>2, <4>2, <4>3, <4>4 DEF TallyComes
    <3>3. CASE d = e /\ ~inbox[e]
      <4>1. pollWire'[d] = (IF shown[e].known = "none" THEN << m >> ELSE << >>) \o << >> /\ ~inbox'[d]
        BY <2>1, <3>3
      <4>2. CASE shown[e].known = "none"
        <5>1. pollWire'[d] = << m >>
          BY <4>1, <4>2
        <5>2. pollWire'[d] # << >> /\ LastFrame(d)' = m
          BY <5>1 DEF LastFrame
        <5> QED
          BY <2>2, <4>1, <5>2 DEF TallyComes
      <4>3. CASE shown[e].known # "none"
        <5>1. pollWire'[d] = << >>
          BY <4>1, <4>3
        <5>2. pollWire[d] = << >>
          BY <2>1, <3>3 DEF TalliesCome
        <5> QED
          BY <2>1, <2>3, <4>1, <5>1, <5>2 DEF TallyComes
      <4> QED
        BY <4>2, <4>3
    <3> QED
      BY <3>1, <3>2, <3>3
  <2>4. \A d \in Devices : (online'[d] => ~inbox'[d]) /\ (~online'[d] => pollWire'[d] = << >>)
    BY <2>1 DEF TalliesCome
  <2> QED
    BY <2>1, <2>3, <2>4 DEF TalliesCome
<1>6. ASSUME NEW e \in Devices, DeviceReceives(e) PROVE TalliesCome'
  <2> DEFINE f == Head(pollWire[e])
             p == Shows(shown[e], f)
  <2>1. /\ pollWire[e] # << >> /\ UNCHANGED <<votes, ballot, alone, online, inbox, unheard>>
        /\ pollWire' = [pollWire EXCEPT ![e] = Tail(pollWire[e])]
        /\ shown' = [shown EXCEPT ![e] = p]
    BY <1>6 DEF DeviceReceives, voting
  <2>2. f \in Frames
    BY <2>1
  <2>3. /\ f.type = "POLL_TALLY" /\ p.known = "poll" => p.tally = f.tally
        /\ f.type = "POLL_CREATED" => p.tally = NoVotes
        /\ f.type = "MSG" => p.known # "poll"
    BY <2>2, ShowsType
  <2>4. f.type \in {"MSG", "POLL_CREATED", "POLL_TALLY"}
    BY <2>2 DEF Frames
  <2> HIDE DEF p
  <2>5. ASSUME NEW d \in Devices \ unheard, TallyComes(d) PROVE TallyComes(d)'
    <3>1. CASE d # e
      <4>1. pollWire'[d] = pollWire[d] /\ shown'[d] = shown[d]
        BY <2>1, <3>1
      <4> QED
        BY <2>1, <2>5, <4>1 DEF TallyComes, LastFrame
    <3>2. CASE d = e
      <4>1. pollWire'[d] = Tail(pollWire[d]) /\ shown'[d] = p /\ pollWire[d] \in Seq(Frames)
        BY <2>1, <3>2
      <4>2. CASE Tail(pollWire[d]) = << >>
        <5>1. LastFrame(d) = f
          BY <2>1, <2>2, <3>2, <4>1, <4>2, LastOf DEF LastFrame
        <5>2. p.known = "poll" => p.tally = votes
          BY <2>1, <2>3, <2>4, <2>5, <3>2, <5>1 DEF TallyComes
        <5> QED
          BY <2>1, <2>5, <4>1, <4>2, <5>2 DEF TallyComes
      <4>3. CASE Tail(pollWire[d]) # << >>
        <5>1. LastFrame(d)' = LastFrame(d)
          BY <2>1, <2>2, <3>2, <4>1, <4>3, LastOf DEF LastFrame
        <5>2. pollWire'[d] # << >> /\ pollWire[d] # << >>
          BY <2>1, <3>2, <4>1, <4>3
        <5> QED
          BY <2>1, <2>5, <5>1, <5>2 DEF TallyComes
      <4> QED
        BY <4>2, <4>3
    <3> QED
      BY <3>1, <3>2
  <2>6. \A d \in Devices : (online'[d] => ~inbox'[d]) /\ (~online'[d] => pollWire'[d] = << >>)
    BY <2>1 DEF TalliesCome
  <2> QED
    BY <2>1, <2>5, <2>6 DEF TalliesCome
<1>7. CASE UNCHANGED pollVars
  BY <1>7 DEF pollVars, TalliesCome, TallyComes, LastFrame
<1>8. ASSUME NEW t \in Booths, NEW u \in Voters, NEW o \in Options, Click(t, u, o) PROVE TalliesCome'
  <2>1. Toggled(MyVotes(u), o) \in SUBSET Options
    BY DEF Toggled, MyVotes
  <2> QED
    BY <1>1, <1>8, <2>1 DEF Click
<1> QED
  BY <1>1, <1>2, <1>3, <1>4, <1>5, <1>6, <1>7, <1>8 DEF PollsNext, Vote

\* Each vote writes its own entry and publishes the tally of what it returns: the votes of
\* users whose own votes did not overlap are kept, and without overlaps every device that was
\* reached shows them all (lib/poll/storage.js:24-33, SyncClient.js:477-485).
THEOREM VotesCounted == PollsSpec => []VotesCount
<1>1. PollsInit => VotesCome /\ TalliesCome
  <2> SUFFICES ASSUME PollsInit PROVE VotesCome /\ TalliesCome
    OBVIOUS
  <2>1. NoBallot.pc = "idle" /\ Created.tally = NoVotes /\ NoPoll.known = "none"
    BY DEF NoBallot, Created, NoPoll
  <2>2. VotesCome
    BY <2>1 DEF PollsInit, VotesCome, VoteComes
  <2>3. \A d \in Devices : TallyComes(d)
    BY <2>1 DEF PollsInit, TallyComes
  <2>4. \A t \in Booths : ballot[t].pc = "idle"
    BY <2>1 DEF PollsInit
  <2>5. \A d \in Devices : (online[d] => ~inbox[d]) /\ pollWire[d] = << >>
    BY DEF PollsInit
  <2> QED
    BY <2>2, <2>3, <2>4, <2>5 DEF TalliesCome
<1>2. VotesCome /\ TalliesCome => VotesCount
  BY DEF VotesCome, VoteComes, TalliesCome, TallyComes, VotesCount, VotesKept, LastTallyIsFinal,
         PollIsQuiet
<1> QED
  BY <1>1, <1>2, VotesAreKept, TalliesAreFinal, PollsTypeCorrect, PTL DEF PollsSpec

-----------------------------------------------------------------------------
(***************************************************************************)
(* Disappearing messages                                                   *)
(***************************************************************************)

Jobs == [pc : {"idle", "mongo", "read", "write", "publish"}, at : Timed \cup {"none"},
         todo : SUBSET Timed, swept : Seq(Timed), got : CachedDocs]

Asked == [pc : {"idle", "mongo", "read", "write"}, kind : Kinds \cup {"none"},
          m : Timed \cup {"none"}, got : CachedDocs]

SweptExpired(s) == \A i \in DOMAIN job[s].swept : doc[job[s].swept[i]].expired

\* The parts of SweepTypeOK.
LEMMA SweepTypeParts ==
    ASSUME SweepTypeOK
    PROVE  /\ doc \in [Timed -> Docs] /\ cache \in [Timed -> CachedDocs]
           /\ due \in SUBSET Timed /\ edited \in SUBSET Timed /\ published \in [Timed -> Nat]
           /\ job \in [Sweepers -> Jobs] /\ request \in [Requests -> Asked]
           /\ \A s \in Sweepers : /\ job[s].pc = "write" => job[s].got \in Docs
                                  /\ SweptExpired(s)
           /\ \A r \in Requests : request[r].pc = "write" => request[r].got \in Docs
           /\ fails \in 0..MaxFails /\ requests \in 0..MaxRequests
BY DEF SweepTypeOK, Jobs, Asked, SweptExpired

\* The same, for the successor.
LEMMA SweepTypePartsNext ==
    ASSUME doc' \in [Timed -> Docs], cache' \in [Timed -> CachedDocs],
           due' \in SUBSET Timed, edited' \in SUBSET Timed, published' \in [Timed -> Nat],
           job' \in [Sweepers -> Jobs], request' \in [Requests -> Asked],
           \A s \in Sweepers : (job'[s].pc = "write" => job'[s].got \in Docs) /\ SweptExpired(s)',
           \A r \in Requests : request'[r].pc = "write" => request'[r].got \in Docs,
           fails' \in 0..MaxFails, requests' \in 0..MaxRequests
    PROVE  SweepTypeOK'
BY DEF SweepTypeOK, Jobs, Asked, SweptExpired, CachedDocs, Docs, Uncached

\* What the updates make of a document.
LEMMA UpdatedDocs ==
    ASSUME NEW d \in Docs
    PROVE  /\ Expired(d) \in Docs /\ Expired(d).expired /\ ~Expired(d).payload
           /\ \A kind : /\ Changed(kind, d) \in Docs
                        /\ Changed(kind, d).expired = d.expired
                        /\ kind # "edit" => Changed(kind, d).deleted /\ ~Changed(kind, d).payload
BY DEF Docs, Expired, Changed

\* What a sweeper's place says of its list.
Placed(j) ==
    /\ j.pc \in {"read", "write"} => j.at \in Timed
    /\ j.pc = "mongo" <=> (j.todo # {} /\ j.pc \notin {"read", "write"})
    /\ j.pc = "publish" => j.swept # << >>
    /\ j.pc = "idle" => j.swept = << >>

\* Nobody works at first.
LEMMA NobodyAtWork ==
    /\ NoJob \in Jobs /\ NoJob.pc = "idle" /\ NoJob.swept = << >> /\ Placed(NoJob)
    /\ NoRequest \in Asked /\ NoRequest.pc = "idle"
    /\ Uncached \in CachedDocs /\ Docs \subseteq CachedDocs /\ Fresh \in Docs
BY DEF NoJob, NoRequest, Jobs, Asked, CachedDocs, Docs, Fresh, Placed

\* An idle sweeper has nothing in hand.
LEMMA IdleJob == NoJob.pc # "write" /\ NoJob.pc \notin {"read", "write"} /\ DOMAIN NoJob.swept = {}
BY NobodyAtWork

\* A sweeper that is through with a message has it on its list to announce, behind the others.
LEMMA ThroughType ==
    ASSUME NEW s \in Sweepers, job[s] \in Jobs, job[s].at \in Timed
    PROVE  /\ Through(s) \in Jobs /\ Through(s).pc \in {"mongo", "publish"}
           /\ Through(s).pc = "mongo" <=> Through(s).todo # {}
           /\ Through(s).swept # << >>
           /\ \A i \in DOMAIN Through(s).swept :
                 \/ Through(s).swept[i] = job[s].at
                 \/ i \in DOMAIN job[s].swept /\ Through(s).swept[i] = job[s].swept[i]
           /\ \E i \in DOMAIN Through(s).swept : Through(s).swept[i] = job[s].at
           /\ \A i \in DOMAIN job[s].swept :
                 i \in DOMAIN Through(s).swept /\ Through(s).swept[i] = job[s].swept[i]
<1> DEFINE list == job[s].swept
           longer == Append(list, job[s].at)
<1>1. list \in Seq(Timed) /\ job[s].todo \in SUBSET Timed
  BY DEF Jobs
<1>2. /\ Len(list) \in Nat /\ longer \in Seq(Timed) /\ Len(longer) = Len(list) + 1
      /\ DOMAIN list = 1..Len(list) /\ DOMAIN longer = 1..(Len(list) + 1)
  BY <1>1
<1>3. /\ \A i \in 1..Len(list) : longer[i] = list[i]
      /\ longer[Len(list) + 1] = job[s].at
  BY <1>1, <1>2
<1>4. /\ Through(s).pc = IF job[s].todo = {} THEN "publish" ELSE "mongo"
      /\ Through(s).todo = job[s].todo /\ Through(s).swept = longer
      /\ Through(s) = [pc |-> IF job[s].todo = {} THEN "publish" ELSE "mongo", at |-> "none",
                       todo |-> job[s].todo, swept |-> longer, got |-> Uncached]
  BY DEF Through
<1>5. Through(s) \in Jobs
  BY <1>1, <1>2, <1>4 DEF Jobs, CachedDocs
<1>6. Len(list) + 1 \in DOMAIN longer /\ longer # << >>
  BY <1>2
<1>7. \A i \in DOMAIN longer : longer[i] = job[s].at \/ (i \in DOMAIN list /\ longer[i] = list[i])
  BY <1>2, <1>3
<1>8. \A i \in DOMAIN list : i \in DOMAIN longer /\ longer[i] = list[i]
  BY <1>2, <1>3
<1>9. Through(s).pc \in {"mongo", "publish"} /\ (Through(s).pc = "mongo" <=> Through(s).todo # {})
  BY <1>4
<1> HIDE DEF longer
<1> QED
  BY <1>3, <1>4, <1>5, <1>6, <1>7, <1>8, <1>9

\* The message a sweeper works on is expired in Mongo.
JobFits(s) ==
    Placed(job[s]) /\ (job[s].pc \in {"read", "write"} => doc[job[s].at].expired)

\* A request in flight is about a message, and one that edits is remembered.
RequestFits(r) ==
    request[r].pc # "idle" =>
        request[r].m \in Timed /\ (request[r].kind = "edit" => request[r].m \in edited)

SweepPlaces ==
    /\ SweepTypeOK
    /\ \A s \in Sweepers : JobFits(s)
    /\ \A r \in Requests : RequestFits(r)

\* The variables keep their types, and places fit lists.
LEMMA SweepPlacesKept == SweepSpec => []SweepPlaces
<1>1. SweepInit => SweepPlaces
  <2> SUFFICES ASSUME SweepInit PROVE SweepPlaces
    OBVIOUS
  <2>1. \A s \in Sweepers : job[s] = NoJob
    BY DEF SweepInit
  <2>2. \A r \in Requests : request[r] = NoRequest
    BY DEF SweepInit
  <2>3. doc \in [Timed -> Docs] /\ cache \in [Timed -> CachedDocs]
    BY NobodyAtWork DEF SweepInit
  <2>4. job \in [Sweepers -> Jobs] /\ request \in [Requests -> Asked]
    BY NobodyAtWork DEF SweepInit
  <2>5. \A s \in Sweepers : JobFits(s) /\ SweptExpired(s) /\ job[s].pc # "write"
    BY <2>1, NobodyAtWork DEF JobFits, SweptExpired
  <2>6. \A r \in Requests : RequestFits(r) /\ request[r].pc # "write"
    BY <2>2, NobodyAtWork DEF RequestFits
  <2>7. due = {} /\ edited = {} /\ published \in [Timed -> Nat] /\ fails \in 0..MaxFails
        /\ requests \in 0..MaxRequests
    BY DisappearingAssumption DEF SweepInit
  <2> QED
    BY <2>3, <2>4, <2>5, <2>6, <2>7 DEF SweepPlaces, SweepTypeOK, Jobs, Asked, SweptExpired
<1>2. SweepPlaces /\ [SweepNext]_sweepVars => SweepPlaces'
  <2> SUFFICES ASSUME SweepPlaces, [SweepNext]_sweepVars PROVE SweepPlaces'
    OBVIOUS
  <2>0. SweepTypeOK /\ (\A s \in Sweepers : JobFits(s)) /\ (\A r \in Requests : RequestFits(r))
    BY DEF SweepPlaces
  <2> USE <2>0, SweepTypeParts, DisappearingAssumption
  <2>1. ASSUME NEW m \in Timed, Tick(m) PROVE SweepPlaces'
    <3>1. UNCHANGED <<doc, cache, job, request, edited, published, fails, requests>>
          /\ due' \in SUBSET Timed
      BY <2>1 DEF Tick
    <3>2. SweepTypeOK'
      BY <3>1, SweepTypePartsNext DEF SweptExpired
    <3> QED
      BY <3>1, <3>2 DEF SweepPlaces, JobFits, RequestFits
  <2>2. ASSUME NEW s \in Sweepers, NEW j \in Jobs,
               job' = [job EXCEPT ![s] = j], j.pc = "write" => j.got \in Docs,
               \A i \in DOMAIN j.swept : doc'[j.swept[i]].expired,
               Placed(j), j.pc \in {"read", "write"} => doc'[j.at].expired,
               doc' \in [Timed -> Docs], \A m \in Timed : doc[m].expired => doc'[m].expired,
               cache' \in [Timed -> CachedDocs], published' \in [Timed -> Nat],
               fails' \in 0..MaxFails, UNCHANGED <<due, request, edited, requests>>
        PROVE  SweepPlaces'
    <3>1. job'[s] = j /\ \A u \in Sweepers : u # s => job'[u] = job[u]
      BY <2>2
    <3>2. job' \in [Sweepers -> Jobs]
      BY <2>2
    <3>3. \A u \in Sweepers : (job'[u].pc = "write" => job'[u].got \in Docs) /\ SweptExpired(u)'
      <4> SUFFICES ASSUME NEW u \in Sweepers
                   PROVE  (job'[u].pc = "write" => job'[u].got \in Docs) /\ SweptExpired(u)'
        OBVIOUS
      <4>1. CASE u = s
        BY <2>2, <3>1, <4>1 DEF SweptExpired
      <4>2. CASE u # s
        <5>1. job[u].swept \in Seq(Timed)
          BY DEF Jobs
        <5>2. \A i \in DOMAIN job[u].swept : job[u].swept[i] \in Timed
          BY <5>1
        <5> QED
          BY <2>2, <3>1, <4>2, <5>2 DEF SweptExpired
      <4> QED
        BY <4>1, <4>2
    <3>4. \A u \in Sweepers : JobFits(u)'
      <4> SUFFICES ASSUME NEW u \in Sweepers PROVE JobFits(u)'
        OBVIOUS
      <4>1. CASE u = s
        BY <2>2, <3>1, <4>1 DEF JobFits, Placed
      <4>2. CASE u # s
        BY <2>2, <3>1, <4>2 DEF JobFits, Placed
      <4> QED
        BY <4>1, <4>2
    <3>5. SweepTypeOK'
      BY <2>2, <3>2, <3>3, SweepTypePartsNext
    <3> QED
      BY <2>2, <3>4, <3>5 DEF SweepPlaces, RequestFits
  <2>3. ASSUME NEW s \in Sweepers, Start(s) PROVE SweepPlaces'
    <3> DEFINE j == [NoJob EXCEPT !.pc = "mongo", !.todo = ToSweep]
    <3>1. ToSweep \in SUBSET Timed /\ ToSweep # {}
      BY <2>3 DEF Start, ToSweep
    <3>2. j \in Jobs /\ j.pc = "mongo" /\ j.todo = ToSweep /\ j.swept = << >>
      BY <3>1, NobodyAtWork DEF Jobs
    <3>3. Placed(j)
      BY <3>1, <3>2 DEF Placed
    <3>4. job' = [job EXCEPT ![s] = j]
          /\ UNCHANGED <<doc, cache, due, request, edited, published, fails, requests>>
      BY <2>3 DEF Start
    <3> HIDE DEF j
    <3>5. j.pc # "write" /\ j.pc \notin {"read", "write"} /\ DOMAIN j.swept = {}
      BY <3>2
    <3> QED
      BY <2>2, <3>2, <3>3, <3>4, <3>5
  <2>4. ASSUME NEW s \in Sweepers, Tombstone(s) PROVE SweepPlaces'
    <3>1. PICK m \in job[s].todo :
             /\ doc' = [doc EXCEPT ![m] = Expired(@)]
             /\ job' = [job EXCEPT ![s] = [@ EXCEPT !.pc = "read", !.at = m, !.todo = job[s].todo \ {m}]]
      BY <2>4 DEF Tombstone
    <3> DEFINE j == [job[s] EXCEPT !.pc = "read", !.at = m, !.todo = job[s].todo \ {m}]
    <3>2. m \in Timed
      BY <3>1 DEF Jobs
    <3>3. j \in Jobs /\ j.pc = "read" /\ j.at = m /\ j.swept = job[s].swept
      BY <3>1, <3>2 DEF Jobs
    <3>4. job' = [job EXCEPT ![s] = j]
          /\ UNCHANGED <<cache, due, request, edited, published, fails, requests>>
      BY <2>4, <3>1 DEF Tombstone
    <3> HIDE DEF j
    <3>5. /\ doc'[m] = Expired(doc[m]) /\ doc' \in [Timed -> Docs]
          /\ \A n \in Timed : n # m => doc'[n] = doc[n]
      BY <3>1, <3>2, UpdatedDocs
    <3>6. doc'[m].expired /\ \A n \in Timed : doc[n].expired => doc'[n].expired
      BY <3>2, <3>5, UpdatedDocs
    <3>7. job[s].swept \in Seq(Timed)
      BY DEF Jobs
    <3>8. \A i \in DOMAIN job[s].swept : doc'[job[s].swept[i]].expired
      <4>1. \A i \in DOMAIN job[s].swept : job[s].swept[i] \in Timed
        BY <3>7
      <4> QED
        BY <3>6, <4>1 DEF SweptExpired
    <3>9. Placed(j)
      BY <3>2, <3>3 DEF Placed
    <3> QED
      BY <2>2, <3>2, <3>3, <3>4, <3>5, <3>6, <3>8, <3>9
  <2>5. ASSUME NEW s \in Sweepers, job[s].pc \in {"read", "write"},
               job' = [job EXCEPT ![s] = Through(s)], cache' \in [Timed -> CachedDocs],
               UNCHANGED <<doc, due, request, edited, published, fails, requests>>
        PROVE  SweepPlaces'
    <3>1. job[s].at \in Timed /\ doc[job[s].at].expired
      BY <2>5 DEF JobFits, Placed
    <3>2. \A i \in DOMAIN Through(s).swept : doc[Through(s).swept[i]].expired
      BY <3>1, ThroughType DEF SweptExpired
    <3>3. /\ Through(s) \in Jobs /\ Through(s).pc \in {"mongo", "publish"}
          /\ Placed(Through(s))
      BY <3>1, ThroughType DEF Placed
    <3> QED
      BY <2>2, <2>5, <3>2, <3>3
  <2>6. ASSUME NEW s \in Sweepers, ReadCached(s) PROVE SweepPlaces'
    <3>1. job[s].pc = "read" /\ job[s].at \in Timed /\ doc[job[s].at].expired
          /\ UNCHANGED <<doc, cache, due, request, edited, published, fails, requests>>
      BY <2>6 DEF ReadCached, JobFits, Placed
    <3>2. CASE cache[job[s].at] = Uncached
      BY <2>5, <2>6, <3>1, <3>2 DEF ReadCached
    <3>3. CASE cache[job[s].at] # Uncached
      <4> DEFINE j == [job[s] EXCEPT !.pc = "write", !.got = cache[job[s].at]]
      <4>1. cache[job[s].at] \in Docs
        BY <3>1, <3>3 DEF CachedDocs
      <4>2. /\ j \in Jobs /\ j.pc = "write" /\ j.got \in Docs /\ j.at = job[s].at
            /\ j.swept = job[s].swept
        BY <4>1 DEF Jobs, CachedDocs
      <4>3. job' = [job EXCEPT ![s] = j]
        BY <2>6, <3>3 DEF ReadCached
      <4>4. Placed(j)
        BY <3>1, <4>2 DEF Placed
      <4> HIDE DEF j
      <4> QED
        BY <2>2, <3>1, <4>2, <4>3, <4>4 DEF SweptExpired
    <3> QED
      BY <3>2, <3>3
  <2>7. ASSUME NEW s \in Sweepers, WriteCached(s) PROVE SweepPlaces'
    <3>1. job[s].pc = "write" /\ job[s].at \in Timed /\ Expired(job[s].got) \in Docs
      BY <2>7, UpdatedDocs DEF WriteCached, JobFits, Placed
    <3>2. cache' \in [Timed -> CachedDocs]
      BY <2>7, <3>1 DEF WriteCached, CachedDocs
    <3> QED
      BY <2>5, <2>7, <3>1, <3>2 DEF WriteCached
  <2>8. ASSUME NEW s \in Sweepers, AnnounceExpired(s) PROVE SweepPlaces'
    <3>1. job[s].pc = "publish" /\ job[s].swept \in Seq(Timed) /\ job[s].swept # << >>
      BY <2>8 DEF AnnounceExpired, JobFits, Placed, Jobs
    <3>2. published' \in [Timed -> Nat] /\ UNCHANGED <<doc, cache, due, request, edited, fails, requests>>
      BY <2>8, <3>1 DEF AnnounceExpired
    <3> DEFINE list == job[s].swept
    <3>3. list \in Seq(Timed) /\ list # << >> /\ Len(list) \in Nat /\ Len(list) > 0
          /\ DOMAIN list = 1..Len(list)
      BY <3>1
    <3>4. CASE Len(job[s].swept) = 1
      <4>1. job' = [job EXCEPT ![s] = NoJob]
        BY <2>8, <3>4 DEF AnnounceExpired
      <4> QED
        BY <2>2, <3>2, <4>1, NobodyAtWork, IdleJob
    <3>5. CASE Len(job[s].swept) # 1
      <4> DEFINE j == [job[s] EXCEPT !.swept = Tail(job[s].swept)]
      <4>0. Tail(list) \in Seq(Timed) /\ Len(Tail(list)) = Len(list) - 1
            /\ DOMAIN Tail(list) = 1..(Len(list) - 1)
        BY <3>3
      <4>1. \A i \in DOMAIN Tail(list) : i + 1 \in DOMAIN list /\ Tail(list)[i] = list[i + 1]
        BY <3>3, Shifted
      <4>2. Tail(list) # << >>
        BY ONLY <3>5, <3>3, NotTheLast
      <4>3. j \in Jobs /\ j.pc = "publish" /\ j.todo = job[s].todo /\ j.swept = Tail(list)
        BY <3>1, <4>0 DEF Jobs
      <4>4. job' = [job EXCEPT ![s] = j]
        BY <2>8, <3>5 DEF AnnounceExpired
      <4>5. \A i \in DOMAIN j.swept : doc[j.swept[i]].expired
        BY <4>1, <4>3 DEF SweptExpired
      <4>6. Placed(j)
        BY <3>1, <4>2, <4>3 DEF JobFits, Placed
      <4> HIDE DEF j
      <4> QED
        BY <2>2, <3>2, <4>3, <4>4, <4>5, <4>6
    <3> QED
      BY <3>4, <3>5
  <2>9. ASSUME NEW s \in Sweepers, SweepFails(s) PROVE SweepPlaces'
    <3>1. job' = [job EXCEPT ![s] = NoJob] /\ fails' \in 0..MaxFails
          /\ UNCHANGED <<doc, cache, due, request, edited, published, requests>>
      BY <2>9 DEF SweepFails
    <3> QED
      BY <2>2, <3>1, NobodyAtWork, IdleJob
  <2>10. ASSUME NEW r \in Requests, NEW q \in Asked, request' = [request EXCEPT ![r] = q],
                q.pc = "write" => q.got \in Docs,
                q.pc # "idle" => q.m \in Timed /\ (q.kind = "edit" => q.m \in edited'),
                doc' \in [Timed -> Docs], \A m \in Timed : doc[m].expired => doc'[m].expired,
                cache' \in [Timed -> CachedDocs], edited' \in SUBSET Timed, edited \subseteq edited',
                requests' \in 0..MaxRequests, UNCHANGED <<due, job, published, fails>>
         PROVE  SweepPlaces'
    <3>1. request'[r] = q /\ \A u \in Requests : u # r => request'[u] = request[u]
      BY <2>10
    <3>2. request' \in [Requests -> Asked]
      BY <2>10
    <3>3. \A u \in Requests : (request'[u].pc = "write" => request'[u].got \in Docs) /\ RequestFits(u)'
      BY <2>10, <3>1 DEF RequestFits
    <3>4. \A s \in Sweepers : \A i \in DOMAIN job[s].swept : job[s].swept[i] \in Timed
      <4>1. \A s \in Sweepers : job[s].swept \in Seq(Timed)
        BY DEF Jobs
      <4> QED
        BY <4>1
    <3>5. \A s \in Sweepers : (job'[s].pc = "write" => job'[s].got \in Docs) /\ SweptExpired(s)'
      BY <2>10, <3>4 DEF SweptExpired
    <3>6. \A s \in Sweepers : job[s].pc \in {"read", "write"} => job[s].at \in Timed
      BY DEF JobFits, Placed
    <3>7. \A s \in Sweepers : JobFits(s)'
      BY <2>10, <3>6 DEF JobFits, Placed
    <3>8. SweepTypeOK'
      BY <2>10, <3>2, <3>3, <3>5, SweepTypePartsNext
    <3> QED
      BY <3>3, <3>7, <3>8 DEF SweepPlaces
  <2>11. ASSUME NEW r \in Requests, NEW kind \in Kinds, NEW m \in Timed, Ask(r, kind, m)
         PROVE  SweepPlaces'
    <3> DEFINE q == [pc |-> "mongo", kind |-> kind, m |-> m, got |-> Uncached]
    <3>1. q \in Asked /\ q.pc = "mongo" /\ q.m = m /\ q.kind = kind
      BY DEF Asked, CachedDocs
    <3>2. /\ request' = [request EXCEPT ![r] = q] /\ requests' \in 0..MaxRequests
          /\ edited' = IF kind = "edit" THEN edited \cup {m} ELSE edited
          /\ UNCHANGED <<doc, cache, due, job, published, fails>>
      BY <2>11 DEF Ask
    <3> HIDE DEF q
    <3> QED
      BY <2>10, <3>1, <3>2
  <2>12. ASSUME NEW r \in Requests, UpdateFor(r) PROVE SweepPlaces'
    <3> DEFINE q == [request[r] EXCEPT !.pc = "read"]
    <3>1. /\ q \in Asked /\ q.pc = "read" /\ q.m = request[r].m /\ q.kind = request[r].kind
      BY DEF Asked
    <3>2. /\ request[r].pc = "mongo" /\ request' = [request EXCEPT ![r] = q]
          /\ doc' = [doc EXCEPT ![request[r].m] = Changed(request[r].kind, @)]
          /\ UNCHANGED <<cache, due, job, edited, published, fails, requests>>
      BY <2>12 DEF UpdateFor
    <3> HIDE DEF q
    <3>3. request[r].m \in Timed /\ (request[r].kind = "edit" => request[r].m \in edited)
      BY <3>2 DEF RequestFits
    <3> DEFINE d == Changed(request[r].kind, doc[request[r].m])
    <3>4. d \in Docs /\ d.expired = doc[request[r].m].expired
      BY <3>3, UpdatedDocs
    <3>5. doc' = [doc EXCEPT ![request[r].m] = d]
      BY <3>2
    <3> HIDE DEF d
    <3>6. doc' \in [Timed -> Docs] /\ \A m \in Timed : doc[m].expired => doc'[m].expired
      BY <3>3, <3>4, <3>5
    <3> QED
      BY <2>10, <3>1, <3>2, <3>3, <3>6
  <2>13. ASSUME NEW r \in Requests, ReadFor(r) PROVE SweepPlaces'
    <3>1. /\ request[r].pc = "read"
          /\ UNCHANGED <<doc, cache, due, job, edited, published, fails, requests>>
      BY <2>13 DEF ReadFor
    <3>2. request[r].m \in Timed /\ (request[r].kind = "edit" => request[r].m \in edited)
      BY <3>1 DEF RequestFits
    <3>3. CASE cache[request[r].m] = Uncached
      <4>1. request' = [request EXCEPT ![r] = NoRequest]
        BY <2>13, <3>3 DEF ReadFor
      <4> QED
        BY <2>10, <3>1, <4>1, NobodyAtWork
    <3>4. CASE cache[request[r].m] # Uncached
      <4> DEFINE q == [request[r] EXCEPT !.pc = "write", !.got = cache[request[r].m]]
      <4>1. cache[request[r].m] \in Docs
        BY <3>2, <3>4 DEF CachedDocs
      <4>2. /\ q \in Asked /\ q.pc = "write" /\ q.got \in Docs /\ q.m = request[r].m
            /\ q.kind = request[r].kind
        BY <4>1 DEF Asked, CachedDocs
      <4>3. request' = [request EXCEPT ![r] = q]
        BY <2>13, <3>4 DEF ReadFor
      <4> HIDE DEF q
      <4> QED
        BY <2>10, <3>1, <3>2, <4>2, <4>3
    <3> QED
      BY <3>3, <3>4
  <2>14. ASSUME NEW r \in Requests, WriteFor(r) PROVE SweepPlaces'
    <3>1. /\ request[r].pc = "write" /\ request' = [request EXCEPT ![r] = NoRequest]
          /\ cache' = [cache EXCEPT ![request[r].m] = Changed(request[r].kind, request[r].got)]
          /\ UNCHANGED <<doc, due, job, edited, published, fails, requests>>
      BY <2>14 DEF WriteFor
    <3>2. Changed(request[r].kind, request[r].got) \in CachedDocs
      BY <3>1, UpdatedDocs, NobodyAtWork
    <3>3. cache' \in [Timed -> CachedDocs]
      BY <3>1, <3>2
    <3> QED
      BY <2>10, <3>1, <3>3, NobodyAtWork
  <2>15. CASE UNCHANGED sweepVars
    <3>1. UNCHANGED <<doc, cache, due, job, request, edited, published, fails, requests>>
      BY <2>15 DEF sweepVars
    <3>2. SweepTypeOK'
      BY <3>1, SweepTypePartsNext DEF SweptExpired
    <3> QED
      BY <3>1, <3>2 DEF SweepPlaces, JobFits, RequestFits
  <2> QED
    BY <2>1, <2>3, <2>4, <2>6, <2>7, <2>8, <2>9, <2>11, <2>12, <2>13, <2>14, <2>15
    DEF SweepNext, Sweep, Serve
<1> QED
  BY <1>1, <1>2, PTL DEF SweepSpec

\* The variables keep their types; what a sweeper has on its list to announce is expired in
\* Mongo, and what is written back to the cache was read from it.
THEOREM SweepTypeCorrect == SweepSpec => []SweepTypeOK
<1>1. SweepPlaces => SweepTypeOK
  BY DEF SweepPlaces
<1> QED
  BY <1>1, SweepPlacesKept, PTL

\* A message is announced, or is on the list of a sweeper or in its hands.
Told(m) ==
    \/ published[m] > 0
    \/ Waiting(m)
    \/ \E s \in Sweepers : job[s].pc \in {"read", "write"} /\ job[s].at = m

\* What a sweep has expired is announced, or will be.
Announced ==
    fails = 0 => \A m \in Timed : doc[m].expired => Told(m)

\* What the cache may hold of a message whose payload is gone.
Tombstoned(d) == d = Uncached \/ (~d.payload /\ (d.deleted \/ d.expired))

\* A payload goes with a mark, and who takes it sees to the cached document.
Buried ==
    fails = 0 => \A m \in Timed \ edited :
        /\ doc[m].payload \/ doc[m].deleted \/ doc[m].expired
        /\ ~doc[m].payload => AtWork(m) \/ Tombstoned(cache[m])

\* What is written back for a message that nobody edits is a tombstone.
LEMMA Tombstones ==
    /\ \A d \in Docs : Tombstoned(Expired(d))
    /\ \A d \in Docs : \A kind : kind # "edit" => Tombstoned(Changed(kind, d))
    /\ Tombstoned(Uncached)
BY DEF Tombstoned, Expired, Changed, Docs

\* A message whose payload is gone and whom nobody works on is a tombstone for a replay, and
\* its payload is in no cache: of two who take it out, the last to write back the document
\* patches one that either has the payload, or is a tombstone (lib/core/storage.js:90-97,
\* lib/disappearing/storage.js:18-22); and it is announced or waits for it.
THEOREM ExpiryReaches == SweepSpec => []ExpiryReachesAll
<1> USE SweepTypeParts, DisappearingAssumption
<1>1. SweepInit => Announced /\ Buried
  BY DEF SweepInit, Announced, Buried, Fresh
<1>2. SweepPlaces /\ Announced /\ [SweepNext]_sweepVars => Announced'
  <2> SUFFICES ASSUME SweepPlaces, Announced, [SweepNext]_sweepVars, fails' = 0,
                      NEW m \in Timed, doc'[m].expired
               PROVE  Told(m)'
    BY DEF Announced
  <2>0. SweepTypeOK /\ \A s \in Sweepers : JobFits(s)
    BY DEF SweepPlaces
  <2> USE <2>0
  <2>1. ASSUME fails = 0, doc[m].expired, published'[m] \in Nat, published'[m] >= published[m],
               Waiting(m) => Waiting(m)' \/ published'[m] > 0,
               \A s \in Sweepers : job[s].pc \in {"read", "write"} /\ job[s].at = m =>
                   \/ Waiting(m)'
                   \/ job'[s].pc \in {"read", "write"} /\ job'[s].at = m
        PROVE  Told(m)'
    BY <2>1 DEF Announced, Told
  <2>2. ASSUME fails = 0, doc[m].expired, UNCHANGED <<job, published>>
        PROVE  Told(m)'
    BY <2>2 DEF Announced, Told, Waiting
  <2>3. ASSUME fails = 0, doc[m].expired, NEW s \in Sweepers, NEW j, job' = [job EXCEPT ![s] = j],
               UNCHANGED published,
               \A i \in DOMAIN job[s].swept : i \in DOMAIN j.swept /\ j.swept[i] = job[s].swept[i],
               job[s].pc \in {"read", "write"} /\ job[s].at = m =>
                   \/ \E i \in DOMAIN j.swept : j.swept[i] = m
                   \/ j.pc \in {"read", "write"} /\ j.at = m
        PROVE  Told(m)'
    <3>1. job'[s] = j /\ \A u \in Sweepers : u # s => job'[u] = job[u]
      BY <2>3
    <3>2. Waiting(m) => Waiting(m)'
      BY <2>3, <3>1 DEF Waiting
    <3>3. \A u \in Sweepers : job[u].pc \in {"read", "write"} /\ job[u].at = m =>
             \/ Waiting(m)'
             \/ job'[u].pc \in {"read", "write"} /\ job'[u].at = m
      BY <2>3, <3>1 DEF Waiting
    <3> QED
      BY <2>1, <2>3, <3>2, <3>3
  <2>4. CASE \E n \in Timed : Tick(n)
    BY <2>2, <2>4 DEF Tick
  <2>5. ASSUME NEW s \in Sweepers, Start(s)
        PROVE  Told(m)'
    <3> DEFINE j == [NoJob EXCEPT !.pc = "mongo", !.todo = ToSweep]
    <3>1. job' = [job EXCEPT ![s] = j] /\ UNCHANGED <<doc, published, fails>>
      BY <2>5 DEF Start
    <3>2. job[s].pc = "idle" /\ DOMAIN job[s].swept = {}
      BY <2>5 DEF Start, JobFits, Placed
    <3> HIDE DEF j
    <3> QED
      BY <2>3, <3>1, <3>2
  <2>6. ASSUME NEW s \in Sweepers, Tombstone(s)
        PROVE  Told(m)'
    <3>1. PICK n \in job[s].todo :
             /\ doc' = [doc EXCEPT ![n] = Expired(@)]
             /\ job' = [job EXCEPT ![s] = [@ EXCEPT !.pc = "read", !.at = n, !.todo = job[s].todo \ {n}]]
      BY <2>6 DEF Tombstone
    <3> DEFINE j == [job[s] EXCEPT !.pc = "read", !.at = n, !.todo = job[s].todo \ {n}]
    <3>2. j.pc = "read" /\ j.at = n /\ j.swept = job[s].swept
      BY DEF Jobs
    <3>3. job[s].pc = "mongo" /\ job' = [job EXCEPT ![s] = j] /\ UNCHANGED <<published, fails>>
      BY <2>6, <3>1 DEF Tombstone
    <3> HIDE DEF j
    <3>4. CASE m = n
      BY <3>2, <3>3, <3>4 DEF Told
    <3>5. CASE m # n
      <4>1. doc[m].expired
        BY <3>1, <3>5
      <4> QED
        BY <2>3, <3>2, <3>3, <4>1
    <3> QED
      BY <3>4, <3>5
  <2>7. ASSUME NEW s \in Sweepers, job[s].pc \in {"read", "write"},
               job' = [job EXCEPT ![s] = Through(s)], UNCHANGED <<doc, published, fails>>
        PROVE  Told(m)'
    <3>1. job[s] \in Jobs /\ job[s].at \in Timed
      BY <2>7 DEF JobFits, Placed
    <3> DEFINE j == Through(s)
    <3>2. /\ \A i \in DOMAIN job[s].swept : i \in DOMAIN j.swept /\ j.swept[i] = job[s].swept[i]
          /\ \E i \in DOMAIN j.swept : j.swept[i] = job[s].at
      BY <3>1, ThroughType
    <3> HIDE DEF j
    <3> QED
      BY <2>3, <2>7, <3>2 DEF j
  <2>8. ASSUME NEW s \in Sweepers, ReadCached(s)
        PROVE  Told(m)'
    <3>1. job[s].pc = "read" /\ UNCHANGED <<doc, published, fails>>
      BY <2>8 DEF ReadCached
    <3>2. CASE cache[job[s].at] = Uncached
      BY <2>7, <2>8, <3>1, <3>2 DEF ReadCached
    <3>3. CASE cache[job[s].at] # Uncached
      <4> DEFINE j == [job[s] EXCEPT !.pc = "write", !.got = cache[job[s].at]]
      <4>1. job' = [job EXCEPT ![s] = j]
        BY <2>8, <3>3 DEF ReadCached
      <4>2. j.pc = "write" /\ j.at = job[s].at /\ j.swept = job[s].swept
        BY DEF Jobs
      <4> HIDE DEF j
      <4> QED
        BY <2>3, <3>1, <4>1, <4>2
    <3> QED
      BY <3>2, <3>3
  <2>9. ASSUME NEW s \in Sweepers, WriteCached(s)
        PROVE  Told(m)'
    BY <2>7, <2>9 DEF WriteCached
  <2>10. ASSUME NEW s \in Sweepers, AnnounceExpired(s)
         PROVE  Told(m)'
    <3> DEFINE list == job[s].swept
    <3>1. /\ job[s].pc = "publish" /\ list \in Seq(Timed) /\ list # << >>
          /\ published' = [published EXCEPT ![Head(list)] = @ + 1]
          /\ UNCHANGED <<doc, fails>>
      BY <2>10 DEF AnnounceExpired, JobFits, Placed, Jobs
    <3>2. Head(list) \in Timed
      BY <3>1
    <3>3. published'[m] \in Nat /\ published'[m] >= published[m] /\ published'[Head(list)] > 0
      BY <3>1, <3>2
    <3>4. \A u \in Sweepers : u # s => job'[u] = job[u]
      BY <2>10 DEF AnnounceExpired
    <3>5. \A i \in DOMAIN list : list[i] = Head(list) \/
             \E k \in DOMAIN job'[s].swept : job'[s].swept[k] = list[i]
      <4>1. CASE Len(list) = 1
        BY <3>1, <4>1
      <4>2. CASE Len(list) # 1
        <5>1. job'[s].swept = Tail(list)
          BY <2>10, <4>2 DEF AnnounceExpired, Jobs
        <5>2. \A i \in DOMAIN list : list[i] = Head(list) \/
                 (i - 1 \in DOMAIN Tail(list) /\ Tail(list)[i - 1] = list[i])
          BY ONLY <3>1, Shifted
        <5> QED
          BY <5>1, <5>2
      <4> QED
        BY <4>1, <4>2
    <3>6. Waiting(m) => Waiting(m)' \/ published'[m] > 0
      <4> SUFFICES ASSUME NEW u \in Sweepers, NEW i \in DOMAIN job[u].swept, job[u].swept[i] = m
                   PROVE  Waiting(m)' \/ published'[m] > 0
        BY DEF Waiting
      <4>1. CASE u = s
        BY <3>3, <3>5, <4>1 DEF Waiting
      <4>2. CASE u # s
        BY <3>4, <4>2 DEF Waiting
      <4> QED
        BY <4>1, <4>2
    <3> QED
      BY <2>1, <3>1, <3>3, <3>4, <3>6
  <2>11. ASSUME NEW s \in Sweepers, SweepFails(s) PROVE FALSE
    <3>1. fails \in Nat /\ fails' = fails + 1
      BY <2>11 DEF SweepFails
    <3> QED
      BY <3>1
  <2>12. ASSUME NEW r \in Requests, NEW kind \in Kinds, NEW n \in Timed, Ask(r, kind, n)
         PROVE  Told(m)'
    BY <2>2, <2>12 DEF Ask
  <2>13. ASSUME NEW r \in Requests, UpdateFor(r)
         PROVE  Told(m)'
    <3> DEFINE d == Changed(request[r].kind, doc[request[r].m])
    <3>1. doc' = [doc EXCEPT ![request[r].m] = d] /\ UNCHANGED <<job, published, fails>>
      BY <2>13 DEF UpdateFor
    <3>2. request[r].m \in Timed => d.expired = doc[request[r].m].expired
      BY UpdatedDocs
    <3> HIDE DEF d
    <3>3. doc[m].expired
      BY <3>1, <3>2
    <3> QED
      BY <2>2, <3>1, <3>3
  <2>14. ASSUME NEW r \in Requests, ReadFor(r) \/ WriteFor(r)
         PROVE  Told(m)'
    BY <2>2, <2>14 DEF ReadFor, WriteFor
  <2>15. CASE UNCHANGED sweepVars
    BY <2>2, <2>15 DEF sweepVars
  <2> QED
    BY <2>4, <2>5, <2>6, <2>8, <2>9, <2>10, <2>11, <2>12, <2>13, <2>14, <2>15
    DEF SweepNext, Sweep, Serve
<1>3. SweepPlaces /\ Buried /\ [SweepNext]_sweepVars => Buried'
  <2> SUFFICES ASSUME SweepPlaces, Buried, [SweepNext]_sweepVars, fails' = 0,
                      NEW m \in Timed, m \notin edited'
               PROVE  /\ doc'[m].payload \/ doc'[m].deleted \/ doc'[m].expired
                      /\ ~doc'[m].payload => AtWork(m)' \/ Tombstoned(cache[m])'
    BY DEF Buried
  <2>0. SweepTypeOK /\ (\A s \in Sweepers : JobFits(s)) /\ (\A r \in Requests : RequestFits(r))
    BY DEF SweepPlaces
  <2> USE <2>0
  <2> DEFINE Kept == /\ doc'[m].payload \/ doc'[m].deleted \/ doc'[m].expired
                     /\ ~doc'[m].payload => AtWork(m)' \/ Tombstoned(cache[m])'
  <2>1. ASSUME fails = 0, m \notin edited, doc'[m] = doc[m],
               cache'[m] = cache[m] \/ Tombstoned(cache'[m]),
               AtWork(m) => AtWork(m)' \/ Tombstoned(cache'[m])
        PROVE  Kept
    BY <2>1 DEF Buried, Tombstoned
  <2>2. ASSUME fails = 0, m \notin edited, UNCHANGED <<doc, cache, job, request>>
        PROVE  Kept
    BY <2>1, <2>2 DEF AtWork
  <2>3. ASSUME fails = 0, m \notin edited, UNCHANGED <<doc, request>>,
               cache'[m] = cache[m] \/ Tombstoned(cache'[m]),
               NEW s \in Sweepers, NEW j, job' = [job EXCEPT ![s] = j],
               job[s].pc \in {"read", "write"} /\ job[s].at = m =>
                  (j.pc \in {"read", "write"} /\ j.at = m) \/ Tombstoned(cache'[m])
        PROVE  Kept
    <3>1. job'[s] = j /\ \A u \in Sweepers : u # s => job'[u] = job[u]
      BY <2>3
    <3>2. AtWork(m) => AtWork(m)' \/ Tombstoned(cache'[m])
      BY <2>3, <3>1 DEF AtWork
    <3> QED
      BY <2>1, <2>3, <3>2
  <2>4. ASSUME fails = 0, m \notin edited, UNCHANGED <<doc, job>>,
               cache'[m] = cache[m] \/ Tombstoned(cache'[m]),
               NEW r \in Requests, NEW q, request' = [request EXCEPT ![r] = q],
               request[r].pc \in {"read", "write"} /\ request[r].m = m =>
                  (q.pc \in {"read", "write"} /\ q.m = m) \/ Tombstoned(cache'[m])
        PROVE  Kept
    <3>1. request'[r] = q /\ \A u \in Requests : u # r => request'[u] = request[u]
      BY <2>4
    <3>2. AtWork(m) => AtWork(m)' \/ Tombstoned(cache'[m])
      BY <2>4, <3>1 DEF AtWork
    <3> QED
      BY <2>1, <2>4, <3>2
  <2>5. ASSUME NEW n \in Timed, Tick(n) PROVE Kept
    BY <2>2, <2>5 DEF Tick
  <2>6. ASSUME NEW s \in Sweepers, Start(s) PROVE Kept
    BY <2>3, <2>6 DEF Start
  <2>7. ASSUME NEW s \in Sweepers, Tombstone(s) PROVE Kept
    <3>1. PICK n \in job[s].todo :
             /\ doc' = [doc EXCEPT ![n] = Expired(@)]
             /\ job' = [job EXCEPT ![s] = [@ EXCEPT !.pc = "read", !.at = n, !.todo = job[s].todo \ {n}]]
      BY <2>7 DEF Tombstone
    <3> DEFINE j == [job[s] EXCEPT !.pc = "read", !.at = n, !.todo = job[s].todo \ {n}]
    <3>2. j.pc = "read" /\ j.at = n
      BY DEF Jobs
    <3>3. job[s].pc = "mongo" /\ job' = [job EXCEPT ![s] = j]
          /\ UNCHANGED <<cache, request, edited, fails>>
      BY <2>7, <3>1 DEF Tombstone
    <3> HIDE DEF j
    <3>4. CASE m = n
      <4>1. doc'[m].expired
        BY <3>1, <3>4, UpdatedDocs
      <4>2. AtWork(m)'
        BY <3>2, <3>3, <3>4 DEF AtWork
      <4> QED
        BY <4>1, <4>2
    <3>5. CASE m # n
      <4>1. doc'[m] = doc[m]
        BY <3>1, <3>5
      <4>2. \A u \in Sweepers : u # s => job'[u] = job[u]
        BY <3>3
      <4>3. AtWork(m) => AtWork(m)'
        BY <3>3, <4>2 DEF AtWork
      <4> QED
        BY <2>1, <3>3, <4>1, <4>3
    <3> QED
      BY <3>4, <3>5
  <2>8. ASSUME NEW s \in Sweepers, ReadCached(s) PROVE Kept
    <3>1. job[s].pc = "read" /\ UNCHANGED <<doc, cache, request, edited, fails>>
      BY <2>8 DEF ReadCached
    <3>2. CASE cache[job[s].at] = Uncached
      <4>1. job' = [job EXCEPT ![s] = Through(s)]
        BY <2>8, <3>2 DEF ReadCached
      <4>2. job[s].at = m => Tombstoned(cache'[m])
        BY <3>1, <3>2 DEF Tombstoned
      <4> QED
        BY <2>3, <3>1, <4>1, <4>2
    <3>3. CASE cache[job[s].at] # Uncached
      <4> DEFINE j == [job[s] EXCEPT !.pc = "write", !.got = cache[job[s].at]]
      <4>1. job' = [job EXCEPT ![s] = j]
        BY <2>8, <3>3 DEF ReadCached
      <4>2. j.pc = "write" /\ j.at = job[s].at
        BY DEF Jobs
      <4> HIDE DEF j
      <4> QED
        BY <2>3, <3>1, <4>1, <4>2
    <3> QED
      BY <3>2, <3>3
  <2>9. ASSUME NEW s \in Sweepers, WriteCached(s) PROVE Kept
    <3> DEFINE d == Expired(job[s].got)
               n == job[s].at
    <3>1. job[s].pc = "write" /\ n \in Timed /\ Tombstoned(d)
      BY <2>9, Tombstones DEF WriteCached, JobFits, Placed
    <3>2. job' = [job EXCEPT ![s] = Through(s)] /\ cache' = [cache EXCEPT ![n] = d]
          /\ UNCHANGED <<doc, request, edited, fails>>
      BY <2>9 DEF WriteCached
    <3> HIDE DEF d
    <3>3. cache'[n] = d /\ (m # n => cache'[m] = cache[m])
      BY <3>1, <3>2
    <3> QED
      BY <2>3, <3>1, <3>2, <3>3
  <2>10. ASSUME NEW s \in Sweepers, AnnounceExpired(s) PROVE Kept
    BY <2>3, <2>10 DEF AnnounceExpired
  <2>11. ASSUME NEW s \in Sweepers, SweepFails(s) PROVE FALSE
    <3>1. fails \in Nat /\ fails' = fails + 1
      BY <2>11 DEF SweepFails
    <3> QED
      BY <3>1
  <2>12. ASSUME NEW r \in Requests, NEW kind \in Kinds, NEW n \in Timed, Ask(r, kind, n)
         PROVE  Kept
    BY <2>4, <2>12 DEF Ask
  <2>13. ASSUME NEW r \in Requests, UpdateFor(r) PROVE Kept
    <3> DEFINE n == request[r].m
               d == Changed(request[r].kind, doc[n])
               q == [request[r] EXCEPT !.pc = "read"]
    <3>1. /\ request[r].pc = "mongo" /\ doc' = [doc EXCEPT ![n] = d]
          /\ request' = [request EXCEPT ![r] = q] /\ UNCHANGED <<cache, job, edited, fails>>
      BY <2>13 DEF UpdateFor
    <3>2. q.pc = "read" /\ q.m = n
      BY DEF Asked
    <3>3. n \in Timed /\ (n = m => request[r].kind # "edit")
      BY <3>1 DEF RequestFits
    <3>4. n = m => d.deleted
      BY <3>3, UpdatedDocs
    <3> HIDE DEF d, q
    <3>5. CASE n = m
      <4>1. doc'[m].deleted
        BY <3>1, <3>4, <3>5
      <4>2. AtWork(m)'
        BY <3>1, <3>2, <3>5 DEF AtWork
      <4> QED
        BY <4>1, <4>2
    <3>6. CASE n # m
      <4>1. doc'[m] = doc[m]
        BY <3>1, <3>6
      <4>2. \A u \in Requests : u # r => request'[u] = request[u]
        BY <3>1
      <4>3. AtWork(m) => AtWork(m)'
        BY <3>1, <4>2 DEF AtWork
      <4> QED
        BY <2>1, <3>1, <4>1, <4>3
    <3> QED
      BY <3>5, <3>6
  <2>14. ASSUME NEW r \in Requests, ReadFor(r) PROVE Kept
    <3>1. request[r].pc = "read" /\ UNCHANGED <<doc, cache, job, edited, fails>>
      BY <2>14 DEF ReadFor
    <3>2. CASE cache[request[r].m] = Uncached
      <4>1. request' = [request EXCEPT ![r] = NoRequest]
        BY <2>14, <3>2 DEF ReadFor
      <4>2. request[r].m = m => Tombstoned(cache'[m])
        BY <3>1, <3>2 DEF Tombstoned
      <4> QED
        BY <2>4, <3>1, <4>1, <4>2
    <3>3. CASE cache[request[r].m] # Uncached
      <4> DEFINE q == [request[r] EXCEPT !.pc = "write", !.got = cache[request[r].m]]
      <4>1. request' = [request EXCEPT ![r] = q]
        BY <2>14, <3>3 DEF ReadFor
      <4>2. q.pc = "write" /\ q.m = request[r].m
        BY DEF Asked
      <4> HIDE DEF q
      <4> QED
        BY <2>4, <3>1, <4>1, <4>2
    <3> QED
      BY <3>2, <3>3
  <2>15. ASSUME NEW r \in Requests, WriteFor(r) PROVE Kept
    <3> DEFINE n == request[r].m
               d == Changed(request[r].kind, request[r].got)
    <3>1. /\ request[r].pc = "write" /\ request' = [request EXCEPT ![r] = NoRequest]
          /\ cache' = [cache EXCEPT ![n] = d] /\ UNCHANGED <<doc, job, edited, fails>>
      BY <2>15 DEF WriteFor
    <3>2. n \in Timed /\ (n = m => request[r].kind # "edit") /\ request[r].got \in Docs
      BY <3>1 DEF RequestFits
    <3>3. n = m => Tombstoned(d)
      BY <3>2, Tombstones
    <3> HIDE DEF d
    <3>4. cache'[n] = d /\ (m # n => cache'[m] = cache[m])
      BY <3>1, <3>2
    <3> QED
      BY <2>4, <3>1, <3>3, <3>4
  <2>16. ASSUME UNCHANGED sweepVars PROVE Kept
    BY <2>2, <2>16 DEF sweepVars
  <2> HIDE DEF Kept
  <2>17. Kept
    BY <2>5, <2>6, <2>7, <2>8, <2>9, <2>10, <2>11, <2>12, <2>13, <2>14, <2>15, <2>16
    DEF SweepNext, Sweep, Serve
  <2> QED
    BY <2>17 DEF Kept
<1>4. SweepPlaces /\ Announced /\ Buried => ExpiryReachesAll
  <2> SUFFICES ASSUME SweepPlaces, Announced, Buried, fails = 0, NEW m \in Timed, ~AtWork(m)
               PROVE  /\ doc[m].expired => published[m] > 0 \/ Waiting(m)
                      /\ m \notin edited /\ ~doc[m].payload =>
                             Replays(m) # "MSG" /\ (cache[m] # Uncached => ~cache[m].payload)
    BY DEF ExpiryReachesAll, TombstonesStay, ExpiredIsAnnounced
  <2>1. doc[m].expired => published[m] > 0 \/ Waiting(m)
    BY DEF Announced, Told, AtWork
  <2>2. ASSUME m \notin edited, ~doc[m].payload
        PROVE  Replays(m) # "MSG" /\ (cache[m] # Uncached => ~cache[m].payload)
    <3>1. Tombstoned(cache[m]) /\ (doc[m].deleted \/ doc[m].expired)
      BY <2>2 DEF Buried
    <3>2. doc[m] \in Docs /\ cache[m] \in CachedDocs
      BY DEF SweepPlaces
    <3>3. CASE cache[m] = Uncached
      BY <3>1, <3>2, <3>3 DEF Replays, Docs
    <3>4. CASE cache[m] # Uncached
      <4>1. cache[m] \in Docs /\ ~cache[m].payload /\ (cache[m].deleted \/ cache[m].expired)
        BY <3>1, <3>2, <3>4 DEF Tombstoned, CachedDocs
      <4> QED
        BY <3>4, <4>1 DEF Replays, Docs
    <3> QED
      BY <3>3, <3>4
  <2> QED
    BY <2>1, <2>2
<1> QED
  BY <1>1, <1>2, <1>3, <1>4, SweepPlacesKept, PTL DEF SweepSpec

-----------------------------------------------------------------------------
(***************************************************************************)
(* Subject and timer                                                       *)
(***************************************************************************)

\* The requests and the sessions while n values have been drawn.
Wishes(n) == [pc : {"idle", "redis", "publish"}, value : 0..n]
Sessions(n) == [state : {"none", "new", "read", "through"}, value : 0..n]

\* The parts of SettingTypeOK, and what the assumptions say of the bounds.
LEMMA SettingTypeParts ==
    ASSUME SettingTypeOK
    PROVE  /\ field \in {"subject", "timer"} /\ setter \in [Setters -> Wishes(sets)]
           /\ redis \in 0..sets /\ setting \in 0..sets
           /\ events \in Seq(0..sets) /\ socket \in Seq(0..sets)
           /\ session \in Sessions(sets) /\ known \in BOOLEAN /\ missed \in BOOLEAN
           /\ sets \in 0..MaxSets /\ refusals \in 0..MaxRefusals /\ outages \in 0..MaxOutages
           /\ {MaxSets, MaxRefusals, MaxOutages} \subseteq Nat /\ sets \in Nat
<1>1. {MaxSets, MaxRefusals, MaxOutages} \subseteq Nat
  BY SettingsAssumption
<1> QED
  BY <1>1 DEF SettingTypeOK, Wishes, Sessions

\* The same, for the successor.
LEMMA SettingTypePartsNext ==
    ASSUME field' \in {"subject", "timer"}, setter' \in [Setters -> Wishes(sets')],
           redis' \in 0..sets', setting' \in 0..sets',
           events' \in Seq(0..sets'), socket' \in Seq(0..sets'),
           session' \in Sessions(sets'), known' \in BOOLEAN, missed' \in BOOLEAN,
           sets' \in 0..MaxSets, refusals' \in 0..MaxRefusals, outages' \in 0..MaxOutages
    PROVE  SettingTypeOK'
BY DEF SettingTypeOK, Wishes, Sessions

\* No request, no session.
LEMMA NothingAtFirst ==
    ASSUME NEW n \in Nat
    PROVE  /\ NotSetting \in Wishes(n) /\ NotSetting.pc = "idle"
           /\ None \in Sessions(n) /\ None.state = "none" /\ None.value = 0
           /\ \A state \in {"new", "read", "through"} : \A value \in 0..n :
                 /\ Filed(state, value) \in Sessions(n) /\ Filed(state, value).state = state
                 /\ Filed(state, value).value = value /\ Filed(state, value) # None
BY DEF NotSetting, Wishes, None, Sessions, Filed

\* The variables keep their types.
THEOREM SettingTypeCorrect == SettingSpec => []SettingTypeOK
<1>1. SettingInit => SettingTypeOK
  <2> SUFFICES ASSUME SettingInit PROVE SettingTypeOK
    OBVIOUS
  <2>1. sets = 0 /\ redis = 0 /\ setting = 0 /\ events = << >> /\ socket = << >> /\ refusals = 0
        /\ outages = 0 /\ known = FALSE /\ missed = FALSE /\ session = None
        /\ field \in {"subject", "timer"}
    BY DEF SettingInit
  <2>2. setter \in [Setters -> Wishes(0)] /\ session \in Sessions(0)
    BY NothingAtFirst DEF SettingInit
  <2>3. {MaxSets, MaxRefusals, MaxOutages} \subseteq Nat
    BY SettingsAssumption
  <2>4. {redis, setting} \subseteq 0..sets /\ {events, socket} \subseteq Seq(0..sets)
        /\ setter \in [Setters -> Wishes(sets)] /\ session \in Sessions(sets)
    BY <2>1, <2>2
  <2>5. sets \in 0..MaxSets /\ refusals \in 0..MaxRefusals /\ outages \in 0..MaxOutages
    BY <2>1, <2>3
  <2>6. known \in BOOLEAN /\ missed \in BOOLEAN
    BY <2>1
  <2> QED
    BY <2>1, <2>4, <2>5, <2>6 DEF SettingTypeOK, Wishes, Sessions
<1>2. SettingTypeOK /\ [SettingNext]_settingVars => SettingTypeOK'
  <2> SUFFICES ASSUME SettingTypeOK, [SettingNext]_settingVars PROVE SettingTypeOK'
    OBVIOUS
  <2> USE SettingTypeParts
  <2>1. ASSUME NEW t \in Setters, BeginSet(t) PROVE SettingTypeOK'
    <3>1. /\ sets < MaxSets /\ sets' = sets + 1
          /\ setter' = [setter EXCEPT ![t] = [pc |-> "redis", value |-> sets + 1]]
          /\ missed' = (missed \/ (known /\ Busy # {}))
          /\ UNCHANGED <<field, redis, events, session, socket, known, setting, refusals, outages>>
      BY <2>1 DEF BeginSet
    <3>2. sets' \in 0..MaxSets /\ 0..sets \subseteq 0..sets'
      BY <3>1
    <3>3. events' \in Seq(0..sets') /\ socket' \in Seq(0..sets')
      BY <3>1, <3>2, SequencesGrow
    <3>4. Wishes(sets) \subseteq Wishes(sets') /\ Sessions(sets) \subseteq Sessions(sets')
      BY <3>2 DEF Wishes, Sessions
    <3>5. setter' \in [Setters -> Wishes(sets')]
      <4>1. [pc |-> "redis", value |-> sets + 1] \in Wishes(sets')
        BY <3>1 DEF Wishes
      <4> QED
        BY <3>1, <3>4, <4>1
    <3>6. missed' \in BOOLEAN /\ session' \in Sessions(sets')
      BY <3>1, <3>4
    <3>7. redis' \in 0..sets' /\ setting' \in 0..sets'
      BY <3>1, <3>2
    <3> QED
      BY <3>1, <3>2, <3>3, <3>5, <3>6, <3>7, SettingTypePartsNext
  <2>2. ASSUME NEW t \in Setters, StoreSetting(t) PROVE SettingTypeOK'
    <3>1. redis' \in 0..sets /\ setter' = [setter EXCEPT ![t].pc = "publish"]
          /\ UNCHANGED <<field, events, session, socket, known, setting, missed, sets, refusals, outages>>
      BY <2>2 DEF StoreSetting, Wishes
    <3>2. setter' \in [Setters -> Wishes(sets)]
      BY <3>1 DEF Wishes
    <3> QED
      BY <3>1, <3>2, SettingTypePartsNext
  <2>3. ASSUME NEW t \in Setters, PublishSetting(t) PROVE SettingTypeOK'
    <3>1. /\ events' = Append(events, setter[t].value) /\ setter' = [setter EXCEPT ![t] = NotSetting]
          /\ UNCHANGED <<field, redis, session, socket, known, setting, missed, sets, refusals, outages>>
      BY <2>3 DEF PublishSetting
    <3>2. setter[t].value \in 0..sets
      BY DEF Wishes
    <3>3. events' \in Seq(0..sets)
      BY <3>1, <3>2
    <3>4. setter' \in [Setters -> Wishes(sets)]
      BY <3>1, NothingAtFirst
    <3> QED
      BY <3>1, <3>3, <3>4, SettingTypePartsNext
  <2>4. ASSUME NEW t \in Setters, SetFails(t) PROVE SettingTypeOK'
    <3>1. /\ refusals < MaxRefusals /\ refusals' = refusals + 1
          /\ missed' = (missed \/ (known /\ setter[t].pc = "publish"))
          /\ setter' = [setter EXCEPT ![t] = NotSetting]
          /\ UNCHANGED <<field, redis, events, session, socket, known, setting, sets, outages>>
      BY <2>4 DEF SetFails
    <3>2. setter' \in [Setters -> Wishes(sets)]
      BY <3>1, NothingAtFirst
    <3>3. refusals' \in 0..MaxRefusals /\ missed' \in BOOLEAN
      BY <3>1
    <3> QED
      BY <3>1, <3>2, <3>3, SettingTypePartsNext
  <2>5. CASE DeliverSetting
    <3>1. /\ events # << >> /\ events' = Tail(events)
          /\ UNCHANGED <<field, redis, setter, session, known, setting, sets, refusals, outages>>
      BY <2>5 DEF DeliverSetting
    <3>2. Head(events) \in 0..sets /\ events' \in Seq(0..sets)
      BY <3>1
    <3>3. socket' = socket \/ socket' = Append(socket, Head(events))
      BY <2>5 DEF DeliverSetting
    <3>4. socket' \in Seq(0..sets)
      <4>1. socket \in Seq(0..sets) /\ Append(socket, Head(events)) \in Seq(0..sets)
        BY <3>2
      <4> QED
        BY ONLY <3>3, <4>1
    <3>5. missed' \in BOOLEAN
      BY <2>5 DEF DeliverSetting
    <3> QED
      BY <3>1, <3>2, <3>4, <3>5, SettingTypePartsNext
  <2>6. CASE Hello
    <3>1. /\ known' = TRUE /\ missed' \in BOOLEAN
          /\ UNCHANGED <<field, redis, setter, events, socket, setting, sets, refusals, outages>>
      BY <2>6 DEF Hello
    <3>2. session' \in Sessions(sets)
      BY <2>6, NothingAtFirst DEF Hello
    <3> QED
      BY <3>1, <3>2, SettingTypePartsNext
  <2>7. CASE Read
    <3>1. session' \in Sessions(sets)
      BY <2>7, NothingAtFirst DEF Read
    <3> QED
      BY <2>7, <3>1, SettingTypePartsNext DEF Read
  <2>8. CASE Describe
    <3>1. session' \in Sessions(sets) /\ session.value \in 0..sets
      BY <2>8, NothingAtFirst DEF Describe, Sessions
    <3>2. socket' = socket \/ socket' = Append(socket, session.value)
      BY <2>8 DEF Describe
    <3>3. socket' \in Seq(0..sets)
      <4>1. socket \in Seq(0..sets) /\ Append(socket, session.value) \in Seq(0..sets)
        BY <3>1
      <4> QED
        BY ONLY <3>2, <4>1
    <3> QED
      BY <2>8, <3>1, <3>3, SettingTypePartsNext DEF Describe
  <2>9. CASE ShowSetting
    <3>1. Head(socket) \in 0..sets /\ Tail(socket) \in Seq(0..sets)
      BY <2>9 DEF ShowSetting
    <3> QED
      BY <2>9, <3>1, SettingTypePartsNext DEF ShowSetting
  <2>10. ASSUME NEW forget \in BOOLEAN, Break(forget) PROVE SettingTypeOK'
    <3>1. /\ outages < MaxOutages /\ outages' = outages + 1 /\ session' = None /\ socket' = << >>
          /\ UNCHANGED <<field, redis, setter, events, sets, refusals>>
      BY <2>10 DEF Break
    <3>2. session' \in Sessions(sets) /\ socket' \in Seq(0..sets) /\ outages' \in 0..MaxOutages
      BY <3>1, NothingAtFirst
    <3>3. CASE forget
      <4>1. known' = FALSE /\ setting' = 0 /\ missed' = FALSE
        BY <2>10, <3>3 DEF Break
      <4>2. setting' \in 0..sets
        BY <4>1
      <4>3. known' \in BOOLEAN /\ missed' \in BOOLEAN
        BY ONLY <4>1
      <4> QED
        BY <3>1, <3>2, <4>2, <4>3, SettingTypePartsNext
    <3>4. CASE ~forget
      <4>1. UNCHANGED <<known, setting>> /\ missed' \in BOOLEAN
        BY <2>10, <3>4 DEF Break
      <4> QED
        BY <3>1, <3>2, <4>1, SettingTypePartsNext
    <3> QED
      BY <3>3, <3>4
  <2>11. CASE UNCHANGED settingVars
    BY <2>11, SettingTypePartsNext DEF settingVars
  <2> QED
    BY <2>1, <2>2, <2>3, <2>4, <2>5, <2>6, <2>7, <2>8, <2>9, <2>10, <2>11 DEF SettingNext
<1> QED
  BY <1>1, <1>2, PTL DEF SettingSpec

\* No request is between Redis and its broadcast.
Silent == \A t \in Setters : setter[t].pc # "publish"

\* While nothing is stored, nobody has a value; what requests ask for is never 0.
NothingSet ==
    /\ \A t \in Setters : setter[t].pc # "idle" => setter[t].value > 0
    /\ redis = 0 => (events = << >> /\ socket = << >> /\ setting = 0 /\ session.value = 0 /\ Silent)

\* A client that does not know the conversation has nothing of it, and without a session
\* there are no frames.
Unknown ==
    /\ ~known => (session = None /\ setting = 0)
    /\ session = None => socket = << >>

\* The last frame, or what the client shows, is the stored setting.
Shown == (socket # << >> => socket[Len(socket)] = redis) /\ (socket = << >> => setting = redis)

\* The same once the session is described to, which it will be.
Arrived ==
    /\ (session.state \in {"none", "through"} \/ field = "timer") => Shown
    /\ session.state = "read" => session.value = redis

\* The last event is the stored setting; when there are none it has arrived.
Settled == (events # << >> => events[Len(events)] = redis) /\ (events = << >> => Arrived)

\* Of a client that has missed nothing: there is one request at a time, it publishes what it
\* stored, and without it what is on its way, or has arrived, is the stored setting.
OnItsWay ==
    known /\ ~missed =>
        /\ \A t, u \in Busy : t = u
        /\ \A t \in Setters : setter[t].pc = "publish" => setter[t].value = redis
        /\ Silent => Settled

\* A set of requests with at most one member.
LEMMA AtMostOne ==
    ASSUME ~(Cardinality(Busy) > 1)
    PROVE  \A t, u \in Busy : t = u
<1>1. IsFiniteSet(Busy) /\ Cardinality(Busy) \in Nat
  <2>1. Busy \subseteq Setters /\ IsFiniteSet(Setters)
    BY SettingsAssumption DEF Busy
  <2> QED
    BY <2>1, FS_Subset, FS_CardinalityType
<1>2. CASE Cardinality(Busy) = 0
  BY <1>1, <1>2, FS_EmptySet
<1>3. CASE Cardinality(Busy) = 1
  <2>1. PICK t : Busy = {t}
    BY <1>1, <1>3, FS_Singleton
  <2> QED
    BY <2>1
<1> QED
  BY <1>1, <1>2, <1>3

\* No step gives anybody a value while nothing is stored.
LEMMA NothingSetKept == SettingTypeOK /\ NothingSet /\ [SettingNext]_settingVars => NothingSet'
<1> SUFFICES ASSUME SettingTypeOK, NothingSet, [SettingNext]_settingVars PROVE NothingSet'
  OBVIOUS
<1> USE SettingTypeParts
<1>0. \A t \in Setters : setter[t] \in Wishes(sets) /\ setter[t].value \in Nat
  BY DEF Wishes
<1>1. ASSUME NEW t \in Setters, BeginSet(t) PROVE NothingSet'
  <2>1. setter' = [setter EXCEPT ![t] = [pc |-> "redis", value |-> sets + 1]]
        /\ UNCHANGED <<redis, events, socket, session, setting>>
    BY <1>1 DEF BeginSet
  <2>2. setter'[t].pc = "redis" /\ setter'[t].value > 0
        /\ \A u \in Setters : u # t => setter'[u] = setter[u]
    BY <2>1
  <2> QED
    BY <2>1, <2>2 DEF NothingSet, Silent
<1>2. ASSUME NEW t \in Setters, StoreSetting(t) PROVE NothingSet'
  <2>1. setter[t].pc = "redis" /\ redis' = setter[t].value
        /\ setter' = [setter EXCEPT ![t].pc = "publish"]
    BY <1>2 DEF StoreSetting
  <2>2. setter'[t].value = setter[t].value /\ \A u \in Setters : u # t => setter'[u] = setter[u]
    BY <1>0, <2>1 DEF Wishes
  <2> QED
    BY <1>0, <2>1, <2>2 DEF NothingSet
<1>3. ASSUME NEW t \in Setters, PublishSetting(t) \/ SetFails(t) PROVE NothingSet'
  <2>1. setter' = [setter EXCEPT ![t] = NotSetting] /\ UNCHANGED <<redis, socket, session, setting>>
    BY <1>3 DEF PublishSetting, SetFails
  <2>2. setter'[t].pc = "idle" /\ \A u \in Setters : u # t => setter'[u] = setter[u]
    BY <2>1 DEF NotSetting
  <2>3. redis = 0 => events' = events
    BY <1>3 DEF PublishSetting, SetFails, NothingSet, Silent
  <2> QED
    BY <2>1, <2>2, <2>3 DEF NothingSet, Silent
<1>4. CASE DeliverSetting
  <2>1. UNCHANGED <<redis, setter, session, setting>> /\ redis # 0
    BY <1>4 DEF DeliverSetting, NothingSet
  <2> QED
    BY <2>1 DEF NothingSet
<1>5. CASE Hello \/ Read \/ Describe
  <2>1. UNCHANGED <<redis, setter, events, setting>>
    BY <1>5 DEF Hello, Read, Describe
  <2>2. redis = 0 => session'.value = 0 /\ socket' = socket
    BY <1>5 DEF Hello, Read, Describe, NothingSet, Filed
  <2> QED
    BY <2>1, <2>2 DEF NothingSet, Silent
<1>6. CASE ShowSetting
  <2>1. UNCHANGED <<redis, setter, events, session>> /\ redis # 0
    BY <1>6 DEF ShowSetting, NothingSet
  <2> QED
    BY <2>1 DEF NothingSet
<1>7. ASSUME NEW forget \in BOOLEAN, Break(forget) PROVE NothingSet'
  <2>1. UNCHANGED <<redis, setter, events>> /\ socket' = << >> /\ session' = None
        /\ (setting' = 0 \/ setting' = setting)
    BY <1>7 DEF Break
  <2> QED
    BY <2>1, NothingAtFirst DEF NothingSet, Silent
<1>8. CASE UNCHANGED settingVars
  BY <1>8 DEF settingVars, NothingSet, Silent
<1> QED
  BY <1>1, <1>2, <1>3, <1>4, <1>5, <1>6, <1>7, <1>8 DEF SettingNext

\* No step gives anything to a client that does not know the conversation.
LEMMA UnknownKept == SettingTypeOK /\ Unknown /\ [SettingNext]_settingVars => Unknown'
<1> SUFFICES ASSUME SettingTypeOK, Unknown, [SettingNext]_settingVars PROVE Unknown'
  OBVIOUS
<1> USE SettingTypeParts
<1>1. ASSUME NEW t \in Setters, BeginSet(t) \/ StoreSetting(t) \/ PublishSetting(t) \/ SetFails(t)
      PROVE  Unknown'
  BY <1>1 DEF BeginSet, StoreSetting, PublishSetting, SetFails, Unknown
<1>2. CASE DeliverSetting
  BY <1>2 DEF DeliverSetting, Unknown
<1>3. CASE Hello \/ Read \/ Describe
  <2>1. known' = TRUE \/ (known' = known /\ session # None)
    BY <1>3 DEF Hello, Read, Describe, None
  <2>2. session' # None /\ setting' = setting
    BY <1>3 DEF Hello, Read, Describe, None, Filed
  <2> QED
    BY <2>1, <2>2 DEF Unknown
<1>4. CASE ShowSetting
  BY <1>4 DEF ShowSetting, Unknown
<1>5. ASSUME NEW forget \in BOOLEAN, Break(forget) PROVE Unknown'
  BY <1>5 DEF Break, Unknown
<1>6. CASE UNCHANGED settingVars
  BY <1>6 DEF settingVars, Unknown
<1> QED
  BY <1>1, <1>2, <1>3, <1>4, <1>5, <1>6 DEF SettingNext

\* No step keeps the stored setting from a client that has missed nothing.
LEMMA OnItsWayKept ==
    SettingTypeOK /\ NothingSet /\ Unknown /\ OnItsWay /\ [SettingNext]_settingVars => OnItsWay'
<1> SUFFICES ASSUME SettingTypeOK, NothingSet, Unknown, OnItsWay, [SettingNext]_settingVars,
                    known', ~missed'
             PROVE  /\ \A t, u \in Busy' : t = u
                    /\ \A t \in Setters : setter'[t].pc = "publish" => setter'[t].value = redis'
                    /\ Silent' => Settled'
  BY DEF OnItsWay
<1> DEFINE Goal == /\ \A t, u \in Busy' : t = u
                   /\ \A t \in Setters : setter'[t].pc = "publish" => setter'[t].value = redis'
                   /\ Silent' => Settled'
<1> USE SettingTypeParts
<1>0. \A t \in Setters : setter[t] \in Wishes(sets)
  OBVIOUS
<1>1. ASSUME NEW t \in Setters, BeginSet(t) PROVE Goal
  <2>1. known /\ ~missed /\ Busy = {}
        /\ setter' = [setter EXCEPT ![t] = [pc |-> "redis", value |-> sets + 1]]
        /\ UNCHANGED <<field, redis, events, session, socket, setting>>
    BY <1>1 DEF BeginSet
  <2>2. Silent /\ Silent' /\ Busy' = {t}
    <3>1. \A u \in Setters : setter[u].pc = "idle"
      BY <2>1 DEF Busy
    <3>2. setter'[t].pc = "redis" /\ \A u \in Setters : u # t => setter'[u] = setter[u]
      BY <2>1
    <3> QED
      BY <3>1, <3>2 DEF Silent, Busy
  <2>3. Settled
    BY <2>1, <2>2 DEF OnItsWay
  <2>4. Settled'
    BY <2>1, <2>3 DEF Settled, Arrived, Shown
  <2> QED
    BY <2>2, <2>4 DEF Silent
<1>2. ASSUME NEW t \in Setters, StoreSetting(t) PROVE Goal
  <2>1. known /\ ~missed /\ setter[t].pc = "redis" /\ redis' = setter[t].value
        /\ setter' = [setter EXCEPT ![t].pc = "publish"]
    BY <1>2 DEF StoreSetting
  <2>2. \A u \in Busy : u = t
    BY <2>1 DEF OnItsWay, Busy
  <2>3. setter'[t].pc = "publish" /\ setter'[t].value = redis'
        /\ \A u \in Setters : u # t => setter'[u] = setter[u]
    BY <1>0, <2>1 DEF Wishes
  <2>4. \A u \in Setters : u # t => setter'[u].pc = "idle"
    BY <2>2, <2>3 DEF Busy
  <2> QED
    BY <2>3, <2>4 DEF Silent, Busy
<1>3. ASSUME NEW t \in Setters, PublishSetting(t) PROVE Goal
  <2>1. known /\ ~missed /\ setter[t].pc = "publish" /\ redis' = redis
        /\ setter' = [setter EXCEPT ![t] = NotSetting] /\ events' = Append(events, setter[t].value)
    BY <1>3 DEF PublishSetting
  <2>2. (\A u \in Busy : u = t) /\ setter[t].value = redis
    BY <2>1 DEF OnItsWay, Busy
  <2>3. \A u \in Setters : setter'[u].pc = "idle"
    BY <2>1, <2>2 DEF Busy, NotSetting
  <2>4. events' # << >> /\ events'[Len(events')] = redis'
    BY <2>1, <2>2, LastOf
  <2> QED
    BY <2>3, <2>4 DEF Busy, Settled
<1>4. ASSUME NEW t \in Setters, SetFails(t) PROVE Goal
  <2>1. known /\ ~missed /\ t \in Busy /\ setter[t].pc # "publish"
        /\ setter' = [setter EXCEPT ![t] = NotSetting]
        /\ UNCHANGED <<field, redis, events, session, socket, setting>>
    BY <1>4 DEF SetFails
  <2>2. \A u \in Busy : u = t
    BY <2>1 DEF OnItsWay
  <2>3. \A u \in Setters : setter'[u].pc = "idle"
    BY <2>1, <2>2 DEF Busy, NotSetting
  <2>4. Silent
    BY <2>1, <2>2 DEF Busy, Silent
  <2>5. Settled
    BY <2>1, <2>4 DEF OnItsWay
  <2>6. Settled'
    BY <2>1, <2>5 DEF Settled, Arrived, Shown
  <2> QED
    BY <2>3, <2>6 DEF Busy
<1>5. CASE DeliverSetting
  <2>1. /\ known /\ ~missed /\ session # None /\ events # << >> /\ events' = Tail(events)
        /\ socket' = Append(socket, Head(events))
        /\ ~(session.state = "read" /\ session.value # Head(events))
        /\ UNCHANGED <<field, redis, setter, session, setting>>
    BY <1>5 DEF DeliverSetting
  <2>2. Busy' = Busy /\ Silent' = Silent
    BY <2>1 DEF Busy, Silent
  <2>3. ASSUME Silent PROVE Settled'
    <3>1. events[Len(events)] = redis
      BY <2>1, <2>3 DEF OnItsWay, Settled
    <3>2. CASE Tail(events) # << >>
      BY <2>1, <3>1, <3>2, LastOf DEF Settled
    <3>3. CASE Tail(events) = << >>
      <4>1. Head(events) = redis /\ Head(events) \in 0..sets
        BY <2>1, <3>1, <3>3, LastOf
      <4>2. socket' # << >> /\ socket'[Len(socket')] = redis'
        BY <2>1, <4>1, LastOf
      <4> QED
        BY <2>1, <3>3, <4>1, <4>2 DEF Settled, Arrived, Shown
    <3> QED
      BY <3>2, <3>3
  <2> QED
    BY <2>1, <2>2, <2>3 DEF OnItsWay
<1>6. CASE Hello
  <2>1. session = None /\ session' = Filed(IF known THEN "through" ELSE "new", 0)
        /\ UNCHANGED <<field, redis, setter, events, socket, setting>>
    BY <1>6 DEF Hello
  <2>2. Busy' = Busy /\ Silent' = Silent
    BY <2>1 DEF Busy, Silent
  <2>3. CASE known
    <3>1. ~missed /\ session'.state = "through" /\ session.state = "none"
      BY <1>6, <2>1, <2>3 DEF Hello, Filed, None
    <3>2. Silent => Settled'
      BY <2>1, <2>3, <3>1 DEF OnItsWay, Settled, Arrived, Shown
    <3> QED
      BY <2>1, <2>2, <2>3, <3>1, <3>2 DEF OnItsWay
  <2>4. CASE ~known
    <3>1. /\ field = "timer" => redis = 0
          /\ ~(Cardinality(Busy) > 1) /\ Coming \ {redis} = {}
      BY <1>6, <2>4 DEF Hello
    <3>2. setting = 0 /\ socket = << >> /\ session'.state = "new"
      BY <2>1, <2>4 DEF Unknown, Filed
    <3>3. \A t \in Setters : setter[t].pc = "publish" => setter[t].value = redis
      BY <3>1 DEF Coming
    <3>4. events # << >> => events[Len(events)] = redis
      <4>1. events # << >> => Len(events) \in DOMAIN events
        OBVIOUS
      <4> QED
        BY <3>1, <4>1 DEF Coming, Range
    <3>5. Settled'
      BY <2>1, <3>1, <3>2, <3>4 DEF Settled, Arrived, Shown
    <3> QED
      BY <2>1, <2>2, <3>1, <3>3, <3>5, AtMostOne
  <2> QED
    BY <2>3, <2>4
<1>7. CASE Read
  <2>1. known /\ ~missed /\ session.state = "new" /\ session' = Filed("read", redis)
        /\ UNCHANGED <<field, redis, setter, events, socket, setting>>
    BY <1>7 DEF Read
  <2>2. Busy' = Busy /\ Silent' = Silent /\ session'.state = "read" /\ session'.value = redis
    BY <2>1 DEF Busy, Silent, Filed
  <2>3. Silent => Settled'
    BY <2>1, <2>2 DEF OnItsWay, Settled, Arrived, Shown
  <2> QED
    BY <2>1, <2>2, <2>3 DEF OnItsWay
<1>8. CASE Describe
  <2>1. known /\ ~missed /\ session.state = "read" /\ session' = Filed("through", 0)
        /\ UNCHANGED <<field, redis, setter, events, setting>>
    BY <1>8 DEF Describe
  <2>2. Busy' = Busy /\ Silent' = Silent /\ session'.state = "through"
    BY <2>1 DEF Busy, Silent, Filed
  <2>3. ASSUME Silent, events = << >> PROVE Shown'
    <3>1. session.value = redis /\ session.value \in 0..sets /\ (field = "timer" => Shown)
      BY <2>1, <2>3 DEF OnItsWay, Settled, Arrived, Sessions
    <3>2. CASE field = "subject" /\ session.value # 0
      <4>1. socket' = Append(socket, session.value)
        BY <1>8, <3>2 DEF Describe
      <4>2. socket' # << >> /\ socket'[Len(socket')] = redis'
        BY <2>1, <3>1, <4>1, LastOf
      <4> QED
        BY <4>2 DEF Shown
    <3>3. CASE ~(field = "subject" /\ session.value # 0)
      <4>1. socket' = socket
        BY <1>8, <3>3 DEF Describe
      <4>2. Shown
        BY <3>1, <3>3 DEF NothingSet, Shown
      <4> QED
        BY <2>1, <4>1, <4>2 DEF Shown
    <3> QED
      BY <3>2, <3>3
  <2>4. Silent => Settled'
    BY <2>1, <2>2, <2>3 DEF OnItsWay, Settled, Arrived
  <2> QED
    BY <2>1, <2>2, <2>4 DEF OnItsWay
<1>9. CASE ShowSetting
  <2>1. known /\ ~missed /\ socket # << >> /\ socket' = Tail(socket) /\ setting' = Head(socket)
        /\ UNCHANGED <<field, redis, setter, events, session>>
    BY <1>9 DEF ShowSetting
  <2>2. Busy' = Busy /\ Silent' = Silent
    BY <2>1 DEF Busy, Silent
  <2>3. Shown => Shown'
    BY <2>1, LastOf DEF Shown
  <2>4. Silent => Settled'
    BY <2>1, <2>3 DEF OnItsWay, Settled, Arrived
  <2> QED
    BY <2>1, <2>2, <2>4 DEF OnItsWay
<1>10. ASSUME NEW forget \in BOOLEAN, Break(forget) PROVE Goal
  <2>1. known /\ ~missed /\ socket = << >> /\ session.state \notin {"new", "read"}
        /\ session' = None /\ socket' = << >>
        /\ UNCHANGED <<field, redis, setter, events, setting>>
    BY <1>10 DEF Break
  <2>2. session.state \in {"none", "through"} /\ session'.state = "none"
    BY <2>1 DEF Sessions, None
  <2>3. Busy' = Busy /\ Silent' = Silent
    BY <2>1 DEF Busy, Silent
  <2>4. Silent => Settled'
    BY <2>1, <2>2 DEF OnItsWay, Settled, Arrived, Shown
  <2> QED
    BY <2>1, <2>3, <2>4 DEF OnItsWay
<1>11. ASSUME UNCHANGED settingVars PROVE Goal
  BY <1>11 DEF settingVars, OnItsWay, Settled, Arrived, Shown, Busy, Silent
<1> QED
  BY <1>1, <1>2, <1>3, <1>4, <1>5, <1>6, <1>7, <1>8, <1>9, <1>10, <1>11 DEF SettingNext

\* A connected client shows the stored setting when nothing is under way: the value a
\* request stored is the last one published, frames stay in order on their way to the
\* socket, and a session that is described to hears the broadcasts before the subject is
\* read for it (lib/subject/storage.js:8-15, gateway.js:143-155).
THEOREM SettingsSettle == SettingSpec => []SettingsAgree
<1>1. SettingInit => NothingSet /\ Unknown /\ OnItsWay
  BY DEF SettingInit, NothingSet, Unknown, OnItsWay, Silent, NotSetting, None
<1>2. SettingTypeOK /\ Unknown /\ OnItsWay => SettingsAgree
  <2> SUFFICES ASSUME SettingTypeOK, Unknown, OnItsWay, Busy = {}, events = << >>,
                      socket = << >>, session.state = "through", ~missed
               PROVE  setting = redis
    BY DEF SettingsAgree
  <2>0. known
    BY SettingTypeParts DEF Unknown, None
  <2>1. Silent
    BY DEF Busy, Silent
  <2> QED
    BY <2>0, <2>1 DEF OnItsWay, Settled, Arrived, Shown
<1> QED
  BY <1>1, <1>2, SettingTypeCorrect, NothingSetKept, UnknownKept, OnItsWayKept, PTL DEF SettingSpec

-----------------------------------------------------------------------------
(***************************************************************************)
(* Numbers and bodies                                                      *)
(***************************************************************************)

\* A set of natural numbers that is not empty has a least one.
LEMMA LeastExists ==
    ASSUME NEW S \in SUBSET Nat, S # {}
    PROVE  \E m \in S : \A k \in S : m <= k
<1> DEFINE R == OpToRel(<, Nat)
<1>1. IsWellFoundedOn(R, Nat)
  BY NatLessThanWellFounded
<1>2. \A x, y \in Nat : <<y, x>> \in R <=> y < x
  BY DEF OpToRel
<1> HIDE DEF R
<1>3. \E x \in S : \A y \in S : ~(<<y, x>> \in R)
  BY <1>1, WFMin
<1>4. \E x \in S : \A y \in S : ~(y < x)
  BY <1>2, <1>3, Zenon
<1> QED
  BY <1>4

\* The elements of two sequences that are joined.
LEMMA Joined ==
    ASSUME NEW S, NEW s \in Seq(S), NEW t \in Seq(S)
    PROVE  /\ s \o t \in Seq(S) /\ Len(s \o t) = Len(s) + Len(t)
           /\ Len(s) \in Nat /\ Len(t) \in Nat
           /\ \A i \in 1..Len(s) : (s \o t)[i] = s[i]
           /\ \A i \in 1..Len(t) : (s \o t)[Len(s) + i] = t[i]
<1>1. s \o t \in Seq(S) /\ Len(s \o t) = Len(s) + Len(t) /\ Len(s) \in Nat /\ Len(t) \in Nat
  OBVIOUS
<1>2. \A i \in 1..Len(s) + Len(t) : (s \o t)[i] = IF i <= Len(s) THEN s[i] ELSE t[i - Len(s)]
  BY <1>1
<1>3. ASSUME NEW i \in 1..Len(t) PROVE (s \o t)[Len(s) + i] = t[i]
  <2>1. Len(s) + i \in 1..Len(s) + Len(t) /\ ~(Len(s) + i <= Len(s)) /\ (Len(s) + i) - Len(s) = i
    BY <1>1
  <2> QED
    BY <1>2, <2>1
<1> QED
  BY <1>1, <1>2, <1>3

\* Where the trailing empty lines of a body begin, there it is cut.
LEMMA CutAt ==
    ASSUME NEW S, NEW b \in Seq(S), NEW n \in 1..Len(b),
           \A i \in n+1..Len(b) : b[i] = EmptyLine, n = 1 \/ b[n] # EmptyLine
    PROVE  TrimmedBody(b) = SubSeq(b, 1, n)
<1> DEFINE Cut(k) == /\ \A i \in k+1..Len(b) : b[i] = EmptyLine
                     /\ k = 1 \/ b[k] # EmptyLine
<1>1. Cut(n)
  OBVIOUS
<1>2. \A k \in 1..Len(b) : Cut(k) => k = n
  <2> SUFFICES ASSUME NEW k \in 1..Len(b), Cut(k), k # n PROVE FALSE
    OBVIOUS
  <2>1. k < n \/ n < k
    OBVIOUS
  <2>2. CASE k < n
    <3>1. n \in k+1..Len(b) /\ n # 1
      BY <2>2
    <3> QED
      BY <3>1
  <2>3. CASE n < k
    <3>1. k \in n+1..Len(b) /\ k # 1
      BY <2>3
    <3> QED
      BY <3>1
  <2> QED
    BY <2>1, <2>2, <2>3
<1> HIDE DEF Cut
<1>3. (CHOOSE k \in 1..Len(b) : Cut(k)) = n
  BY <1>1, <1>2
<1> QED
  BY <1>3 DEF TrimmedBody, Cut

\* A body is cut somewhere.
LEMMA SomewhereCut ==
    ASSUME NEW S, NEW b \in Seq(S), b # <<>>
    PROVE  \E n \in 1..Len(b) : /\ \A i \in n+1..Len(b) : b[i] = EmptyLine
                                /\ n = 1 \/ b[n] # EmptyLine
<1> DEFINE Ends == {n \in 1..Len(b) : \A i \in n+1..Len(b) : b[i] = EmptyLine}
<1>1. Len(b) \in Nat /\ Len(b) > 0
  OBVIOUS
<1>2. Len(b) \in Ends /\ Ends \in SUBSET Nat
  BY <1>1
<1>3. PICK n \in Ends : \A k \in Ends : n <= k
  BY <1>2, LeastExists
<1>4. ASSUME n # 1, b[n] = EmptyLine PROVE FALSE
  <2>1. n - 1 \in 1..Len(b)
    BY <1>3, <1>4
  <2>2. \A i \in (n - 1) + 1..Len(b) : i = n \/ i \in n+1..Len(b)
    BY <1>3
  <2>3. n - 1 \in Ends
    BY <1>3, <1>4, <2>1, <2>2
  <2>4. n \in Nat
    BY <1>1, <1>3
  <2> HIDE DEF Ends
  <2>5. n <= n - 1
    BY <1>3, <2>3
  <2> QED
    BY <2>4, <2>5
<1> QED
  BY <1>3, <1>4

\* What is trimmed is a body without empty lines at its end, and is not trimmed again.
LEMMA TrimmedOnce ==
    ASSUME NEW S, NEW b \in Seq(S), b # <<>>
    PROVE  /\ TrimmedBody(b) \in Seq(S) \ {<<>>}
           /\ \E n \in 1..Len(b) : TrimmedBody(b) = SubSeq(b, 1, n)
           /\ Len(TrimmedBody(b)) \in 1..Len(b)
           /\ \A i \in 1..Len(TrimmedBody(b)) : TrimmedBody(b)[i] = b[i]
           /\ TrimmedBody(TrimmedBody(b)) = TrimmedBody(b)
           /\ EmptyLine \in S => TrimmedBody(Append(b, EmptyLine)) = TrimmedBody(b)
<1>1. PICK n \in 1..Len(b) : /\ \A i \in n+1..Len(b) : b[i] = EmptyLine
                             /\ n = 1 \/ b[n] # EmptyLine
  BY SomewhereCut
<1> DEFINE t == SubSeq(b, 1, n)
<1>2. TrimmedBody(b) = t
  BY <1>1, CutAt
<1>3. Len(b) \in Nat /\ n \in Nat /\ n > 0
  BY <1>1
<1>4. t \in Seq(S) /\ Len(t) = n /\ \A i \in 1..n : t[i] = b[i]
  BY <1>1, <1>3
<1>5. t # <<>>
  BY <1>3, <1>4
<1> HIDE DEF t
<1>6. \A i \in n+1..Len(t) : t[i] = EmptyLine
  BY <1>3, <1>4
<1>7. TrimmedBody(t) = SubSeq(t, 1, n)
  BY <1>1, <1>3, <1>4, <1>6, CutAt
<1>8. SubSeq(t, 1, n) = t
  BY <1>3, <1>4
<1>9. ASSUME EmptyLine \in S PROVE TrimmedBody(Append(b, EmptyLine)) = t
  <2> DEFINE a == Append(b, EmptyLine)
  <2>1. a \in Seq(S) /\ Len(a) = Len(b) + 1 /\ a[Len(b) + 1] = EmptyLine
        /\ \A i \in 1..Len(b) : a[i] = b[i]
    BY <1>3, <1>9
  <2> HIDE DEF a
  <2>2. \A i \in n+1..Len(a) : a[i] = EmptyLine
    BY <1>1, <1>3, <2>1
  <2>3. TrimmedBody(a) = SubSeq(a, 1, n)
    BY <1>1, <1>3, <2>1, <2>2, CutAt
  <2>4. SubSeq(a, 1, n) = SubSeq(b, 1, n)
    BY <1>1, <1>3, <2>1
  <2> QED
    BY <2>3, <2>4 DEF a, t
<1> QED
  BY <1>1, <1>2, <1>3, <1>4, <1>5, <1>7, <1>8, <1>9 DEF t
-----------------------------------------------------------------------------
(***************************************************************************)
(* What is read                                                            *)
(***************************************************************************)

\* Lines of a text: behind a stamp stands something.
FileLines == {l \in Lines : IsHeader(l) => Len(l) > 1}

\* How a body begins tells a notice from a message, and no other line of it is a header.
Begins(system, body) ==
    IF system THEN Len(body[1]) < 2 \/ body[1][2] = Suffix ELSE body[1][1] # Suffix
Continued(body) == \A k \in 2..Len(body) : ~IsHeader(body[k])

\* The media a body may have, the messages that are open and those that are closed, and what
\* the parser has of both.
MediaKinds == {Media(b) : b \in Seq(Lines)}
RawMessages ==
    {r \in [system : BOOLEAN, sender : Words, body : Seq(Lines) \ {<<>>}] :
        Begins(r.system, r.body) /\ Continued(r.body)}
ReadMessages ==
    {r \in [system : BOOLEAN, sender : Words, body : Seq(Lines) \ {<<>>}, media : MediaKinds] :
        /\ Begins(r.system, r.body) /\ Continued(r.body)
        /\ TrimmedBody(r.body) = r.body /\ r.media = Media(r.body)}
Accs == [out : Seq(ReadMessages), cur : Seq(RawMessages)]

\* The recursion of the parser: nothing is read, then one line after the other.
LEMMA ReadingSteps ==
    ASSUME NEW text, Len(text) \in Nat
    PROVE  /\ Reading(text)[0] = [out |-> <<>>, cur |-> <<>>]
           /\ \A n \in 1..Len(text) : Reading(text)[n] = ReadLine(Reading(text)[n - 1], text[n])
<1> DEFINE Step(f, n) == IF n = 0 THEN [out |-> <<>>, cur |-> <<>>] ELSE ReadLine(f[n - 1], text[n])
           Reads(f, k) == f = [n \in 0..k |-> Step(f, n)]
           Missing == {k \in Nat : ~\E f : Reads(f, k)}
<1>1. ASSUME NEW k \in Nat, NEW f, Reads(f, k) PROVE \E g : Reads(g, k + 1)
  <2> DEFINE g == [n \in 0..k+1 |-> IF n = k + 1 THEN Step(f, n) ELSE f[n]]
  <2>1. \A n \in 0..k+1 : g[n] = Step(g, n)
    <3> SUFFICES ASSUME NEW n \in 0..k+1 PROVE g[n] = Step(g, n)
      OBVIOUS
    <3>1. n = k + 1 \/ n \in 0..k
      OBVIOUS
    <3>2. n # 0 => n - 1 \in 0..k /\ n - 1 # k + 1 /\ n - 1 \in 0..k+1
      OBVIOUS
    <3>3. n # 0 => g[n - 1] = f[n - 1]
      BY <3>2
    <3>4. Step(g, n) = Step(f, n)
      BY <3>3
    <3>5. n \in 0..k => f[n] = Step(f, n)
      BY <1>1
    <3>6. n \in 0..k => n # k + 1
      OBVIOUS
    <3> HIDE DEF Step
    <3> QED
      BY <3>1, <3>4, <3>5, <3>6
  <2>2. g = [n \in 0..k+1 |-> g[n]]
    OBVIOUS
  <2> HIDE DEF g, Step
  <2>3. [n \in 0..k+1 |-> g[n]] = [n \in 0..k+1 |-> Step(g, n)]
    BY <2>1
  <2> QED
    BY <2>2, <2>3
<1>2. \E f : Reads(f, 0)
  <2> DEFINE g == [n \in 0..0 |-> [out |-> <<>>, cur |-> <<>>]]
  <2>1. g = [n \in 0..0 |-> Step(g, n)]
    <3>1. \A n \in 0..0 : Step(g, n) = [out |-> <<>>, cur |-> <<>>]
      OBVIOUS
    <3> QED
      BY <3>1
  <2> QED
    BY <2>1
<1>3. Missing = {}
  <2> SUFFICES ASSUME Missing # {} PROVE FALSE
    OBVIOUS
  <2>1. PICK k \in Missing : \A j \in Missing : k <= j
    BY LeastExists
  <2> HIDE DEF Reads
  <2>2. k \in Nat /\ k # 0
    BY <1>2, <2>1
  <2>3. k - 1 \in Nat /\ k - 1 \notin Missing /\ (k - 1) + 1 = k
    BY <2>1, <2>2
  <2>4. PICK f : Reads(f, k - 1)
    BY <2>3
  <2>5. \E g : Reads(g, (k - 1) + 1)
    BY <1>1, <2>3, <2>4
  <2> QED
    BY <2>1, <2>3, <2>5
<1>4. \E f : Reads(f, Len(text))
  <2> HIDE DEF Reads
  <2> QED
    BY <1>3
<1>5. Reading(text) = CHOOSE f : Reads(f, Len(text))
  BY DEF Reading
<1>6. Reads(Reading(text), Len(text))
  <2> HIDE DEF Reads
  <2> QED
    BY <1>4, <1>5
<1> DEFINE r == Reading(text)
<1> HIDE DEF r
<1>7. \A n \in 0..Len(text) : r[n] = Step(r, n)
  <2>1. Reads(r, Len(text))
    BY <1>6 DEF r
  <2> HIDE DEF Step
  <2>2. r = [n \in 0..Len(text) |-> Step(r, n)]
    BY <2>1
  <2> QED
    BY <2>2, Zenon
<1> QED
  BY <1>7 DEF r
\* A body that holds a word closing it, or the phrase of an omitted medium, is a medium.
LEMMA KindsOfMedia ==
    ASSUME NEW body
    PROVE  /\ Media(body) \in {NoMedia, [kind |-> "placeholder"],
                               [kind |-> "file", name |-> WithoutSuffix(body)]}
           /\ Media(body) = NoMedia <=> ~Omitted(body) /\ ~Attached(body)
           /\ Media(body).kind = "none" <=> Media(body) = NoMedia
           /\ Media(body).kind = "placeholder" <=> Omitted(body)
           /\ Media(body).kind = "file" <=> Attached(body) /\ ~Omitted(body)
           /\ Attached(body) /\ ~Omitted(body) => Media(body).name = WithoutSuffix(body)
<1> DEFINE p == [kind |-> "placeholder"]
           f == [kind |-> "file", name |-> WithoutSuffix(body)]
<1>1. Omitted(body) => Media(body) = p
  BY DEF Media
<1>2. ~Omitted(body) /\ Attached(body) => Media(body) = f
  BY DEF Media
<1>3. ~Omitted(body) /\ ~Attached(body) => Media(body) = NoMedia
  BY DEF Media
<1>4. /\ NoMedia.kind = "none" /\ p.kind = "placeholder" /\ f.kind = "file"
      /\ f.name = WithoutSuffix(body)
  BY DEF NoMedia
<1> HIDE DEF p, f
<1>5. Media(body) \in {NoMedia, p, f}
  BY <1>1, <1>2, <1>3
<1>6. /\ Media(body) = NoMedia <=> ~Omitted(body) /\ ~Attached(body)
      /\ Media(body).kind = "none" <=> Media(body) = NoMedia
      /\ Media(body).kind = "placeholder" <=> Omitted(body)
      /\ Media(body).kind = "file" <=> Attached(body) /\ ~Omitted(body)
      /\ Attached(body) /\ ~Omitted(body) => Media(body).name = WithoutSuffix(body)
  BY <1>1, <1>2, <1>3, <1>4
<1> QED
  BY <1>5, <1>6 DEF p, f

\* What is finished of a message that was read is one.
LEMMA FinalizedIsRead ==
    ASSUME NEW r \in RawMessages
    PROVE  Finalized(r) \in ReadMessages
<1> DEFINE t == TrimmedBody(r.body)
<1>1. /\ r.system \in BOOLEAN /\ r.sender \in Words /\ r.body \in Seq(Lines) /\ r.body # <<>>
      /\ Begins(r.system, r.body) /\ Continued(r.body)
  BY DEF RawMessages
<1>2. /\ t \in Seq(Lines) \ {<<>>} /\ Len(t) \in 1..Len(r.body)
      /\ \A i \in 1..Len(t) : t[i] = r.body[i]
      /\ TrimmedBody(t) = t
  BY <1>1, TrimmedOnce
<1> HIDE DEF t
<1>3. Len(t) \in Nat /\ Len(r.body) \in Nat
  BY <1>1, <1>2
<1>4. t[1] = r.body[1] /\ \A k \in 2..Len(t) : k \in 2..Len(r.body) /\ t[k] = r.body[k]
  BY <1>2, <1>3
<1>5. Begins(r.system, t) /\ Continued(t)
  BY <1>1, <1>4 DEF Begins, Continued
<1>6. Media(t) \in MediaKinds
  BY <1>2 DEF MediaKinds
<1>7. Finalized(r) = [system |-> r.system, sender |-> r.sender, body |-> t, media |-> Media(t)]
  BY DEF Finalized, t
<1> QED
  BY <1>1, <1>2, <1>5, <1>6, <1>7 DEF ReadMessages

\* What is closed is a sequence of such messages, one more than before for each that is open.
LEMMA ClosedIsRead ==
    ASSUME NEW acc \in Accs
    PROVE  /\ Closed(acc) \in Seq(ReadMessages)
           /\ Len(Closed(acc)) = Len(acc.out) + Len(acc.cur)
           /\ \A i \in 1..Len(acc.out) : Closed(acc)[i] = acc.out[i]
           /\ \A i \in 1..Len(acc.cur) : Closed(acc)[Len(acc.out) + i] = Finalized(acc.cur[i])
<1>1. acc.out \in Seq(ReadMessages) /\ acc.cur \in Seq(RawMessages)
  BY DEF Accs
<1> DEFINE f == [i \in DOMAIN acc.cur |-> Finalized(acc.cur[i])]
<1>2. DOMAIN acc.cur = 1..Len(acc.cur) /\ Len(acc.cur) \in Nat /\ Len(acc.out) \in Nat
      /\ \A i \in 1..Len(acc.cur) : acc.cur[i] \in RawMessages
  BY <1>1
<1>3. f \in Seq(ReadMessages) /\ Len(f) = Len(acc.cur)
      /\ \A i \in 1..Len(f) : f[i] = Finalized(acc.cur[i])
  BY <1>2, FinalizedIsRead
<1>4. Closed(acc) = acc.out \o f
  BY DEF Closed
<1> HIDE DEF f
<1> DEFINE o == acc.out
<1>5. o \in Seq(ReadMessages) /\ Len(o) = Len(acc.out)
  BY <1>1
<1> HIDE DEF o
<1>6. o \in Seq(ReadMessages) /\ f \in Seq(ReadMessages)
  BY <1>3, <1>5
<1>7. o \o f \in Seq(ReadMessages) /\ Len(o \o f) = Len(o) + Len(f)
  BY <1>6, Joined
<1>8. \A i \in 1..Len(o) : (o \o f)[i] = o[i]
  BY <1>6, Joined
<1>9. \A i \in 1..Len(f) : (o \o f)[Len(o) + i] = f[i]
  BY <1>6, Joined
<1> QED
  BY <1>2, <1>3, <1>4, <1>7, <1>8, <1>9 DEF o

\* What a header opens is a message of one line.
LEMMA OpenedIsRaw ==
    ASSUME NEW line \in FileLines, IsHeader(line)
    PROVE  Opened(Tail(line)) \in RawMessages
<1> DEFINE rest == Tail(line)
<1>1. line \in Seq(Words) /\ Len(line) > 1 /\ Len(line) \in Nat
  BY DEF FileLines, Lines
<1>2. rest \in Seq(Words) /\ Len(rest) = Len(line) - 1
  BY <1>1
<1> HIDE DEF rest
<1>3. rest \in Lines /\ Len(rest) \in Nat
  <2>1. Len(<<>>) = 0
    OBVIOUS
  <2> QED
    BY <1>1, <1>2, <2>1 DEF Lines
<1>4. CASE Len(rest) >= 2 /\ rest[2] # Suffix
  <2> DEFINE t == Tail(rest)
  <2>1. t \in Seq(Words) /\ Len(t) = Len(rest) - 1 /\ t[1] = rest[2] /\ rest[1] \in Words
    BY <1>2, <1>3, <1>4
  <2>2. t \in Lines
    <3>1. Len(<<>>) = 0
      OBVIOUS
    <3> HIDE DEF t
    <3> QED
      BY <1>3, <1>4, <2>1, <3>1 DEF Lines
  <2>3. Opened(rest) = [system |-> FALSE, sender |-> rest[1], body |-> <<t>>]
    BY <1>4 DEF Opened
  <2> HIDE DEF t
  <2>4. <<t>> \in Seq(Lines) \ {<<>>} /\ Len(<<t>>) = 1 /\ <<t>>[1] = t
    BY <2>2
  <2>5. Begins(FALSE, <<t>>) /\ Continued(<<t>>)
    BY <1>4, <2>1, <2>4 DEF Begins, Continued
  <2> DEFINE r == [system |-> FALSE, sender |-> rest[1], body |-> <<t>>]
  <2>6. /\ r \in [system : BOOLEAN, sender : Words, body : Seq(Lines) \ {<<>>}]
        /\ r.system = FALSE /\ r.body = <<t>>
    BY <2>1, <2>4
  <2> HIDE DEF r
  <2>7. r \in RawMessages
    BY <2>5, <2>6 DEF RawMessages
  <2> QED
    BY <2>3, <2>7 DEF r, rest
<1>5. CASE ~(Len(rest) >= 2 /\ rest[2] # Suffix)
  <2>1. Opened(rest) = [system |-> TRUE, sender |-> Nobody, body |-> <<rest>>]
    BY <1>5 DEF Opened
  <2>2. <<rest>> \in Seq(Lines) \ {<<>>} /\ Len(<<rest>>) = 1 /\ <<rest>>[1] = rest
    BY <1>3
  <2>3. Begins(TRUE, <<rest>>) /\ Continued(<<rest>>)
    BY <1>3, <1>5, <2>2 DEF Begins, Continued
  <2> DEFINE r == [system |-> TRUE, sender |-> Nobody, body |-> <<rest>>]
  <2>4. /\ r \in [system : BOOLEAN, sender : Words, body : Seq(Lines) \ {<<>>}]
        /\ r.system = TRUE /\ r.body = <<rest>>
    <3>1. Nobody \in Words
      BY PortabilityAssumption
    <3> QED
      BY <2>2, <3>1
  <2> HIDE DEF r
  <2>5. r \in RawMessages
    BY <2>3, <2>4 DEF RawMessages
  <2> QED
    BY <2>1, <2>5 DEF r, rest
<1> QED
  BY <1>4, <1>5

\* A line more leaves messages that were read.
LEMMA LineRead ==
    ASSUME NEW acc \in Accs, NEW line \in FileLines
    PROVE  ReadLine(acc, line) \in Accs
<1>1. acc.out \in Seq(ReadMessages) /\ acc.cur \in Seq(RawMessages)
      /\ acc = [out |-> acc.out, cur |-> acc.cur]
  BY DEF Accs
<1>2. CASE IsHeader(line)
  <2>1. ReadLine(acc, line) = [out |-> Closed(acc), cur |-> <<Opened(Tail(line))>>]
    BY <1>2 DEF ReadLine
  <2>2. Opened(Tail(line)) \in RawMessages /\ Closed(acc) \in Seq(ReadMessages)
    BY <1>2, OpenedIsRaw, ClosedIsRead
  <2>3. <<Opened(Tail(line))>> \in Seq(RawMessages)
    BY <2>2
  <2> QED
    BY <2>1, <2>2, <2>3 DEF Accs
<1>3. CASE ~IsHeader(line)
  <2> DEFINE c == [i \in DOMAIN acc.cur |-> Longer(acc.cur[i], line)]
  <2>1. ReadLine(acc, line) = [out |-> acc.out, cur |-> c]
    BY <1>1, <1>3 DEF ReadLine
  <2>2. ASSUME NEW r \in RawMessages PROVE Longer(r, line) \in RawMessages
    <3> DEFINE b == Append(r.body, line)
    <3>1. /\ r \in [system : BOOLEAN, sender : Words, body : Seq(Lines) \ {<<>>}]
          /\ Begins(r.system, r.body) /\ Continued(r.body)
      BY DEF RawMessages
    <3>1a. r = [system |-> r.system, sender |-> r.sender, body |-> r.body]
      BY <3>1
    <3>2. line \in Lines
      BY DEF FileLines
    <3>3. /\ r.body \in Seq(Lines) /\ Len(r.body) \in Nat /\ Len(r.body) > 0
      BY <3>1
    <3>4. /\ b \in Seq(Lines) /\ Len(b) = Len(r.body) + 1 /\ b[Len(r.body) + 1] = line
          /\ \A i \in 1..Len(r.body) : b[i] = r.body[i]
      BY <3>2, <3>3
    <3>5. Longer(r, line) = [system |-> r.system, sender |-> r.sender, body |-> b]
      BY <3>1a DEF Longer
    <3> HIDE DEF b
    <3>6. b # <<>>
      BY <3>3, <3>4
    <3>7. b[1] = r.body[1]
      BY <3>3, <3>4
    <3>8. \A k \in 2..Len(b) : b[k] = line \/ (k \in 2..Len(r.body) /\ b[k] = r.body[k])
      BY <3>3, <3>4
    <3>9. Begins(r.system, b) /\ Continued(b)
      BY <1>3, <3>1, <3>7, <3>8 DEF Begins, Continued
    <3> QED
      BY <3>1, <3>4, <3>5, <3>6, <3>9 DEF RawMessages
  <2>3. c \in Seq(RawMessages)
    BY <1>1, <2>2
  <2> HIDE DEF c
  <2> QED
    BY <1>1, <2>1, <2>3 DEF Accs
<1> QED
  BY <1>2, <1>3

\* So it is for every part of a text, and the parser returns messages as they are.
LEMMA TextIsRead ==
    ASSUME NEW text \in Seq(FileLines)
    PROVE  /\ \A n \in 0..Len(text) : Reading(text)[n] \in Accs
           /\ ParseChat(text) \in Seq(ReadMessages)
<1> DEFINE Missing == {n \in 0..Len(text) : Reading(text)[n] \notin Accs}
<1>1. Len(text) \in Nat /\ \A n \in 1..Len(text) : text[n] \in FileLines
  OBVIOUS
<1>2. Reading(text)[0] \in Accs
  <2>1. Reading(text)[0] = [out |-> <<>>, cur |-> <<>>]
    BY <1>1, ReadingSteps
  <2>2. <<>> \in Seq(ReadMessages) /\ <<>> \in Seq(RawMessages)
    OBVIOUS
  <2> QED
    BY <2>1, <2>2 DEF Accs
<1>3. Missing = {}
  <2> SUFFICES ASSUME Missing # {} PROVE FALSE
    OBVIOUS
  <2>0. Missing \in SUBSET Nat
    BY <1>1
  <2>1. PICK n \in Missing : \A k \in Missing : n <= k
    <3> HIDE DEF Missing
    <3> QED
      BY <2>0, LeastExists
  <2>2. n \in Nat /\ n \in 1..Len(text) /\ n - 1 \in 0..Len(text) /\ Reading(text)[n] \notin Accs
    BY <1>1, <1>2, <2>1
  <2>3. n - 1 \notin Missing
    <3> HIDE DEF Missing
    <3> QED
      BY <2>1, <2>2
  <2>4. Reading(text)[n - 1] \in Accs /\ text[n] \in FileLines
    BY <1>1, <2>2, <2>3
  <2>5. Reading(text)[n] = ReadLine(Reading(text)[n - 1], text[n])
    BY <1>1, <2>2, ReadingSteps
  <2> QED
    BY <2>2, <2>4, <2>5, LineRead
<1>4. \A n \in 0..Len(text) : Reading(text)[n] \in Accs
  BY <1>3
<1>5. Closed(Reading(text)[Len(text)]) \in Seq(ReadMessages)
  <2>1. Reading(text)[Len(text)] \in Accs
    BY <1>1, <1>4
  <2> QED
    BY <2>1, ClosedIsRead
<1> QED
  BY <1>4, <1>5 DEF ParseChat
-----------------------------------------------------------------------------
(***************************************************************************)
(* What is written and read back                                           *)
(***************************************************************************)

\* A sequence without its last element, and with that one put back.
LEMMA FrontAndLast ==
    ASSUME NEW S, NEW s \in Seq(S), s # <<>>
    PROVE  /\ Front(s) \in Seq(S) /\ Len(Front(s)) = Len(s) - 1 /\ Last(s) \in S
           /\ Len(s) \in Nat /\ Len(s) > 0
           /\ \A i \in 1..Len(s) - 1 : Front(s)[i] = s[i]
           /\ Append(Front(s), Last(s)) = s
<1>1. Len(s) \in Nat /\ Len(s) > 0 /\ s[Len(s)] \in S
  OBVIOUS
<1>2. Last(s) = s[Len(s)] /\ Front(s) = SubSeq(s, 1, Len(s) - 1)
  BY DEF Last, Front
<1> DEFINE f == Front(s)
<1>3. f \in Seq(S) /\ Len(f) = Len(s) - 1 /\ \A i \in 1..Len(s) - 1 : f[i] = s[i]
  <2> DEFINE n == Len(s) - 1
             g == SubSeq(s, 1, n)
  <2>1. n \in Nat /\ n <= Len(s) /\ f = g
    BY <1>1, <1>2
  <2> HIDE DEF n, f
  <2>2. g \in Seq(S) /\ Len(g) = n /\ \A i \in 1..n : g[i] = s[i]
    BY <1>1, <2>1
  <2> QED
    BY <2>1, <2>2 DEF n
<1> HIDE DEF f
<1>4. Append(f, Last(s)) = s
  <2> DEFINE a == Append(f, Last(s))
  <2>1. /\ a \in Seq(S) /\ Len(a) = Len(s) /\ a[Len(s)] = s[Len(s)]
        /\ \A i \in 1..Len(s) - 1 : a[i] = s[i]
    BY <1>1, <1>2, <1>3
  <2> HIDE DEF a
  <2>2. \A i \in 1..Len(s) : a[i] = s[i]
    BY <1>1, <2>1
  <2> QED
    BY <1>1, <2>1, <2>2, SeqEqual DEF a
<1> QED
  BY <1>1, <1>2, <1>3, <1>4 DEF f

\* A sequence with another last element.
LEMMA LastReplaced ==
    ASSUME NEW S, NEW s \in Seq(S), s # <<>>, NEW x \in S
    PROVE  /\ Append(Front(s), x) \in Seq(S) /\ Len(Append(Front(s), x)) = Len(s)
           /\ Append(Front(s), x)[Len(s)] = x
           /\ \A i \in 1..Len(s) - 1 : Append(Front(s), x)[i] = s[i]
<1> DEFINE f == Front(s)
<1>1. /\ f \in Seq(S) /\ Len(f) = Len(s) - 1 /\ Len(s) \in Nat /\ Len(s) > 0
      /\ \A i \in 1..Len(s) - 1 : f[i] = s[i]
  BY FrontAndLast
<1> HIDE DEF f
<1>2. /\ Append(f, x) \in Seq(S) /\ Len(Append(f, x)) = Len(s) /\ Append(f, x)[Len(s)] = x
      /\ \A i \in 1..Len(s) - 1 : Append(f, x)[i] = s[i]
  BY <1>1
<1> QED
  BY <1>2 DEF f

\* The messages of a conversation as members, the group and imports add them: what stands
\* in one with a medium was read of a text.
MessageRecords ==
    [system : BOOLEAN, senderId : [wa : BOOLEAN, name : Words], body : Seq(Lines) \ {<<>>},
     media : MediaKinds, stored : BOOLEAN, gone : BOOLEAN, origin : Nat]
ReadOf(m) == Begins(m.system, m.body) /\ Continued(m.body) /\ m.media = Media(m.body)
WrittenMessages ==
    {m \in MessageRecords : /\ m.media = NoMedia \/ ReadOf(m)
                            /\ m.origin # 0 => TrimmedBody(m.body) = m.body}

LEMMA WrittenParts ==
    ASSUME NEW m \in WrittenMessages
    PROVE  /\ m.system \in BOOLEAN /\ m.senderId.name \in Words
           /\ m.body \in Seq(Lines) /\ m.body # <<>> /\ m.media \in MediaKinds
           /\ m.media # NoMedia => /\ Begins(m.system, m.body) /\ Continued(m.body)
                                   /\ m.media = Media(m.body)
<1>1. m \in MessageRecords /\ (m.media = NoMedia \/ ReadOf(m))
  BY DEF WrittenMessages
<1>2. /\ m.system \in BOOLEAN /\ m.senderId.name \in Words
      /\ m.body \in Seq(Lines) /\ m.body # <<>> /\ m.media \in MediaKinds
  BY <1>1 DEF MessageRecords
<1> QED
  BY <1>1, <1>2 DEF ReadOf

\* A body without empty lines at its end stays as it is.
LEMMA NothingToTrim ==
    ASSUME NEW S, NEW b \in Seq(S), b # <<>>, Len(b) = 1 \/ b[Len(b)] # EmptyLine
    PROVE  TrimmedBody(b) = b
<1>1. Len(b) \in 1..Len(b) /\ SubSeq(b, 1, Len(b)) = b /\ Len(b) \in Nat
  OBVIOUS
<1>2. \A i \in Len(b)+1..Len(b) : b[i] = EmptyLine
  BY <1>1
<1> QED
  BY <1>1, <1>2, CutAt

\* A line of one word, or a body of one line.
LEMMA OneWord ==
    ASSUME NEW W, NEW w \in W
    PROVE  /\ <<w>> \in Seq(W) /\ <<w>> # <<>> /\ Len(<<w>>) = 1 /\ <<w>>[1] = w
           /\ ToSet(<<w>>) = {w} /\ Last(<<w>>) = w
<1> DEFINE s == <<w>>
<1>1. s \in Seq(W) /\ s # <<>> /\ Len(s) = 1 /\ s[1] = w
  OBVIOUS
<1>2. DOMAIN s = 1..1
  OBVIOUS
<1> HIDE DEF s
<1>3. \A i \in DOMAIN s : i = 1
  BY <1>2
<1>4. 1 \in DOMAIN s
  BY <1>2
<1>5. ToSet(s) = {w}
  BY <1>1, <1>3, <1>4 DEF ToSet
<1>6. Last(s) = w
  BY <1>1 DEF Last
<1> QED
  BY <1>1, <1>5, <1>6 DEF s

\* The empty line does not open a message.
LEMMA EmptyLineIs == EmptyLine \in Lines /\ EmptyLine \in FileLines /\ ~IsHeader(EmptyLine)
<1>1. "" \in Words
  BY PortabilityAssumption
<1> DEFINE w == ""
<1>2. w \in Words /\ w # Stamp
  BY <1>1 DEF Stamp
<1>3. EmptyLine = <<w>>
  BY DEF EmptyLine
<1> HIDE DEF w
<1>4. <<w>> \in Seq(Words) /\ <<w>> # <<>> /\ <<w>>[1] = w
  BY <1>2, OneWord
<1>5. <<w>> \in Lines /\ ~IsHeader(<<w>>)
  BY <1>2, <1>4 DEF Lines, IsHeader
<1> QED
  BY <1>3, <1>5 DEF FileLines

\* In an empty line there is no medium and nothing to trim.
LEMMA EmptyBody ==
    /\ <<EmptyLine>> \in Seq(Lines) \ {<<>>}
    /\ Media(<<EmptyLine>>) = NoMedia
    /\ TrimmedBody(<<EmptyLine>>) = <<EmptyLine>>
    /\ Begins(TRUE, <<EmptyLine>>) /\ Begins(FALSE, <<EmptyLine>>) /\ Continued(<<EmptyLine>>)
<1> DEFINE w == ""
           e == <<w>>
           b == <<e>>
<1>1. w \in Words /\ e \in Lines /\ EmptyLine = e
  BY EmptyLineIs, PortabilityAssumption DEF EmptyLine
<1>2. w \notin Omits /\ w # Suffix
  BY DEF Omits, Marker, Suffix
<1> HIDE DEF w
<1>3. Len(e) = 1 /\ e[1] = w /\ ToSet(e) = {w} /\ Last(e) = w
  BY <1>1, OneWord
<1> HIDE DEF e
<1>4. /\ b \in Seq(Lines) /\ b # <<>> /\ Len(b) = 1 /\ b[1] = e
      /\ ToSet(b) = {e} /\ Last(b) = e
  BY <1>1, OneWord
<1> HIDE DEF b
<1>6. ~Omitted(b)
  BY <1>2, <1>3, <1>4 DEF Omitted
<1>7. ~Attached(b)
  <2>1. Last(Last(b)) # Suffix
    BY <1>2, <1>3, <1>4
  <2>2. \A l \in ToSet(b) : \A i, j \in 1..Len(l) : ~(i < j)
    <3>1. \A i, j \in 1..1 : ~(i < j)
      OBVIOUS
    <3>2. \A l \in ToSet(b) : Len(l) = 1
      BY <1>3, <1>4
    <3> QED
      BY <3>1, <3>2
  <2> QED
    BY <2>1, <2>2 DEF Attached
<1>8. Media(b) = NoMedia
  BY <1>6, <1>7 DEF Media
<1>9. TrimmedBody(b) = b
  BY <1>4, NothingToTrim
<1>10. Begins(TRUE, b) /\ Begins(FALSE, b) /\ Continued(b)
  <2>1. 2..Len(b) = {}
    BY <1>4
  <2>2. Len(b[1]) < 2 /\ b[1][1] # Suffix
    <3>1. b[1] = e
      BY <1>4
    <3>2. b[1][1] = w
      BY <3>1, <1>3
    <3>3. Len(b[1]) = 1
      BY <3>1, <1>3
    <3> QED
      BY <1>2, <3>2, <3>3
  <2>3. Begins(TRUE, b)
    BY <2>2 DEF Begins
  <2>4. Begins(FALSE, b)
    BY <2>2 DEF Begins
  <2> QED
    BY <2>1, <2>3, <2>4 DEF Continued
<1>11. b = <<EmptyLine>>
  BY <1>1 DEF b
<1> QED
  BY <1>4, <1>8, <1>9, <1>10, <1>11

\* An attached file, in the words that are written for it.
LEMMA FileAgain ==
    ASSUME NEW m \in WrittenMessages, m.media.kind = "file"
    PROVE  \E line \in Lines :
             /\ BodyOf(m) = Append(Front(m.body), line)
             /\ Last(line) = Suffix /\ line[1] = Last(m.body)[1]
             /\ Len(line) > 1 => line[2] = Suffix \/ (Len(Last(m.body)) > 1 /\ line[2] = Last(m.body)[2])
             /\ WithoutSuffix(BodyOf(m)) = m.media.name
             /\ ToSet(line) \subseteq ToSet(Last(m.body)) \cup {Suffix}
<1> DEFINE body == m.body
           l == Last(body)
           front == Front(body)
<1>1. body \in Seq(Lines) /\ body # <<>> /\ m.media = Media(body)
  BY WrittenParts DEF NoMedia
<1>2. m.media.name = WithoutSuffix(body)
  BY <1>1, KindsOfMedia
<1>3. BodyOf(m) = Append(Front(m.media.name), Append(Last(m.media.name), Suffix))
  BY DEF BodyOf
<1>4. front \in Seq(Lines) /\ l \in Lines /\ Append(front, l) = body
  <2> HIDE DEF body
  <2> QED
    BY <1>1, FrontAndLast
<1> HIDE DEF body, l, front
<1>5. l \in Seq(Words) /\ l # <<>> /\ Len(l) \in Nat /\ Len(l) > 0 /\ Suffix \in Words
  <2>1. l \in Seq(Words) /\ l # <<>> /\ Suffix \in Words
    BY <1>4, PortabilityAssumption DEF Lines
  <2> QED
    BY <2>1
<1>6. ASSUME NEW n \in Seq(Seq(Words)), NEW x \in Seq(Words), n = Append(front, x)
      PROVE  Front(n) = front /\ Last(n) = x
  <2>1. front \in Seq(Seq(Words))
    BY <1>4 DEF Lines
  <2>2. Len(n) = Len(front) + 1 /\ Len(front) \in Nat /\ n[Len(front) + 1] = x
        /\ \A i \in 1..Len(front) : n[i] = front[i]
    BY <1>6, <2>1
  <2>3. SubSeq(n, 1, Len(front)) = front
    <3>1. SubSeq(n, 1, Len(front)) \in Seq(Seq(Words)) /\ Len(SubSeq(n, 1, Len(front))) = Len(front)
          /\ \A i \in 1..Len(front) : SubSeq(n, 1, Len(front))[i] = front[i]
      BY <2>1, <2>2
    <3> QED
      BY <2>1, <3>1, SeqEqual
  <2> QED
    BY <2>2, <2>3 DEF Front, Last
<1>7. ASSUME Last(l) = Suffix PROVE BodyOf(m) = Append(front, l)
  <2>1. WithoutSuffix(body) = Append(front, Front(l))
    BY <1>7 DEF WithoutSuffix, l, front
  <2>2. Front(l) \in Seq(Words) /\ Append(Front(l), Suffix) = l
    BY <1>5, <1>7, FrontAndLast
  <2>3. Append(front, Front(l)) \in Seq(Seq(Words))
    <3>1. front \in Seq(Seq(Words)) /\ <<Front(l)>> \in Seq(Seq(Words))
      BY <1>4, <2>2 DEF Lines
    <3> QED
      BY <3>1
  <2>4. Front(m.media.name) = front /\ Last(m.media.name) = Front(l)
    BY <1>2, <1>6, <2>1, <2>2, <2>3
  <2> QED
    BY <1>3, <2>2, <2>4
<1>8. ASSUME Last(l) # Suffix PROVE BodyOf(m) = Append(front, Append(l, Suffix))
  <2>1. WithoutSuffix(body) = body
    BY <1>8 DEF WithoutSuffix, l
  <2>2. body \in Seq(Seq(Words))
    BY <1>1 DEF Lines
  <2>3. Front(m.media.name) = front /\ Last(m.media.name) = l
    BY <1>2, <1>4, <1>5, <1>6, <2>1, <2>2
  <2> QED
    BY <1>3, <2>3
<1>9. CASE Last(l) = Suffix
  <2>1. BodyOf(m) = body
    BY <1>4, <1>7, <1>9
  <2> QED
    BY <1>2, <1>4, <1>5, <1>7, <1>9, <2>1 DEF body, l, front
<1>10. CASE Last(l) # Suffix
  <2> DEFINE a == Append(l, Suffix)
  <2>1. /\ a \in Seq(Words) /\ Len(a) = Len(l) + 1 /\ a[Len(l) + 1] = Suffix
        /\ \A i \in 1..Len(l) : a[i] = l[i]
    BY <1>5
  <2> HIDE DEF a
  <2>2. a \in Lines
    <3>1. Len(<<>>) = 0
      OBVIOUS
    <3> QED
      BY <1>5, <2>1, <3>1 DEF Lines
  <2>3. Last(a) = Suffix
    BY <2>1 DEF Last
  <2>4. a[1] = l[1]
    BY <1>5, <2>1
  <2>5. a[2] = Suffix \/ (Len(l) > 1 /\ a[2] = l[2])
    BY <1>5, <2>1
  <2>6. ToSet(a) \subseteq ToSet(l) \cup {Suffix}
    <3>1. DOMAIN a = 1..Len(l) + 1 /\ DOMAIN l = 1..Len(l)
      BY <1>5, <2>1
    <3>2. \A i \in DOMAIN a : i \in DOMAIN l \/ i = Len(l) + 1
      BY <1>5, <3>1
    <3> QED
      BY <2>1, <3>1, <3>2 DEF ToSet
  <2> DEFINE new == Append(front, a)
  <2>7. BodyOf(m) = new
    BY <1>8, <1>10 DEF a
  <2>8. Last(new) = a /\ Front(new) = front
    <3>1. /\ a \in Seq(Words) /\ new \in Seq(Seq(Words))
      BY <1>4, <2>1 DEF Lines
    <3> HIDE DEF new
    <3>2. new = Append(front, a)
      BY DEF new
    <3> QED
      BY <1>6, <3>1, <3>2
  <2>9. Front(a) = l
    <3>1. a \in Seq(Words) /\ a # <<>>
      BY <2>2 DEF Lines
    <3>2. Front(a) \in Seq(Words) /\ Len(Front(a)) = Len(a) - 1
          /\ \A i \in 1..Len(a) - 1 : Front(a)[i] = a[i]
      BY <3>1, FrontAndLast
    <3> QED
      BY <1>5, <2>1, <3>2, SeqEqual
  <2>10. WithoutSuffix(new) = body
    BY <1>4, <2>3, <2>8, <2>9 DEF WithoutSuffix
  <2>11. WithoutSuffix(body) = body
    BY <1>10 DEF WithoutSuffix, l
  <2>12. WithoutSuffix(BodyOf(m)) = m.media.name
    BY <1>2, <2>7, <2>10, <2>11
  <2> QED
    BY <2>2, <2>3, <2>4, <2>5, <2>6, <2>7, <2>12 DEF new, body, l, front
<1> QED
  BY <1>9, <1>10
\* What is written for a message is read back: as a notice or a message of the sender, and
\* as a medium if it is one.
LEMMA BodyAgain ==
    ASSUME NEW m \in WrittenMessages
    PROVE  /\ BodyOf(m) \in Seq(Lines) /\ BodyOf(m) # <<>>
           /\ Begins(m.system, BodyOf(m)) /\ Continued(BodyOf(m))
           /\ TrimmedBody(BodyOf(m)) = BodyOf(m)
           /\ Media(BodyOf(m)) = m.media
<1> DEFINE body == m.body
           b == BodyOf(m)
<1>1. /\ m.system \in BOOLEAN /\ body \in Seq(Lines) /\ body # <<>> /\ Len(body) \in Nat
      /\ Len(body) > 0
      /\ m.media # NoMedia => /\ Begins(m.system, body) /\ Continued(body)
                              /\ m.media = Media(body)
      /\ m.media \in MediaKinds
  BY WrittenParts
<1>2. CASE m.media = NoMedia
  <2>1. b = <<EmptyLine>>
    BY <1>2 DEF BodyOf, NoMedia
  <2>2. Begins(m.system, <<EmptyLine>>)
    BY <1>1, EmptyBody
  <2> QED
    BY <1>2, <2>1, <2>2, EmptyBody
<1>3. CASE m.media.kind = "placeholder"
  <2> DEFINE l == <<Marker>>
             o == <<l>>
  <2>1. b = o /\ m.media # NoMedia
    BY <1>3 DEF BodyOf, NoMedia
  <2>1a. Omitted(body) /\ m.media = [kind |-> "placeholder"]
    <3>1. m.media = Media(body) /\ Media(body).kind = "placeholder"
      BY <1>1, <1>3, <2>1
    <3>2. Omitted(body)
      BY <3>1, KindsOfMedia
    <3> QED
      BY <3>1, <3>2 DEF Media
  <2>2. l \in Seq(Words) /\ Len(l) = 1 /\ l[1] = Marker /\ l # <<>>
    <3>1. Marker \in Words
      BY PortabilityAssumption
    <3> QED
      BY <3>1
  <2>3. Marker \in ToSet(l)
    <3>1. 1 \in DOMAIN l
      BY <2>2
    <3> QED
      BY <2>2, <3>1 DEF ToSet
  <2> HIDE DEF l
  <2>4. o \in Seq(Lines) /\ Len(o) = 1 /\ o[1] = l /\ o # <<>>
    BY <2>2 DEF Lines
  <2>5. l \in ToSet(o)
    <3>1. 1 \in DOMAIN o
      BY <2>4
    <3> QED
      BY <2>4, <3>1 DEF ToSet
  <2> HIDE DEF o
  <2>6. Omitted(o)
    BY <2>3, <2>5 DEF Omitted, Omits
  <2>7. Media(o) = m.media
    BY <2>1a, <2>6 DEF Media
  <2>8. Begins(m.system, o) /\ Continued(o)
    <3>1. Marker # Suffix
      BY DEF Marker, Suffix
    <3>2. o[1][1] = Marker /\ Len(o[1]) = 1
      BY <2>2, <2>4
    <3>3. \A k \in 2..Len(o) : FALSE
      BY <2>4
    <3> QED
      BY <1>1, <3>1, <3>2, <3>3 DEF Begins, Continued
  <2>9. TrimmedBody(o) = o
    BY <2>4, NothingToTrim
  <2> QED
    BY <2>1, <2>4, <2>7, <2>8, <2>9
<1>4. CASE m.media.kind = "file"
  <2>1. PICK line \in Lines :
             /\ b = Append(Front(body), line)
             /\ Last(line) = Suffix /\ line[1] = Last(body)[1]
             /\ Len(line) > 1 => line[2] = Suffix \/ (Len(Last(body)) > 1 /\ line[2] = Last(body)[2])
             /\ WithoutSuffix(b) = m.media.name
             /\ ToSet(line) \subseteq ToSet(Last(body)) \cup {Suffix}
    BY <1>4, FileAgain
  <2>1a. /\ Begins(m.system, body) /\ Continued(body) /\ m.media = Media(body)
    BY <1>1, <1>4 DEF NoMedia
  <2> DEFINE n == Len(body)
  <2> HIDE DEF body, b
  <2>2. /\ b \in Seq(Lines) /\ Len(b) = n /\ b[n] = line
        /\ \A i \in 1..n - 1 : b[i] = body[i]
    <3> DEFINE a == Append(Front(body), line)
    <3>1. body \in Seq(Lines) /\ body # <<>> /\ line \in Lines
      BY <1>1
    <3>2. a \in Seq(Lines) /\ Len(a) = Len(body) /\ a[Len(body)] = line
      BY <3>1, LastReplaced
    <3>3. \A i \in 1..Len(body) - 1 : a[i] = body[i]
      BY <3>1, LastReplaced
    <3>4. b = a
      BY <2>1
    <3> HIDE DEF a
    <3> QED
      BY <3>2, <3>3, <3>4
  <2>3. Last(body) = body[n]
    BY DEF Last
  <2>4. b # <<>> /\ n \in Nat /\ n > 0
    BY <1>1, <2>2
  <2>5. line \in Seq(Words) /\ Len(line) \in Nat /\ Len(line) > 0
    <3>1. line \in Seq(Words) /\ line # <<>>
      BY DEF Lines
    <3> QED
      BY <3>1
  <2>6. line # EmptyLine
    <3>1. ASSUME line = EmptyLine PROVE FALSE
      <4>1. Last(EmptyLine) = ""
        BY DEF Last, EmptyLine
      <4> QED
        BY <2>1, <3>1, <4>1 DEF Suffix
    <3> QED
      BY <3>1
  <2>7. TrimmedBody(b) = b
    BY <2>2, <2>4, <2>6, NothingToTrim
  <2>8. Media(b) = m.media
    <3>1. Last(Last(b)) = Suffix
      BY <2>1, <2>2 DEF Last
    <3>2. Attached(b)
      BY <3>1 DEF Attached
    <3>3. ~Omitted(body) /\ Attached(body)
      <4>1. Media(body).kind = "file"
        BY <1>4, <2>1a
      <4> QED
        BY <4>1, KindsOfMedia
    <3>4. DOMAIN b = 1..n /\ DOMAIN body = 1..n
      BY <1>1, <2>2
    <3>5. ASSUME NEW l \in ToSet(b), NEW w \in ToSet(l) PROVE w \notin Omits
      <4>1. PICK i \in 1..n : l = b[i]
        BY <3>4 DEF ToSet
      <4>2. body[i] \in ToSet(body) /\ Last(body) \in ToSet(body)
        BY <2>3, <2>4, <3>4 DEF ToSet
      <4>3. CASE i = n
        <5>1. w \in ToSet(Last(body)) \/ w = Suffix
          BY <2>1, <2>2, <3>5, <4>1, <4>3
        <5>2. Suffix \notin Omits
          BY DEF Suffix, Omits, Marker
        <5> QED
          BY <3>3, <4>2, <5>1, <5>2 DEF Omitted
      <4>4. CASE i # n
        <5>1. i \in 1..n - 1
          BY <2>4, <4>4
        <5>2. l = body[i]
          BY <2>2, <4>1, <5>1
        <5> QED
          BY <3>3, <3>5, <4>2, <5>2 DEF Omitted
      <4> QED
        BY <4>3, <4>4
    <3>6. ~Omitted(b)
      BY <3>5 DEF Omitted
    <3>7. /\ Media(b) = [kind |-> "file", name |-> WithoutSuffix(b)]
          /\ Media(body) = [kind |-> "file", name |-> WithoutSuffix(body)]
      BY <3>2, <3>3, <3>6 DEF Media
    <3>8. m.media.name = WithoutSuffix(body)
      BY <2>1a, <3>7
    <3> QED
      BY <2>1, <2>1a, <3>7, <3>8
  <2>9. \A i \in 1..n : b[i][1] = body[i][1]
    BY <2>1, <2>2, <2>3, <2>4
  <2>10. Continued(b)
    BY <2>1a, <2>2, <2>4, <2>9 DEF Continued, IsHeader
  <2>11. Begins(m.system, b)
    <3>1. CASE ~m.system
      BY <2>1a, <2>4, <2>9, <3>1 DEF Begins
    <3>2. CASE m.system
      <4>1. CASE n = 1
        <5>1. b[1] = line /\ (Len(body[1]) < 2 \/ body[1][2] = Suffix)
          BY <2>1a, <2>2, <3>2, <4>1 DEF Begins
        <5>2. body[1] \in Seq(Words) /\ Len(body[1]) \in Nat
          BY <1>1, <2>4 DEF Lines
        <5>3. Len(line) < 2 \/ line[2] = Suffix
          BY <2>1, <2>3, <2>5, <4>1, <5>1, <5>2
        <5> QED
          BY <3>2, <5>1, <5>3 DEF Begins
      <4>2. CASE n # 1
        <5>1. b[1] = body[1]
          BY <2>2, <2>4, <4>2
        <5> QED
          BY <2>1a, <5>1 DEF Begins
      <4> QED
        BY <4>1, <4>2
    <3> QED
      BY <1>1, <3>1, <3>2
  <2> QED
    BY <2>2, <2>4, <2>7, <2>8, <2>10, <2>11 DEF b
<1>5. m.media = NoMedia \/ m.media.kind = "placeholder" \/ m.media.kind = "file"
  <2>1. m.media # NoMedia => m.media = Media(body)
    BY <1>1
  <2> QED
    BY <2>1, KindsOfMedia
<1> QED
  BY <1>2, <1>3, <1>4, <1>5

\* A sequence with an element put before it.
LEMMA HeadPut ==
    ASSUME NEW S, NEW t \in Seq(S), NEW x \in S
    PROVE  /\ <<x>> \o t \in Seq(S) /\ Len(<<x>> \o t) = Len(t) + 1 /\ Len(t) \in Nat
           /\ (<<x>> \o t)[1] = x /\ \A i \in 1..Len(t) : (<<x>> \o t)[i + 1] = t[i]
           /\ Tail(<<x>> \o t) = t
<1> DEFINE o == <<x>>
           a == o \o t
<1>1. o \in Seq(S) /\ Len(o) = 1 /\ o[1] = x
  OBVIOUS
<1> HIDE DEF o
<1>2. o \in Seq(S)
  BY <1>1
<1>3. o \o t \in Seq(S) /\ Len(o \o t) = Len(o) + Len(t) /\ Len(t) \in Nat
  BY <1>2, Joined
<1>4. \A i \in 1..Len(o) : (o \o t)[i] = o[i]
  BY <1>2, Joined
<1>5. \A i \in 1..Len(t) : (o \o t)[Len(o) + i] = t[i]
  BY <1>2, Joined
<1> HIDE DEF a
<1>6. /\ a \in Seq(S) /\ Len(a) = Len(t) + 1
      /\ a[1] = x /\ \A i \in 1..Len(t) : a[i + 1] = t[i]
  BY <1>1, <1>3, <1>4, <1>5 DEF a
<1> DEFINE r == Tail(a)
<1>7. r \in Seq(S) /\ Len(r) = Len(t) /\ \A i \in 1..Len(t) : r[i] = a[i + 1]
  BY <1>3, <1>6
<1> HIDE DEF r
<1>8. r = t
  BY <1>3, <1>6, <1>7, SeqEqual
<1> QED
  BY <1>3, <1>6, <1>8 DEF r, a, o

\* The head of a sequence put back.
LEMMA HeadAndTail ==
    ASSUME NEW S, NEW s \in Seq(S), s # <<>>
    PROVE  /\ Head(s) = s[1] /\ Head(s) \in S /\ Tail(s) \in Seq(S) /\ Len(Tail(s)) = Len(s) - 1
           /\ <<Head(s)>> \o Tail(s) = s
           /\ Len(s) \in Nat /\ Len(s) > 0
<1>1. Len(s) \in Nat /\ Len(s) > 0 /\ Head(s) = s[1] /\ Head(s) \in S
      /\ Tail(s) \in Seq(S) /\ Len(Tail(s)) = Len(s) - 1
      /\ \A i \in 1..Len(s) - 1 : Tail(s)[i] = s[i + 1]
  OBVIOUS
<1> DEFINE a == <<Head(s)>> \o Tail(s)
<1>2. /\ a \in Seq(S) /\ Len(a) = Len(Tail(s)) + 1 /\ a[1] = Head(s)
      /\ \A i \in 1..Len(Tail(s)) : a[i + 1] = Tail(s)[i]
  BY <1>1, HeadPut
<1> HIDE DEF a
<1>3. \A i \in 1..Len(s) : i = 1 \/ (i - 1 \in 1..Len(s) - 1 /\ (i - 1) + 1 = i)
  BY <1>1
<1>4. \A i \in 1..Len(s) : a[i] = s[i]
  BY <1>1, <1>2, <1>3
<1>5. a = s
  BY <1>1, <1>2, <1>4, SeqEqual
<1> QED
  BY <1>1, <1>5 DEF a

\* What the lines of a message open when they are read.
RawOf(lines) ==
    LET o == Opened(Tail(lines[1]))
    IN  [system |-> o.system, sender |-> o.sender, body |-> o.body \o Tail(lines)]

\* The lines of a message: one header and what continues it, and what is read of them is
\* the message.
LEMMA LinesAgain ==
    ASSUME NEW m \in WrittenMessages
    PROVE  /\ LinesOf(m) \in Seq(FileLines) /\ LinesOf(m) # <<>>
           /\ IsHeader(LinesOf(m)[1]) /\ \A k \in 2..Len(LinesOf(m)) : ~IsHeader(LinesOf(m)[k])
           /\ SameMessage(Finalized(RawOf(LinesOf(m))), m)
<1> DEFINE b == BodyOf(m)
           h == Heading(m)
           head == h \o Head(b)
           ls == <<head>> \o Tail(b)
           o == Opened(Tail(head))
<1>1. /\ m.system \in BOOLEAN /\ m.senderId.name \in Words /\ Stamp \in Words
      /\ b \in Seq(Lines) /\ b # <<>> /\ Begins(m.system, b) /\ Continued(b)
      /\ TrimmedBody(b) = b /\ Media(b) = m.media
  BY WrittenParts, BodyAgain, PortabilityAssumption
<1>2. LinesOf(m) = ls
  BY DEF LinesOf
<1> HIDE DEF b
<1>3. /\ Head(b) = b[1] /\ Head(b) \in Lines /\ Tail(b) \in Seq(Lines) /\ Len(b) \in Nat
      /\ Len(b) > 0
      /\ Len(Tail(b)) = Len(b) - 1 /\ <<Head(b)>> \o Tail(b) = b
  BY <1>1, HeadAndTail
<1>4. /\ b[1] \in Seq(Words) /\ b[1] # <<>> /\ Len(b[1]) \in Nat /\ Len(b[1]) > 0
  <2>1. b[1] \in Seq(Words) /\ b[1] # <<>>
    BY <1>3 DEF Lines
  <2> QED
    BY <2>1
<1>5. ASSUME m.system
      PROVE  /\ head \in Seq(Words) /\ Len(head) > 1 /\ head[1] = Stamp
             /\ o.system = TRUE /\ o.body = <<b[1]>>
  <2>1. head = <<Stamp>> \o b[1]
    BY <1>3, <1>5 DEF Heading
  <2> HIDE DEF head
  <2>2. head \in Seq(Words) /\ Len(head) = Len(b[1]) + 1 /\ head[1] = Stamp /\ Tail(head) = b[1]
    BY <1>1, <1>4, <2>1, HeadPut
  <2>3. ~(Len(b[1]) >= 2 /\ b[1][2] # Suffix)
    BY <1>1, <1>4, <1>5 DEF Begins
  <2>4. o = [system |-> TRUE, sender |-> Nobody, body |-> <<b[1]>>]
    BY <2>2, <2>3 DEF Opened
  <2> QED
    BY <1>4, <2>2, <2>4
<1>6. ASSUME ~m.system
      PROVE  /\ head \in Seq(Words) /\ Len(head) > 1 /\ head[1] = Stamp
             /\ o.system = FALSE /\ o.sender = m.senderId.name /\ o.body = <<b[1]>>
  <2> DEFINE name == m.senderId.name
             rest == <<name>> \o b[1]
  <2>1. /\ rest \in Seq(Words) /\ Len(rest) = Len(b[1]) + 1 /\ rest[1] = name /\ Tail(rest) = b[1]
        /\ \A i \in 1..Len(b[1]) : rest[i + 1] = b[1][i]
    BY <1>1, <1>4, HeadPut
  <2>2. rest[2] = b[1][1]
    <3> HIDE DEF rest
    <3>1. rest[1 + 1] = b[1][1]
      BY <1>4, <2>1
    <3> QED
      BY <3>1
  <2>3. head = <<Stamp>> \o rest
    <3>1. h = <<Stamp, name>>
      BY <1>6 DEF Heading
    <3>2. <<Stamp, name>> = <<Stamp>> \o <<name>>
      OBVIOUS
    <3>3. (<<Stamp>> \o <<name>>) \o b[1] = <<Stamp>> \o (<<name>> \o b[1])
      <4>1. <<Stamp>> \in Seq(Words) /\ <<name>> \in Seq(Words)
        BY <1>1
      <4> QED
        BY <1>4, <4>1, ConcatAssociative
    <3> QED
      BY <1>3, <3>1, <3>2, <3>3
  <2> HIDE DEF rest, head
  <2>4. rest # <<>> /\ Len(rest) \in Nat
    BY <1>4, <2>1
  <2>5. head \in Seq(Words) /\ Len(head) = Len(rest) + 1 /\ head[1] = Stamp /\ Tail(head) = rest
    BY <1>1, <2>1, <2>3, <2>4, HeadPut
  <2>6. Len(rest) >= 2 /\ rest[2] # Suffix
    BY <1>1, <1>4, <1>6, <2>1, <2>2 DEF Begins
  <2>7. o = [system |-> FALSE, sender |-> rest[1], body |-> <<Tail(rest)>>]
    BY <2>5, <2>6 DEF Opened
  <2> HIDE DEF o
  <2>8. o = [system |-> FALSE, sender |-> name, body |-> <<b[1]>>]
    BY <2>1, <2>7
  <2> HIDE DEF name
  <2>9. o.system = FALSE /\ o.sender = name /\ o.body = <<b[1]>>
    BY <2>8
  <2>10. Len(head) > 1
    BY <1>4, <2>1, <2>5
  <2> QED
    BY <2>5, <2>9, <2>10 DEF name
<1>7. /\ head \in Seq(Words) /\ Len(head) > 1 /\ head[1] = Stamp /\ o.body = <<Head(b)>>
      /\ o.system = m.system
  BY <1>1, <1>3, <1>5, <1>6
<1>8. head \in FileLines /\ IsHeader(head)
  <2> HIDE DEF head
  <2>1. head # <<>>
    <3>1. Len(<<>>) = 0
      OBVIOUS
    <3> QED
      BY <1>7, <3>1
  <2> QED
    BY <1>7, <2>1 DEF FileLines, Lines, IsHeader
<1> HIDE DEF head, o
<1>9. ASSUME NEW k \in 1..Len(Tail(b))
      PROVE  Tail(b)[k] \in FileLines /\ ~IsHeader(Tail(b)[k])
  <2>1. Tail(b)[k] = b[k + 1] /\ k + 1 \in 2..Len(b)
    BY <1>1, <1>3
  <2>2. b[k + 1] \in Lines /\ ~IsHeader(b[k + 1])
    BY <1>1, <1>3, <2>1 DEF Continued
  <2> QED
    BY <2>1, <2>2 DEF FileLines
<1> DEFINE t == Tail(b)
<1> HIDE DEF t
<1>10. t \in Seq(FileLines)
  <2>1. t \in Seq(Lines)
    BY <1>3 DEF t
  <2>2. \A k \in 1..Len(t) : t[k] \in FileLines
    BY <1>9 DEF t
  <2>3. Len(t) \in Nat /\ t = [k \in 1..Len(t) |-> t[k]]
    BY <2>1
  <2> QED
    BY <2>2, <2>3
<1>11. /\ <<head>> \o t \in Seq(FileLines) /\ Len(<<head>> \o t) = Len(t) + 1 /\ Len(t) \in Nat
       /\ (<<head>> \o t)[1] = head /\ \A i \in 1..Len(t) : (<<head>> \o t)[i + 1] = t[i]
       /\ Tail(<<head>> \o t) = t
  BY <1>8, <1>10, HeadPut
<1>12. ls \in Seq(FileLines) /\ ls[1] = head /\ Tail(ls) = Tail(b) /\ Len(ls) = Len(Tail(b)) + 1
       /\ \A i \in 1..Len(Tail(b)) : ls[i + 1] = Tail(b)[i]
  BY <1>11 DEF t
<1> HIDE DEF ls
<1>13. ls # <<>>
  <2>1. Len(<<>>) = 0
    OBVIOUS
  <2> QED
    BY <1>3, <1>12, <2>1
<1>14. \A k \in 2..Len(ls) : ~IsHeader(ls[k])
  <2> SUFFICES ASSUME NEW k \in 2..Len(ls) PROVE ~IsHeader(ls[k])
    OBVIOUS
  <2>1. k - 1 \in 1..Len(Tail(b)) /\ (k - 1) + 1 = k
    BY <1>3, <1>12
  <2> QED
    BY <1>9, <1>12, <2>1
<1>15. RawOf(ls) = [system |-> m.system, sender |-> o.sender, body |-> b]
  <2>1. o = Opened(Tail(ls[1]))
    BY <1>12 DEF o
  <2>2. o.body \o Tail(ls) = b
    BY <1>3, <1>7, <1>12
  <2> QED
    BY <1>7, <2>1, <2>2 DEF RawOf
<1>16. Finalized(RawOf(ls))
         = [system |-> m.system, sender |-> o.sender, body |-> b, media |-> Media(b)]
  BY <1>1, <1>15 DEF Finalized
<1>17. SameMessage(Finalized(RawOf(ls)), m)
  <2>1. ~m.system => o.sender = m.senderId.name
    BY <1>6 DEF o, head
  <2> QED
    BY <1>1, <1>16, <2>1 DEF SameMessage
<1> QED
  BY <1>2, <1>8, <1>12, <1>13, <1>14, <1>17
\* A part of a sequence, with its last element appended.
LEMMA Grown ==
    ASSUME NEW S, NEW s \in Seq(S), NEW k \in 2..Len(s)
    PROVE  SubSeq(s, 2, k) = Append(SubSeq(s, 2, k - 1), s[k])
<1>1. k \in Nat /\ k >= 2 /\ k <= Len(s) /\ Len(s) \in Nat
  OBVIOUS
<1>2. \A i \in 2..k : s[i] \in S
  BY <1>1
<1> DEFINE a == SubSeq(s, 2, k)
           b == SubSeq(s, 2, k - 1)
<1>3. a \in Seq(S) /\ Len(a) = k - 1 /\ \A i \in 1..k - 1 : a[i] = s[i + 1]
  <2>1. /\ a \in Seq(S) /\ Len(a) = (IF 2 <= k THEN k - 2 + 1 ELSE 0)
        /\ \A i \in 1..k - 2 + 1 : a[i] = s[2 + i - 1]
    BY <1>1, <1>2, SubSeqProperties
  <2> HIDE DEF a
  <2> QED
    BY <1>1, <2>1
<1>4. b \in Seq(S) /\ Len(b) = k - 2 /\ \A i \in 1..k - 2 : b[i] = s[i + 1]
  <2>0. k - 1 \in Int /\ \A i \in 2..k - 1 : s[i] \in S
    BY <1>1, <1>2
  <2>1. /\ b \in Seq(S) /\ Len(b) = (IF 2 <= k - 1 THEN (k - 1) - 2 + 1 ELSE 0)
        /\ \A i \in 1..(k - 1) - 2 + 1 : b[i] = s[2 + i - 1]
    BY <2>0, SubSeqProperties
  <2> HIDE DEF b
  <2> QED
    BY <1>1, <2>1
<1> HIDE DEF a, b
<1> DEFINE c == Append(b, s[k])
<1>5. c \in Seq(S) /\ Len(c) = k - 1 /\ c[k - 1] = s[k] /\ \A i \in 1..k - 2 : c[i] = s[i + 1]
  BY <1>1, <1>2, <1>4
<1> HIDE DEF c
<1>6. \A i \in 1..k - 1 : a[i] = c[i]
  <2> SUFFICES ASSUME NEW i \in 1..k - 1 PROVE a[i] = c[i]
    OBVIOUS
  <2>1. i \in 1..k - 2 \/ (i = k - 1 /\ i + 1 = k)
    BY <1>1
  <2> QED
    BY <1>1, <1>3, <1>5, <2>1
<1>7. a = c
  BY <1>1, <1>3, <1>5, <1>6, SeqEqual
<1> QED
  BY <1>7 DEF a, b, c

\* A last element can be appended before or after joining.
LEMMA AppendedLast ==
    ASSUME NEW s \in Seq(Lines), NEW t \in Seq(Lines), NEW x \in Lines
    PROVE  Append(s \o t, x) = s \o Append(t, x)
<1>1. Append(s \o t, x) = (s \o t) \o <<x>> /\ Append(t, x) = t \o <<x>>
  OBVIOUS
<1>2. <<x>> \in Seq(Lines)
  OBVIOUS
<1>3. (s \o t) \o <<x>> = s \o (t \o <<x>>)
  BY <1>2, ConcatAssociative
<1> QED
  BY <1>1, <1>3

\* A message that is continued by a line.
LEMMA LongerBody ==
    ASSUME NEW a, NEW b, NEW c, NEW l
    PROVE  Longer([system |-> a, sender |-> b, body |-> c], l)
             = [system |-> a, sender |-> b, body |-> Append(c, l)]
BY DEF Longer

\* What is read of the lines of one message that stand in a text.
LEMMA BlockRead ==
    ASSUME NEW text \in Seq(FileLines), NEW ls \in Seq(FileLines), ls # <<>>,
           NEW p \in Nat, p + Len(ls) <= Len(text), \A k \in 1..Len(ls) : text[p + k] = ls[k],
           IsHeader(ls[1]), \A k \in 2..Len(ls) : ~IsHeader(ls[k])
    PROVE  Reading(text)[p + Len(ls)] = [out |-> Closed(Reading(text)[p]), cur |-> <<RawOf(ls)>>]
<1> DEFINE R(k) == Reading(text)[p + k]
           o == Opened(Tail(ls[1]))
           body(k) == o.body \o SubSeq(ls, 2, k)
           raw(k) == [system |-> o.system, sender |-> o.sender, body |-> body(k)]
           out == Closed(Reading(text)[p])
           Good(k) == R(k) = [out |-> out, cur |-> <<raw(k)>>]
           Bad == {k \in 1..Len(ls) : ~Good(k)}
<1>1. /\ Len(ls) \in Nat /\ Len(ls) > 0 /\ Len(text) \in Nat
      /\ ls[1] \in FileLines
  OBVIOUS
<1>2. \A k \in 1..Len(ls) : Reading(text)[p + k] = ReadLine(Reading(text)[(p + k) - 1], ls[k])
  <2> SUFFICES ASSUME NEW k \in 1..Len(ls)
               PROVE  Reading(text)[p + k] = ReadLine(Reading(text)[(p + k) - 1], ls[k])
    OBVIOUS
  <2>1. p + k \in 1..Len(text)
    BY <1>1
  <2> QED
    BY <1>1, <2>1, ReadingSteps
<1>3. o \in RawMessages
  BY <1>1, OpenedIsRaw
<1>4. o.body \in Seq(Lines) /\ o = [system |-> o.system, sender |-> o.sender, body |-> o.body]
  <2> HIDE DEF o
  <2> QED
    BY <1>3 DEF RawMessages
<1> HIDE DEF o
<1>5. Good(1)
  <2>1. Reading(text)[p + 1] = ReadLine(Reading(text)[p], ls[1])
    <3>1. 1 \in 1..Len(ls) /\ (p + 1) - 1 = p
      BY <1>1
    <3> QED
      BY <1>2, <3>1
  <2>2. ReadLine(Reading(text)[p], ls[1]) = [out |-> out, cur |-> <<o>>]
    BY DEF ReadLine, o
  <2>3. SubSeq(ls, 2, 1) = <<>>
    BY SubSeqEmpty
  <2>4. body(1) = o.body
    BY <1>4, <2>3
  <2> HIDE DEF out
  <2> QED
    BY <1>4, <2>1, <2>2, <2>4
<1>6. ASSUME NEW k \in 1..Len(ls), k > 1, Good(k - 1) PROVE Good(k)
  <2>1. R(k) = ReadLine(R(k - 1), ls[k])
    <3>1. (p + k) - 1 = p + (k - 1)
      OBVIOUS
    <3> QED
      BY <1>2, <3>1
  <2>2. ~IsHeader(ls[k])
    BY <1>1, <1>6
  <2> DEFINE acc == R(k - 1)
             prev == raw(k - 1)
  <2>3. acc.out = out /\ acc.cur = <<prev>>
    <3>1. acc = [out |-> out, cur |-> <<prev>>]
      BY <1>6
    <3> HIDE DEF out, acc, prev
    <3> QED
      BY <3>1
  <2> HIDE DEF acc
  <2>4. ReadLine(acc, ls[k])
          = [out |-> acc.out, cur |-> [i \in DOMAIN acc.cur |-> Longer(acc.cur[i], ls[k])]]
    BY <2>2 DEF ReadLine
  <2>5. Longer(prev, ls[k])
          = [system |-> o.system, sender |-> o.sender, body |-> Append(body(k - 1), ls[k])]
    <3> HIDE DEF body
    <3> QED
      BY LongerBody
  <2>6. Append(body(k - 1), ls[k]) = body(k)
    <3>1. SubSeq(ls, 2, k) = Append(SubSeq(ls, 2, k - 1), ls[k])
      BY <1>1, <1>6, Grown
    <3>2. SubSeq(ls, 2, k - 1) \in Seq(Lines) /\ ls[k] \in Lines
      <4>1. \A i \in 2..k - 1 : ls[i] \in Lines
        BY <1>1 DEF FileLines
      <4> QED
        BY <1>1, <4>1, SubSeqProperties DEF FileLines
    <3> DEFINE t == SubSeq(ls, 2, k - 1)
    <3>3. body(k - 1) = o.body \o t /\ body(k) = o.body \o Append(t, ls[k])
      BY <3>1
    <3> HIDE DEF t, body
    <3>4. Append(o.body \o t, ls[k]) = o.body \o Append(t, ls[k])
      <4> DEFINE ob == o.body
                 end == ls[k]
      <4>1. t \in Seq(Lines) /\ end \in Lines /\ ob \in Seq(Lines)
        BY <1>4, <3>2 DEF t
      <4> HIDE DEF ob, end
      <4>2. Append(ob \o t, end) = ob \o Append(t, end)
        BY <4>1, AppendedLast
      <4> QED
        BY <4>2 DEF ob, end
    <3> QED
      BY <3>3, <3>4
  <2>7. Longer(prev, ls[k]) = raw(k)
    BY <2>5, <2>6
  <2> HIDE DEF prev, raw
  <2>8. [i \in DOMAIN <<prev>> |-> Longer(<<prev>>[i], ls[k])] = <<raw(k)>>
    BY <2>7
  <2> HIDE DEF out
  <2> QED
    BY <2>1, <2>3, <2>4, <2>8 DEF acc
<1>7. Bad = {}
  <2> HIDE DEF Good
  <2> SUFFICES ASSUME Bad # {} PROVE FALSE
    OBVIOUS
  <2>1. PICK k \in Bad : \A j \in Bad : k <= j
    <3>1. Bad \in SUBSET Nat
      BY <1>1
    <3> HIDE DEF Bad
    <3> QED
      BY <3>1, LeastExists
  <2>2. k \in 1..Len(ls) /\ ~Good(k) /\ k \in Nat /\ k # 1
    BY <1>1, <1>5, <2>1
  <2>3. k - 1 \notin Bad
    <3> HIDE DEF Bad
    <3> QED
      BY <2>1, <2>2
  <2>4. Good(k - 1)
    BY <1>1, <2>2, <2>3
  <2> QED
    BY <1>6, <2>2, <2>4
<1>8. Good(Len(ls))
  <2> HIDE DEF Good
  <2> QED
    BY <1>1, <1>7
<1>9. Tail(ls) = SubSeq(ls, 2, Len(ls))
  BY TailIsSubSeq
<1>10. RawOf(ls) = raw(Len(ls))
  BY <1>9 DEF RawOf, o
<1> QED
  BY <1>8, <1>10
\* The recursion of the writer: the lines of a listed message behind those of the ones before.
LEMMA ListingSteps ==
    ASSUME NEW ms, Len(ms) \in Nat
    PROVE  /\ Listing(ms)[0] = <<>>
           /\ \A n \in 1..Len(ms) :
                Listing(ms)[n] = IF Listed(ms[n]) THEN Listing(ms)[n - 1] \o LinesOf(ms[n])
                                 ELSE Listing(ms)[n - 1]
<1> DEFINE Step(f, n) == CASE n = 0 -> <<>>
                           [] n > 0 /\ Listed(ms[n]) -> f[n - 1] \o LinesOf(ms[n])
                           [] OTHER -> f[n - 1]
           Lists(f, k) == f = [n \in 0..k |-> Step(f, n)]
           Missing == {k \in Nat : ~\E f : Lists(f, k)}
<1>0. ASSUME NEW f, NEW n \in Nat
      PROVE  Step(f, n) = IF n = 0 THEN <<>>
                          ELSE IF Listed(ms[n]) THEN f[n - 1] \o LinesOf(ms[n]) ELSE f[n - 1]
  <2>1. n = 0 \/ n > 0
    OBVIOUS
  <2>2. ~(0 > 0)
    OBVIOUS
  <2> QED
    BY <2>1, <2>2
<1>1. ASSUME NEW k \in Nat, NEW f, Lists(f, k) PROVE \E g : Lists(g, k + 1)
  <2> DEFINE g == [n \in 0..k+1 |-> IF n = k + 1 THEN Step(f, n) ELSE f[n]]
  <2>1. \A n \in 0..k+1 : g[n] = Step(g, n)
    <3> SUFFICES ASSUME NEW n \in 0..k+1 PROVE g[n] = Step(g, n)
      OBVIOUS
    <3>1. n = k + 1 \/ n \in 0..k
      OBVIOUS
    <3>2. n # 0 => n - 1 \in 0..k /\ n - 1 # k + 1 /\ n - 1 \in 0..k+1
      OBVIOUS
    <3>3. n # 0 => g[n - 1] = f[n - 1]
      BY <3>2
    <3>4. Step(g, n) = Step(f, n)
      <4>1. n \in Nat
        OBVIOUS
      <4> HIDE DEF Step, g
      <4> QED
        BY <1>0, <3>3, <4>1
    <3>5. n \in 0..k => f[n] = Step(f, n)
      BY <1>1
    <3>6. n \in 0..k => n # k + 1
      OBVIOUS
    <3> HIDE DEF Step
    <3> QED
      BY <3>1, <3>4, <3>5, <3>6
  <2>2. g = [n \in 0..k+1 |-> g[n]]
    OBVIOUS
  <2> HIDE DEF g, Step
  <2>3. [n \in 0..k+1 |-> g[n]] = [n \in 0..k+1 |-> Step(g, n)]
    BY <2>1
  <2> QED
    BY <2>2, <2>3
<1>2. \E f : Lists(f, 0)
  <2> DEFINE g == [n \in 0..0 |-> <<>>]
  <2>1. \A n \in 0..0 : Step(g, n) = <<>>
    OBVIOUS
  <2> HIDE DEF Step
  <2>2. g = [n \in 0..0 |-> Step(g, n)]
    BY <2>1
  <2> QED
    BY <2>2
<1> HIDE DEF Lists
<1>3. Missing = {}
  <2> SUFFICES ASSUME Missing # {} PROVE FALSE
    OBVIOUS
  <2>1. PICK k \in Missing : \A j \in Missing : k <= j
    BY LeastExists
  <2>2. k \in Nat /\ k # 0
    BY <1>2, <2>1
  <2>3. k - 1 \in Nat /\ k - 1 \notin Missing /\ (k - 1) + 1 = k
    BY <2>1, <2>2
  <2>4. PICK f : Lists(f, k - 1)
    BY <2>3
  <2>5. \E g : Lists(g, (k - 1) + 1)
    BY <1>1, <2>3, <2>4
  <2> QED
    BY <2>1, <2>3, <2>5
<1>4. \E f : Lists(f, Len(ms))
  BY <1>3
<1>5. Listing(ms) = CHOOSE f : Lists(f, Len(ms))
  BY DEF Listing, Lists
<1>6. Lists(Listing(ms), Len(ms))
  BY <1>4, <1>5
<1> DEFINE r == Listing(ms)
<1> HIDE DEF r
<1>7. \A n \in 0..Len(ms) : r[n] = Step(r, n)
  <2> HIDE DEF Step
  <2>1. r = [n \in 0..Len(ms) |-> Step(r, n)]
    BY <1>6 DEF r, Lists
  <2> QED
    BY <2>1, Zenon
<1>8. \A n \in 0..Len(ms) :
        r[n] = IF n = 0 THEN <<>>
               ELSE IF Listed(ms[n]) THEN r[n - 1] \o LinesOf(ms[n]) ELSE r[n - 1]
  <2> HIDE DEF Step
  <2>1. \A n \in 0..Len(ms) : n \in Nat
    OBVIOUS
  <2> QED
    BY <1>0, <1>7, <2>1
<1> QED
  BY <1>8 DEF r

\* The places of the messages that are listed rise by one.
LEMMA PlaceSteps ==
    ASSUME NEW ms
    PROVE  /\ Place(ms, 0) = 0
           /\ \A n \in Nat : /\ Place(ms, n) \in Nat
                            /\ Place(ms, n + 1) = IF Listed(ms[n + 1]) THEN Place(ms, n) + 1 ELSE Place(ms, n)
           /\ \A n \in Nat : \A i \in 1..n : Listed(ms[i]) => Place(ms, i) \in 1..Place(ms, n)
<1> DEFINE P(n) == {i \in 1..n : Listed(ms[i])}
<1>1. ASSUME NEW n \in Nat PROVE IsFiniteSet(P(n)) /\ Cardinality(P(n)) \in Nat
  <2>1. IsFiniteSet(1..n)
    BY FS_Interval
  <2>2. P(n) \subseteq 1..n
    OBVIOUS
  <2> HIDE DEF P
  <2>3. IsFiniteSet(P(n))
    BY <2>1, <2>2, FS_Subset
  <2> QED
    BY <2>3, FS_CardinalityType
<1>2. P(0) = {}
  <2>1. 1..0 = {}
    OBVIOUS
  <2> QED
    BY <2>1
<1>3. Place(ms, 0) = 0
  BY <1>2, FS_EmptySet DEF Place
<1>4. ASSUME NEW n \in Nat
      PROVE  P(n + 1) = IF Listed(ms[n + 1]) THEN P(n) \cup {n + 1} ELSE P(n)
  <2>1. \A i : i \in 1..n + 1 <=> i \in 1..n \/ i = n + 1
    OBVIOUS
  <2> QED
    BY <2>1
<1>5. ASSUME NEW n \in Nat
      PROVE  Place(ms, n + 1) = IF Listed(ms[n + 1]) THEN Place(ms, n) + 1 ELSE Place(ms, n)
  <2>1. n + 1 \notin P(n)
    OBVIOUS
  <2>2. Cardinality(P(n) \cup {n + 1}) = Cardinality(P(n)) + 1
    <3> HIDE DEF P
    <3> QED
      BY <1>1, <2>1, FS_AddElement
  <2>3. Place(ms, n) = Cardinality(P(n)) /\ Place(ms, n + 1) = Cardinality(P(n + 1))
    BY DEF Place
  <2> HIDE DEF P
  <2> QED
    BY <1>4, <2>2, <2>3
<1>6. ASSUME NEW n \in Nat, NEW i \in 1..n, Listed(ms[i]) PROVE Place(ms, i) \in 1..Place(ms, n)
  <2>1. i \in Nat /\ P(i) \subseteq P(n) /\ i \in P(i)
    BY <1>6
  <2>2. Place(ms, n) = Cardinality(P(n)) /\ Place(ms, i) = Cardinality(P(i))
    BY DEF Place
  <2> HIDE DEF P
  <2>3. Cardinality(P(i)) <= Cardinality(P(n))
    BY <1>1, <2>1, FS_Subset
  <2>4. Cardinality(P(i)) # 0
    BY <1>1, <2>1, FS_EmptySet
  <2> QED
    BY <1>1, <2>1, <2>2, <2>3, <2>4
<1>7. \A n \in Nat : Place(ms, n) \in Nat
  BY <1>1 DEF Place
<1> QED
  BY <1>3, <1>5, <1>6, <1>7
\* Of a text that begins with the lines of the first n messages, those that are listed
\* have been read when these lines have.
Begun(ms, n) ==
    /\ Listing(ms)[n] \in Seq(FileLines)
    /\ \A text \in Seq(FileLines) :
         (/\ Len(Listing(ms)[n]) <= Len(text)
          /\ \A i \in 1..Len(Listing(ms)[n]) : text[i] = Listing(ms)[n][i])
         => LET read == Closed(Reading(text)[Len(Listing(ms)[n])])
            IN  /\ Len(read) = Place(ms, n)
                /\ \A i \in 1..n : Listed(ms[i]) => SameMessage(read[Place(ms, i)], ms[i])

\* One message more.
LEMMA BegunStep ==
    ASSUME NEW ms \in Seq(WrittenMessages), NEW n \in Nat, n + 1 <= Len(ms), Begun(ms, n)
    PROVE  Begun(ms, n + 1)
<1> DEFINE L == Listing(ms)[n]
           M == Listing(ms)[n + 1]
           m == ms[n + 1]
           ls == LinesOf(m)
<1>1. Len(ms) \in Nat /\ n + 1 \in 1..Len(ms) /\ m \in WrittenMessages /\ (n + 1) - 1 = n
  OBVIOUS
<1>2. M = IF Listed(m) THEN L \o ls ELSE L
  BY <1>1, ListingSteps
<1>3. Place(ms, n + 1) = (IF Listed(m) THEN Place(ms, n) + 1 ELSE Place(ms, n)) /\ Place(ms, n) \in Nat
  BY PlaceSteps
<1>4. \A i \in 1..n + 1 : i \in 1..n \/ i = n + 1
  OBVIOUS
<1>5. CASE ~Listed(m)
  <2>1. M = L /\ Place(ms, n + 1) = Place(ms, n)
    BY <1>2, <1>3, <1>5
  <2>2. \A i \in 1..n + 1 : Listed(ms[i]) => i \in 1..n
    BY <1>4, <1>5
  <2> HIDE DEF L, M, m
  <2>3. L = Listing(ms)[n] /\ M = Listing(ms)[n + 1]
    BY DEF L, M
  <2> QED
    BY <2>1, <2>2, <2>3 DEF Begun
<1>6. CASE Listed(m)
  <2>1. M = L \o ls /\ Place(ms, n + 1) = Place(ms, n) + 1
    BY <1>2, <1>3, <1>6
  <2>2. L \in Seq(FileLines)
    BY DEF Begun
  <2>3. /\ ls \in Seq(FileLines) /\ ls # <<>> /\ IsHeader(ls[1])
        /\ \A k \in 2..Len(ls) : ~IsHeader(ls[k])
        /\ SameMessage(Finalized(RawOf(ls)), m)
    BY <1>1, LinesAgain
  <2> HIDE DEF L, M, m, ls
  <2>4. /\ L \o ls \in Seq(FileLines) /\ Len(L \o ls) = Len(L) + Len(ls) /\ Len(L) \in Nat
        /\ Len(ls) \in Nat
        /\ \A i \in 1..Len(L) : (L \o ls)[i] = L[i]
        /\ \A i \in 1..Len(ls) : (L \o ls)[Len(L) + i] = ls[i]
    BY <2>2, <2>3, Joined
  <2>5. ASSUME NEW text \in Seq(FileLines), Len(M) <= Len(text),
               \A i \in 1..Len(M) : text[i] = M[i]
        PROVE  /\ Len(Closed(Reading(text)[Len(M)])) = Place(ms, n + 1)
               /\ \A i \in 1..n + 1 : Listed(ms[i]) =>
                    SameMessage(Closed(Reading(text)[Len(M)])[Place(ms, i)], ms[i])
    <3>1. /\ Len(text) \in Nat /\ Len(M) = Len(L) + Len(ls) /\ Len(L) <= Len(text)
          /\ Len(L) \in 0..Len(text)
      BY <2>1, <2>4, <2>5
    <3>2. \A i \in 1..Len(L) : text[i] = L[i]
      BY <2>1, <2>4, <2>5, <3>1
    <3>3. \A k \in 1..Len(ls) : text[Len(L) + k] = ls[k]
      <4> SUFFICES ASSUME NEW k \in 1..Len(ls) PROVE text[Len(L) + k] = ls[k]
        OBVIOUS
      <4>1. Len(L) + k \in 1..Len(M)
        BY <2>4, <3>1
      <4> QED
        BY <2>1, <2>4, <2>5, <4>1
    <3> DEFINE acc == Reading(text)[Len(L)]
               raw == RawOf(ls)
               read == Closed(acc)
               new == [out |-> read, cur |-> <<raw>>]
    <3>4. Reading(text)[Len(M)] = new
      <4>1. Len(L) + Len(ls) <= Len(text)
        BY <2>5, <3>1
      <4>2. Reading(text)[Len(L) + Len(ls)] = new
        BY <2>3, <2>4, <3>3, <4>1, BlockRead
      <4> QED
        BY <3>1, <4>2
    <3>5. new \in Accs /\ acc \in Accs
      <4>1. Len(M) \in 0..Len(text)
        BY <2>4, <2>5, <3>1
      <4> HIDE DEF new
      <4> QED
        BY <3>1, <3>4, <4>1, TextIsRead
    <3>6. /\ Len(read) = Place(ms, n)
          /\ \A i \in 1..n : Listed(ms[i]) => SameMessage(read[Place(ms, i)], ms[i])
      BY <3>1, <3>2 DEF Begun, L
    <3> HIDE DEF acc, raw, read
    <3>7. new.out = read /\ new.cur = <<raw>> /\ Len(new.cur) = 1 /\ new.cur[1] = raw
      OBVIOUS
    <3> HIDE DEF new
    <3>8. /\ Len(Closed(new)) = Len(new.out) + Len(new.cur)
          /\ \A i \in 1..Len(new.out) : Closed(new)[i] = new.out[i]
          /\ \A i \in 1..Len(new.cur) : Closed(new)[Len(new.out) + i] = Finalized(new.cur[i])
      BY <3>5, ClosedIsRead
    <3>9. /\ Len(Closed(new)) = Place(ms, n) + 1
          /\ \A i \in 1..Place(ms, n) : Closed(new)[i] = read[i]
          /\ Closed(new)[Place(ms, n) + 1] = Finalized(raw)
      <4>1. 1 \in 1..Len(new.cur)
        BY <3>7
      <4>2. Closed(new)[Len(new.out) + 1] = Finalized(raw)
        BY <3>7, <3>8, <4>1
      <4> QED
        BY <3>6, <3>7, <3>8, <4>2
    <3>10. ASSUME NEW i \in 1..n, Listed(ms[i])
           PROVE  SameMessage(Closed(new)[Place(ms, i)], ms[i])
      <4>1. Place(ms, i) \in 1..Place(ms, n)
        BY <3>10, PlaceSteps
      <4> QED
        BY <3>6, <3>9, <3>10, <4>1
    <3>11. SameMessage(Closed(new)[Place(ms, n + 1)], ms[n + 1])
      BY <2>1, <2>3, <3>9 DEF raw, m
    <3> QED
      BY <1>4, <2>1, <3>4, <3>9, <3>10, <3>11
  <2>6. M = Listing(ms)[n + 1] /\ M \in Seq(FileLines)
    BY <2>1, <2>4 DEF M
  <2> QED
    BY <2>5, <2>6 DEF Begun
<1> QED
  BY <1>5, <1>6

\* All messages.
LEMMA AllBegun ==
    ASSUME NEW ms \in Seq(WrittenMessages)
    PROVE  Begun(ms, Len(ms))
<1> DEFINE Missing == {n \in 0..Len(ms) : ~Begun(ms, n)}
<1>1. Len(ms) \in Nat
  OBVIOUS
<1>2. Begun(ms, 0)
  <2>1. Listing(ms)[0] = <<>> /\ <<>> \in Seq(FileLines) /\ Len(<<>>) = 0
    BY <1>1, ListingSteps
  <2>2. ASSUME NEW text \in Seq(FileLines)
        PROVE  Len(Closed(Reading(text)[0])) = 0
    <3> DEFINE acc == Reading(text)[0]
    <3>1. acc = [out |-> <<>>, cur |-> <<>>] /\ acc \in Accs
      <4>1. Len(text) \in Nat /\ 0 \in 0..Len(text)
        OBVIOUS
      <4> QED
        BY <4>1, ReadingSteps, TextIsRead
    <3> HIDE DEF acc
    <3>2. Len(acc.out) = 0 /\ Len(acc.cur) = 0
      BY <3>1
    <3>3. Len(Closed(acc)) = Len(acc.out) + Len(acc.cur)
      BY <3>1, ClosedIsRead
    <3> QED
      BY <3>2, <3>3 DEF acc
  <2>3. Place(ms, 0) = 0 /\ \A i \in 1..0 : FALSE
    BY PlaceSteps
  <2> QED
    BY <2>1, <2>2, <2>3 DEF Begun
<1>3. Missing = {}
  <2> SUFFICES ASSUME Missing # {} PROVE FALSE
    OBVIOUS
  <2>1. PICK n \in Missing : \A k \in Missing : n <= k
    <3>1. Missing \in SUBSET Nat
      BY <1>1
    <3> HIDE DEF Missing
    <3> QED
      BY <3>1, LeastExists
  <2>2. n \in Nat /\ n \in 1..Len(ms) /\ n - 1 \in 0..Len(ms) /\ ~Begun(ms, n) /\ (n - 1) + 1 = n
    BY <1>1, <1>2, <2>1
  <2>3. n - 1 \notin Missing
    <3> HIDE DEF Missing
    <3> QED
      BY <2>1, <2>2
  <2>4. Begun(ms, n - 1) /\ n - 1 \in Nat /\ (n - 1) + 1 <= Len(ms)
    BY <1>1, <2>2, <2>3
  <2>5. Begun(ms, (n - 1) + 1)
    BY <2>4, BegunStep
  <2> QED
    BY <2>2, <2>5
<1> QED
  BY <1>1, <1>3

\* The last line of an exported text is empty and changes nothing.
LEMMA EmptyLineRead ==
    ASSUME NEW acc \in Accs
    PROVE  Closed(ReadLine(acc, EmptyLine)) = Closed(acc)
<1>1. acc.out \in Seq(ReadMessages) /\ acc.cur \in Seq(RawMessages)
  BY DEF Accs
<1>2. EmptyLine \in Lines /\ ~IsHeader(EmptyLine)
  BY EmptyLineIs
<1> DEFINE open == [i \in DOMAIN acc.cur |-> Longer(acc.cur[i], EmptyLine)]
<1>3. ReadLine(acc, EmptyLine) = [out |-> acc.out, cur |-> open]
  BY <1>2 DEF ReadLine
<1>4. ASSUME NEW r \in RawMessages PROVE Finalized(Longer(r, EmptyLine)) = Finalized(r)
  <2>1. /\ r.body \in Seq(Lines) /\ r.body # <<>>
        /\ r = [system |-> r.system, sender |-> r.sender, body |-> r.body]
    BY DEF RawMessages
  <2>2. Longer(r, EmptyLine)
          = [system |-> r.system, sender |-> r.sender, body |-> Append(r.body, EmptyLine)]
    <3> DEFINE a == r.system
               b == r.sender
               c == r.body
               e == EmptyLine
    <3>1. r = [system |-> a, sender |-> b, body |-> c]
      BY <2>1
    <3> HIDE DEF a, b, c, e
    <3>2. Longer([system |-> a, sender |-> b, body |-> c], e)
            = [system |-> a, sender |-> b, body |-> Append(c, e)]
      BY LongerBody
    <3>3. Longer(r, e) = [system |-> a, sender |-> b, body |-> Append(c, e)]
      BY <3>1, <3>2
    <3> QED
      BY <3>3 DEF a, b, c, e
  <2>3. TrimmedBody(Append(r.body, EmptyLine)) = TrimmedBody(r.body)
    BY <1>2, <2>1, TrimmedOnce
  <2> QED
    BY <2>2, <2>3 DEF Finalized
<1>5. [i \in DOMAIN open |-> Finalized(open[i])] = [i \in DOMAIN acc.cur |-> Finalized(acc.cur[i])]
  <2>1. DOMAIN open = DOMAIN acc.cur /\ \A i \in DOMAIN acc.cur : open[i] = Longer(acc.cur[i], EmptyLine)
    OBVIOUS
  <2>2. \A i \in DOMAIN acc.cur : acc.cur[i] \in RawMessages
    BY <1>1
  <2> HIDE DEF open
  <2>3. \A i \in DOMAIN acc.cur : Finalized(open[i]) = Finalized(acc.cur[i])
    BY <1>4, <2>1, <2>2
  <2> QED
    BY <2>1, <2>3
<1> HIDE DEF open
<1>6. Closed(ReadLine(acc, EmptyLine)) = acc.out \o [i \in DOMAIN open |-> Finalized(open[i])]
  BY <1>3 DEF Closed
<1> QED
  BY <1>5, <1>6 DEF Closed

\* So an exported text is read back as the messages that were listed.
LEMMA ReadBack ==
    ASSUME NEW ms \in Seq(WrittenMessages)
    PROVE  /\ Len(ParseChat(Exported(ms))) = Place(ms, Len(ms))
           /\ \A i \in DOMAIN ms : Listed(ms[i]) =>
                SameMessage(ParseChat(Exported(ms))[Place(ms, i)], ms[i])
<1> DEFINE L == Listing(ms)[Len(ms)]
           text == Append(L, EmptyLine)
<1>1. Begun(ms, Len(ms)) /\ Len(ms) \in Nat /\ DOMAIN ms = 1..Len(ms)
  BY AllBegun
<1>2. L \in Seq(FileLines)
  BY <1>1 DEF Begun
<1> HIDE DEF L
<1>3. EmptyLine \in FileLines
  BY EmptyLineIs
<1>4. /\ text \in Seq(FileLines) /\ Len(text) = Len(L) + 1 /\ text[Len(L) + 1] = EmptyLine
      /\ Len(L) \in Nat /\ \A i \in 1..Len(L) : text[i] = L[i]
  BY <1>2, <1>3
<1> HIDE DEF text
<1> DEFINE read == Closed(Reading(text)[Len(L)])
<1>5. /\ Len(read) = Place(ms, Len(ms))
      /\ \A i \in 1..Len(ms) : Listed(ms[i]) => SameMessage(read[Place(ms, i)], ms[i])
  <2>1. Len(L) <= Len(text)
    BY <1>4
  <2> QED
    BY <1>1, <1>4, <2>1 DEF Begun, L
<1>6. ParseChat(text) = read
  <2>1. Len(text) \in 1..Len(text) /\ Len(text) - 1 = Len(L) /\ Len(L) \in 0..Len(text)
        /\ text[Len(text)] = EmptyLine /\ Len(text) \in Nat
    BY <1>4
  <2>2. Reading(text)[Len(text)] = ReadLine(Reading(text)[Len(L)], EmptyLine)
    BY <2>1, ReadingSteps
  <2>3. Reading(text)[Len(L)] \in Accs
    BY <1>4, <2>1, TextIsRead
  <2> QED
    BY <2>2, <2>3, EmptyLineRead DEF ParseChat
<1> HIDE DEF read
<1>7. Exported(ms) = text
  BY DEF Exported, text, L
<1> QED
  BY <1>1, <1>5, <1>6, <1>7

-----------------------------------------------------------------------------
(***************************************************************************)
(* Portability: the two jobs and the conversation meanwhile                *)
(***************************************************************************)

Items == [m : ReadMessages, origin : Nat \ {0}, skipped : BOOLEAN]

\* What was listed is what stands in the log, and of the numbers the export began with those
\* it has reached are listed.
LogAndListing ==
    /\ log \in Seq(WrittenMessages) /\ all \in Seq(WrittenMessages)
    /\ Len(all) <= Len(log)
    /\ \A i \in 1..Len(all) : Written(all[i]) = Written(log[i]) /\ (all[i].stored => log[i].stored)
    /\ begun \subseteq 1..Len(log)
    /\ \A i \in begun : log[i].stored /\ (i <= Len(all) => all[i].stored)

\* The number the import has drawn is its own and still without a message.
Import ==
    /\ file \in Seq(FileLines)
    /\ importing \in Seq(Items)
    /\ import \in {"no", "running", "failed", "done"}
    /\ importing # <<>> => import = "running"
    /\ drawn \in Nat
    /\ drawn # 0 => /\ importing # <<>> /\ drawn <= Len(log)
                    /\ ~log[drawn].stored /\ log[drawn].origin # 0
                    /\ ~Head(importing).skipped

\* The inductive invariant: a finished export reached all it began with.
PortabilityInv ==
    /\ LogAndListing
    /\ Import
    /\ export \in {"no", "running", "done"}
    /\ sent \in 0..MaxSent /\ failures \in 0..MaxFailures
    /\ export = "no" => all = <<>>
    /\ export = "done" => \A i \in begun : i <= Len(all)

\* The messages that members, the group and an import add to the log.
LEMMA AddedIsWritten ==
    /\ \A u \in Words : \A system \in BOOLEAN : \A body \in Seq(Lines) \ {<<>>} :
         [system |-> system, senderId |-> [wa |-> FALSE, name |-> u], body |-> body,
          media |-> NoMedia, stored |-> FALSE, gone |-> FALSE, origin |-> 0] \in WrittenMessages
    /\ \A p \in Items : /\ Ingested(p) \in WrittenMessages
                        /\ ~Ingested(p).stored /\ Ingested(p).origin # 0
<1>1. NoMedia \in MediaKinds
  BY EmptyBody DEF MediaKinds
<1>2. ASSUME NEW u \in Words, NEW system \in BOOLEAN, NEW body \in Seq(Lines) \ {<<>>}
      PROVE  [system |-> system, senderId |-> [wa |-> FALSE, name |-> u], body |-> body,
              media |-> NoMedia, stored |-> FALSE, gone |-> FALSE, origin |-> 0] \in WrittenMessages
  <2> DEFINE new == [system |-> system, senderId |-> [wa |-> FALSE, name |-> u], body |-> body,
                     media |-> NoMedia, stored |-> FALSE, gone |-> FALSE, origin |-> 0]
  <2>1. new \in MessageRecords
    BY <1>1 DEF MessageRecords
  <2>2. new.origin = 0 /\ new.media = NoMedia
    OBVIOUS
  <2> HIDE DEF new
  <2>3. new \in WrittenMessages
    BY <2>1, <2>2 DEF WrittenMessages
  <2> QED
    BY <2>3 DEF new
<1>3. ASSUME NEW p \in Items
      PROVE  Ingested(p) \in WrittenMessages /\ ~Ingested(p).stored /\ Ingested(p).origin # 0
  <2> DEFINE m == p.m
             new == Ingested(p)
  <2>1. /\ m.system \in BOOLEAN /\ m.sender \in Words /\ m.body \in Seq(Lines) \ {<<>>}
        /\ m.media \in MediaKinds /\ p.origin \in Nat /\ p.origin # 0
        /\ Begins(m.system, m.body) /\ Continued(m.body)
        /\ TrimmedBody(m.body) = m.body /\ m.media = Media(m.body)
    BY DEF ReadMessages, Items
  <2>2. new = [system |-> m.system, senderId |-> SenderId(m), body |-> m.body,
               media |-> m.media, stored |-> FALSE, gone |-> FALSE, origin |-> p.origin]
    BY DEF Ingested
  <2> HIDE DEF m
  <2>3. SenderId(m) \in [wa : BOOLEAN, name : Words]
    BY <2>1, PortabilityAssumption DEF SenderId
  <2> HIDE DEF new
  <2>4. new \in MessageRecords
    BY <2>1, <2>2, <2>3 DEF MessageRecords
  <2>5. new.system = m.system /\ new.body = m.body /\ new.media = m.media /\ ~new.stored
        /\ new.origin = p.origin
    BY <2>2
  <2>6. ReadOf(new)
    BY <2>1, <2>5 DEF ReadOf
  <2>7. new \in WrittenMessages
    BY <2>1, <2>4, <2>5, <2>6 DEF WrittenMessages
  <2> QED
    BY <2>1, <2>5, <2>7 DEF new
<1> QED
  BY <1>2, <1>3

\* A message that is stored, or goes, stays what it was otherwise.
LEMMA StoredOrGone ==
    ASSUME NEW m \in WrittenMessages
    PROVE  /\ [m EXCEPT !.gone = TRUE] \in WrittenMessages
           /\ Written([m EXCEPT !.gone = TRUE]) = Written(m)
           /\ [m EXCEPT !.gone = TRUE].stored = m.stored
           /\ [m EXCEPT !.gone = TRUE].origin = m.origin
           /\ [m EXCEPT !.stored = TRUE] \in WrittenMessages
           /\ Written([m EXCEPT !.stored = TRUE]) = Written(m)
           /\ [m EXCEPT !.stored = TRUE].stored
           /\ [m EXCEPT !.stored = TRUE].origin = m.origin
<1>1. m \in MessageRecords
  BY DEF WrittenMessages
<1>2. ASSUME NEW n \in MessageRecords,
             n.system = m.system, n.body = m.body, n.media = m.media, n.origin = m.origin
      PROVE  n \in WrittenMessages
  BY <1>2 DEF WrittenMessages, ReadOf
<1> DEFINE g == [m EXCEPT !.gone = TRUE]
           s == [m EXCEPT !.stored = TRUE]
<1>3. /\ g \in MessageRecords /\ g.system = m.system /\ g.body = m.body /\ g.media = m.media
      /\ g.origin = m.origin /\ g.stored = m.stored
  BY <1>1 DEF MessageRecords
<1>4. /\ s \in MessageRecords /\ s.system = m.system /\ s.body = m.body /\ s.media = m.media
      /\ s.origin = m.origin /\ s.stored = TRUE
  BY <1>1 DEF MessageRecords
<1>5. Written(g) = Written(m)
  BY <1>1 DEF MessageRecords, Written
<1>6. Written(s) = Written(m)
  BY <1>1 DEF MessageRecords, Written
<1> HIDE DEF g, s
<1>7. g \in WrittenMessages /\ s \in WrittenMessages
  BY <1>2, <1>3, <1>4
<1> QED
  BY <1>3, <1>4, <1>5, <1>6, <1>7 DEF g, s

\* The bounds and the names, of what is assumed of the constants.
LEMMA Limits ==
    PAGE \in Nat /\ PAGE > 0 /\ MaxSent \in Nat /\ MaxFailures \in Nat /\ Known \subseteq Words
<1>1. PAGE \in Nat \ {0} /\ MaxSent \in Nat /\ MaxFailures \in Nat /\ Known \subseteq Words
  BY PortabilityAssumption, Zenon
<1>2. \A n \in Nat \ {0} : n \in Nat /\ n > 0
  OBVIOUS
<1> QED
  BY <1>1, <1>2, Zenon

\* A function on the numbers up to some number is a sequence; the head and the tail of a sequence.
LEMMA Sequenced ==
    ASSUME NEW S
    PROVE  /\ \A n \in Nat : \A f \in [1..n -> S] : f \in Seq(S)
           /\ \A s \in Seq(S) : /\ s # <<>> => Head(s) \in S /\ Tail(s) \in Seq(S)
                               /\ DOMAIN s = 1..Len(s) /\ Len(s) \in Nat
                               /\ \A i \in 1..Len(s) : s[i] \in S
  OBVIOUS

\* The places of the log and of the listing.
LEMMA Places ==
    ASSUME LogAndListing
    PROVE  /\ Len(all) \in Nat /\ Len(log) \in Nat /\ Len(all) <= Len(log)
           /\ DOMAIN log = 1..Len(log) /\ DOMAIN all = 1..Len(all)
           /\ \A i \in 1..Len(log) : log[i] \in WrittenMessages
           /\ \A i \in 1..Len(all) : i \in 1..Len(log)
<1>1. log \in Seq(WrittenMessages) /\ all \in Seq(WrittenMessages) /\ Len(all) <= Len(log)
  BY DEF LogAndListing
<1>2. /\ Len(log) \in Nat /\ DOMAIN log = 1..Len(log) /\ \A i \in 1..Len(log) : log[i] \in WrittenMessages
      /\ Len(all) \in Nat /\ DOMAIN all = 1..Len(all)
  BY <1>1, Sequenced
<1> QED
  BY <1>1, <1>2

\* One number more in the log.
LEMMA OneMore ==
    ASSUME LogAndListing, NEW m \in WrittenMessages,
           log' = Append(log, m), all' = all, begun' = begun
    PROVE  /\ LogAndListing'
           /\ Len(log') = Len(log) + 1 /\ log'[Len(log) + 1] = m
           /\ \A i \in 1..Len(log) : log'[i] = log[i]
<1>1. /\ log \in Seq(WrittenMessages) /\ Len(log) \in Nat /\ Len(all) \in Nat
      /\ \A i \in 1..Len(all) : i \in 1..Len(log)
  BY Places DEF LogAndListing
<1>2. /\ log' \in Seq(WrittenMessages) /\ Len(log') = Len(log) + 1 /\ log'[Len(log) + 1] = m
      /\ \A i \in 1..Len(log) : log'[i] = log[i]
  BY <1>1
<1>3. LogAndListing'
  <2>1. all' \in Seq(WrittenMessages) /\ Len(all') <= Len(log')
    BY <1>1, <1>2 DEF LogAndListing
  <2>2. \A i \in 1..Len(all') :
          Written(all'[i]) = Written(log'[i]) /\ (all'[i].stored => log'[i].stored)
    BY <1>1, <1>2 DEF LogAndListing
  <2>3. begun' \subseteq 1..Len(log')
    BY <1>1, <1>2 DEF LogAndListing
  <2>4. \A i \in begun' : log'[i].stored /\ (i <= Len(all') => all'[i].stored)
    BY <1>2 DEF LogAndListing
  <2> QED
    BY <1>2, <2>1, <2>2, <2>3, <2>4 DEF LogAndListing
<1> QED
  BY <1>2, <1>3

\* A message of the log is stored, or goes.
LEMMA OneChanged ==
    ASSUME LogAndListing, NEW i \in 1..Len(log), NEW m \in WrittenMessages,
           Written(m) = Written(log[i]), log[i].stored => m.stored,
           log' = [log EXCEPT ![i] = m], all' = all, begun' = begun
    PROVE  /\ LogAndListing'
           /\ Len(log') = Len(log) /\ log'[i] = m
           /\ \A k \in 1..Len(log) : k # i => log'[k] = log[k]
<1>1. /\ log \in Seq(WrittenMessages) /\ Len(log) \in Nat /\ Len(all) \in Nat
      /\ \A k \in 1..Len(all) : k \in 1..Len(log)
  BY Places DEF LogAndListing
<1>2. /\ log' \in Seq(WrittenMessages) /\ Len(log') = Len(log) /\ log'[i] = m
      /\ \A k \in 1..Len(log) : k # i => log'[k] = log[k]
  BY <1>1
<1>3. ASSUME NEW k \in 1..Len(log)
      PROVE  Written(log'[k]) = Written(log[k]) /\ (log[k].stored => log'[k].stored)
  BY <1>2
<1>4. LogAndListing'
  <2>1. all' \in Seq(WrittenMessages) /\ Len(all') <= Len(log') /\ begun' \subseteq 1..Len(log')
    BY <1>2 DEF LogAndListing
  <2>2. \A k \in 1..Len(all') :
          Written(all'[k]) = Written(log'[k]) /\ (all'[k].stored => log'[k].stored)
    BY <1>1, <1>3 DEF LogAndListing
  <2>3. \A k \in begun' : log'[k].stored /\ (k <= Len(all') => all'[k].stored)
    BY <1>3 DEF LogAndListing
  <2> QED
    BY <1>2, <2>1, <2>2, <2>3 DEF LogAndListing
<1> QED
  BY <1>2, <1>4

LEMMA PortabilityInitInv == PortabilityInit => PortabilityInv
<1> SUFFICES ASSUME PortabilityInit PROVE PortabilityInv
  OBVIOUS
<1>1. file \in Seq(FileLines)
  BY PortabilityAssumption DEF PortabilityInit, FileLines
<1>2. /\ log = <<>> /\ importing = <<>> /\ import = "no" /\ drawn = 0 /\ all = <<>> /\ export = "no"
      /\ begun = {} /\ sent = 0 /\ failures = 0
  BY DEF PortabilityInit
<1>3. 0 \in 0..MaxSent /\ 0 \in 0..MaxFailures
  BY Limits
<1>4. LogAndListing
  <2>1. log \in Seq(WrittenMessages) /\ all \in Seq(WrittenMessages) /\ Len(all) = 0 /\ Len(log) = 0
    BY <1>2
  <2>2. 1..0 = {}
    OBVIOUS
  <2> QED
    BY <1>2, <2>1, <2>2 DEF LogAndListing
<1>5. Import
  <2>1. importing \in Seq(Items)
    BY <1>2
  <2> QED
    BY <1>1, <1>2, <2>1 DEF Import
<1> QED
  BY <1>2, <1>3, <1>4, <1>5 DEF PortabilityInv

\* A step of a member, or of the group, that takes no turn of the import.
LEMMA ImportStands ==
    ASSUME PortabilityInv, LogAndListing',
           UNCHANGED <<file, importing, drawn, import, all, export, begun, failures>>,
           sent' \in 0..MaxSent,
           drawn # 0 => drawn <= Len(log') /\ log'[drawn] = log[drawn]
    PROVE  PortabilityInv'
<1>1. Import'
  BY DEF PortabilityInv, Import
<1> QED
  BY <1>1 DEF PortabilityInv

LEMMA DrawKeeps ==
    ASSUME PortabilityInv, NEW u \in Known, NEW system \in BOOLEAN,
           NEW body \in Seq(Lines) \ {<<>>}, Draw(system, u, body)
    PROVE  PortabilityInv'
<1> DEFINE m == [system |-> system, senderId |-> [wa |-> FALSE, name |-> u], body |-> body,
                 media |-> NoMedia, stored |-> FALSE, gone |-> FALSE, origin |-> 0]
<1>1. m \in WrittenMessages
  BY Limits, AddedIsWritten
<1>2. log' = Append(log, m) /\ all' = all /\ begun' = begun
  BY DEF Draw
<1> HIDE DEF m
<1>3. LogAndListing /\ Import
  BY DEF PortabilityInv
<1>4. LogAndListing' /\ Len(log') = Len(log) + 1 /\ \A i \in 1..Len(log) : log'[i] = log[i]
  BY <1>1, <1>2, <1>3, OneMore
<1>5. Len(log) \in Nat
  BY <1>3, Places
<1>6. drawn # 0 => drawn <= Len(log') /\ log'[drawn] = log[drawn]
  BY <1>3, <1>4, <1>5 DEF Import
<1>7. UNCHANGED <<file, importing, drawn, import, all, export, begun, failures>>
      /\ sent' \in 0..MaxSent
  BY Limits DEF Draw, PortabilityInv
<1> QED
  BY <1>4, <1>6, <1>7, ImportStands

LEMMA PortabilityNextInv == PortabilityInv /\ [PortabilityNext]_portabilityVars => PortabilityInv'
<1> SUFFICES ASSUME PortabilityInv, [PortabilityNext]_portabilityVars PROVE PortabilityInv'
  OBVIOUS
<1>0. /\ LogAndListing /\ Import
      /\ Len(all) \in Nat /\ Len(log) \in Nat /\ Len(all) <= Len(log)
      /\ DOMAIN log = 1..Len(log) /\ DOMAIN all = 1..Len(all)
      /\ \A i \in 1..Len(log) : log[i] \in WrittenMessages
  BY Places DEF PortabilityInv
<1>0a. Len(all) \in Nat /\ Len(log) \in Nat /\ Len(all) <= Len(log)
  BY <1>0
<1>1. ASSUME NEW u \in Known, NEW body \in Bodies, Send(u, body) PROVE PortabilityInv'
  <2>1. body \in Seq(Lines) \ {<<>>}
    BY PortabilityAssumption
  <2>2. Draw(FALSE, u, body)
    BY <1>1 DEF Send
  <2> QED
    BY <2>1, <2>2, DrawKeeps
<1>2. ASSUME NEW u \in Known, GroupEvent(u) PROVE PortabilityInv'
  <2>1. <<EmptyLine>> \in Seq(Lines) \ {<<>>}
    BY EmptyBody
  <2>2. Draw(TRUE, u, <<EmptyLine>>)
    BY <1>2 DEF GroupEvent
  <2> QED
    BY <2>1, <2>2, DrawKeeps
<1>3. ASSUME NEW i \in DOMAIN log, Insert(i) PROVE PortabilityInv'
  <2> DEFINE m == [log[i] EXCEPT !.stored = TRUE]
  <2>1. log' = [log EXCEPT ![i] = m] /\ all' = all /\ begun' = begun /\ i \in 1..Len(log)
        /\ log[i].origin = 0
    BY <1>0, <1>3 DEF Insert
  <2>2. m \in WrittenMessages /\ Written(m) = Written(log[i]) /\ m.stored
    BY <1>0, <2>1, StoredOrGone
  <2> HIDE DEF m
  <2>3. /\ LogAndListing' /\ Len(log') = Len(log)
        /\ \A k \in 1..Len(log) : k # i => log'[k] = log[k]
    BY <1>0, <2>1, <2>2, OneChanged
  <2>4. drawn # 0 => drawn <= Len(log') /\ log'[drawn] = log[drawn]
    BY <1>0, <2>1, <2>3 DEF Import
  <2>5. UNCHANGED <<file, importing, drawn, import, all, export, begun, failures>>
        /\ sent' \in 0..MaxSent
    BY <1>3 DEF Insert, PortabilityInv
  <2> QED
    BY <2>3, <2>4, <2>5, ImportStands
<1>4. ASSUME NEW i \in DOMAIN log, Withdraw(i) PROVE PortabilityInv'
  <2> DEFINE m == [log[i] EXCEPT !.gone = TRUE]
  <2>1. log' = [log EXCEPT ![i] = m] /\ all' = all /\ begun' = begun /\ i \in 1..Len(log)
        /\ log[i].stored
    BY <1>0, <1>4 DEF Withdraw, Listed
  <2>2. m \in WrittenMessages /\ Written(m) = Written(log[i]) /\ m.stored
    BY <1>0, <2>1, StoredOrGone
  <2> HIDE DEF m
  <2>3. /\ LogAndListing' /\ Len(log') = Len(log)
        /\ \A k \in 1..Len(log) : k # i => log'[k] = log[k]
    BY <1>0, <2>1, <2>2, OneChanged
  <2>4. drawn # 0 => drawn <= Len(log') /\ log'[drawn] = log[drawn]
    BY <1>0, <2>1, <2>3 DEF Import
  <2>5. UNCHANGED <<file, importing, drawn, import, all, export, begun, failures>>
        /\ sent' \in 0..MaxSent
    BY <1>4 DEF Withdraw, PortabilityInv
  <2> QED
    BY <2>3, <2>4, <2>5, ImportStands
<1>5. ASSUME NEW includeSystem \in BOOLEAN, StartImport(includeSystem) PROVE PortabilityInv'
  <2> DEFINE chat == ParseChat(file)
             item(i) == [m |-> chat[i], origin |-> i, skipped |-> Skips(chat[i], includeSystem)]
             items == [i \in DOMAIN chat |-> item(i)]
  <2>1. chat \in Seq(ReadMessages)
    BY <1>0, TextIsRead DEF Import
  <2>2. importing' = items /\ import' = "running" /\ import \in {"no", "failed"}
        /\ UNCHANGED <<log, file, drawn, all, export, begun, sent, failures>>
    BY <1>5 DEF StartImport
  <2> HIDE DEF chat
  <2>3. /\ DOMAIN chat = 1..Len(chat) /\ Len(chat) \in Nat
        /\ \A i \in 1..Len(chat) : chat[i] \in ReadMessages
    BY <2>1
  <2>4. items \in Seq(Items)
    <3>1. \A i \in 1..Len(chat) : item(i) \in Items
      <4> SUFFICES ASSUME NEW i \in 1..Len(chat) PROVE item(i) \in Items
        OBVIOUS
      <4>1. chat[i] \in ReadMessages /\ i \in Nat \ {0}
        BY <2>3
      <4>2. Skips(chat[i], includeSystem) \in BOOLEAN
        BY <4>1 DEF Skips, ReadMessages
      <4> QED
        BY <4>1, <4>2 DEF Items
    <3> HIDE DEF item
    <3>2. items \in [1..Len(chat) -> Items]
      BY <2>3, <3>1
    <3> HIDE DEF items
    <3> QED
      BY <2>3, <3>2, Sequenced
  <2> HIDE DEF items
  <2>5. drawn = 0
    BY <1>0, <2>2 DEF Import
  <2>6. Import'
    BY <1>0, <2>2, <2>4, <2>5 DEF Import
  <2>7. LogAndListing'
    BY <1>0, <2>2 DEF LogAndListing
  <2> QED
    BY <2>2, <2>6, <2>7 DEF PortabilityInv
<1>6. ASSUME ImportSkips PROVE PortabilityInv'
  <2>1. /\ importing # <<>> /\ importing' = Tail(importing) /\ Head(importing).skipped
        /\ import = "running"
        /\ UNCHANGED <<log, file, drawn, import, all, export, begun, sent, failures>>
    BY <1>6 DEF ImportSkips
  <2>2. importing' \in Seq(Items)
    BY <1>0, <2>1, Sequenced DEF Import
  <2>3. LogAndListing'
    BY <1>0, <2>1 DEF LogAndListing
  <2>4. drawn = 0
    BY <1>0, <2>1 DEF Import
  <2>5. Import'
    BY <1>0, <2>1, <2>2, <2>4 DEF Import
  <2> QED
    BY <2>1, <2>3, <2>5 DEF PortabilityInv
<1>7. ASSUME ImportDraws PROVE PortabilityInv'
  <2> DEFINE m == Ingested(Head(importing))
  <2>1. /\ importing # <<>> /\ log' = Append(log, m) /\ drawn' = Len(log) + 1
        /\ UNCHANGED <<file, importing, import, all, export, begun, sent, failures>>
    BY <1>7 DEF ImportDraws
  <2>2. Head(importing) \in Items
    BY <1>0, <2>1, Sequenced DEF Import
  <2>3. m \in WrittenMessages /\ ~m.stored /\ m.origin # 0
    BY <2>2, AddedIsWritten
  <2> HIDE DEF m
  <2>4. LogAndListing' /\ Len(log') = Len(log) + 1 /\ log'[Len(log) + 1] = m
    BY <1>0, <2>1, <2>3, OneMore
  <2>5. Import'
    <3>1. Len(log) + 1 \in Nat /\ Len(log) + 1 # 0 /\ Len(log) + 1 <= Len(log')
      BY <1>0a, <2>4
    <3>2. ~log'[drawn'].stored /\ log'[drawn'].origin # 0 /\ drawn' \in Nat /\ drawn' <= Len(log')
      BY <2>1, <2>3, <2>4, <3>1
    <3>3. ~Head(importing).skipped
      BY <1>7 DEF ImportDraws
    <3> QED
      BY <1>0, <2>1, <3>2, <3>3 DEF Import
  <2> QED
    BY <2>1, <2>4, <2>5 DEF PortabilityInv
<1>8. ASSUME ImportInserts PROVE PortabilityInv'
  <2> DEFINE m == [log[drawn] EXCEPT !.stored = TRUE]
  <2>1. /\ drawn # 0 /\ log' = [log EXCEPT ![drawn] = m] /\ importing' = Tail(importing) /\ drawn' = 0
        /\ import = "running"
        /\ UNCHANGED <<file, import, all, export, begun, sent, failures>>
    BY <1>8 DEF ImportInserts
  <2>2. drawn \in 1..Len(log) /\ importing # <<>>
    BY <1>0, <2>1 DEF Import
  <2>3. m \in WrittenMessages /\ Written(m) = Written(log[drawn]) /\ m.stored
    BY <1>0, <2>2, StoredOrGone
  <2> HIDE DEF m
  <2>4. LogAndListing'
    BY <1>0, <2>1, <2>2, <2>3, OneChanged
  <2>5. importing' \in Seq(Items)
    BY <1>0, <2>1, <2>2, Sequenced DEF Import
  <2>6. Import'
    BY <1>0, <2>1, <2>5 DEF Import
  <2> QED
    BY <2>1, <2>4, <2>6 DEF PortabilityInv
<1>9. ASSUME ImportFails PROVE PortabilityInv'
  <2>1. failures' \in 0..MaxFailures
    BY <1>9, Limits DEF ImportFails, PortabilityInv
  <2>2. /\ importing' = <<>> /\ importing' \in Seq(Items) /\ import' = "failed" /\ drawn' = 0
        /\ UNCHANGED <<log, file, all, export, begun, sent>>
    BY <1>9 DEF ImportFails
  <2>3. LogAndListing'
    BY <1>0, <2>2 DEF LogAndListing
  <2>4. Import'
    BY <1>0, <2>2 DEF Import
  <2> QED
    BY <2>1, <2>2, <2>3, <2>4 DEF PortabilityInv
<1>10. ASSUME ImportDone PROVE PortabilityInv'
  <2>1. /\ importing = <<>> /\ import' = "done"
        /\ UNCHANGED <<log, file, importing, drawn, all, export, begun, sent, failures>>
    BY <1>10 DEF ImportDone
  <2>2. LogAndListing'
    BY <1>0, <2>1 DEF LogAndListing
  <2>3. Import'
    BY <1>0, <2>1 DEF Import
  <2> QED
    BY <2>1, <2>2, <2>3 DEF PortabilityInv
<1>11. ASSUME StartExport PROVE PortabilityInv'
  <2>1. export = "no" /\ export' = "running" /\ begun' = {i \in DOMAIN log : log[i].stored}
        /\ UNCHANGED <<log, file, importing, drawn, import, all, sent, failures>>
    BY <1>11 DEF StartExport
  <2>2. all = <<>> /\ Len(all) = 0 /\ \A i \in begun' : i \in 1..Len(log) /\ log[i].stored
    BY <1>0, <2>1 DEF PortabilityInv
  <2>3. LogAndListing'
    BY <1>0, <2>1, <2>2 DEF LogAndListing
  <2>4. Import'
    BY <1>0, <2>1 DEF Import
  <2> QED
    BY <2>1, <2>3, <2>4 DEF PortabilityInv
<1>12. ASSUME ExportPage PROVE PortabilityInv'
  <2> DEFINE batch == Batch(Len(all))
             end == PageEnd(Len(all))
  <2>1. batch = SubSeq(log, Len(all) + 1, end)
    BY DEF Batch
  <2>2. /\ end \in Nat /\ end >= Len(all) /\ end <= Len(log)
        /\ FullEnds(Len(all)) = {} => end = Len(log)
    <3>1. FullEnds(Len(all)) \subseteq Len(all) + 1..Len(log)
      BY DEF FullEnds, StoredIn
    <3>2. CASE FullEnds(Len(all)) = {}
      BY <1>0, <3>2 DEF PageEnd
    <3>3. CASE FullEnds(Len(all)) # {}
      <4>1. end \in FullEnds(Len(all))
        BY <3>3 DEF PageEnd
      <4> HIDE DEF end
      <4> QED
        BY <1>0, <3>1, <3>3, <4>1
    <3> QED
      BY <3>2, <3>3
  <2>3. /\ all' = all \o batch
        /\ export' = (IF FullEnds(Len(all)) = {} THEN "done" ELSE export)
        /\ export = "running"
        /\ UNCHANGED <<log, file, importing, drawn, import, begun, sent, failures>>
    BY <1>12 DEF ExportPage
  <2> HIDE DEF batch, end
  <2>4. log \in Seq(WrittenMessages) /\ all \in Seq(WrittenMessages)
    BY <1>0 DEF LogAndListing
  <2>5. /\ batch \in Seq(WrittenMessages) /\ Len(batch) = end - Len(all)
        /\ \A k \in 1..Len(batch) : batch[k] = log[Len(all) + k]
    BY <1>0a, <2>1, <2>2, <2>4
  <2>6. /\ all \o batch \in Seq(WrittenMessages) /\ Len(all \o batch) = Len(all) + Len(batch)
        /\ \A k \in 1..Len(all) : (all \o batch)[k] = all[k]
        /\ \A k \in 1..Len(batch) : (all \o batch)[Len(all) + k] = batch[k]
    BY <2>4, <2>5, Joined
  <2>7. /\ all' \in Seq(WrittenMessages) /\ Len(all') = end
        /\ \A k \in 1..Len(all) : all'[k] = all[k]
        /\ \A k \in 1..Len(batch) : all'[Len(all) + k] = log[Len(all) + k]
    BY <1>0a, <2>2, <2>3, <2>5, <2>6
  <2>8. ASSUME NEW k \in 1..Len(all') PROVE k \in 1..Len(all) \/ all'[k] = log[k]
    <3> SUFFICES ASSUME k \notin 1..Len(all) PROVE all'[k] = log[k]
      OBVIOUS
    <3>1. k - Len(all) \in 1..Len(batch) /\ Len(all) + (k - Len(all)) = k
      BY <1>0a, <2>2, <2>5, <2>7
    <3> QED
      BY <2>7, <3>1
  <2>9. LogAndListing'
    <3>1. ASSUME NEW k \in 1..Len(all')
          PROVE  Written(all'[k]) = Written(log[k]) /\ (all'[k].stored => log[k].stored)
      <4>1. CASE k \in 1..Len(all)
        <5>1. Written(all[k]) = Written(log[k]) /\ (all[k].stored => log[k].stored)
          BY <1>0, <4>1 DEF LogAndListing
        <5> QED
          BY <2>7, <4>1, <5>1
      <4>2. CASE k \notin 1..Len(all)
        BY <2>8, <4>2
      <4> QED
        BY <4>1, <4>2
    <3>2. ASSUME NEW i \in begun, i <= Len(all') PROVE log[i].stored /\ all'[i].stored
      <4>1. i \in 1..Len(log) /\ log[i].stored /\ (i <= Len(all) => all[i].stored)
        BY <1>0 DEF LogAndListing
      <4>2. i \in 1..Len(all')
        BY <1>0a, <2>2, <2>7, <3>2, <4>1
      <4>3. CASE i \in 1..Len(all)
        BY <1>0a, <2>7, <4>1, <4>3
      <4>4. CASE i \notin 1..Len(all)
        BY <2>8, <4>1, <4>2, <4>4
      <4> QED
        BY <4>3, <4>4
    <3>3. begun \subseteq 1..Len(log) /\ \A i \in begun : log[i].stored
      BY <1>0 DEF LogAndListing
    <3>4. Len(all') <= Len(log)
      BY <2>2, <2>7
    <3> QED
      BY <2>3, <2>4, <2>7, <3>1, <3>2, <3>3, <3>4 DEF LogAndListing
  <2>10. Import'
    BY <1>0, <2>3 DEF Import
  <2>11. export' = "done" => \A i \in begun' : i <= Len(all')
    <3>1. begun \subseteq 1..Len(log)
      BY <1>0 DEF LogAndListing
    <3> QED
      BY <1>0a, <2>2, <2>3, <2>7, <3>1
  <2>12. export' \in {"running", "done"}
    BY <2>3
  <2> QED
    BY <2>3, <2>9, <2>10, <2>11, <2>12 DEF PortabilityInv
<1>13. CASE UNCHANGED portabilityVars
  <2>1. UNCHANGED <<log, file, importing, drawn, import, all, export, begun, sent, failures>>
    BY <1>13 DEF portabilityVars
  <2>2. LogAndListing'
    BY <1>0, <2>1 DEF LogAndListing
  <2>3. Import'
    BY <1>0, <2>1 DEF Import
  <2> QED
    BY <2>1, <2>2, <2>3 DEF PortabilityInv
<1> QED
  BY <1>1, <1>2, <1>3, <1>4, <1>5, <1>6, <1>7, <1>8, <1>9, <1>10, <1>11, <1>12, <1>13
     DEF PortabilityNext

\* Every behaviour of the two jobs keeps the inductive invariant.
LEMMA PortabilityInvariant == PortabilitySpec => []PortabilityInv
<1>1. PortabilityInit => PortabilityInv
  BY PortabilityInitInv
<1>2. PortabilityInv /\ [PortabilityNext]_portabilityVars => PortabilityInv'
  BY PortabilityNextInv
<1> QED
  BY <1>1, <1>2, PTL DEF PortabilitySpec

\* The two jobs are where they say they are, the number an import has drawn has no message
\* yet, and every message of the conversation is well formed: an imported body keeps no empty
\* lines at its end (whatsapp.js finalize).
THEOREM PortabilityTypeCorrect == PortabilitySpec => []PortabilityTypeOK
<1>1. PortabilityInv => PortabilityTypeOK
  <2> SUFFICES ASSUME PortabilityInv PROVE PortabilityTypeOK
    OBVIOUS
  <2>0. LogAndListing /\ Import /\ DOMAIN log = 1..Len(log) /\ Len(log) \in Nat
        /\ \A i \in 1..Len(log) : log[i] \in WrittenMessages
    BY Places DEF PortabilityInv
  <2>1. ASSUME NEW i \in DOMAIN log
        PROVE  /\ log[i].media.kind \in {"none", "placeholder", "file"}
               /\ Len(log[i].body) = 1 \/ log[i].origin = 0 \/ Last(log[i].body) # EmptyLine
    <3> DEFINE m == log[i]
               b == m.body
    <3>1. m \in WrittenMessages
      BY <2>0
    <3>2. m \in MessageRecords /\ (m.origin # 0 => TrimmedBody(m.body) = m.body)
      BY <3>1 DEF WrittenMessages
    <3>3. /\ b \in Seq(Lines) /\ b # <<>> /\ m.media \in MediaKinds
          /\ (m.origin # 0 => TrimmedBody(b) = b)
      BY <3>2 DEF MessageRecords
    <3> HIDE DEF b, m
    <3>4. m.media.kind \in {"none", "placeholder", "file"}
      <4>1. PICK body : m.media = Media(body)
        BY <3>3 DEF MediaKinds
      <4>2. Media(body) \in {NoMedia, [kind |-> "placeholder"],
                             [kind |-> "file", name |-> WithoutSuffix(body)]}
        BY KindsOfMedia
      <4>3. Media(body).kind \in {"none", "placeholder", "file"}
        BY <4>2 DEF NoMedia
      <4> QED
        BY <4>1, <4>3
    <3>5. ASSUME TrimmedBody(b) = b PROVE Len(b) = 1 \/ Last(b) # EmptyLine
      <4>1. PICK n \in 1..Len(b) : /\ \A k \in n+1..Len(b) : b[k] = EmptyLine
                                   /\ n = 1 \/ b[n] # EmptyLine
        BY <3>3, SomewhereCut
      <4>2. TrimmedBody(b) = SubSeq(b, 1, n)
        BY <3>3, <4>1, CutAt
      <4>3. Len(SubSeq(b, 1, n)) = n
        BY <3>3, <4>1
      <4>4. n = Len(b)
        BY <3>5, <4>2, <4>3
      <4> QED
        BY <4>1, <4>4 DEF Last
    <3> QED
      BY <3>3, <3>4, <3>5 DEF b, m
  <2>2. drawn # 0 => importing # <<>> /\ drawn \in DOMAIN log /\ ~log[drawn].stored
    BY <2>0 DEF Import
  <2>3. import \in {"no", "running", "failed", "done"} /\ (importing # <<>> => import = "running")
    BY <2>0 DEF Import
  <2>4. Len(all) <= Len(log)
    BY <2>0 DEF LogAndListing
  <2> QED
    BY <2>1, <2>2, <2>3, <2>4 DEF PortabilityTypeOK, PortabilityInv
<1> QED
  BY <1>1, PortabilityInvariant, PTL

\* An export lists what was stored in the conversation when it began, each message once and
\* in order, whatever is sent, imported or withdrawn while its pages are read (exportWhatsApp).
THEOREM ExportComplete == PortabilitySpec => []ExportIsComplete
<1>1. PortabilityInv => ExportIsComplete
  <2> SUFFICES ASSUME PortabilityInv, export = "done" PROVE ExportIsComplete
    BY DEF ExportIsComplete
  <2>1. LogAndListing /\ DOMAIN all = 1..Len(all)
    BY Places DEF PortabilityInv
  <2> QED
    BY <2>1 DEF PortabilityInv, LogAndListing, ExportIsComplete
<1> QED
  BY <1>1, PortabilityInvariant, PTL

\* An exported text, whatever members write, is read back as the messages that were listed,
\* each in its place with its sender and its medium, and an export has every message it
\* began with once (exportWhatsApp, parseChat).
THEOREM ExportsFaithful == PortabilitySpec => []ExportsAreFaithful
<1>1. PortabilityInv => ExportsAreFaithful
  <2> SUFFICES ASSUME PortabilityInv PROVE ExportsAreFaithful
    OBVIOUS
  <2>1. LogAndListing /\ DOMAIN all = 1..Len(all)
    BY Places DEF PortabilityInv
  <2>2. ExportIsComplete
    BY <2>1 DEF PortabilityInv, LogAndListing, ExportIsComplete
  <2>3. all \in Seq(WrittenMessages)
    BY <2>1 DEF LogAndListing
  <2>4. RoundTrip
    BY <2>3, ReadBack DEF RoundTrip
  <2> QED
    BY <2>2, <2>4 DEF ExportsAreFaithful
<1> QED
  BY <1>1, PortabilityInvariant, PTL

=============================================================================
