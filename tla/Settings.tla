-------------------------------- MODULE Settings --------------------------------
(***************************************************************************)
(* ONE setting of a conversation, its subject or its disappearing timer    *)
(* (lib/subject, lib/convtimer), in Redis and as one client shows it; new  *)
(* messages of the client get the timer it shows (Composer.jsx:29).  The   *)
(* setter is allowed to set it.  The copy in the conversation's document   *)
(* is never read, and the description is stored like a subject and pushed  *)
(* as little as the timer.                                                 *)
(***************************************************************************)
EXTENDS Integers, SequencesExt

CONSTANTS
    Setters,       \* slots for requests in flight
    MaxSets,       \* bound of the model: requests
    MaxRefusals,   \* bound of the model: requests that fail or whose node dies
    MaxOutages     \* bound of the model: connections that break, pages that are reloaded

ASSUME SettingsAssumption ==
    /\ IsFiniteSet(Setters) /\ Setters # {}
    /\ {MaxSets, MaxRefusals, MaxOutages} \subseteq Nat

VARIABLES
    field,         \* "subject" or "timer"
    redis,         \* conv:{id}:subject or :timer, 0 if there is none
    setter,        \* the requests in flight
    events,        \* published frames on their way to the client's gateway
    session,       \* none, or "filed" (it hears broadcasts) and what the HELLO still has to do
    socket,        \* frames on the socket
    known,         \* the client knows the conversation
    setting,       \* what it shows
    missed,        \* history: it need not have heard of the last value
    sets, refusals, outages

settingVars == <<field, redis, setter, events, session, socket, known, setting, missed,
                sets, refusals, outages>>

NotSetting == [pc |-> "idle", value |-> 0]
None == [state |-> "none", value |-> 0]
Filed(state, value) == [state |-> state, value |-> value]

SettingInit ==
    /\ field \in {"subject", "timer"}
    /\ redis = 0 /\ setter = [t \in Setters |-> NotSetting]
    /\ events = << >> /\ session = None /\ socket = << >>
    /\ known = FALSE /\ setting = 0 /\ missed = FALSE
    /\ sets = 0 /\ refusals = 0 /\ outages = 0

Busy == {t \in Setters : setter[t].pc # "idle"}
Coming == Range(events) \cup {setter[t].value : t \in {u \in Setters : setter[u].pc = "publish"}}

-----------------------------------------------------------------------------
(***************************************************************************)
(* The server                                                              *)
(***************************************************************************)

\* SUBJECT or CONV_TIMER, past the guards and with its number drawn; two of them may be
\* published in the other order.
BeginSet(t) ==
    /\ sets < MaxSets /\ sets' = sets + 1
    /\ setter[t] = NotSetting
    /\ setter' = [setter EXCEPT ![t] = [pc |-> "redis", value |-> sets + 1]]
    /\ missed' = (missed \/ (known /\ Busy # {}))
    /\ UNCHANGED <<field, redis, events, session, socket, known, setting, refusals, outages>>

\* await this.redis.set(..)
StoreSetting(t) ==
    /\ setter[t].pc = "redis"
    /\ redis' = setter[t].value
    /\ setter' = [setter EXCEPT ![t].pc = "publish"]
    /\ UNCHANGED <<field, events, session, socket, known, setting, missed, sets, refusals, outages>>

\* The conversation's document is written; await gw.fanout.publish(convId, frame)
PublishSetting(t) ==
    /\ setter[t].pc = "publish"
    /\ events' = Append(events, setter[t].value)
    /\ setter' = [setter EXCEPT ![t] = NotSetting]
    /\ UNCHANGED <<field, redis, session, socket, known, setting, missed, sets, refusals, outages>>

\* A write fails or the node dies: the value stays and nobody is told.
SetFails(t) ==
    /\ refusals < MaxRefusals /\ refusals' = refusals + 1
    /\ t \in Busy
    /\ missed' = (missed \/ (known /\ setter[t].pc = "publish"))
    /\ setter' = [setter EXCEPT ![t] = NotSetting]
    /\ UNCHANGED <<field, redis, events, session, socket, known, setting, sets, outages>>

\* Pub/sub: to the session, if it is there; _pushConvMeta may have read an older value.
DeliverSetting ==
    /\ events # << >> /\ events' = Tail(events)
    /\ IF session = None
       THEN missed' = (missed \/ known) /\ UNCHANGED socket
       ELSE /\ socket' = Append(socket, Head(events))
            /\ missed' = (missed \/ (session.state = "read" /\ session.value # Head(events)))
    /\ UNCHANGED <<field, redis, setter, session, known, setting, sets, refusals, outages>>

\* _onHello: a conversation the client has not named is described at the end.
Hello ==
    /\ session = None
    /\ session' = Filed(IF known THEN "through" ELSE "new", 0)
    /\ known' = TRUE
    \* A new client is told no timer, and may hear the older of two requests last.
    /\ missed' = (missed \/ (~known /\ (\/ field = "timer" /\ redis # 0
                                       \/ Cardinality(Busy) > 1 \/ Coming \ {redis} # {})))
    /\ UNCHANGED <<field, redis, setter, events, socket, setting, sets, refusals, outages>>

\* Mutant of Describe: the subject that was read before is sent.
DescribeNothing ==
    /\ session.state = "read" /\ session' = Filed("through", 0)
    /\ UNCHANGED <<field, redis, setter, events, socket, known, setting, missed, sets, refusals, outages>>

\* _pushConvMeta reads the subject ..
Read ==
    /\ session.state = "new" /\ session' = Filed("read", redis)
    /\ UNCHANGED <<field, redis, setter, events, socket, known, setting, missed, sets, refusals, outages>>

\* .. and sends it, if there is one.
Describe ==
    /\ session.state = "read" /\ session' = Filed("through", 0)
    /\ socket' = IF field = "subject" /\ session.value # 0 THEN Append(socket, session.value) ELSE socket
    /\ UNCHANGED <<field, redis, setter, events, known, setting, missed, sets, refusals, outages>>

-----------------------------------------------------------------------------
(***************************************************************************)
(* The client                                                              *)
(***************************************************************************)

\* T.SUBJECT_SET, T.TIMER_SET
ShowSetting ==
    /\ socket # << >> /\ socket' = Tail(socket)
    /\ setting' = Head(socket)
    /\ UNCHANGED <<field, redis, setter, events, session, known, missed, sets, refusals, outages>>

\* The connection breaks; a page that keeps nothing on disk starts afresh.
Break(forget) ==
    /\ outages < MaxOutages /\ outages' = outages + 1
    /\ session # None \/ forget
    /\ session' = None /\ socket' = << >>
    /\ IF forget THEN known' = FALSE /\ setting' = 0 /\ missed' = FALSE
       ELSE /\ missed' = (missed \/ socket # << >> \/ session.state \in {"new", "read"})
            /\ UNCHANGED <<known, setting>>
    /\ UNCHANGED <<field, redis, setter, events, sets, refusals>>

-----------------------------------------------------------------------------
SettingNext ==
    \/ \E t \in Setters : BeginSet(t) \/ StoreSetting(t) \/ PublishSetting(t) \/ SetFails(t)
    \/ DeliverSetting \/ Hello \/ Read \/ Describe \/ ShowSetting
    \/ \E forget \in BOOLEAN : Break(forget)

SettingSpec == SettingInit /\ [][SettingNext]_settingVars

-----------------------------------------------------------------------------
(***************************************************************************)
(* Properties                                                              *)
(***************************************************************************)

\* Types of the variables.
SettingTypeOK ==
    /\ field \in {"subject", "timer"}
    /\ setter \in [Setters -> [pc : {"idle", "redis", "publish"}, value : 0..sets]]
    /\ {redis, setting} \subseteq 0..sets /\ {events, socket} \subseteq Seq(0..sets)
    /\ session \in [state : {"none", "new", "read", "through"}, value : 0..sets]
    /\ known \in BOOLEAN /\ missed \in BOOLEAN
    /\ sets \in 0..MaxSets /\ refusals \in 0..MaxRefusals /\ outages \in 0..MaxOutages

\* A connected client shows the setting that is stored when nothing is under way, unless it
\* was away, or a request failed, when the setting changed, two requests overlapped, or the
\* timer was set before it knew the conversation; a page that starts afresh makes good what
\* a subject missed (lib/subject/storage.js:8-15, gateway.js:143-155, SyncClient.js:504-520).
SettingsAgree ==
    /\ Busy = {} /\ events = << >> /\ socket = << >> /\ session.state = "through" /\ ~missed
    => setting = redis
=============================================================================
