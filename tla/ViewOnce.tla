------------------------------- MODULE ViewOnce -------------------------------
(***************************************************************************)
(* ONE view-once message: ViewOnceStore.consume and its frames             *)
(* (lib/viewonce), what a replay sends afterwards, and what the devices    *)
(* show (SyncClient, VIEWED).  Requests interleave at their awaits; a node *)
(* can die between two of them.                                            *)
(***************************************************************************)
EXTENDS Integers, Sequences, FiniteSets

CONSTANTS
    Viewers,
    Views,         \* slots for requests in flight
    Screens,       \* the members' devices
    MaxCrashes     \* bound of the model

ASSUME ViewOnceAssumption == MaxCrashes \in Nat

VARIABLES
    payload,       \* Mongo: the payload is there
    cachedPayload, \* Redis: the cached document has the payload
    viewedBy,      \* Mongo: the array, in order
    views,         \* the requests in flight
    queued,         \* devices whose user's inbox has the frame of the SEND, payload and all
    hello,         \* per device: what its HELLO has read and not yet sent, or what comes next
    viewWire,      \* per device: frames on their way
    shows,         \* per device: "nothing", "content" or "erased"
    viewed,        \* history: who was answered with VIEWED
    unaware,       \* history: devices that were not there for the last VIEWED or heard it
                   \* with an older copy still to be sent to them, or that a HELLO gave the
                   \* payload, from the cache or the inbox, when Mongo had it no more
    crashes

viewOnceVars == <<payload, cachedPayload, viewedBy, views, queued, hello, viewWire, shows,
                  viewed,
                  unaware, crashes>>
storeVars == <<payload, cachedPayload, viewedBy>>

NoView == [pc |-> "idle", by |-> "none"]

\* The message has been sent and broadcast.  A device may have missed it; it is in the inbox
\* of a user who had no connection at all (each device stands for a user of its own); later
\* messages may have pushed it out of the cache.
ViewOnceInit ==
    /\ payload = TRUE /\ cachedPayload \in BOOLEAN /\ viewedBy = << >>
    /\ views = [t \in Views |-> NoView]
    /\ viewWire = [d \in Screens |-> << >>]
    /\ shows \in [Screens -> {"nothing", "content"}]
    /\ queued \in SUBSET {d \in Screens : shows[d] = "nothing"}
    /\ hello = [d \in Screens |-> "idle"]
    /\ viewed = {} /\ unaware = {} /\ crashes = 0

Entered == {viewedBy[i] : i \in DOMAIN viewedBy}

-----------------------------------------------------------------------------
\* VIEW_ONCE of a user who has the message on some device.
View(t, u) ==
    /\ views[t].pc = "idle"
    /\ views' = [views EXCEPT ![t] = [pc |-> "find", by |-> u]]
    /\ UNCHANGED <<storeVars, queued, hello, viewWire, shows, viewed, unaware, crashes>>

\* Mutant of Find: the payload is unset before the viewer is entered.
FindUnsetFirst(t) ==
    /\ views[t].pc = "find"
    /\ views' = [views EXCEPT ![t] = IF views[t].by \in Entered THEN NoView ELSE [@ EXCEPT !.pc = "unset"]]
    /\ UNCHANGED <<storeVars, queued, hello, viewWire, shows, viewed, unaware, crashes>>

\* findOne, the check for `already`; the number is drawn.
Find(t) ==
    /\ views[t].pc = "find"
    /\ views' = [views EXCEPT ![t] = IF views[t].by \in Entered THEN NoView ELSE [@ EXCEPT !.pc = "push"]]
    /\ UNCHANGED <<storeVars, queued, hello, viewWire, shows, viewed, unaware, crashes>>

\* Mutant of Push: VIEWED goes out before the payload is unset.
PushAndTell(t) ==
    /\ views[t].pc = "push"
    /\ viewedBy' = Append(viewedBy, views[t].by)
    /\ views' = [views EXCEPT ![t].pc = "publish"]
    /\ UNCHANGED <<payload, cachedPayload, queued, hello, viewWire, shows, viewed, unaware,
                   crashes>>

\* $push: { viewedBy: userId }
Push(t) ==
    /\ views[t].pc = "push"
    /\ viewedBy' = Append(viewedBy, views[t].by)
    /\ views' = [views EXCEPT ![t].pc = "unset"]
    /\ UNCHANGED <<payload, cachedPayload, queued, hello, viewWire, shows, viewed, unaware,
                   crashes>>

\* $unset: { payload: '' }; the cached document is left as it is.
Unset(t) ==
    /\ views[t].pc = "unset"
    /\ payload' = FALSE
    /\ views' = [views EXCEPT ![t].pc = "publish"]
    /\ UNCHANGED <<cachedPayload, viewedBy, queued, hello, viewWire, shows, viewed, unaware,
                   crashes>>

\* VIEWED to all members, on the sockets of this moment; it is not queued for anyone.
TellViewed(t) ==
    /\ views[t].pc = "publish"
    /\ \E connected \in SUBSET Screens :
          /\ viewWire' = [d \in Screens |->
                IF d \in connected THEN Append(viewWire[d], "viewed") ELSE viewWire[d]]
          /\ unaware' = (Screens \ connected) \cup {d \in Screens : hello[d] = "content"}
    /\ viewed' = viewed \cup {views[t].by}
    /\ views' = [views EXCEPT ![t] = NoView]
    /\ UNCHANGED <<storeVars, queued, hello, shows, crashes>>

\* HELLO: the replay reads the message, from the cache while it is there, with what it has.
HelloReads(d) ==
    /\ hello[d] = "idle" /\ viewWire[d] = << >>
    /\ hello' = [hello EXCEPT ![d] = IF shows[d] # "nothing" THEN "nothing"
                                    ELSE IF cachedPayload \/ payload THEN "content" ELSE "erased"]
    /\ unaware' = IF shows[d] # "nothing" THEN unaware
                  ELSE IF cachedPayload /\ ~payload THEN unaware \cup {d} ELSE unaware \ {d}
    /\ UNCHANGED <<storeVars, views, queued, viewWire, shows, viewed, crashes>>

\* It sends what it has read: a VIEWED may have gone out in between.
HelloSends(d) ==
    /\ hello[d] \in {"nothing", "content", "erased"}
    /\ hello' = [hello EXCEPT ![d] = "drain"]
    /\ viewWire' = IF hello[d] = "nothing" THEN viewWire
                   ELSE [viewWire EXCEPT ![d] = Append(@, hello[d])]
    /\ UNCHANGED <<storeVars, views, queued, shows, viewed, unaware, crashes>>

\* drainInbox sends the frame of the SEND as it was.
DrainInbox(d) ==
    /\ hello[d] = "drain"
    /\ hello' = [hello EXCEPT ![d] = IF d \in queued THEN "trim" ELSE "idle"]
    /\ viewWire' = IF d \in queued THEN [viewWire EXCEPT ![d] = Append(@, "content")] ELSE viewWire
    /\ unaware' = IF d \in queued /\ viewed # {} THEN unaware \cup {d} ELSE unaware
    /\ UNCHANGED <<storeVars, views, queued, shows, viewed, crashes>>

TrimInbox(d) ==
    /\ hello[d] = "trim"
    /\ hello' = [hello EXCEPT ![d] = "idle"]
    /\ queued' = queued \ {d}
    /\ UNCHANGED <<storeVars, views, viewWire, shows, viewed, unaware, crashes>>

\* Later messages push the document out of the cache.
Evict ==
    /\ cachedPayload
    /\ cachedPayload' = FALSE
    /\ UNCHANGED <<payload, viewedBy, views, queued, hello, viewWire, shows, viewed, unaware,
                   crashes>>

\* Mutant of ScreenReceives: VIEWED leaves what is shown.
ScreenKeeps(d) ==
    /\ viewWire[d] # << >>
    /\ viewWire' = [viewWire EXCEPT ![d] = Tail(@)]
    /\ shows' = [shows EXCEPT ![d] = IF Head(viewWire[d]) = "viewed" THEN @ ELSE Head(viewWire[d])]
    /\ UNCHANGED <<storeVars, views, queued, hello, viewed, unaware, crashes>>

\* MSG is inserted; VIEWED erases the content of a message that is there.
ScreenReceives(d) ==
    /\ viewWire[d] # << >>
    /\ viewWire' = [viewWire EXCEPT ![d] = Tail(@)]
    /\ shows' = [shows EXCEPT ![d] =
          IF Head(viewWire[d]) # "viewed" THEN Head(viewWire[d])
          ELSE IF @ = "content" THEN "erased" ELSE @]
    /\ UNCHANGED <<storeVars, views, queued, hello, viewed, unaware, crashes>>

ViewDies ==
    /\ crashes < MaxCrashes
    /\ crashes' = crashes + 1
    /\ views' = [t \in Views |-> NoView]
    /\ hello' = [d \in Screens |-> "idle"]
    /\ UNCHANGED <<storeVars, queued, viewWire, shows, viewed, unaware>>

Consume(t) == Find(t) \/ Push(t) \/ Unset(t) \/ TellViewed(t)

ComesBack(d) == HelloReads(d) \/ HelloSends(d) \/ DrainInbox(d) \/ TrimInbox(d)

ViewOnceNext ==
    \/ \E t \in Views : Consume(t) \/ \E u \in Viewers : View(t, u)
    \/ \E d \in Screens : ComesBack(d) \/ ScreenReceives(d)
    \/ Evict \/ ViewDies

ViewOnceSpec == ViewOnceInit /\ [][ViewOnceNext]_viewOnceVars

-----------------------------------------------------------------------------
(***************************************************************************)
(* Properties                                                              *)
(***************************************************************************)

ViewsAreOver ==
    /\ \A t \in Views : views[t].pc = "idle"
    /\ \A d \in Screens : hello[d] = "idle" /\ viewWire[d] = << >>

Steps == {"idle", "find", "push", "unset", "publish"}

\* Types; only who has been entered as a viewer is past the $push.
ViewOnceTypeOK ==
    /\ payload \in BOOLEAN /\ cachedPayload \in BOOLEAN
    /\ viewedBy \in Seq(Viewers) /\ viewed \subseteq Entered /\ unaware \subseteq Screens
    /\ views \in [Views -> [pc : Steps, by : Viewers \cup {"none"}]]
    /\ \A t \in Views : /\ views[t].pc # "idle" => views[t].by \in Viewers
                        /\ views[t].pc \in {"unset", "publish"} => views[t].by \in Entered
    /\ queued \subseteq Screens
    /\ hello \in [Screens -> {"idle", "nothing", "content", "erased", "drain", "trim"}]
    /\ viewWire \in [Screens -> Seq({"viewed", "content", "erased"})]
    /\ shows \in [Screens -> {"nothing", "content", "erased"}]
    /\ crashes \in 0..MaxCrashes

\* By the time anyone is told VIEWED the payload is out of Mongo for good, whatever
\* other viewers and crashes come between (lib/viewonce/storage.js:13-15).
ViewedIsPurged == viewed # {} => ~payload

\* SyncClient.js:492: "Erase content for everyone once at least one party has viewed": with
\* nothing on its way no device shows it, unless it was away for the last VIEWED, heard it
\* while an older copy was about to be replayed to it, or was given the payload afterwards,
\* from the cache or the inbox.
ErasedForEveryone ==
    ViewsAreOver /\ viewed # {} => \A d \in Screens \ unaware : shows[d] # "content"

\* Both: what was viewed is gone from Mongo and from the devices.
ViewedIsErased == ViewedIsPurged /\ ErasedForEveryone

\* PARITY-AUDIT.md:45-46: "exactly-once consumption; .. second view rejected".
ConsumedOnce == \A i, j \in DOMAIN viewedBy : viewedBy[i] = viewedBy[j] => i = j

=============================================================================
