------------------------------ MODULE MCFeatures ------------------------------
(***************************************************************************)
(* What is done to messages and conversations besides sending, for TLC:    *)
(* the feature slices (lib/pin, lib/viewonce, lib/poll, lib/disappearing,  *)
(* lib/portability, lib/subject, lib/convtimer) and edits, deletions and   *)
(* reactions (lib/core).  The dispatch table wires the features side by    *)
(* side (lib/index.js) and they share no state but the sequence counter,   *)
(* so a behaviour is about one of them, named by `scenario`; the others    *)
(* stay at their initial state.                                            *)
(***************************************************************************)
EXTENDS Pins, ViewOnce, Polls, Disappearing, Settings, Portability, Replica

VARIABLE scenario

featureVars == <<scenario, vars, viewOnceVars, pollVars, sweepVars, portabilityVars,
                 replicaVars,
                 settingVars>>

-----------------------------------------------------------------------------
(* Texts to import: a notice, a message of three lines with a blank one    *)
(* inside and one after it, and a header quoted inside a line; and omitted *)
(* and attached media, after a line that belongs to no message.  One of    *)
(* the texts that members send has a line that reads as a header.          *)

Strings == STRING
Line(words) == <<"[stamp]">> \o words
Talk == <<Line(<<"notice">>), Line(<<"ann", "hi">>), <<"">>, <<"more">>, <<"">>,
          Line(<<"zoe", "[stamp]", "ann", "hi">>)>>
Pictures == <<(<<"lost">>), Line(<<"zoe", "<Media omitted>">>),
              Line(<<"zoe", "IMG-1.jpg", "(file attached)">>), Line(<<"ann", "">>),
              <<"a", "b">>>>
Chats == {Talk, Pictures}
Plain == {<<(<<"yo">>), <<"">>, Line(<<"zoe", "no">>)>>}

-----------------------------------------------------------------------------

\* A feature that is not looked at starts in one way only.
FeaturesInit ==
    /\ scenario \in {"pins", "view once", "polls", "sweeps", "portability", "contents", "settings"}
    /\ Init /\ ViewOnceInit /\ PollsInit /\ SweepInit /\ PortabilityInit /\ ReplicaInit /\ SettingInit
    /\ scenario = "view once" \/ (cachedPayload /\ shows = [d \in Screens |-> "nothing"] /\ queued = {})
    /\ scenario = "polls" \/ (multi /\ online = [d \in Devices |-> TRUE])
    /\ scenario = "sweeps" \/ cache = [m \in Timed |-> Fresh]
    /\ scenario = "portability" \/ file = Talk
    /\ scenario = "settings" \/ field = "subject"

FeaturesNext ==
    /\ UNCHANGED scenario
    /\ \/ scenario = "pins" /\ Next
       \/ scenario # "pins" /\ UNCHANGED vars
    /\ \/ scenario = "view once" /\ ViewOnceNext
       \/ scenario # "view once" /\ UNCHANGED viewOnceVars
    /\ \/ scenario = "polls" /\ PollsNext
       \/ scenario # "polls" /\ UNCHANGED pollVars
    /\ \/ scenario = "sweeps" /\ SweepNext
       \/ scenario # "sweeps" /\ UNCHANGED sweepVars
    /\ \/ scenario = "portability" /\ PortabilityNext
       \/ scenario # "portability" /\ UNCHANGED portabilityVars
    /\ \/ scenario = "contents" /\ ReplicaNext
       \/ scenario # "contents" /\ UNCHANGED replicaVars
    /\ \/ scenario = "settings" /\ SettingNext
       \/ scenario # "settings" /\ UNCHANGED settingVars

FeaturesSpec == FeaturesInit /\ [][FeaturesNext]_featureVars

-----------------------------------------------------------------------------
(* What each feature promises stands in its module.                        *)

\* The types of the feature that is looked at.
FeaturesTypeOK ==
    CASE scenario = "pins" -> TypeOK
      [] scenario = "view once" -> ViewOnceTypeOK
      [] scenario = "polls" -> PollsTypeOK
      [] scenario = "sweeps" -> SweepTypeOK
      [] scenario = "portability" -> PortabilityTypeOK
      [] scenario = "contents" -> ReplicaTypeOK
      [] scenario = "settings" -> SettingTypeOK

=============================================================================
