------------------------------ MODULE MCDelivery ------------------------------
(***************************************************************************)
(* What one gateway delivers, for TLC: whom it sends to (GatewaySessions), *)
(* what one socket may cost it (Throttle), and how the messages reach a    *)
(* client that comes and goes (Reconnect).  A behaviour is about the one   *)
(* that `scenario` names.                                                  *)
(***************************************************************************)
EXTENDS GatewaySessions, Throttle, Reconnect, TLC

CONSTANTS u1, s1, s2, w1, w2

\* Two devices of one user.
TwoDevices == [s \in Sessions |-> u1]

TwoWriters == {w1, w2}

SameDevicesAndWriters == Permutations(Sessions) \cup Permutations(TwoWriters)

VARIABLE scenario

deliveryVars == <<scenario, vars, rateVars, reconnectVars>>

-----------------------------------------------------------------------------

DeliveryInit ==
    /\ scenario \in {"sessions", "throttle", "reconnect"}
    /\ Init /\ RateInit /\ ReconnectInit

DeliveryNext ==
    /\ UNCHANGED scenario
    /\ \/ scenario = "sessions" /\ Next /\ UNCHANGED <<rateVars, reconnectVars>>
       \/ scenario = "throttle" /\ RateNext /\ UNCHANGED <<vars, reconnectVars>>
       \/ scenario = "reconnect" /\ ReconnectNext /\ UNCHANGED <<vars, rateVars>>

DeliverySpec == DeliveryInit /\ [][DeliveryNext]_deliveryVars

-----------------------------------------------------------------------------
(* The properties; what each says stands in its module, as it does for     *)
(* IndexedHearBroadcasts, MembersAreIndexed, LoadIsBounded and             *)
(* NoGapWhileConnected.                                                    *)

\* The types of the module that is looked at.
DeliveryTypeOK ==
    CASE scenario = "sessions" -> TypeOK
      [] scenario = "throttle" -> RateTypeOK
      [] scenario = "reconnect" -> ReconnectTypeOK

=============================================================================
