---------------------------- MODULE MCConversation ----------------------------
(***************************************************************************)
(* The receipts of a group (Receipts) and the membership of a conversation *)
(* (Membership) for TLC, each with two scenarios.  The members do not      *)
(* change while receipts are looked at and nobody sends receipts while the *)
(* members change, so a behaviour is about one of them, as `scenario` says. *)
(***************************************************************************)
EXTENDS Membership, Receipts

VARIABLE scenario

conversationVars == <<scenario, receiptVars, vars>>

-----------------------------------------------------------------------------
(* A group of three.  Two gateways and four devices, two of them of one    *)
(* member and one of a user who is no longer a member.  When a gateway     *)
(* dies, once, the receipts are those of two devices on one gateway.       *)

Group == {"alice", "bob", "carol"}
Everyone == Group \cup {"dave"}
Phones == {"b1", "b2", "c1", "d1"}
Holder == [d \in Phones |-> CASE d \in {"b1", "b2"} -> "bob" [] d = "c1" -> "carol" [] d = "d1" -> "dave"]
Socket == [d \in Phones |-> IF d = "b1" THEN "g1" ELSE "g2"]
Numbers == {1, 2}
Sent == {1}

(* Two users and two requests at a time on two gateways: both parties      *)
(* create their DM, several times (the constants of Membership, from the   *)
(* cfg); or all operations of a group of one of them, and a crash.         *)

Pair == {"ann", "bob"}
Two == {"g1", "g2"}
Slots == {"t1", "t2"}
Homes == [t \in Slots |-> IF t = "t1" THEN "g1" ELSE "g2"]
Creations == {[op |-> "create", actor |-> "ann", target |-> "bob"],
              [op |-> "create", actor |-> "bob", target |-> "ann"]}

Groups == INSTANCE Membership WITH
    Founders <- {"ann"}, Requests <- [op : GroupOps, actor : Pair, target : Pair],
    MaxOps <- 3, MaxCrashes <- 1

ASSUME ConversationAssumption == Groups!ParametersOK

-----------------------------------------------------------------------------

ConversationInit ==
    /\ scenario \in {"receipts", "receipts, a crash", "group", "direct"}
    /\ ReceiptsInit
    /\ IF scenario = "direct" THEN Init ELSE Groups!Init

ConversationNext ==
    /\ UNCHANGED scenario
    /\ \/ scenario = "receipts" /\ ReceiptsNext /\ deaths' = 0 /\ UNCHANGED vars
       \/ /\ scenario = "receipts, a crash" /\ ReceiptsNext /\ UNCHANGED vars
          /\ \A d \in Phones \ {"b2", "c1"} : UNCHANGED handler[d]
       \/ scenario = "group" /\ Groups!Next /\ UNCHANGED receiptVars
       \/ scenario = "direct" /\ Next /\ UNCHANGED receiptVars

ConversationSpec == ConversationInit /\ [][ConversationNext]_conversationVars

-----------------------------------------------------------------------------
(* The properties; what each says stands in its module, as it does for     *)
(* TicksAreEarned, ReceiptsKept, CleanUsersAgree, EventsTellMembers and    *)
(* CreatedIsComplete.                                                      *)

\* The types of both modules.
ConversationTypeOK == ReceiptsTypeOK /\ TypeOK

=============================================================================
