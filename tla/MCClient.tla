------------------------------- MODULE MCClient -------------------------------
(***************************************************************************)
(* The browser's copy of one conversation for TLC: what is shown and       *)
(* queued (ClientStore), its row in the list of conversations (ConvList),  *)
(* how older messages are obtained (History), what is kept on disk         *)
(* (Persistence).  Each module looks at the same structures at a different *)
(* depth, so they are not run against each other: a behaviour is about one *)
(* of them, with the parameters that `scenario` names, and the state of    *)
(* the others does not change.                                             *)
(***************************************************************************)
EXTENDS Persistence, History, ClientStore, ConvList

VARIABLE scenario

clientVars == <<scenario, storeVars, historyVars, diskVars, rowVars>>

-----------------------------------------------------------------------------
(* Two texts, one with a timer, in a pane that is open (the constants of    *)
(* ClientStore, from the cfg); or a text, an attachment and a message of   *)
(* the other member.  A queue of two, one reload.                          *)

Shows == INSTANCE ClientStore WITH
    Texts <- {"a"}, Attachments <- {"d"}, Theirs <- {"c"}, Expirable <- {}, InView <- FALSE

(* Pages of two, a replay of at most two; six numbers and a cache of three *)
(* messages (the constants of History, from the cfg), or five numbers, a   *)
(* cache that holds them all, two reloads and two scrolls.                 *)

Scrolls == INSTANCE History WITH
    CacheMax <- 7, MaxNumber <- 5, MaxDrops <- 0, MaxReloads <- 2, MaxScrolls <- 2

ASSUME ClientAssumption ==
    /\ Shows!StoreParametersOK
    /\ Scrolls!HistoryParametersOK

-----------------------------------------------------------------------------

\* What is not looked at starts in one way only.
ClientInit ==
    /\ scenario \in {"shows", "queues", "backfills", "scrolls", "disk", "rows"}
    /\ IF scenario = "shows" THEN Shows!StoreInit ELSE StoreInit
    /\ HistoryInit
    /\ RowInit
    /\ DiskInit
    /\ scenario = "disk" \/ (encrypts /\ version = 5 /\ posted = 0)

ClientNext ==
    /\ UNCHANGED scenario
    /\ \/ scenario = "shows" /\ Shows!StoreNext /\ UNCHANGED <<historyVars, diskVars, rowVars>>
       \/ scenario = "queues" /\ StoreNext /\ UNCHANGED <<historyVars, diskVars, rowVars>>
       \/ scenario = "backfills" /\ HistoryNext /\ UNCHANGED <<storeVars, diskVars, rowVars>>
       \/ scenario = "scrolls" /\ Scrolls!HistoryNext /\ UNCHANGED <<storeVars, diskVars, rowVars>>
       \/ scenario = "disk" /\ DiskNext /\ UNCHANGED <<storeVars, historyVars, rowVars>>
       \/ scenario = "rows" /\ RowNext /\ UNCHANGED <<storeVars, historyVars, diskVars>>

ClientSpec == ClientInit /\ [][ClientNext]_clientVars

-----------------------------------------------------------------------------
(* The properties; what each says stands in its module, as it does for     *)
(* StoreConsistent, UnackedIsQueued, NoHole, StoredIsCurrent,              *)
(* RowIsCurrent, RecentBackfilled and ScrollSeesWindow.                    *)

\* The types of the module that is looked at.
ClientTypeOK ==
    CASE scenario = "shows" -> Shows!StoreTypeOK
      [] scenario = "queues" -> StoreTypeOK
      [] scenario = "backfills" -> HistoryTypeOK
      [] scenario = "scrolls" -> Scrolls!HistoryTypeOK
      [] scenario = "disk" -> DiskTypeOK
      [] scenario = "rows" -> RowTypeOK

=============================================================================
