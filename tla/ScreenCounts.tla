---------------------------- MODULE ScreenCounts ----------------------------
(***************************************************************************)
(* ScreenSelection beside another component.                               *)
(***************************************************************************)
CONSTANTS Epochs, Banks, Seeds, Gpus, Outcomes, Allowed, Losses, NaN, Absent

VARIABLES published, losses, episode, epochReceipt, summary, selection, heldout,
          mode, wanted, queue, rows

screenVars == <<published, losses, episode, epochReceipt, summary, selection, heldout,
                mode, wanted, queue, rows>>

Screen == INSTANCE ScreenSelection

ASSUME ScreenConfigured == Screen!Configured

(* The selected epoch is the one the frozen rule names, whichever          *)
(* invocation, queue or thread ran its episodes, and every count is that   *)
(* of the episodes: one released baseline for all candidates, the net gain *)
(* is the difference of the successes, the banks add up, and an epoch      *)
(* screened early counts the same at the end.                              *)
RuleFollowed ==
  /\ Screen!TypeOK /\ Screen!SelectedByRule /\ Screen!OneBaseline /\ Screen!NetGain
  /\ Screen!ReceiptHolds /\ Screen!HeldoutOfSelected /\ Screen!BanksAddUp

(* A selection, once made, is the same after every later screening.        *)
SelectionKept == [][Screen!SelectionStable]_screenVars
=============================================================================
