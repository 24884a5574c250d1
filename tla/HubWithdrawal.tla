--------------------------- MODULE HubWithdrawal ---------------------------
(***************************************************************************)
(* The operator's withdrawal of one output of an automatically reviewed    *)
(* synthesis (undo_automatic_output).  The intent is saved before the      *)
(* Store is touched and the receipt after it; between the two the Page is  *)
(* read and changed by calls of their own, other clients go on editing,    *)
(* archiving and deleting it, and the Runtime may die.  The hub's file is  *)
(* locked for the whole call, so there is one withdrawal at a time.        *)
(***************************************************************************)
EXTENDS Integers, Sequences, FiniteSets

CONSTANTS
  Outputs,      \* the outputs of the synthesis, each with a Page of its own
  Kind,         \* [Outputs -> {"create", "update", "represented"}]
  Operators,    \* the principals that may withdraw
  MaxRevisions, \* bound: Revisions of a Page
  MaxTurns,     \* bound: changes of a Page's lifecycle by others
  MaxFalls      \* bound: deaths of the Runtime

Makers == {"before", "auto", "other", "undo", "tombstone"}
Statuses == {"active", "archived", "tombstoned"}
NoWithdrawal == [step |-> "idle"]

VARIABLES
  outputs,   \* [Outputs -> the status and the Revisions, each by its maker]
  undoKeys,  \* the idempotency keys the Store holds: <<operator, output>>
  receipts,  \* [Outputs -> what the group records of the withdrawal]
  recorded,  \* is the promoted group still in the hub
  hand,      \* the withdrawal being carried out
  turns, falls

withdrawalVars == <<outputs, undoKeys, receipts, recorded, hand, turns, falls>>

Written(o) == IF Kind[o] = "update" THEN 2 ELSE 1    \* the automatic Revision
Latest(o) == Len(outputs[o].revs)

Revise(o, maker, status) == [outputs EXCEPT ![o] = [status |-> status, revs |-> Append(@.revs, maker)]]

(* The operator names the output; a receipt that is final is the answer.   *)
(* The intent is saved once, with the time of the first request.           *)
Withdraw(o, operator) ==
  /\ hand = NoWithdrawal /\ recorded
  /\ Kind[o] \in {"create", "update"} /\ receipts[o] \in {"none", "withdrawing"}
  /\ receipts' = [receipts EXCEPT ![o] = "withdrawing"]
  /\ hand' = [step |-> IF Kind[o] = "create" THEN "look" ELSE "restore", output |-> o, operator |-> operator]
  /\ UNCHANGED <<outputs, undoKeys, recorded, turns, falls>>

(* An output that wrote a new Page: its head must be the Revision that was *)
(* written.  One that is archived already needs no call.                   *)
LookAtPage ==
  /\ hand.step = "look"
  /\ LET o == hand.output
     IN IF Latest(o) # Written(o) THEN hand' = NoWithdrawal
        ELSE hand' = [hand EXCEPT !.step = IF outputs[o].status = "archived" THEN "receipt" ELSE "archive"]
  /\ UNCHANGED <<outputs, undoKeys, receipts, recorded, turns, falls>>

(* A fault: the head is not compared again when the Page is archived.      *)
ArchiveAnyhow ==
  /\ hand.step = "archive"
  /\ outputs' = [outputs EXCEPT ![hand.output].status = "archived"]
  /\ hand' = [hand EXCEPT !.step = "receipt"]
  /\ UNCHANGED <<undoKeys, receipts, recorded, turns, falls>>

ArchivePage ==
  /\ hand.step = "archive"
  /\ LET o == hand.output
     IN IF Latest(o) = Written(o) /\ outputs[o].status = "active"
          THEN /\ outputs' = [outputs EXCEPT ![o].status = "archived"]
               /\ hand' = [hand EXCEPT !.step = "receipt"]
          ELSE hand' = NoWithdrawal /\ UNCHANGED outputs
  /\ UNCHANGED <<undoKeys, receipts, recorded, turns, falls>>

(* An output that revised a Page: a new Revision with the content before.  *)
(* The Store first looks whether this operator's key has one, and answers  *)
(* with that; otherwise the head must be the automatic Revision.           *)
RestorePrevious ==
  /\ hand.step = "restore"
  /\ LET o == hand.output
         key == <<hand.operator, o>>
     IN \/ key \in undoKeys /\ hand' = [hand EXCEPT !.step = "receipt"] /\ UNCHANGED <<outputs, undoKeys>>
        \/ /\ key \notin undoKeys /\ Latest(o) = Written(o)
           /\ outputs' = Revise(o, "undo", "active")
           /\ undoKeys' = undoKeys \cup {key}
           /\ hand' = [hand EXCEPT !.step = "receipt"]
        \/ key \notin undoKeys /\ Latest(o) # Written(o) /\ hand' = NoWithdrawal /\ UNCHANGED <<outputs, undoKeys>>
  /\ UNCHANGED <<receipts, recorded, turns, falls>>

SaveReceipt ==
  /\ hand.step = "receipt"
  /\ receipts' = [receipts EXCEPT ![hand.output] = IF Kind[hand.output] = "create" THEN "archived" ELSE "restored"]
  /\ hand' = NoWithdrawal
  /\ UNCHANGED <<outputs, undoKeys, recorded, turns, falls>>

RuntimeDies ==
  /\ hand # NoWithdrawal /\ falls < MaxFalls
  /\ falls' = falls + 1
  /\ hand' = NoWithdrawal
  /\ UNCHANGED <<outputs, undoKeys, receipts, recorded, turns>>

(* prune drops the promoted group a month after its review.                *)
Forget ==
  /\ recorded /\ hand = NoWithdrawal
  /\ recorded' = FALSE
  /\ UNCHANGED <<outputs, undoKeys, receipts, hand, turns, falls>>

(* What the other clients of the Store do with the Page: a revision makes  *)
(* it active, whatever it was.                                             *)
Edit(o) ==
  /\ Latest(o) < MaxRevisions
  /\ outputs' = Revise(o, "other", "active")
  /\ UNCHANGED <<undoKeys, receipts, recorded, hand, turns, falls>>

DeleteOutput(o) ==
  /\ Latest(o) < MaxRevisions /\ outputs[o].status # "tombstoned"
  /\ outputs' = Revise(o, "tombstone", "tombstoned")
  /\ UNCHANGED <<undoKeys, receipts, recorded, hand, turns, falls>>

Govern(o) ==
  /\ turns < MaxTurns /\ outputs[o].status # "tombstoned"
  /\ turns' = turns + 1
  /\ outputs' = [outputs EXCEPT ![o].status = IF @ = "active" THEN "archived" ELSE "active"]
  /\ UNCHANGED <<undoKeys, receipts, recorded, hand, falls>>

WithdrawalInit ==
  /\ outputs = [o \in Outputs |->
       [status |-> "active", revs |-> IF Kind[o] = "update" THEN <<"before", "auto">> ELSE <<"auto">>]]
  /\ undoKeys = {} /\ receipts = [o \in Outputs |-> "none"]
  /\ recorded = TRUE /\ hand = NoWithdrawal /\ turns = 0 /\ falls = 0

WithdrawalNext ==
  \/ \E o \in Outputs, operator \in Operators : Withdraw(o, operator)
  \/ LookAtPage
  \/ ArchivePage
  \/ RestorePrevious
  \/ SaveReceipt
  \/ RuntimeDies
  \/ Forget
  \/ \E o \in Outputs : Edit(o)
  \/ \E o \in Outputs : DeleteOutput(o)
  \/ \E o \in Outputs : Govern(o)

WithdrawalSpec == WithdrawalInit /\ [][WithdrawalNext]_withdrawalVars

(* A started withdrawal is carried on, and an operator who sees one that   *)
(* is unfinished asks for it again: the Console shows it as withdrawing.   *)
WithdrawalFairness ==
  /\ WF_withdrawalVars(LookAtPage) /\ WF_withdrawalVars(ArchivePage)
  /\ WF_withdrawalVars(RestorePrevious) /\ WF_withdrawalVars(SaveReceipt)
  /\ \A o \in Outputs, operator \in Operators :
       SF_withdrawalVars(Withdraw(o, operator) /\ receipts[o] = "withdrawing")

----------------------------------------------------------------------------
(* The receipts are those of the outputs' kinds, a represented output has  *)
(* none, and a Page carries at most one Revision the withdrawal made.      *)
WithdrawalTypeOK ==
  /\ outputs \in [Outputs -> [status : Statuses, revs : Seq(Makers)]]
  /\ undoKeys \subseteq Operators \X {o \in Outputs : Kind[o] = "update"}
  /\ \A o \in Outputs :
       /\ receipts[o] \in {"none"} \cup (IF Kind[o] = "create" THEN {"withdrawing", "archived"}
                                         ELSE IF Kind[o] = "update" THEN {"withdrawing", "restored"} ELSE {})
       /\ Cardinality({n \in DOMAIN outputs[o].revs : outputs[o].revs[n] = "undo"}) <= 1
       /\ receipts[o] = "restored" => \E n \in DOMAIN outputs[o].revs : outputs[o].revs[n] = "undo"

(* Later edits conflict: a withdrawal changes a Page only while its head   *)
(* is the Revision the automatic review wrote, whatever the others did     *)
(* between the look and the change, or between a death and the retry.      *)
LaterEditsStand ==
  [][\A o \in Outputs :
       hand # NoWithdrawal /\ hand.output = o /\ hand.step \in {"archive", "restore"} /\ hand'.step = "receipt" /\ outputs'[o] # outputs[o]
         => outputs[o].revs[Latest(o)] = "auto"]_withdrawalVars

(* A restored Page gets its receipt: once the Revision with the previous   *)
(* content is there, the retries of the operator who asked for it come     *)
(* to the end, whatever has been done to the Page since.  This is what the *)
(* key is for; without it the retry conflicts with its own Revision.       *)
RestoredIsRecorded ==
  \A o \in Outputs :
    (\E n \in DOMAIN outputs[o].revs : outputs[o].revs[n] = "undo") ~> (receipts[o] = "restored" \/ ~recorded)
============================================================================
