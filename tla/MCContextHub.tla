---------------------------- MODULE MCContextHub ----------------------------
(* Two hubs in one run: the first state chooses between two candidates and  *)
(* the plan of one draft, in a Store that tenants write to once both are in,*)
(* and one candidate that comes into two drafts while the operator decides  *)
(* about it.  No definition names a candidate.  The operator sends what an  *)
(* automatic review saved or edits it; in the second hub it is edited.      *)
EXTENDS ContextHub, TLC

VARIABLES
  scene,
  unsaved   \* the groups a plan of which was cut short while they were pending

Second == INSTANCE ContextHub WITH
  Memories <- 0, Actions <- {"create"}, Verdicts <- {"approve"},
  Decisions <- {"promoted", "represented", "rejected", "deferred"},
  MaxOutputs <- 2, MaxGroups <- 2, MaxDeferred <- 1, MaxStopped <- 1, MaxChanges <- 0

SceneInit == /\ unsaved = {}
             /\ \/ scene = "plans" /\ Init
                \/ scene = "drafts" /\ Second!Init

Submitted == {c \in Evidence : hub.candidates[c].status # "absent"}

InPlans == scene = "plans" /\ UNCHANGED <<scene, unsaved>>
InDrafts == scene = "drafts" /\ UNCHANGED <<scene, unsaved>>

\* Tenants rewrite the Page they have: no draft is about another.
Rewritten == PageOf(Len(revs))' # Len(revs')

(* The operator edits the draft, or sends on what a review saved.           *)
Sent(i) == {wording \in Wordings : wording = "drafted" => hub.groups[i].plan # NoPlan}

(* What the operator sends is a retry when an automatic review saved it     *)
(* (synthesis_review.rs:84), also while the group is pending: its start is  *)
(* then not saved, and nobody knows of it when the operation ends early.    *)
CutShort(in) ==
    /\ scene = in /\ UNCHANGED scene
    /\ unsaved' = IF op.at \in {"write", "record"} /\ hub.groups[op.group].status = "pending"
                  THEN unsaved \cup {op.group} ELSE unsaved

SceneNext ==
    \/ InPlans /\ \E c \in Evidence : Submit(c)
    \/ InPlans /\ Inspect
    \/ InPlans /\ OrganizeCandidates
    \/ InPlans /\ \E i \in DOMAIN hub.groups : StopSynthesis(i)
    \/ InPlans /\ \E i \in DOMAIN hub.groups : \E wording \in Sent(i) :
          \E outputs \in SeqOf(Range(hub.groups[i].outputs), MaxOutputs) :
             ReviewSynthesis(i, [version |-> hub.groups[i].version, outputs |-> outputs, wording |-> wording])
    \/ InPlans /\ \E i \in GroupsIn(hub, "promoting") : ReviewSynthesis(i, hub.groups[i].plan)
    \/ InPlans /\ WriteOutput
    \/ InPlans /\ RecordOutput
    \/ InPlans /\ CompletePlan
    \/ CutShort("plans") /\ WriteFails
    \/ InPlans /\ SettleAppliedPlan
    \/ InPlans /\ BeginCycle
    \/ InPlans /\ SkipCandidateReview
    \/ InPlans /\ ReadInventory
    \/ InPlans /\ EndCycle
    \/ InPlans /\ CycleFails
    \/ InPlans /\ ResumeAutomaticWrite
    \/ InPlans /\ PrepareAutomaticReview
    \/ InPlans /\ FinishAutomaticReview
    \/ InPlans /\ PrepareOrganization
    \/ InPlans /\ FinishOrganization
    \/ InPlans /\ OrganizationFailed
    \/ InPlans /\ RefuseOrganization
    \/ InPlans /\ OrganizationRejected
    \/ InPlans /\ Submitted = Evidence /\ TenantWrites /\ Rewritten
    \/ InPlans /\ Submitted = Evidence /\ TenantArchives
    \/ CutShort("plans") /\ Crash
    \/ InDrafts /\ \E c \in Evidence : Submitted \subseteq {c} /\ Second!Submit(c)
    \/ InDrafts /\ Second!Inspect
    \/ InDrafts /\ Second!OrganizeCandidates
    \/ InDrafts /\ \E i \in DOMAIN hub.groups :
          \E outputs \in SeqOf(Range(hub.groups[i].outputs), 2) :
             Second!ReviewSynthesis(i, [version |-> hub.groups[i].version, outputs |-> outputs, wording |-> "edited"])
    \/ InDrafts /\ \E i \in GroupsIn(hub, "promoting") : Second!ReviewSynthesis(i, hub.groups[i].plan)
    \/ InDrafts /\ Second!Promote(Submitted)
    \/ InDrafts /\ \E action \in {"represented", "rejected", "deferred"} : Second!Review(Submitted, action)
    \/ InDrafts /\ Second!WriteOutput
    \/ InDrafts /\ Second!RecordOutput
    \/ InDrafts /\ Second!CompletePlan
    \/ CutShort("drafts") /\ Second!WriteFails
    \/ InDrafts /\ Second!IngestReviewed
    \/ InDrafts /\ Second!CompletePromotion
    \/ InDrafts /\ Second!PromotionFails
    \/ InDrafts /\ Second!SettleAppliedPlan
    \/ InDrafts /\ Second!CycleSteps
    \/ CutShort("drafts") /\ Second!Crash

SceneSpec == SceneInit /\ [][SceneNext]_<<vars, scene, unsaved>>

\* What a plan is answerable for, from its start to its last receipt: nothing else is
\* written for its synthesis, the receipts are those of its own writes, and what counts
\* as promoted was written. Left out are the syntheses where a plan was cut short whose
\* start had not been saved: there the code does not keep it (README, section 6).
PlansAreKept ==
    LET saved == DOMAIN hub.groups \ unsaved
    IN  OnePlanPerSynthesis(saved) /\ PromotedIsWritten(saved)

EvidenceSymmetry == Permutations(Evidence)
=============================================================================
