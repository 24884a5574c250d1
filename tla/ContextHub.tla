----------------------------- MODULE ContextHub -----------------------------
(***************************************************************************)
(* The candidate inbox of the Runtime (crates/pcp-runtime/src/context_hub):*)
(* hosts submit evidence; the maintenance cycle has a model organize it    *)
(* into syntheses, each with proposed outputs; an operator or a budgeted   *)
(* review approves outputs, and only then are Pages written.               *)
(*                                                                         *)
(* The hub is one file under a lock (persistence.rs).  An operation opens  *)
(* it, changes a copy in memory and saves the copy, some of them several   *)
(* times with Page writes between; the Page store commits on its own.      *)
(* `hub` is the file; `op` is the operation that holds the lock across     *)
(* steps, with its copy.  Model calls are made without the lock.           *)
(*                                                                         *)
(* One Scope; sufficient permissions; every window of time (quiet period,  *)
(* lease, snooze, retry delay) may have passed or not, and the operator's  *)
(* switch for automatic review may be on or off at each look at it.        *)
(***************************************************************************)
EXTENDS Integers, Sequences, FiniteSets, FiniteSetsExt, SequencesExt

CONSTANTS
    Evidence,          \* the candidates that hosts may submit
    Memories,          \* revisable Pages that exist at first
    Actions,           \* what the organizer may propose of create, update, represented
    Verdicts,          \* the verdicts that the review may return
    Decisions,         \* what the operator may decide about candidates themselves
    MaxOutputs,        \* bound: outputs in one draft and in one plan
    MaxGroups,         \* bound: syntheses ever drafted
    MaxDeferred,       \* bound: the version up to which evidence is deferred
    MaxStopped,        \* bound: the version up to which evidence is released by a stop
    MaxChanges,        \* bound: Revisions written and Pages archived by tenants
    Wordings           \* bound: whether the operator's new plans are edited or as drafted

ASSUME HubAssumption ==
    /\ IsFiniteSet(Evidence)
    /\ Actions \subseteq {"create", "update", "represented"}
    /\ Verdicts \subseteq {"approve", "accumulating", "needs_input", "no_change"}
    /\ Decisions \subseteq {"promoted", "represented", "deferred", "rejected"}
    /\ {Memories, MaxOutputs, MaxGroups, MaxDeferred, MaxStopped, MaxChanges} \subseteq Nat
    /\ Wordings \subseteq {"drafted", "edited"}

VARIABLES
    hub,       \* the file: [candidates, groups]
    revs,      \* the Revisions of the store, in the order they were written
    archived,  \* the archived Pages
    op,        \* the operation that holds the lock over several steps
    cycle      \* the maintenance cycle

vars == <<hub, revs, archived, op, cycle>>

NoPlan == <<>>
NoKey == <<>>
NoInput == <<>>
NoTarget == 0

Unreviewed == [state |-> "none", authorized |-> FALSE, input |-> NoInput,
               decisions |-> <<>>, retain |-> {}]
Candidate == [version: Nat, organized: Nat, outputs: BOOLEAN,
              status: {"absent", "pending", "deferred", "promoting", "promoted",
                       "represented", "rejected"},
              result: {"none", "deferred", "promoted", "represented", "rejected",
                       "partially_represented", "interrupted", "no_change"}]

Idle == [at |-> "idle"]
Free == [at |-> "free"]
LockFree == op.at = "free"
Become(at) == cycle' = [cycle EXCEPT !.at = at]

-----------------------------------------------------------------------------
(* Plausible faults: what a definition below would be if the code forgot a  *)
(* condition or an update.                                                  *)

PartialStatus(h, i, automatic) ==
    [h EXCEPT !.candidates = [c \in Evidence |->
        IF \E k \in DOMAIN h.groups[i].plan.outputs :
               c \in h.groups[i].plan.outputs[k].evidence
        THEN [h.candidates[c] EXCEPT !.status = "partially_represented"]
        ELSE h.candidates[c]]]
GivenUp(h, i) == [h EXCEPT !.groups[i].status = "interrupted"]
AnyPlanResumes(g, plan) == g.status = "promoting" \/ g.plan = plan
VersionOnly(h, S) == \A c \in S : h.candidates[c].status # "absent"
AlwaysAttributed(g, plan, byReview) == byReview \/ g.auto.authorized

-----------------------------------------------------------------------------
(* The Page store, as the hub uses it *)

HeadOf(p) == Max({r \in DOMAIN revs : revs[r].page = p})
PageOf(r) == revs[r].page
Live(r) == r = HeadOf(PageOf(r)) /\ PageOf(r) \notin archived
Inventory == {r \in DOMAIN revs : Live(r)}

\* A keyed write of one principal has one result.
Earlier(actor, key) ==
    {r \in DOMAIN revs : revs[r].actor = actor /\ revs[r].key = key}
Revision(page, actor, key, evidence, automatic, sealed) ==
    [page |-> page, actor |-> actor, key |-> key, evidence |-> evidence,
     automatic |-> automatic, sealed |-> sealed]

\* ingest_page makes a sealed Page.
Ingest(actor, key, evidence, automatic, r) ==
    IF Earlier(actor, key) # {}
    THEN r = Min(Earlier(actor, key)) /\ UNCHANGED <<revs, archived>>
    ELSE /\ r = Len(revs) + 1
         /\ revs' = Append(revs, Revision(r, actor, key, evidence, automatic, TRUE))
         /\ UNCHANGED archived

\* revise_page asks for the head and makes the Page active.
Revise(actor, key, evidence, automatic, target, r) ==
    IF Earlier(actor, key) # {}
    THEN r = Min(Earlier(actor, key)) /\ UNCHANGED <<revs, archived>>
    ELSE /\ target = HeadOf(PageOf(target)) /\ ~revs[target].sealed
         /\ r = Len(revs) + 1
         /\ revs' = Append(revs, Revision(PageOf(target), actor, key, evidence,
                                          automatic, FALSE))
         /\ archived' = archived \ {PageOf(target)}

-----------------------------------------------------------------------------
(* The hub's state *)

Active(h, c) == h.candidates[c].status \in {"pending", "deferred"}
At(h, c, version) == h.candidates[c].version = version /\ Active(h, c)
Current(h, g) == \A c \in DOMAIN g.members : At(h, c, g.members[c])
GroupsIn(h, status) == {i \in DOMAIN h.groups : h.groups[i].status = status}
Covered(outputs) == UNION {outputs[k].evidence : k \in DOMAIN outputs}

OnCandidates(h, S, change(_)) ==
    [h EXCEPT !.candidates = [c \in Evidence |->
        IF c \in S THEN change(h.candidates[c]) ELSE h.candidates[c]]]
OnGroups(h, I, change(_)) ==
    [h EXCEPT !.groups = [i \in DOMAIN h.groups |->
        IF i \in I THEN change(h.groups[i]) ELSE h.groups[i]]]

InvalidateStale(h) ==
    OnGroups(h, {i \in GroupsIn(h, "pending") : ~Current(h, h.groups[i])},
             LAMBDA g : [g EXCEPT !.status = "superseded"])
Requeued(h, S) ==
    OnCandidates(h, {c \in S : Active(h, c)},
                 LAMBDA x : [x EXCEPT !.organized = 0])

\* An output of a plan: its own evidence and the Revision it is about.
OutputsFrom(members, offered, updateable) ==
    {o \in [action: Actions, evidence: (SUBSET members) \ {{}},
            target: offered \cup {NoTarget}] :
        CASE o.action = "create" -> o.target = NoTarget
          [] o.action = "update" -> o.target \in updateable
          [] o.action = "represented" -> o.target \in offered}

-----------------------------------------------------------------------------
(* Submission, inspection and the request to organize *)

Submit(c) ==
    /\ LockFree /\ hub.candidates[c].status = "absent"
    /\ hub' = [hub EXCEPT !.candidates[c] =
                  [@ EXCEPT !.status = "pending", !.version = 1]]
    /\ UNCHANGED <<revs, archived, op, cycle>>

Inspect ==
    /\ LockFree
    /\ hub' = InvalidateStale(hub)
    /\ UNCHANGED <<revs, archived, op, cycle>>

OrganizeCandidates ==
    /\ LockFree
    /\ hub' = Requeued(hub, Evidence)
    /\ UNCHANGED <<revs, archived, op, cycle>>

-----------------------------------------------------------------------------
(* Organization: a batch of evidence goes to the model and comes back as    *)
(* drafts, each a synthesis with members and outputs.                       *)

\* Evidence of drafts whose comparison Pages changed is taken up again.
Reopened(seen) ==
    UNION {DOMAIN hub.groups[i].members :
              i \in {j \in GroupsIn(hub, "pending") :
                        ~(hub.groups[j].offered \subseteq seen)}}
Due(c, seen) ==
    /\ Active(hub, c)
    /\ \/ hub.candidates[c].organized # hub.candidates[c].version
       \/ c \in Reopened(seen)
DraftsOf(c) == {i \in GroupsIn(hub, "pending") : c \in DOMAIN hub.groups[i].members}

\* An unchanged draft is admitted whole, as context.
Admitted(c, batch, seen) ==
    \/ Due(c, seen)
    \/ /\ DraftsOf(c) # {}
       /\ {m \in DOMAIN hub.groups[Min(DraftsOf(c))].members : Active(hub, m)}
              \subseteq batch
    \/ DraftsOf(c) = {} /\ hub.candidates[c].result = "partially_represented"
Batches(seen) ==
    {batch \in SUBSET {c \in Evidence : Active(hub, c)} :
        /\ \E seed \in batch : Due(seed, seen)
        /\ \A c \in batch : Admitted(c, batch, seen)}

PrepareOrganization ==
    /\ LockFree /\ cycle.at = "organize"
    /\ \E batch \in Batches(cycle.seen), offered \in SUBSET (cycle.seen \cap Inventory) :
          cycle' = [at |-> "organizing", offered |-> offered,
                    updateable |-> {r \in offered : ~revs[r].sealed},
                    versions |-> [c \in batch |-> hub.candidates[c].version]]
    /\ UNCHANGED <<hub, revs, archived, op>>

\* The candidates are partitioned; the outputs of a part draw on the part.
Partitions(batch) ==
    {parts \in SeqOf((SUBSET batch) \ {{}}, Cardinality(batch)) :
        /\ UNION Range(parts) = batch
        /\ \A i, j \in DOMAIN parts : i # j => parts[i] \cap parts[j] = {}}
Drafts(parts, input) ==
    {outputs \in [DOMAIN parts -> SeqOf(OutputsFrom(DOMAIN input.versions,
                        input.offered, input.updateable), MaxOutputs)] :
        \A i \in DOMAIN parts : Covered(outputs[i]) \subseteq parts[i]}
NewGroup(members, outputs, input) ==
    [version |-> 1, members |-> [c \in members |-> input.versions[c]],
     outputs |-> outputs, offered |-> input.offered,
     updateable |-> input.updateable, status |-> "pending", plan |-> NoPlan,
     results |-> <<>>, auto |-> Unreviewed]

StillCurrent(input) ==
    \A c \in DOMAIN input.versions : At(hub, c, input.versions[c])

\* Drafts of the batch are replaced; what they leave behind is queued again.
Organized(h, input, parts, outputs) ==
    LET batch == DOMAIN input.versions
        old == {i \in GroupsIn(h, "pending") : DOMAIN h.groups[i].members \cap batch # {}}
        left == (UNION {DOMAIN h.groups[i].members : i \in old}) \ batch
        released == Requeued(OnGroups(h, old,
                        LAMBDA g : [g EXCEPT !.status = "superseded"]), left)
    IN  [OnCandidates(released, batch, LAMBDA x : [x EXCEPT !.organized = x.version])
            EXCEPT !.groups = @ \o [i \in DOMAIN parts |->
                                      NewGroup(parts[i], outputs[i], input)]]

FinishOrganization ==
    /\ LockFree /\ cycle.at = "organizing"
    /\ StillCurrent(cycle)
    /\ \E parts \in Partitions(DOMAIN cycle.versions) :
          /\ Len(hub.groups) + Len(parts) <= MaxGroups
          /\ \E outputs \in Drafts(parts, cycle) :
                 hub' = Organized(hub, cycle, parts, outputs)
    /\ cycle' = Idle
    /\ UNCHANGED <<revs, archived, op>>

\* The provider failed: the batch stays due.
OrganizationFailed ==
    /\ cycle.at = "organizing"
    /\ cycle' = Idle
    /\ UNCHANGED <<hub, revs, archived, op>>

\* An invalid answer, or evidence that changed meanwhile, is refused in one
\* transaction and noted in another one.
RefuseOrganization ==
    /\ cycle.at = "organizing"
    /\ Become("refusing")
    /\ UNCHANGED <<hub, revs, archived, op>>
OrganizationRejected ==
    /\ LockFree /\ cycle.at = "refusing"
    /\ hub' = OnCandidates(hub,
           {c \in DOMAIN cycle.versions : hub.candidates[c].version = cycle.versions[c]},
           LAMBDA x : [x EXCEPT !.organized = x.version])
    /\ cycle' = Idle
    /\ UNCHANGED <<revs, archived, op>>

-----------------------------------------------------------------------------
(* Writing a plan: review_synthesis, for the operator and for the cycle     *)

SameRequest(g, plan) == g.plan = plan
Attributed(g, plan, byReview) ==
    byReview \/ (g.status = "promoting" /\ SameRequest(g, plan) /\ g.auto.authorized)
EvidenceOf(g, outputs) == Covered(outputs)

\* What is checked before a plan is started; not when it is resumed.
Preflight(h, g, plan) ==
    /\ Current(h, g)
    /\ \A k \in DOMAIN plan.outputs :
         LET o == plan.outputs[k]
         IN /\ o.action = "create" =>
                   \E c \in o.evidence : ~h.candidates[c].outputs
            /\ o.target # NoTarget => Live(o.target)
            /\ o.action = "update" => ~revs[o.target].sealed
Accepted(h, i, plan) ==
    LET g == h.groups[i]
        retry == SameRequest(g, plan)
    IN /\ g.version = plan.version
       /\ g.status = "pending" \/ (g.status = "promoting" /\ retry)
       /\ plan.outputs # <<>>
       /\ Range(plan.outputs) \subseteq OutputsFrom(DOMAIN g.members, g.offered, g.updateable)
       /\ \A k, l \in DOMAIN plan.outputs :
             k # l /\ plan.outputs[k].target # NoTarget
                 => plan.outputs[k].target # plan.outputs[l].target
       /\ \A c \in Covered(plan.outputs) :
             /\ h.candidates[c].version = g.members[c]
             /\ Active(h, c) \/ (retry /\ h.candidates[c].status = "promoting")
       /\ retry \/ Preflight(h, g, plan)

\* An operator's plan for a pending draft is not the review's any more; a plan
\* that is not resumed is saved before anything is written.
Started(h, i, plan, automatic) ==
    LET g == h.groups[i]
        own == IF ~automatic /\ g.status = "pending"
               THEN [h EXCEPT !.groups[i].auto = Unreviewed] ELSE h
    IN IF SameRequest(g, plan) THEN own
       ELSE OnCandidates([own EXCEPT !.groups[i].status = "promoting",
                                     !.groups[i].plan = plan],
                         Covered(plan.outputs),
                         LAMBDA x : [x EXCEPT !.status = "promoting"])

Begin(h, i, plan, byReview, actor) ==
    LET automatic == Attributed(h.groups[i], plan, byReview)
        started == Started(h, i, plan, automatic)
    IN /\ op' = [at |-> "write", group |-> i, plan |-> plan, actor |-> actor,
                 automatic |-> automatic, mem |-> started, result |-> NoTarget]
       /\ hub' = IF SameRequest(h.groups[i], plan) THEN hub ELSE started

ReviewSynthesis(i, plan) ==
    /\ LockFree
    /\ Accepted(hub, i, plan)
    /\ Begin(hub, i, plan, FALSE, "operator")
    /\ UNCHANGED <<revs, archived, cycle>>

NextOutput == Len(op.mem.groups[op.group].results) + 1
OutputKey(k) == <<op.group, op.plan, k>>

\* One output: the write commits in the store.
WriteOutput ==
    /\ op.at = "write" /\ NextOutput \in DOMAIN op.plan.outputs
    /\ LET o == op.plan.outputs[NextOutput]
           key == OutputKey(NextOutput)
       IN \E r \in 1..(Len(revs) + 1) :
             /\ \/ /\ o.action = "create"
                   /\ Ingest(op.actor, key, o.evidence, op.automatic, r)
                \/ /\ o.action = "update"
                   /\ Revise(op.actor, key, o.evidence, op.automatic, o.target, r)
                \/ /\ o.action = "represented" /\ r = o.target /\ Live(r)
                   /\ UNCHANGED <<revs, archived>>
             /\ op' = [op EXCEPT !.at = "record", !.result = r]
    /\ UNCHANGED <<hub, cycle>>

\* and its receipt is saved.
RecordOutput ==
    /\ op.at = "record"
    /\ LET mem == [op.mem EXCEPT !.groups[op.group].results = Append(@, op.result)]
       IN /\ op' = [op EXCEPT !.at = "write", !.mem = mem]
          /\ hub' = mem
    /\ UNCHANGED <<revs, archived, cycle>>

\* The evidence of the plan is decided; what the review retains stays pending.
Completed(h, i, automatic) ==
    LET g == h.groups[i]
        covered == EvidenceOf(g, op.plan.outputs)
        retained == IF automatic THEN covered \cap g.auto.retain ELSE {}
        decide(x, status, result) ==
            [x EXCEPT !.status = status, !.version = @ + 1, !.result = result,
                      !.outputs = TRUE]
        promoted == OnCandidates(h, covered \ retained,
                        LAMBDA x : decide(x, "promoted", "promoted"))
        kept == OnCandidates(promoted, retained,
                    LAMBDA x : [decide(x, "pending", "partially_represented")
                                    EXCEPT !.organized = x.version + 1])
    IN InvalidateStale([kept EXCEPT !.groups[i].status = "promoted",
                                    !.groups[i].version = @ + 1])

CompletePlan ==
    /\ op.at = "write" /\ NextOutput \notin DOMAIN op.plan.outputs
    /\ LET done == Completed(op.mem, op.group, op.automatic)
       IN /\ hub' = done
          /\ op' = IF op.actor = "maintainer"
                   THEN [op EXCEPT !.at = "settle", !.mem = done] ELSE Free
    /\ UNCHANGED <<revs, archived, cycle>>

\* A failed write ends the operation.  The cycle saves that it was interrupted.
Interrupted(h, i) == [h EXCEPT !.groups[i].auto.state = "write_interrupted"]
WriteFails ==
    /\ op.at = "write" /\ NextOutput \in DOMAIN op.plan.outputs
    /\ IF op.actor = "maintainer"
       THEN hub' = Interrupted(op.mem, op.group) /\ Become("organize")
       ELSE UNCHANGED <<hub, cycle>>
    /\ op' = Free
    /\ UNCHANGED <<revs, archived>>

\* An unfinishable plan is given up; its evidence is queued again.
Stopped(h, i) ==
    LET covered == Covered(h.groups[i].plan.outputs)
        back(x) == [x EXCEPT !.status = "pending", !.version = @ + 1,
                             !.organized = 0, !.key = NoKey,
                             !.result = "interrupted", !.outputs = FALSE]
    IN OnCandidates([h EXCEPT !.groups[i].status = "interrupted",
                              !.groups[i].version = @ + 1],
                    {c \in covered : h.candidates[c].status = "promoting"}, back)
StopSynthesis(i) ==
    /\ LockFree /\ hub.groups[i].status = "promoting"
    /\ \A c \in Covered(hub.groups[i].plan.outputs) :
           hub.candidates[c].version < MaxStopped
    /\ hub' = InvalidateStale(Stopped(hub, i))
    /\ UNCHANGED <<revs, archived, op, cycle>>

-----------------------------------------------------------------------------
(* The operator's decision on candidates themselves (review.rs)             *)

Decided(h, S, status, outputs) ==
    OnCandidates(h, S, LAMBDA x : [x EXCEPT !.version = @ + 1, !.status = status,
                                           !.result = status, !.outputs = outputs,
                                           !.key = NoKey])
\* Deferred evidence stays in its drafts, which follow its version.
Deferred(h, S) ==
    LET put == OnCandidates(Decided(h, S, "deferred", FALSE), S,
                            LAMBDA x : [x EXCEPT !.organized = x.version])
    IN OnGroups(put, {i \in GroupsIn(h, "pending") :
                         DOMAIN h.groups[i].members \cap S # {}},
                LAMBDA g : [g EXCEPT !.version = @ + 1,
                    !.members = [c \in DOMAIN g.members |-> put.candidates[c].version]])

\* A promotion is known by the versions of its evidence.  A repeated request is
\* answered with the result of the evidence, if all of it has one; else it
\* resumes its own promotion.
Versions(S) == [c \in S |-> hub.candidates[c].version]
Requested(h, c, S) == h.candidates[c].key = Versions(S)
Answered(h, S) ==
    \A c \in S : Requested(h, c, S) /\ h.candidates[c].result # "none"
Reviewable(h, S) ==
    \A c \in S : \/ Active(h, c)
                 \/ h.candidates[c].status = "promoting" /\ Requested(h, c, S)

\* What only changes the hub is one transaction.
Review(S, action) ==
    /\ LockFree /\ S # {} /\ \A c \in S : Active(hub, c)
    /\ action = "represented" => Inventory # {}
    /\ action = "deferred" => \A c \in S : hub.candidates[c].version < MaxDeferred
    /\ hub' = InvalidateStale(IF action = "deferred" THEN Deferred(hub, S)
                              ELSE Decided(hub, S, action, FALSE))
    /\ UNCHANGED <<revs, archived, op, cycle>>

\* A promotion is saved before the Page is written, and afterwards.
Promote(S) ==
    /\ LockFree /\ S # {} /\ ~Answered(hub, S) /\ Reviewable(hub, S)
    /\ LET key == Versions(S)
           saved == OnCandidates(hub, S, LAMBDA x :
                        [x EXCEPT !.status = "promoting", !.key = key])
       IN /\ hub' = saved
          /\ op' = [at |-> "ingest", members |-> S, key |-> key, mem |-> saved]
    /\ UNCHANGED <<revs, archived, cycle>>
IngestReviewed ==
    /\ op.at = "ingest"
    /\ \E r \in 1..(Len(revs) + 1) :
           Ingest("operator", <<op.key>>, op.members, FALSE, r)
    /\ op' = [op EXCEPT !.at = "decide"]
    /\ UNCHANGED <<hub, cycle>>
CompletePromotion ==
    /\ op.at = "decide"
    /\ hub' = InvalidateStale(Decided(op.mem, op.members, "promoted", FALSE))
    /\ op' = Free
    /\ UNCHANGED <<revs, archived, cycle>>
PromotionFails ==
    /\ op.at = "ingest"
    /\ op' = Free
    /\ UNCHANGED <<hub, revs, archived, cycle>>

-----------------------------------------------------------------------------
(* The automatic review of drafts, inside the maintenance cycle             *)

\* The cycle reads the inventory of the store at its start, before the
\* candidate review, and once more after it.
BeginCycle ==
    /\ cycle.at = "idle"
    /\ cycle' = [at |-> "started", seen |-> Inventory]
    /\ UNCHANGED <<hub, revs, archived, op>>
SkipCandidateReview ==
    /\ cycle.at = "started"
    /\ Become("organize")
    /\ UNCHANGED <<hub, revs, archived, op>>
ReadInventory ==
    /\ cycle.at \in {"started", "reviewed"}
    /\ cycle' = [at |-> IF cycle.at = "started" THEN "resume" ELSE "apply",
                 seen |-> cycle.seen, inventory |-> Inventory]
    /\ UNCHANGED <<hub, revs, archived, op>>
EndCycle ==
    /\ cycle.at = "organize"
    /\ cycle' = Idle
    /\ UNCHANGED <<hub, revs, archived, op>>
\* An error ends the cycle; so does the lock when it is held for too long.
CycleFails ==
    /\ cycle.at \notin {"idle", "writing"}
    /\ cycle' = Idle
    /\ UNCHANGED <<hub, revs, archived, op>>
ToOrganize == cycle' = [at |-> "organize", seen |-> cycle.seen]

ReviewInputChanged(h, input, inventory) ==
    \/ \E c \in Evidence : Active(h, c) /\ c \notin input.submitted
    \/ \E r \in inventory : r > input.newest
    \/ ~(input.pages \subseteq inventory)

Resumable(h, i) ==
    /\ h.groups[i].status \in {"pending", "promoting"}
    /\ h.groups[i].auto.authorized
    /\ h.groups[i].auto.state \in {"approved", "applying"}

\* An approval whose evidence moved is taken back and organized again.
Stale(h, i) == Requeued([h EXCEPT !.groups[i].auto.state = "stale"],
                        DOMAIN h.groups[i].members)
Revoked(h, i) == [Stale(h, i) EXCEPT !.groups[i].auto.authorized = FALSE,
                                     !.groups[i].plan = NoPlan]

ResumeAutomaticWrite ==
    /\ LockFree /\ cycle.at \in {"resume", "apply"}
    /\ LET todo == {i \in DOMAIN hub.groups : Resumable(hub, i)}
           i == Min(todo)
           g == hub.groups[i]
           \* a saved approval is told from a plan that was started
           fresh == IF g.status = "pending"
                    THEN [hub EXCEPT !.groups[i].plan = NoPlan,
                                     !.groups[i].auto.state = "applying"]
                    ELSE [hub EXCEPT !.groups[i].auto.state = "applying"]
       IN \/ /\ IF cycle.at = "resume" THEN Become("prepare") ELSE ToOrganize
             /\ UNCHANGED <<hub, op>>
          \/ /\ todo # {} /\ g.status = "pending"
             /\ ~Current(hub, g) \/ ReviewInputChanged(hub, g.auto.input, cycle.inventory)
             /\ hub' = Revoked(hub, i)
             /\ ToOrganize
             /\ UNCHANGED op
          \/ /\ todo # {}
             /\ g.status = "pending" =>
                   /\ Current(hub, g)
                   /\ ~ReviewInputChanged(hub, g.auto.input, cycle.inventory)
             /\ IF Accepted(fresh, i, g.plan)
                THEN /\ Begin(fresh, i, g.plan, TRUE, "maintainer")
                     /\ Become("writing")
                ELSE /\ hub' = Interrupted(fresh, i)
                     /\ ToOrganize
                     /\ UNCHANGED op
    /\ UNCHANGED <<revs, archived>>

\* Evidence that only no_change verdicts are about is closed, and what else the
\* review says of the applied plan is saved, in a transaction after the plan's.
NoChange(g) ==
    LET about(no) == UNION {g.outputs[k].evidence : k \in
            {j \in DOMAIN g.auto.decisions : (g.auto.decisions[j] = "no_change") = no}}
    IN about(TRUE) \ about(FALSE)
SettleNoChange(h, i) ==
    InvalidateStale(OnCandidates(h,
        {c \in NoChange(h.groups[i]) : h.candidates[c].status = "pending"},
        LAMBDA x : [x EXCEPT !.status = "promoted", !.version = @ + 1,
                             !.result = "no_change"]))
SettleAppliedPlan ==
    /\ op.at = "settle"
    /\ hub' = [SettleNoChange(op.mem, op.group)
                  EXCEPT !.groups[op.group].auto.state = "written"]
    /\ op' = Free
    /\ ToOrganize
    /\ UNCHANGED <<revs, archived>>

Awaiting(i) ==
    LET g == hub.groups[i]
    IN /\ g.status = "pending" /\ g.outputs # <<>> /\ Current(hub, g)
       /\ g.auto.state \in {"none", "running", "waiting_budget"}
NewInput(g) ==
    [version |-> g.version, newest |-> Len(revs), pages |-> cycle.inventory,
     submitted |-> {c \in Evidence : hub.candidates[c].status # "absent"}]

\* One draft is sent to review, with the evidence of its first attempt.
PrepareAutomaticReview ==
    /\ LockFree /\ cycle.at = "prepare"
    /\ \/ /\ ToOrganize /\ UNCHANGED hub   \* switched off, or nothing is ready
       \/ \E i \in DOMAIN hub.groups :
             LET g == hub.groups[i]
                 input == IF g.auto.input = NoInput THEN NewInput(g) ELSE g.auto.input
             IN /\ Awaiting(i)
                /\ \/ /\ g.auto.input = NoInput   \* too many Pages, or not whole
                      /\ hub' = [hub EXCEPT !.groups[i].auto =
                                    [Unreviewed EXCEPT !.state = "needs_review"]]
                      /\ ToOrganize
                   \/ /\ g.auto.input # NoInput
                      /\ ReviewInputChanged(hub, input, cycle.inventory)
                      /\ hub' = Stale(hub, i)
                      /\ ToOrganize
                   \/ /\ IF g.auto.input = NoInput THEN g.offered \subseteq cycle.inventory
                         ELSE ~ReviewInputChanged(hub, input, cycle.inventory)
                      /\ hub' = [hub EXCEPT !.groups[i].auto.state = "running",
                                            !.groups[i].auto.input = input]
                      /\ cycle' = [at |-> "reviewing", seen |-> cycle.seen,
                                   group |-> i, input |-> input]
    /\ UNCHANGED <<revs, archived, op>>

ApprovedOutputs(outputs, decisions) ==
    LET kept == {k \in DOMAIN outputs : decisions[k] = "approve"}
        place(k) == Cardinality({j \in kept : j <= k})
    IN [n \in 1..Cardinality(kept) |-> outputs[CHOOSE k \in kept : place(k) = n]]
Assessed(h, i, decisions) ==
    LET g == h.groups[i]
        approved == ApprovedOutputs(g.outputs, decisions)
        open == {k \in DOMAIN g.outputs : decisions[k] \in {"accumulating", "needs_input"}}
        state == CASE approved # <<>> -> "approved"
                   [] approved = <<>> /\ "needs_input" \in Range(decisions) -> "needs_input"
                   [] approved = <<>> /\ Range(decisions) = {"no_change"}
                          /\ DOMAIN g.members = Covered(g.outputs) -> "no_change"
                   [] OTHER -> "accumulating"
        reviewed == [h EXCEPT !.groups[i].auto = [@ EXCEPT
                         !.state = state, !.decisions = decisions,
                         !.authorized = approved # <<>>,
                         !.retain = UNION {g.outputs[k].evidence : k \in open}]]
    IN CASE approved # <<>> ->
                [reviewed EXCEPT !.groups[i].plan =
                    [version |-> g.auto.input.version, outputs |-> approved,
                     wording |-> "drafted"]]
         [] state = "no_change" -> SettleNoChange(reviewed, i)
         [] OTHER -> reviewed

\* The answer is dropped when the draft moved; it is an error if the review has
\* another input.
FinishAutomaticReview ==
    /\ LockFree /\ cycle.at = "reviewing"
    /\ LET i == cycle.group
           g == hub.groups[i]
           moved == ~(g.status = "pending" /\ g.version = cycle.input.version
                      /\ Current(hub, g))
           kept == g.auto.input = cycle.input
           reviewed == [at |-> "reviewed", seen |-> cycle.seen]
       IN \/ moved /\ UNCHANGED hub /\ cycle' = reviewed
          \/ /\ ~moved /\ kept
             /\ \/ \E state \in {"waiting_budget", "needs_review"} :
                       hub' = [hub EXCEPT !.groups[i].auto.state = state]
                \/ \E decisions \in [DOMAIN g.outputs -> Verdicts] :
                       hub' = Assessed(hub, i, decisions)
             /\ cycle' = reviewed
    /\ UNCHANGED <<revs, archived, op>>

-----------------------------------------------------------------------------
(* Tenants of the store, and crashes                                        *)

TenantRevisions == {r \in DOMAIN revs : revs[r].actor = "tenant"}
MayChange == Cardinality(TenantRevisions) + Cardinality(archived) < Memories + MaxChanges
TenantWrites ==
    /\ MayChange
    /\ \E page \in {revs[r].page : r \in {s \in DOMAIN revs : ~revs[s].sealed}}
                       \cup {Len(revs) + 1} :
          revs' = Append(revs, Revision(page, "tenant", NoKey, {}, FALSE, FALSE))
    /\ UNCHANGED <<hub, archived, op, cycle>>
TenantArchives ==
    /\ MayChange
    /\ \E r \in Inventory : archived' = archived \cup {PageOf(r)}
    /\ UNCHANGED <<hub, revs, op, cycle>>

Crash ==
    /\ ~LockFree
    /\ op' = Free /\ cycle' = Idle
    /\ UNCHANGED <<hub, revs, archived>>

Init ==
    /\ hub = [groups |-> <<>>,
              candidates |-> [c \in Evidence |->
                  [version |-> 0, organized |-> 0, status |-> "absent",
                   result |-> "none", outputs |-> FALSE, key |-> NoKey]]]
    /\ revs = [p \in 1..Memories |-> Revision(p, "tenant", NoKey, {}, FALSE, FALSE)]
    /\ archived = {}
    /\ op = Free
    /\ cycle = Idle

OperatorActs ==
    \/ Inspect \/ OrganizeCandidates
    \/ \E i \in DOMAIN hub.groups :
          \/ StopSynthesis(i)
          \/ \E outputs \in SeqOf(Range(hub.groups[i].outputs), MaxOutputs),
                wording \in Wordings :
                   ReviewSynthesis(i, [version |-> hub.groups[i].version,
                                       outputs |-> outputs, wording |-> wording])
          \/ /\ hub.groups[i].status = "promoting"
             /\ ReviewSynthesis(i, hub.groups[i].plan)
    \/ \E S \in SUBSET Evidence :
          \/ "promoted" \in Decisions /\ Promote(S)
          \/ \E action \in Decisions \ {"promoted"} : Review(S, action)
Writing ==
    \/ WriteOutput \/ RecordOutput \/ CompletePlan \/ WriteFails
    \/ IngestReviewed \/ CompletePromotion \/ PromotionFails \/ SettleAppliedPlan
CycleSteps ==
    \/ BeginCycle \/ SkipCandidateReview \/ ReadInventory \/ EndCycle \/ CycleFails
    \/ ResumeAutomaticWrite \/ PrepareAutomaticReview \/ FinishAutomaticReview
    \/ PrepareOrganization \/ FinishOrganization \/ OrganizationFailed
    \/ RefuseOrganization \/ OrganizationRejected

Next ==
    \/ \E c \in Evidence : Submit(c)
    \/ OperatorActs \/ Writing \/ CycleSteps
    \/ TenantWrites \/ TenantArchives \/ Crash

Spec == Init /\ [][Next]_vars

-----------------------------------------------------------------------------
(* Properties *)

\* The file and the store keep their types: evidence and drafts have states of
\* the code, and outputs, receipts and inputs name existing Revisions.
RevisionSet == SUBSET DOMAIN revs
Output == [action: Actions, evidence: (SUBSET Evidence) \ {{}},
           target: DOMAIN revs \cup {NoTarget}]
TypeOK ==
    /\ \A c \in Evidence :
         LET x == hub.candidates[c]
         IN /\ [f \in DOMAIN x \ {"key"} |-> x[f]] \in Candidate
            /\ DOMAIN x.key \subseteq Evidence
            /\ x.organized <= x.version
    /\ \A i \in DOMAIN hub.groups :
         LET g == hub.groups[i]
         IN /\ DOMAIN g.members \subseteq Evidence /\ g.version \in Nat
            /\ g.status \in {"pending", "promoting", "promoted", "superseded",
                             "interrupted"}
            /\ Range(g.outputs) \subseteq Output
            /\ g.plan # NoPlan => Range(g.plan.outputs) \subseteq Output
            /\ {g.offered, g.updateable, Range(g.results)} \subseteq RevisionSet
            /\ g.auto.retain \subseteq DOMAIN g.members
            /\ g.auto.input # NoInput => g.auto.input.pages \in RevisionSet
    /\ \A r \in DOMAIN revs : revs[r].page \in 1..r
    /\ archived \subseteq {revs[r].page : r \in DOMAIN revs}

\* Evidence that is being written belongs to exactly one plan in progress, of
\* a synthesis or of the operator, and a plan in progress holds its evidence
\* at the versions that were approved, whatever crashed, failed or was stopped.
PromotingIsOwned ==
    /\ \A c \in Evidence : hub.candidates[c].status = "promoting" =>
         LET plans == {i \in GroupsIn(hub, "promoting") :
                          c \in Covered(hub.groups[i].plan.outputs)}
             manual == IF hub.candidates[c].key # NoKey THEN 1 ELSE 0
         IN Cardinality(plans) + manual = 1
    /\ \A i \in GroupsIn(hub, "promoting") :
         \A c \in Covered(hub.groups[i].plan.outputs) :
            /\ hub.candidates[c].status = "promoting"
            /\ hub.candidates[c].version = hub.groups[i].members[c]

\* A decision is final: no late answer, resumed plan, stop or second decision
\* changes evidence that was promoted, represented or rejected.
Terminal(c) == hub.candidates[c].status \in {"promoted", "represented", "rejected"}
DecisionsAreFinal ==
    [][\A c \in Evidence : Terminal(c) => hub'.candidates[c] = hub.candidates[c]]_hub

\* Whatever was written for one of these syntheses belongs to one plan ("can resume
\* only the identical plan", candidate-evolution.md).
SynthesisWrites == {r \in DOMAIN revs : Len(revs[r].key) = 3}
GroupOf(r) == revs[r].key[1]
PlanOf(r) == revs[r].key[2]
OnePlanPerSynthesis(groups) ==
    \A r, s \in SynthesisWrites :
        GroupOf(r) = GroupOf(s) /\ GroupOf(r) \in groups => PlanOf(r) = PlanOf(s)

\* Evidence of these syntheses counts as promoted only when a Page was written from
\* it, an approved plan found it represented, or the review found nothing to change;
\* and the receipts of a plan are its own writes.
ReceiptIsTrue(i, k) ==
    LET g == hub.groups[i]
        o == g.plan.outputs[k]
    IN IF o.action = "represented" THEN g.results[k] = o.target
       ELSE revs[g.results[k]].key = <<i, g.plan, k>>
PromotedIsWritten(groups) ==
    /\ \A i \in groups : \A k \in DOMAIN hub.groups[i].results : ReceiptIsTrue(i, k)
    /\ \A c \in Evidence : hub.candidates[c].result = "promoted" =>
          \/ \E i \in DOMAIN hub.groups \ groups : c \in DOMAIN hub.groups[i].members
          \/ \E r \in DOMAIN revs : c \in revs[r].evidence
          \/ \E i \in GroupsIn(hub, "promoted") : \E k \in DOMAIN hub.groups[i].results :
                /\ hub.groups[i].plan.outputs[k].action = "represented"
                /\ c \in hub.groups[i].plan.outputs[k].evidence

\* A Page is attributed to the review only when the review approved exactly the
\* plan that was written ("Manual edits to a new plan are not attributed to a
\* previous Sol review").
AutomaticAsApproved ==
    \A r \in SynthesisWrites : revs[r].automatic =>
        LET g == hub.groups[GroupOf(r)]
        IN /\ g.auto.authorized
           /\ PlanOf(r).outputs = ApprovedOutputs(g.outputs, g.auto.decisions)
           /\ PlanOf(r).wording = "drafted"

\* "Committed outputs are not written twice": one output of a plan is one
\* Revision, also when the operator resumes what the cycle began.
OutputsWrittenOnce ==
    \A r, s \in SynthesisWrites : revs[r].key = revs[s].key => r = s

\* "Retrying this same request uses ingest's event identity, including after a
\* crash" (review.rs): evidence that the operator's promotion holds is released
\* by sending the promotion again.
PromotionCanBeRetried ==
    \A c \in Evidence :
        LockFree /\ hub.candidates[c].status = "promoting" /\ hub.candidates[c].key # NoKey
            => ENABLED Promote(DOMAIN hub.candidates[c].key)
=============================================================================
