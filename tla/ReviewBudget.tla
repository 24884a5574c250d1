---------------------------- MODULE ReviewBudget ----------------------------
(***************************************************************************)
(* Reviews by stronger models (crates/pcp-runtime/src/maintenance):        *)
(* review_budget.rs keeps a ledger of paid calls in one locked file,       *)
(* review_escalation.rs walks a proposal through at most four reviews, and *)
(* infer_worker.rs makes the calls.                                        *)
(*                                                                         *)
(* Several workers (the background cycle and operators started from the    *)
(* Console, in one process or in several) work at once and may crash       *)
(* anywhere.  Every ledger transaction reads, changes and replaces the     *)
(* file under a lock and is one step; the calls to the model service are   *)
(* made without the lock, so each is a step of its own.                    *)
(*                                                                         *)
(* Time: the ledger only ever compares ages, and its clock never goes      *)
(* back.  A record therefore keeps its age, which stops growing at Window. *)
(* A suspended machine lets any time pass inside a call.                   *)
(***************************************************************************)
EXTENDS Integers, Sequences, FiniteSets, FiniteSetsExt

CONSTANTS
    Workers,
    Evidence,         \* what is reviewed: kind, source Revisions and target
    AlwaysReviewed,   \* evidence that a baseline approval does not settle
    Oversized,        \* evidence above the input limit of a review
    Contents,         \* the texts that are proposed
    NoContent,
    Revised,          \* the texts that reviewers propose instead
    Verdicts,         \* the verdicts that the models return
    Usages,           \* the tokens that a review call may use
    BaselineUsages,   \* the tokens that a baseline call may use
    Unknown,          \* a usage that is not known
    Window, Lease,    \* WINDOW_MS and the lease of a reservation, in ticks
    MaxInFlight,
    TotalCalls, TotalTokens, TierCalls, TierTokens,
    Estimate, BaselineEstimate,    \* what one call reserves
    AstraEnabled,
    MaxSubmissions    \* bound: review requests ever made to the service

Tiers == {"sol", "astra"}
Stages == {"review", "verify_revision"}
Key == Evidence \X Tiers \X Stages
\* A text of the reviewer's own overrules the verdict that comes with it, unless
\* that is a question to the user, so only disagreement is given one.
Answer == {a \in [verdict: Verdicts, revision: Revised \cup {NoContent}] :
               a.revision # NoContent => a.verdict = "needs_review"}
NoAnswer == <<>>
NoId == 0

ASSUME SetAssumption ==
    /\ AlwaysReviewed \subseteq Evidence /\ Oversized \subseteq Evidence
    /\ Revised \subseteq Contents /\ NoContent \notin Contents
    /\ Verdicts \subseteq
           {"approve", "no_change", "needs_review", "ask", "undecodable"}
ASSUME AmountAssumption ==
    /\ Usages \subseteq Nat /\ BaselineUsages \subseteq Nat /\ Unknown \notin Nat
    /\ {Window, Lease, MaxInFlight, TotalCalls, TotalTokens, Estimate,
           BaselineEstimate, MaxSubmissions} \subseteq Nat
    /\ 0 < Lease /\ Lease <= Window
ASSUME TierAssumption ==
    /\ AstraEnabled \in BOOLEAN
    /\ TierCalls \in [Tiers -> Nat] /\ TierTokens \in [Tiers -> Nat]

VARIABLES
    attempts,   \* the ledger's reviews: key -> attempt
    baseline,   \* the ledger's baseline calls: id -> [age, actual]
    remote,     \* the service: the review requests it accepted, in order
    workers     \* what each worker is doing

vars == <<attempts, baseline, remote, workers>>

Attempt == [content: Contents, age: 0..Window, actual: Usages \cup {0, Unknown},
            response: Nat, result: Nat,
            state: {"reserved", "in_progress", "orphaned", "usage_unknown",
                    "not_submitted", "completed", "failed"}]
Request == [key: Key, content: Contents, usage: Usages \cup {0},
            status: {"in_progress", "completed", "failed"},
            answer: Answer \cup {NoAnswer}]

Idle == [at |-> "idle"]
Put(f, x, v) == [y \in DOMAIN f \cup {x} |-> IF y = x THEN v ELSE f[y]]
Older(c) == [c EXCEPT !.age = IF @ < Window THEN @ + 1 ELSE @]

Become(w, wk) == workers' = [workers EXCEPT ![w] = wk]
Goto(wk, at) == [wk EXCEPT !.at = at]
KeyOf(wk) == <<wk.evidence, wk.tier, wk.stage>>

-----------------------------------------------------------------------------
(* Plausible faults, as in PageStore: what a definition below would be if   *)
(* the code forgot a condition or took a wrong value.                       *)

PlaceholderResponse(content) ==
    [content |-> content, age |-> 0, actual |-> Unknown, response |-> 1,
     result |-> NoId, state |-> "reserved"]
OrphansMayRepeat(k) ==
    k \in DOMAIN attempts /\ attempts[k].state # "orphaned"
ReceiptRevives(a, id) == [a EXCEPT !.response = id, !.state = "in_progress"]
SettledAgain(a, u, id, state) ==
    [a EXCEPT !.actual = u, !.result = id,
              !.state = IF u = Unknown THEN "usage_unknown" ELSE state]
AnyRecordedContent(a, wk) == a.state # "orphaned"
WindowOnly(t) ==
    {k \in DOMAIN attempts : /\ k[2] = t /\ attempts[k].state # "not_submitted"
                             /\ attempts[k].age < Window}
OnlyWithAnswer(a, id) ==
    /\ a.actual = Unknown /\ a.state = "in_progress"
    /\ a.response = id /\ a.age >= Lease

-----------------------------------------------------------------------------
(* The ledger *)

Unresolved(a) == a.actual = Unknown
OccupiesSlot(a) ==
    Unresolved(a) /\ a.state \notin {"orphaned", "usage_unknown"}
InWindow(c) == c.age < Window

InFlight == {k \in DOMAIN attempts : OccupiesSlot(attempts[k])}

Tokens(c, estimate) == IF Unresolved(c) THEN estimate ELSE c.actual
TokensOf(table, ids, estimate) ==
    MapThenSumSet(LAMBDA i : Tokens(table[i], estimate), ids)

\* total_status counts what was submitted inside the window, and no more.
TotalAttempts ==
    {k \in DOMAIN attempts :
        attempts[k].state # "not_submitted" /\ InWindow(attempts[k])}
TotalBaseline == {b \in DOMAIN baseline : InWindow(baseline[b])}
TotalAllows(tokens) ==
    /\ Cardinality(TotalAttempts) + Cardinality(TotalBaseline) < TotalCalls
    /\ TokensOf(attempts, TotalAttempts, Estimate)
         + TokensOf(baseline, TotalBaseline, BaselineEstimate)
         + tokens <= TotalTokens

\* tier_status also counts what is unsettled, however old.
TierAttempts(t) ==
    {k \in DOMAIN attempts :
        /\ k[2] = t /\ attempts[k].state # "not_submitted"
        /\ Unresolved(attempts[k]) \/ InWindow(attempts[k])}
TierAllows(t, tokens) ==
    /\ Cardinality(TierAttempts(t)) < TierCalls[t]
    /\ TokensOf(attempts, TierAttempts(t), Estimate) + tokens <= TierTokens[t]

Recorded(k) == k \in DOMAIN attempts
Reservation(content) ==
    [content |-> content, age |-> 0, actual |-> Unknown, response |-> NoId,
     result |-> NoId, state |-> "reserved"]

Submitted(a, id) ==
    [a EXCEPT !.response = id,
              !.state = IF @ = "reserved" THEN "in_progress" ELSE @]

\* The first usage that is reported stays.
Settled(a, usage, result, state) ==
    IF ~Unresolved(a) THEN a
    ELSE [a EXCEPT !.actual = usage, !.result = result,
                   !.state = IF usage = Unknown THEN "usage_unknown" ELSE state]

\* An attempt observed with the response `id`, that no one could reach.
Expired(a, id) ==
    /\ OccupiesSlot(a)
    /\ a.response = id
    /\ a.age >= Lease

-----------------------------------------------------------------------------
(* The end of a review path, and its way from one answer to the next *)

Stop(wk, outcome) == [wk EXCEPT !.at = "done", !.outcome = outcome]

NextTier(wk) ==
    IF wk.tier = "sol" /\ AstraEnabled
    THEN [wk EXCEPT !.at = "list", !.tier = "astra", !.stage = "review"]
    ELSE Stop([wk EXCEPT !.revision = NoContent], "needs_review")

\* A reviewer's own text becomes the proposal; it is verified by another call.
Repaired(wk, answer) ==
    [wk EXCEPT !.at = "list", !.stage = "verify_revision",
               !.content = answer.revision, !.revision = answer.revision]

\* What execute_review does with an answer.  A revision that breaks the bounds
\* of its kind is dropped like any other disagreement.
Follow(wk, answer) ==
    CASE answer.verdict = "ask" -> Stop(wk, "missing_evidence")
      [] answer.verdict # "ask" /\ answer.revision # NoContent ->
             IF wk.stage = "review" THEN Repaired(wk, answer) ELSE NextTier(wk)
      [] answer.verdict = "approve" /\ answer.revision = NoContent ->
             Stop(wk, "approved")
      [] answer.verdict = "no_change" /\ answer.revision = NoContent ->
             Stop(wk, "no_change")
      [] OTHER -> NextTier(wk)

\* How execute_review names the end of a path whose paid call failed.
Failed(wk, a) ==
    Stop(wk, IF a.state = "not_submitted" \/ ~Unresolved(a)
             THEN "needs_review" ELSE "waiting_budget")

-----------------------------------------------------------------------------
(* The baseline evaluation *)

\* A fresh id; it may not name a call that a worker still has to settle.
UsedIds == TotalBaseline \cup
    {workers[v].call : v \in {u \in Workers : workers[u].at = "baseline"}}

\* Evaluate reserves a baseline call and drops the ones that left the window.
Begin(w, e, c) ==
    /\ workers[w].at \in {"idle", "done"}
    /\ TotalAllows(BaselineEstimate)
    /\ \E id \in 1..(TotalCalls + Cardinality(Workers)) :
          /\ id \notin UsedIds /\ 1..(id - 1) \subseteq UsedIds
          /\ baseline' = [b \in TotalBaseline \cup {id} |->
                             IF b = id THEN [age |-> 0, actual |-> Unknown]
                                       ELSE baseline[b]]
          /\ Become(w, [at |-> "baseline", evidence |-> e, content |-> c,
                        call |-> id])
    /\ UNCHANGED <<attempts, remote>>

\* The baseline model answered, or failed; its usage is settled when reported.
EndBaseline(w) ==
    /\ workers[w].at = "baseline"
    /\ LET wk == workers[w]
       IN \/ /\ wk.call \in DOMAIN baseline
             /\ \E u \in BaselineUsages \cup {Unknown} :
                    baseline' = [baseline EXCEPT ![wk.call].actual =
                                     IF @ = Unknown THEN u ELSE @]
             /\ \E v \in {"approve", "no_change", "needs_review"} :
                    Become(w, [at |-> "triage", evidence |-> wk.evidence,
                               content |-> wk.content, verdict |-> v])
          \/ /\ UNCHANGED baseline   \* no answer, or no reservation to settle
             /\ Become(w, Idle)
    /\ UNCHANGED <<attempts, remote>>

\* Evidence that was reviewed before is not approved by the baseline.
Triage(w) ==
    /\ workers[w].at = "triage"
    /\ LET wk == workers[w]
           seen == \E k \in DOMAIN attempts : k[1] = wk.evidence
           verdict == IF seen /\ wk.verdict = "approve" THEN "needs_review"
                                                        ELSE wk.verdict
           path == [at |-> "list", evidence |-> wk.evidence,
                    content |-> wk.content, revision |-> NoContent,
                    tier |-> "sol", stage |-> "review", unsettled |-> {},
                    response |-> NoId, outcome |-> ""]
       IN \/ /\ verdict # "no_change"
             /\ verdict = "approve" => wk.evidence \in AlwaysReviewed
             /\ Become(w, path)
          \/ /\ verdict = "no_change"
             /\ Become(w, Stop(path, "no_change"))
          \/ /\ verdict = "approve" /\ wk.evidence \notin AlwaysReviewed
             /\ Become(w, Stop(path, "baseline"))
    /\ UNCHANGED <<attempts, baseline, remote>>

-----------------------------------------------------------------------------
(* One budgeted call *)

\* The unsettled attempts, as they are now.
ListUnsettled(w) ==
    /\ workers[w].at = "list"
    /\ Become(w, [workers[w] EXCEPT !.at = "reconcile",
           !.unsettled = {<<k, attempts[k].response>> :
                 k \in {x \in DOMAIN attempts : Unresolved(attempts[x])}}])
    /\ UNCHANGED <<attempts, baseline, remote>>

\* One answer of the service may not report the usage.
Reported(id) == {remote[id].usage, Unknown}

Reconcile(w) ==
    /\ workers[w].at = "reconcile"
    /\ \E seen \in workers[w].unsettled :
         LET k == seen[1]
             id == seen[2]
         IN /\ \/ /\ id # NoId /\ remote[id].status # "in_progress"
                  /\ \E u \in Reported(id) :
                        attempts' = [attempts EXCEPT ![k] =
                            Settled(@, u, id, remote[id].status)]
               \/ /\ id # NoId /\ remote[id].status = "in_progress"
                  /\ UNCHANGED attempts
               \/ \* no identity to ask for, or the service did not answer
                  attempts' = [attempts EXCEPT ![k] =
                      IF Expired(@, id) THEN [@ EXCEPT !.state = "orphaned"]
                                        ELSE @]
            /\ Become(w, [workers[w] EXCEPT !.unsettled = @ \ {seen}])
    /\ UNCHANGED <<baseline, remote>>

MayReserve(k) ==
    /\ TotalAllows(Estimate)
    /\ Cardinality(InFlight) < MaxInFlight
    /\ TierAllows(k[2], Estimate)

\* The outcome of an earlier submission that may be used for this proposal.
Reusable(a, wk) == a.state # "orphaned" /\ a.content = wk.content

\* A path that finds its review recorded goes on with the recorded answer.
Reuse(wk, a) ==
    IF ~Reusable(a, wk) THEN Stop(wk, "needs_review")
    ELSE IF a.result = NoId THEN Stop(wk, "waiting_budget")
    ELSE IF remote[a.result].status # "completed" THEN Stop(wk, "needs_review")
    ELSE IF remote[a.result].answer.verdict = "undecodable"
         THEN Stop(wk, "waiting_budget")
    ELSE Follow(wk, remote[a.result].answer)

Reserve(w) ==
    /\ workers[w].at = "reconcile" /\ workers[w].unsettled = {}
    /\ LET wk == workers[w]
           k == KeyOf(wk)
       IN \/ /\ wk.evidence \in Oversized
             /\ Become(w, Stop(wk, "missing_evidence"))
             /\ UNCHANGED attempts
          \/ /\ wk.evidence \notin Oversized /\ Recorded(k)
             /\ Become(w, Reuse(wk, attempts[k]))
             /\ UNCHANGED attempts
          \/ /\ wk.evidence \notin Oversized /\ ~Recorded(k) /\ MayReserve(k)
             /\ attempts' = Put(attempts, k, Reservation(wk.content))
             /\ Become(w, Goto(wk, "create"))
          \/ /\ wk.evidence \notin Oversized /\ ~Recorded(k) /\ ~MayReserve(k)
             /\ Become(w, Stop(wk, "waiting_budget"))
             /\ UNCHANGED attempts
    /\ UNCHANGED <<baseline, remote>>

\* The service takes the request; its answer may be lost on the way back.
CreateResponse(w) ==
    /\ workers[w].at = "create"
    /\ Len(remote) < MaxSubmissions
    /\ LET wk == workers[w]
       IN /\ remote' = Append(remote, [key |-> KeyOf(wk), content |-> wk.content,
                 usage |-> 0, status |-> "in_progress", answer |-> NoAnswer])
          /\ \/ Become(w, [wk EXCEPT !.at = "accepted", !.response = Len(remote) + 1])
             \/ Become(w, Failed(wk, attempts[KeyOf(wk)]))
    /\ UNCHANGED <<attempts, baseline>>

\* The request does not reach the service and nothing says so.
SubmissionLost(w) ==
    /\ workers[w].at = "create"
    /\ Become(w, Failed(workers[w], attempts[KeyOf(workers[w])]))
    /\ UNCHANGED <<attempts, baseline, remote>>

\* Local validation or an explicit rejection: nothing was submitted.
SubmissionRejected(w) ==
    /\ workers[w].at = "create"
    /\ LET k == KeyOf(workers[w])
           rejected == Settled(attempts[k], 0, NoId, "not_submitted")
       IN /\ attempts' = [attempts EXCEPT ![k] = rejected]
          /\ Become(w, Failed(workers[w], rejected))
    /\ UNCHANGED <<baseline, remote>>

RecordSubmission(w) ==
    /\ workers[w].at = "accepted"
    /\ LET k == KeyOf(workers[w])
           id == workers[w].response
       IN /\ attempts[k].response \in {NoId, id}
          /\ attempts' = [attempts EXCEPT ![k] = Submitted(@, id)]
    /\ Become(w, Goto(workers[w], "polling"))
    /\ UNCHANGED <<baseline, remote>>

PollResponse(w) ==
    /\ workers[w].at = "polling"
    /\ LET wk == workers[w]
           k == KeyOf(wk)
           r == remote[wk.response]
           next == [wk EXCEPT !.response = NoId]
       IN /\ r.status # "in_progress"
          /\ \E u \in Reported(wk.response) :
               LET a == Settled(attempts[k], u, wk.response, r.status)
               IN /\ attempts' = [attempts EXCEPT ![k] = a]
                  /\ Become(w, IF /\ r.status = "completed"
                                  /\ r.answer.verdict # "undecodable"
                               THEN Follow(next, r.answer)
                               ELSE Failed(next, a))
    /\ UNCHANGED <<baseline, remote>>

\* A failed poll, or the local deadline: the worker asks for a cancellation
\* and leaves the attempt as it is.
GiveUp(w) ==
    /\ workers[w].at = "polling"
    /\ LET wk == workers[w]
       IN Become(w, Failed([wk EXCEPT !.response = NoId], attempts[KeyOf(wk)]))
    /\ UNCHANGED <<attempts, baseline, remote>>

-----------------------------------------------------------------------------
(* The service, the clock and crashes *)

Finish(id) ==
    /\ remote[id].status = "in_progress"
    /\ \E u \in Usages :
          \/ \E a \in Answer : remote' = [remote EXCEPT ![id] =
                 [@ EXCEPT !.status = "completed", !.usage = u, !.answer = a]]
          \/ remote' = [remote EXCEPT ![id] =
                 [@ EXCEPT !.status = "failed", !.usage = u]]
    /\ UNCHANGED <<attempts, baseline, workers>>

Tick ==
    /\ attempts' = [k \in DOMAIN attempts |-> Older(attempts[k])]
    /\ baseline' = [b \in DOMAIN baseline |-> Older(baseline[b])]
    /\ UNCHANGED <<remote, workers>>

Crash(w) ==
    /\ workers[w].at \notin {"idle", "done"}
    /\ Become(w, Idle)
    /\ UNCHANGED <<attempts, baseline, remote>>

Call(w) ==
    \/ ListUnsettled(w) \/ Reconcile(w) \/ Reserve(w)
    \/ CreateResponse(w) \/ SubmissionLost(w) \/ SubmissionRejected(w)
    \/ RecordSubmission(w) \/ PollResponse(w) \/ GiveUp(w)

Work(w) == EndBaseline(w) \/ Triage(w) \/ Call(w)

Init ==
    /\ attempts = <<>>
    /\ baseline = <<>>
    /\ remote = <<>>
    /\ workers = [w \in Workers |-> Idle]

Next ==
    \/ \E w \in Workers : \/ \E e \in Evidence, c \in Contents : Begin(w, e, c)
                          \/ Work(w) \/ Crash(w)
    \/ \E id \in DOMAIN remote : Finish(id)
    \/ Tick

Spec == Init /\ [][Next]_vars

\* Time passes, and the service ends what it accepted.  Nothing is asked of the
\* workers: they may crash, wait and be rejected for ever.
FairSpec == Spec /\ WF_vars(Tick) /\ \A id \in 1..MaxSubmissions :
                WF_vars(id \in DOMAIN remote /\ Finish(id))

-----------------------------------------------------------------------------
(* Properties *)

OnPath == [at: {"list", "reconcile", "create", "accepted", "polling", "done"},
           evidence: Evidence, content: Contents,
           revision: Contents \cup {NoContent}, tier: Tiers, stage: Stages,
           unsettled: SUBSET (Key \X Nat), response: Nat,
           outcome: {"", "approved", "baseline", "no_change", "needs_review",
                     "missing_evidence", "waiting_budget"}]
Worker == {Idle} \cup OnPath
    \cup [at: {"baseline"}, evidence: Evidence, content: Contents, call: Nat]
    \cup [at: {"triage"}, evidence: Evidence, content: Contents,
          verdict: {"approve", "no_change", "needs_review"}]

\* The ledger's records and the workers have the types of the code, and every
\* request named by an attempt or a worker was accepted by the service.
TypeOK ==
    /\ DOMAIN attempts \subseteq Key
    /\ \A k \in DOMAIN attempts :
          /\ attempts[k] \in Attempt
          /\ {attempts[k].response, attempts[k].result}
                 \subseteq DOMAIN remote \cup {NoId}
    /\ DOMAIN baseline \subseteq Nat
    /\ \A b \in DOMAIN baseline : baseline[b] \in
          [age: 0..Window, actual: BaselineUsages \cup {Unknown}]
    /\ remote \in Seq(Request)
    /\ DOMAIN workers = Workers
    /\ \A w \in Workers : workers[w] \in Worker

\* What the reservations, the requests and the workers know of each other, and
\* what keeps a submission from being repeated: the worker that reserved a
\* review is the only one to submit it, and no one did yet.
LinksOK ==
    /\ \A id \in DOMAIN remote :
          /\ remote[id].key \in DOMAIN attempts
          /\ remote[id].status = "completed" => remote[id].answer \in Answer
    /\ \A w \in Workers : workers[w] \in OnPath =>
          /\ \A seen \in workers[w].unsettled :
                /\ seen[1] \in DOMAIN attempts
                /\ seen[2] \in DOMAIN remote \cup {NoId}
          /\ workers[w].at \in {"create", "accepted", "polling"} =>
                 KeyOf(workers[w]) \in DOMAIN attempts
          /\ workers[w].at \in {"accepted", "polling"} =>
                 workers[w].response \in DOMAIN remote
AboutToSubmit(w, k) == workers[w].at = "create" /\ KeyOf(workers[w]) = k
SubmissionsOwned ==
    \A w \in Workers, k \in Key : AboutToSubmit(w, k) =>
        /\ \A id \in DOMAIN remote : remote[id].key # k
        /\ \A v \in Workers : AboutToSubmit(v, k) => v = w

\* One review of one evidence is submitted at most once, however often workers
\* crash, time out, lose the answer and try again, and whatever the ledger made
\* of the reservation since (review_budget.rs reserve and release_expired).
SubmittedOnce ==
    \A i, j \in DOMAIN remote : remote[i].key = remote[j].key => i = j

\* No more reviews are in flight than configured: a late receipt or a second
\* settlement never puts a released attempt back (submitted, settle).
SlotsBounded == Cardinality(InFlight) <= MaxInFlight

\* The first usage reported for an attempt stays, with its result: workers and
\* reconcilers that settle the same attempt later, with or without a usage,
\* change nothing (settle), and no record is dropped or changes its proposal.
SettledOnce ==
    [][\A k \in DOMAIN attempts :
          /\ k \in DOMAIN attempts'
          /\ attempts'[k].content = attempts[k].content
          /\ attempts[k].actual # Unknown =>
                /\ attempts'[k].actual = attempts[k].actual
                /\ attempts'[k].result = attempts[k].result]_attempts

\* The requests that the service accepted under reservations of the last Window
\* and the baseline calls of that Window stay within the shared number of
\* calls, the lost and unsettled ones included (total_status).
Requests(inside(_)) ==
    {id \in DOMAIN remote : inside(attempts[remote[id].key])}
PaidCallsBounded ==
    Cardinality(Requests(InWindow)) + Cardinality(TotalBaseline) <= TotalCalls

\* What those calls really used, each up to its own estimate, stays within the
\* token budget: only the excess of an admitted call over its estimate may
\* exceed it ("Actual usage can exceed the final reservation"), and a usage
\* that was never reported is not taken for none.
UpTo(estimate, used) == IF used < estimate THEN used ELSE estimate
TokensWithinBudget ==
    MapThenSumSet(LAMBDA id : IF remote[id].status = "in_progress" THEN Estimate
                              ELSE UpTo(Estimate, remote[id].usage),
                  Requests(InWindow))
      + MapThenSumSet(LAMBDA b : UpTo(BaselineEstimate,
                                      Tokens(baseline[b], BaselineEstimate)),
                      TotalBaseline)
      <= TotalTokens

\* Requests whose usage is not settled keep counting against their tier after
\* the window (tier_status).
StillCounts(a) == a.actual = Unknown \/ a.age < Window
TierKeepsUnsettled ==
    \A t \in Tiers :
        Cardinality({id \in Requests(StillCounts) : remote[id].key[2] = t})
            <= TierCalls[t]

\* The same of the total budget.  The design says that requests which did not
\* end inside the window keep counting; total_status forgets them.
TotalKeepsUnsettled == Cardinality(Requests(StillCounts)) <= TotalCalls

\* An approval rests on a completed review of exactly the approved text, and a
\* reviewer's own text was approved by another call than the one that wrote it
\* (execute_review, also when it goes on from recorded answers).
ReviewedBy(id, wk) ==
    /\ remote[id].key[1] = wk.evidence /\ remote[id].content = wk.content
    /\ remote[id].status = "completed"
    /\ remote[id].answer = [verdict |-> "approve", revision |-> NoContent]
ApprovedTextWasReviewed ==
    \A w \in Workers : workers[w].at = "done" /\ workers[w].outcome = "approved" =>
        /\ \E id \in DOMAIN remote : ReviewedBy(id, workers[w])
        /\ workers[w].revision \in {NoContent, workers[w].content}

\* While review calls keep being made, by anyone, no attempt holds a slot for
\* ever: not one that crashed before its receipt, nor one whose worker gave up.
ReadyToReserve(w) == workers[w].at = "reconcile" /\ workers[w].unsettled = {}
CallsKeepBeingMade ==
    \E w \in Workers : []<>ReadyToReserve(w) /\ []<>~ReadyToReserve(w)
SlotsAreReleased ==
    CallsKeepBeingMade => \A k \in Key : (k \in InFlight) ~> (k \notin InFlight)
=============================================================================
