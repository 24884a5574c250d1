---------------------------- MODULE ReviewInbox ----------------------------
(***************************************************************************)
(* The review inbox of maintenance: proposals in the ledger file, decided   *)
(* by operators (one short-lived process or request each) and by the        *)
(* scheduled maintainer, which works for long on a copy it loaded before.   *)
(* Decisions take a lock and read the file again; saves merge their copy    *)
(* with the file item by item. What a decision does is done in the store    *)
(* first, and a process may die before it says so in the file.              *)
(*                                                                          *)
(* Kinds of items: "topic" (a Page written from evidence), "relation" (an   *)
(* edge for a pair of Pages), "fusion" (two Pages of a project consolidated *)
(* into new ones), "update" (a validity change that was discovered) and     *)
(* "feedback" (one that a tenant's feedback asks for). A snooze may be over *)
(* at any moment, so it leaves only its time stamp.                         *)
(***************************************************************************)
EXTENDS Integers

CONSTANTS
    Items,          \* candidates
    KindOf,         \* [Items -> kinds]
    Evidence,       \* [Items -> evidence]: the exact Revisions it is about
    Reworded,       \* [Items -> Items]: a Topic's identity after its review
    Sessions,       \* operator requests that approve reconciliations
    Bystanders,     \* operator decisions that are made: subset of their names
    MaxStamps,      \* bound on updates of items
    MaxDeaths       \* bound on crashes between the store and the file

\* A rewording keeps the evidence: apply_verified_topic_revision builds the new
\* candidate of the same Revisions, Topic and namespace.
ASSUME InboxAssumption ==
    /\ MaxStamps \in Nat /\ MaxDeaths \in Nat
    /\ \A i \in Items : KindOf[i] = "topic" =>
          /\ Reworded[i] \in Items /\ KindOf[Reworded[i]] = "topic"
          /\ Evidence[Reworded[i]] = Evidence[i]

VARIABLES
    file,       \* the ledger file: items -> record
    copy,       \* the maintainer's copy
    doing,      \* what the maintainer is doing
    session,    \* operators that approve a reconciliation, with their copy
    effects,    \* what the store shows: see InboxInit
    moved,      \* evidence whose Revisions are no longer the heads
    stamp,      \* the clock of updated_at
    deaths

inboxVars == <<file, copy, doing, session, effects, moved, stamp, deaths>>

Of(kind) == {i \in Items : KindOf[i] = kind}
Locked == {"topic", "relation", "fusion"}
Verdicts == {"approve", "no_change", "human", "waiting"}
AtRest == [stage |-> "idle"]

Item(status, verdict) ==
    [status |-> status, verdict |-> verdict, at |-> stamp + 1, intent |-> FALSE,
     receipt |-> FALSE]
With(l, i, status) ==
    [l EXCEPT ![i].status = status, ![i].at = IF KindOf[i] = "relation" THEN 0 ELSE stamp + 1]
Add(l, i, item) == [j \in DOMAIN l \cup {i} |-> IF j = i THEN item ELSE l[j]]
Pending(l, i) == i \in DOMAIN l /\ l[i].status = "pending"

\* save: the copy wins where its update is not older; a relation has no time,
\* there a decision wins over a pending copy.
Merge(local, persisted) ==
    [i \in DOMAIN local \cup DOMAIN persisted |->
        IF i \notin DOMAIN persisted THEN local[i]
        ELSE IF i \notin DOMAIN local THEN persisted[i]
        ELSE IF KindOf[i] = "relation"
             THEN IF local[i].status # "pending" \/ persisted[i].status = "pending"
                  THEN local[i] ELSE persisted[i]
             ELSE IF local[i].at >= persisted[i].at THEN local[i] ELSE persisted[i]]

\* persist_stale_reviews: a decision of somebody else is not rewritten.
Retired(l, ids) ==
    [i \in DOMAIN l \cup ids |->
        IF i \in ids /\ ~(i \in DOMAIN file /\ file[i].status # "pending")
        THEN [copy[i] EXCEPT !.status = "stale", !.at = stamp + 1]
        ELSE IF i \in ids THEN file[i] ELSE l[i]]

\* Topics of the same evidence that are decided, or under review or decided.
SameEvidence(l, i) ==
    {j \in DOMAIN l : KindOf[j] = "topic" /\ Evidence[j] = Evidence[i]}
Decided(l, i) == \E j \in SameEvidence(l, i) : l[j].status \in {"accepted", "rejected"}
Reviewed(l, i) == \E j \in SameEvidence(l, i) : l[j].status # "stale"

Unmoved(i) == Evidence[i] \notin moved
Clock == stamp < MaxStamps /\ stamp' = stamp + 1
Same == UNCHANGED <<moved, deaths>>
Died == deaths' # deaths

InboxInit ==
    /\ file = [i \in {} |-> 0] /\ copy = [i \in {} |-> 0]
    /\ doing = AtRest
    /\ session = [s \in Sessions |-> AtRest]
    /\ effects = [topics |-> {}, links |-> [i \in Of("relation") |-> 0], fused |-> {},
                  console |-> {}, assessed |-> {}, closed |-> {}]
    /\ moved = {} /\ stamp = 0 /\ deaths = 0

\* A store step is followed by the file's, or by the death of its process.
ThenFile(l) ==
    \/ file' = l /\ UNCHANGED deaths
    \/ UNCHANGED file /\ deaths < MaxDeaths /\ deaths' = deaths + 1
Completed == UNCHANGED deaths

-----------------------------------------------------------------------------
(* What a decision applies, under the decision lock.                       *)

\* A fault: the store's Topics and earlier decisions are not looked at.
PendingTopic(t) == (t \in DOMAIN file => file[t].status = "pending") /\ Unmoved(t)

\* apply_topic_candidate. A Topic Page of this evidence would be the target of a
\* refresh, and the candidate another one than what was reviewed.
TopicApplicable(t) ==
    /\ \A u \in effects.topics : Evidence[u] # Evidence[t]
    /\ t \in DOMAIN file => file[t].status = "pending"
    /\ ~Decided(file, t)
    /\ t \in DOMAIN file \/ ~Reviewed(file, t)
    /\ Unmoved(t)

\* A Topic that was not queued is queued first.
WriteTopic(t) ==
    LET queued == IF t \in DOMAIN file THEN file
                  ELSE Add(file, t, Item("pending", "none"))
    IN  /\ effects' = [effects EXCEPT !.topics = @ \cup {t}]
        /\ \/ file' = With(queued, t, "accepted") /\ Completed
           \/ file' = queued /\ deaths < MaxDeaths /\ deaths' = deaths + 1

\* approve_relation_review: an edge that exists is accepted as it is.
ApproveRelation(r) ==
    /\ Pending(file, r) /\ Unmoved(r)
    /\ IF effects.links[r] > 0 THEN file' = With(file, r, "accepted") /\ Completed /\ UNCHANGED effects
       ELSE effects' = [effects EXCEPT !.links[r] = @ + 1]
            /\ ThenFile(With(file, r, "accepted"))

\* apply_reconciliation for feedback: whatever resolved it before is returned.
Closing(i) ==
    [effects EXCEPT !.closed = IF i \in @ \cup effects.assessed THEN @ ELSE @ \cup {i}]

-----------------------------------------------------------------------------
(* The maintainer.                                                         *)

Working == doing = AtRest
SaveLedger ==
    /\ Working /\ copy # file
    /\ copy' = Merge(copy, file) /\ file' = copy'
    /\ UNCHANGED <<doing, session, effects, stamp>> /\ Same

\* A Topic that the models proposed and reviewed comes into the inbox.
ProposeTopic(t, verdict) ==
    /\ Working /\ Clock
    /\ LET merged == Merge(copy, file)
           status == IF verdict = "no_change" THEN "rejected" ELSE "pending"
       IN  IF Reviewed(merged, t) THEN file' = merged /\ copy' = merged /\ UNCHANGED doing
           ELSE /\ file' = Add(merged, t, Item(status, verdict)) /\ copy' = file'
                /\ doing' = IF verdict = "approve" THEN [stage |-> "apply", item |-> t] ELSE AtRest
    /\ UNCHANGED <<session, effects>> /\ Same

\* A relation for review is in the copy only, until the job ends and saves.
ProposeRelation(r, verdict) ==
    /\ Working /\ r \notin DOMAIN copy
    /\ copy' = Add(copy, r, [Item("pending", verdict) EXCEPT !.at = 0])
    /\ UNCHANGED <<file, doing, session, effects, stamp>> /\ Same

\* One that needs no review is linked; decisions on the file are looked at again.
CommitRelation(r) ==
    /\ Working
    /\ r \in DOMAIN copy => copy[r].status \in {"accepted", "stale"}
    /\ r \in DOMAIN file => file[r].status \notin {"suppressed", "rejected"}
    /\ effects.links[r] = 0 /\ Unmoved(r)
    /\ effects' = [effects EXCEPT !.links[r] = 1]
    /\ UNCHANGED <<file, copy, doing, session, stamp>> /\ Same

\* A validity change or a fusion that was discovered; feedback that was deferred
\* or retired comes back as a new item.
ProposeReconciliation(i) ==
    /\ Working /\ Clock
    /\ i \in DOMAIN copy => KindOf[i] = "feedback" /\ copy[i].status = "stale"
    /\ KindOf[i] = "feedback" => i \notin effects.closed \cup effects.assessed
    /\ copy' = Add(copy, i, Item("pending", "none"))
    /\ UNCHANGED <<file, doing, session, effects>> /\ Same

\* A closure that its review approved is applied without an inbox item.
CloseFeedback(i) ==
    /\ Working /\ Unmoved(i) /\ i \notin effects.closed \cup effects.assessed
    /\ i \in DOMAIN copy => copy[i].status = "stale"
    /\ effects' = Closing(i)
    /\ UNCHANGED <<file, copy, doing, session, stamp>> /\ Same

\* refresh_maintenance_reviews: obsolete proposals are retired, one Topic for each
\* evidence is kept, and a relation that exists by now is accepted.
Refresh ==
    /\ Working /\ Clock
    /\ LET l == Merge(copy, file)
           Obsolete(i) ==
               \/ ~Unmoved(i) /\ KindOf[i] # "feedback"
               \/ KindOf[i] = "fusion" /\ i \in effects.fused /\ ~l[i].intent
               \/ /\ KindOf[i] = "topic"
                  /\ \E j \in SameEvidence(l, i) : l[j].status = "pending" /\ l[j].at < l[i].at
       IN  /\ file' = [i \in DOMAIN l |->
                IF l[i].status # "pending" THEN l[i]
                ELSE IF Obsolete(i) THEN With(l, i, "stale")[i]
                ELSE IF KindOf[i] = "relation" /\ effects.links[i] > 0
                     THEN With(l, i, "accepted")[i] ELSE l[i]]
           /\ copy' = file'
    /\ UNCHANGED <<doing, session, effects>> /\ Same

\* refresh_feedback_reviews: a rejection the store has not closed is closed, and
\* feedback that changed is retired.
RefreshFeedback ==
    /\ Working /\ Clock
    /\ LET reject == {i \in Of("feedback") \cap DOMAIN copy \cap DOMAIN file :
                        /\ i \notin effects.closed \cup effects.assessed
                        /\ copy[i].status = "rejected" /\ file[i].status = "rejected"
                        /\ Unmoved(i)}
           stale == {i \in Of("feedback") : Pending(copy, i) /\ ~Unmoved(i)}
       IN  /\ effects' = [effects EXCEPT !.closed = @ \cup reject]
           /\ copy' = Retired(copy, stale) /\ file' = Retired(file, stale)
    /\ UNCHANGED <<doing, session>> /\ Same

\* A proposal without a final review is reviewed again, one that was approved is
\* applied. The models are asked without the lock.
Resumable(i) ==
    Pending(copy, i) /\ KindOf[i] \in Locked /\ copy[i].verdict \in {"approve", "waiting", "none"}
StartResume(i) ==
    /\ Working /\ Resumable(i)
    /\ doing' = [stage |-> "verify", item |-> i, seen |-> copy[i]]
    /\ UNCHANGED <<file, copy, session, effects, stamp>> /\ Same

\* Somebody decided or edited the proposal meanwhile: start over from the file.
Overtaken ==
    /\ doing.stage = "verify"
    /\ ~(Pending(file, doing.item) /\ file[doing.item] = doing.seen)
    /\ copy' = file /\ doing' = AtRest
    /\ UNCHANGED <<file, session, effects, stamp>> /\ Same

Verified ==
    IF doing.seen.verdict = "approve" THEN {"approve"} ELSE Verdicts
Undisturbed(kind) ==
    /\ doing.stage = "verify" /\ KindOf[doing.item] = kind
    /\ Pending(file, doing.item) /\ file[doing.item] = doing.seen
    /\ Clock

\* A review may reword a Topic, which is then another candidate.
ResumeTopic(verdict) ==
    /\ Undisturbed("topic") /\ verdict \in Verified
    /\ LET old == doing.item
           new == IF verdict = "approve" /\ doing.seen.verdict # "approve"
                  THEN Reworded[old] ELSE old
           item == Item(IF ~Unmoved(old) THEN "stale"
                        ELSE IF verdict = "no_change" THEN "rejected" ELSE "pending", verdict)
       IN  /\ file' = Add(IF new = old THEN file ELSE With(file, old, "stale"), new, item)
           /\ doing' = IF verdict = "approve" /\ Unmoved(old)
                     THEN [stage |-> "apply", item |-> new] ELSE AtRest
    /\ copy' = file'
    /\ UNCHANGED <<session, effects>> /\ Same

ResumeRelation(verdict) ==
    /\ Undisturbed("relation") /\ verdict \in Verified
    /\ LET r == doing.item
       IN  /\ file' = [file EXCEPT ![r].verdict = verdict, ![r].status =
                IF ~Unmoved(r) THEN "stale" ELSE IF verdict = "no_change" THEN "rejected" ELSE @]
           /\ doing' = IF verdict = "approve" /\ Unmoved(r)
                     THEN [stage |-> "apply", item |-> r] ELSE AtRest
    /\ copy' = file'
    /\ UNCHANGED <<session, effects>> /\ Same

\* The lock is held from the intent to the receipt. A definite refusal of the
\* store returns the proposal to the operator.
ResumeFusion(verdict) ==
    /\ Undisturbed("fusion") /\ verdict \in Verified
    /\ LET i == doing.item
           item == [Item(IF verdict = "no_change" THEN "rejected" ELSE "pending", verdict)
                       EXCEPT !.intent = verdict = "approve"]
           refused == (~Unmoved(i) \/ i \in effects.console) /\ i \notin effects.fused
       IN  IF verdict # "approve"
           THEN file' = Add(file, i, item) /\ Completed /\ UNCHANGED effects
           ELSE \/ /\ file' = Add(file, i, item)
                   /\ deaths < MaxDeaths /\ deaths' = deaths + 1
                   /\ effects' \in {effects, IF refused THEN effects
                                             ELSE [effects EXCEPT !.fused = @ \cup {i}]}
                \/ /\ refused /\ Completed /\ UNCHANGED effects
                   /\ file' = Add(file, i, [item EXCEPT !.verdict = "human", !.intent = FALSE])
                \/ /\ ~refused /\ Completed
                   /\ effects' = [effects EXCEPT !.fused = @ \cup {i}]
                   /\ file' = Add(file, i, [item EXCEPT !.status = "accepted",
                                              !.intent = FALSE, !.receipt = TRUE])
    /\ copy' = file' /\ doing' = AtRest
    /\ UNCHANGED <<session, moved>>

\* The application takes the lock again; when it is refused the cycle fails.
ApplyResumed ==
    /\ doing.stage = "apply" /\ Clock
    /\ LET i == doing.item
       IN  IF KindOf[i] = "topic"
           THEN IF TopicApplicable(i)
                THEN /\ WriteTopic(i)
                     /\ copy' = IF Died THEN file'
                                ELSE IF Pending(copy, i) THEN With(copy, i, "accepted")
                                ELSE copy
                ELSE UNCHANGED <<file, copy, effects>> /\ Completed
           ELSE IF Pending(file, i) /\ Unmoved(i)
                THEN ApproveRelation(i) /\ copy' = file'
                ELSE UNCHANGED <<file, copy, effects>> /\ Completed
    /\ doing' = AtRest
    /\ UNCHANGED <<session, moved>>

Restart ==
    /\ copy # file \/ doing # AtRest
    /\ deaths < MaxDeaths /\ deaths' = deaths + 1
    /\ copy' = file /\ doing' = AtRest
    /\ UNCHANGED <<file, session, effects, moved, stamp>>

-----------------------------------------------------------------------------
(* Operators. Each decision but the approval of a reconciliation is one step *)
(* under the lock, on the file as it is.                                    *)

Decision(name) ==
    name \in Bystanders /\ Clock /\ UNCHANGED <<copy, doing, session, moved>>

Reject(i) ==
    /\ Decision("reject") /\ Pending(file, i) /\ KindOf[i] # "relation"
    /\ IF KindOf[i] = "feedback"
       THEN Unmoved(i) /\ effects' = Closing(i) /\ ThenFile(With(file, i, "rejected"))
       ELSE file' = With(file, i, "rejected") /\ Completed /\ UNCHANGED effects

RejectRelation(r, status) ==
    /\ Decision("relation") /\ Pending(file, r)
    /\ file' = With(file, r, status)
    /\ UNCHANGED <<effects, deaths>>

\* A decision about a pair that may not have been proposed.
DecidePair(r, status) ==
    /\ Decision("relation") /\ Unmoved(r)
    /\ r \in DOMAIN file => file[r].status = "pending"
    /\ file' = Add(file, r, [Item(status, "none") EXCEPT !.at = 0])
    /\ UNCHANGED <<effects, deaths>>

AcceptRelation(r) == Decision("relation") /\ ApproveRelation(r)

\* apply_relation_candidate: an edge of its own, without a review item.
LinkPair(r) ==
    /\ Decision("relation") /\ Unmoved(r) /\ effects.links[r] = 0
    /\ r \in DOMAIN file => file[r].status \notin {"suppressed", "rejected"}
    /\ effects' = [effects EXCEPT !.links[r] = 1]
    /\ UNCHANGED <<file, deaths>>

AcceptTopic(t) == Decision("topic") /\ TopicApplicable(t) /\ WriteTopic(t)

\* A reason (also for a decided Topic) or a snooze.
Annotate(i) ==
    /\ Decision("annotate") /\ i \in DOMAIN file /\ KindOf[i] # "relation"
    /\ KindOf[i] = "topic" \/ file[i].status = "pending"
    /\ file' = With(file, i, file[i].status)
    /\ UNCHANGED <<effects, deaths>>

\* Generated Pages of a fusion are archived again.
Rollback(i) ==
    /\ Decision("rollback") /\ i \in DOMAIN file /\ file[i].receipt
    /\ effects' = [effects EXCEPT !.fused = @ \ {i}]
    /\ ThenFile(With(file, i, file[i].status))

\* The Console publishes reviewed Pages itself, and then closes the proposal.
ConsolePublish(s, i) ==
    /\ session[s] = AtRest /\ KindOf[i] \in {"fusion", "update"} /\ Pending(file, i)
    /\ Unmoved(i) /\ i \notin effects.fused
    /\ effects' = [effects EXCEPT !.console = @ \cup {i}]
    /\ session' = [session EXCEPT ![s] = [stage |-> "published", item |-> i]]
    /\ UNCHANGED <<file, copy, doing, stamp>> /\ Same

ConsoleClose(s) ==
    /\ session[s].stage = "published" /\ Clock
    /\ file' = IF Pending(file, session[s].item)
               THEN With(file, session[s].item, "rejected") ELSE file
    /\ session' = [session EXCEPT ![s] = AtRest]
    /\ UNCHANGED <<copy, doing, effects>> /\ Same

\* approve_reconciliation_review takes no lock: it works on the ledger that its
\* request loaded.
OpenApproval(s, i) ==
    /\ session[s] = AtRest /\ KindOf[i] \in {"update", "feedback"} /\ Pending(file, i)
    /\ session' = [session EXCEPT ![s] = [stage |-> "opened", item |-> i, loaded |-> file]]
    /\ UNCHANGED <<file, copy, doing, effects, stamp>> /\ Same

\* The store recognises what was done under the same key, and returns whatever
\* resolved the feedback before.
ApplyApproval(s) ==
    /\ session[s].stage = "opened"
    /\ LET i == session[s].item
           done == i \in effects.assessed \/ (KindOf[i] = "feedback" /\ i \in effects.closed)
       IN  IF Unmoved(i) \/ (done /\ KindOf[i] = "update")
           THEN /\ effects' = IF done THEN effects ELSE [effects EXCEPT !.assessed = @ \cup {i}]
                /\ session' = [session EXCEPT ![s].stage = "applied"]
                /\ UNCHANGED <<file, stamp>>
           ELSE /\ Clock
                /\ file' = IF Pending(file, i) THEN With(file, i, "stale") ELSE file
                /\ session' = [session EXCEPT ![s] = AtRest]
                /\ UNCHANGED effects
    /\ UNCHANGED <<copy, doing>> /\ Same

SaveApproval(s) ==
    /\ session[s].stage = "applied" /\ Clock
    /\ file' = Merge(With(session[s].loaded, session[s].item, "accepted"), file)
    /\ session' = [session EXCEPT ![s] = AtRest]
    /\ UNCHANGED <<copy, doing, effects>> /\ Same

RequestDies(s) ==
    /\ session[s] # AtRest /\ deaths < MaxDeaths /\ deaths' = deaths + 1
    /\ session' = [session EXCEPT ![s] = AtRest]
    /\ UNCHANGED <<file, copy, doing, effects, moved, stamp>>

\* A tenant revises or withdraws a Page that proposals are about.
Move(e) ==
    /\ e \notin moved /\ moved' = moved \cup {e}
    /\ UNCHANGED <<file, copy, doing, session, effects, stamp, deaths>>

-----------------------------------------------------------------------------
InboxNext ==
    \/ SaveLedger \/ Refresh \/ RefreshFeedback \/ Overtaken \/ ApplyResumed \/ Restart
    \/ \E t \in Of("topic") : \/ \E v \in Verdicts : ProposeTopic(t, v)
                              \/ AcceptTopic(t)
    \/ \E r \in Of("relation") :
        \/ \E v \in {"approve", "human", "waiting"} : ProposeRelation(r, v)
        \/ CommitRelation(r) \/ AcceptRelation(r) \/ LinkPair(r)
        \/ \E status \in {"rejected", "suppressed"} :
                RejectRelation(r, status) \/ DecidePair(r, status)
    \/ \E i \in Items \ (Of("topic") \cup Of("relation")) : ProposeReconciliation(i)
    \/ \E i \in Of("feedback") : CloseFeedback(i)
    \/ \E i \in Items : StartResume(i) \/ Reject(i) \/ Annotate(i) \/ Rollback(i)
    \/ \E v \in Verdicts : ResumeTopic(v) \/ ResumeRelation(v) \/ ResumeFusion(v)
    \/ \E s \in Sessions :
        \/ ConsoleClose(s) \/ ApplyApproval(s) \/ SaveApproval(s) \/ RequestDies(s)
        \/ \E i \in Items : ConsolePublish(s, i) \/ OpenApproval(s, i)
    \/ \E e \in {Evidence[i] : i \in Items} : Move(e)

InboxSpec == InboxInit /\ [][InboxNext]_inboxVars

-----------------------------------------------------------------------------
(* Properties.                                                             *)

\* Items are of the kinds' statuses; only a fusion that was published has a receipt.
InboxTypeOK ==
    /\ \A l \in {file, copy} : DOMAIN l \subseteq Items /\ \A i \in DOMAIN l :
        /\ l[i].status \in {"pending", "accepted", "rejected", "stale"}
                \cup (IF KindOf[i] = "relation" THEN {"suppressed"} ELSE {})
        /\ l[i].at \in 0 .. MaxStamps
        /\ l[i].receipt => KindOf[i] = "fusion" /\ l[i].status = "accepted"
    /\ stamp \in 0 .. MaxStamps /\ deaths \in 0 .. MaxDeaths

\* A decision on the file is final, whatever older copies are merged and saved later
\* (Topics, relations and fusions: their decisions take the lock).
DecisionsStick ==
    [][\A i \in DOMAIN file :
        KindOf[i] \in Locked /\ file[i].status \in {"accepted", "rejected", "suppressed"}
            => file'[i].status = file[i].status]_inboxVars

\* No edge is made for a pair after an operator rejected or suppressed it.
NoLinkAgainstDecision ==
    [][\A r \in Of("relation") :
        effects'.links[r] > effects.links[r] /\ r \in DOMAIN file =>
            file[r].status \notin {"rejected", "suppressed"}]_inboxVars

\* What the file calls accepted was done in the store, also after crashes.
AcceptedIsDone ==
    \A i \in DOMAIN file : file[i].status = "accepted" =>
        CASE KindOf[i] = "topic" -> i \in effects.topics
          [] KindOf[i] = "relation" -> effects.links[i] = 1
          [] KindOf[i] = "fusion" -> file[i].receipt
          [] OTHER -> i \in effects.assessed \cup effects.closed

\* What is accepted was done, and once: one Topic Page is written for the same
\* evidence, by whoever applies or rewords it, and one edge for a pair, by
\* whichever way it is linked.
WrittenOnce ==
    /\ AcceptedIsDone
    /\ \A t, u \in effects.topics : Evidence[t] = Evidence[u] => t = u
    /\ \A r \in Of("relation") : effects.links[r] <= 1

\* The file agrees with the store on how feedback was resolved.
FeedbackAsDecided ==
    \A i \in Of("feedback") \cap DOMAIN file :
        /\ file[i].status = "accepted" => i \in effects.assessed
        /\ file[i].status = "rejected" => i \notin effects.assessed

\* A fusion that was published can be recovered or rolled back.
PublicationIsOwned ==
    \A i \in effects.fused : i \in DOMAIN file /\ (file[i].receipt \/ Pending(file, i))

\* A Topic that was written before a crash can still be accepted.
WrittenCanBeAccepted ==
    \A t \in effects.topics : Pending(file, t) /\ Unmoved(t) => TopicApplicable(t)
=============================================================================
