------------------------------ MODULE TopicDiscovery ------------------------------
(***************************************************************************)
(* How Topics come to be (pcp-runtime: maintenance/coordinator.rs,          *)
(* discovery.rs, topic_policy.rs; pcp-sqlite: extraction.rs). A scheduled   *)
(* job offers a window of Pages to a model, which draft a Topic or the     *)
(* refresh of one; a second model reviews the draft against the full text;  *)
(* the result is queued, and applied at once if the configuration allows.   *)
(* An operator analyzes and applies at the same time, and tenants go on     *)
(* revising Pages and Topics.                                               *)
(*                                                                          *)
(* What identifies a draft is its evidence: exact source Revisions and the  *)
(* exact Topic it refreshes. Title and text do not.                         *)
(***************************************************************************)
EXTENDS Integers, Sequences, FiniteSets

CONSTANTS
    SourcePages,      \* Pages that Topics are made of
    Scope,            \* source -> its Scope
    Groups,           \* sets of sources that routing puts together
    Long,             \* the sources that alone reach minimum_total_chars
    MinimumPages,     \* topic.minimum_pages
    MaxSourcePages,   \* topic.max_source_pages
    MaxPendingReviews,\* topic.max_pending_reviews
    AutoApply,        \* mode = apply and topic.auto_apply
    CrossScope,       \* allow_cross_scope_derivation
    Withdrawable,     \* bound: the sources that are withdrawn
    MaxSourceRevisions,\* bound: Revisions of a source
    MaxEditions,      \* bound: Revisions of a Topic
    MaxTopics,        \* bound: Topics ever made
    MaxItems          \* bound: proposals ever queued

VARIABLES
    sources,          \* source -> [rev, shown]
    topics,           \* sequence of [rev, from, scope]: its source Pages, as of its head
    items,            \* the review queue on file: sequence of [evidence, status, approved]
    known,            \* evidence that the ledger in memory has as reviewed
    topicJob,         \* the scheduled job, or Idle
    draft,            \* the evidence of the draft that an operator holds: none or one
    hand              \* the application that holds the decision lock, or Idle

topicVars == <<sources, topics, items, known, topicJob, draft, hand>>
reviewVars == <<items, known>>

Idle == [step |-> "idle"]
None == 0

TopicAssumption ==
    /\ DOMAIN Scope = SourcePages /\ Long \subseteq SourcePages /\ Groups \subseteq SUBSET SourcePages
    /\ MinimumPages \in Nat /\ MaxSourcePages >= 2 /\ MaxPendingReviews > 0
    /\ IsFiniteSet(SourcePages)

TopicInit ==
    /\ sources = [p \in SourcePages |-> [rev |-> 1, shown |-> TRUE]]
    /\ topics = <<>> /\ items = <<>> /\ known = {}
    /\ topicJob = Idle /\ draft = {} /\ hand = Idle

Current == {<<p, sources[p].rev>> : p \in {p \in SourcePages : sources[p].shown}}
PagesOf(S) == {e[1] : e \in S}
Topic(t, r) == t \in DOMAIN topics /\ topics[t].rev = r

-----------------------------------------------------------------------------
(* Evidence.                                                               *)

Accumulated(S) == Cardinality(S) >= 2 /\ (Cardinality(S) >= MinimumPages \/ PagesOf(S) \cap Long # {})

\* The sources and the Topic that is refreshed are as they were when it was drafted.
Fresh(e) == e.from \subseteq Current /\ (e.target # None => Topic(e.target, e.at))

Standing(i) == items[i].status # "stale"
Reviewed == {items[i].evidence : i \in {i \in DOMAIN items : Standing(i)}}
Decided == {items[i].evidence :
               i \in {i \in DOMAIN items : items[i].status \in {"accepted", "rejected"}}}

\* topic_pending_count: approved draft that wait for more sources do not count.
Backlog ==
    Cardinality({i \in DOMAIN items : items[i].status = "pending" /\
        (items[i].approved => Accumulated(items[i].evidence.from \cap Current))})

\* topic_candidate_windows: within a Scope, unless an operator may cross them.
TopicWindows(cross) ==
    LET Part(g, S) == {e \in Current : e[1] \in g /\ Scope[e[1]] \in S}
        all == {Scope[p] : p \in SourcePages}
    IN  {W \in {Part(g, S) : g \in Groups, S \in IF cross THEN {all} ELSE {{s} : s \in all}} :
            Cardinality(W) >= 2}

\* select_topic_refresh_target: the one the model names, else one of the same Pages.
Target(pages, offered, named) ==
    IF named # None THEN {named}
    ELSE LET same == {t \in DOMAIN offered : offered[t].from = pages}
         IN  IF same = {} THEN {None} ELSE same

\* topic_from_response: a refresh takes all sources of its Topic along.
Drafted(S, offered, present, named) ==
    UNION {LET old == IF t = None THEN {} ELSE offered[t].from
               from == S \cup {e \in present : e[1] \in old \ PagesOf(S)}
               scopes == {Scope[p] : p \in PagesOf(from)}
               into == IF t = None THEN scopes ELSE {offered[t].scope}
           IN  IF old \subseteq PagesOf(from) /\ Cardinality(into) = 1
                  /\ (scopes = into \/ CrossScope)
               THEN {[from |-> from, scope |-> CHOOSE s \in into : TRUE,
                      target |-> t, at |-> IF t = None THEN 0 ELSE offered[t].rev]}
               ELSE {} :
           t \in Target(PagesOf(S), offered, named)}

Drawn(W) == {S \in SUBSET W : Cardinality(S) \in 2 .. MaxSourcePages}

-----------------------------------------------------------------------------
(* The scheduled job.                                                      *)

\* A fault: nobody takes the decision lock.
NoLock == TRUE

\* The decision lock of the reviews.
LockFree == hand = Idle

\* The window cools down; it may be due again whenever the next job starts.
EndJob == topicJob' = Idle

StartJob(W) ==
    /\ topicJob = Idle /\ Backlog < MaxPendingReviews
    /\ topicJob' = [step |-> "extract", window |-> W, present |-> Current, offered |-> topics]
    /\ UNCHANGED <<sources, topics, reviewVars, draft, hand>>

\* No candidate, a deferral, a failure, or two answers that are not valid.
NoDraft ==
    /\ topicJob.step = "extract" /\ EndJob
    /\ UNCHANGED <<sources, topics, reviewVars, draft, hand>>

Extract(S, named) ==
    /\ topicJob.step = "extract"
    /\ \E e \in Drafted(S, topicJob.offered, topicJob.present, named) :
          IF e \in known \/ ~Accumulated(e.from) THEN EndJob
          ELSE topicJob' = [step |-> "verify", offered |-> topicJob.offered, evidence |-> e]
    /\ UNCHANGED <<sources, topics, reviewVars, draft, hand>>

\* verify_maintenance_candidate reads everything again. Sources that changed are left
\* to a person; a Topic that changed ends the job.
Verify(verdict) ==
    /\ topicJob.step = "verify"
    /\ IF topicJob.evidence.from \subseteq Current
       THEN \A t \in DOMAIN topicJob.offered : Topic(t, topicJob.offered[t].rev)
       ELSE verdict = "needs_review"
    /\ topicJob' = [step |-> "enqueue", evidence |-> topicJob.evidence, verdict |-> verdict]
    /\ UNCHANGED <<sources, topics, reviewVars, draft, hand>>

VerifyFails ==
    /\ topicJob.step = "verify" /\ EndJob
    /\ UNCHANGED <<sources, topics, reviewVars, draft, hand>>

Queued(e, status, approved) == Append(items, [evidence |-> e, status |-> status, approved |-> approved])

\* Under the decision lock: the file is merged first, and the evidence looked up again.
Enqueue ==
    LET e == topicJob.evidence
        approved == topicJob.verdict = "approve"
    IN  /\ topicJob.step = "enqueue" /\ LockFree
        /\ IF e \in Reviewed
           THEN EndJob /\ UNCHANGED items /\ known' = known \cup Reviewed
           ELSE /\ Len(items) < MaxItems
                /\ items' = Queued(e, IF topicJob.verdict = "no_change" THEN "rejected" ELSE "pending",
                                   approved)
                /\ known' = known \cup Reviewed \cup {e}
                /\ IF approved /\ AutoApply /\ Accumulated(e.from)
                      /\ \A p \in PagesOf(e.from) : Scope[p] = e.scope
                   THEN topicJob' = [topicJob EXCEPT !.step = "apply"]
                   ELSE EndJob
        /\ UNCHANGED <<sources, topics, draft, hand>>

-----------------------------------------------------------------------------
(* Application.                                                            *)

\* What apply_topic_candidate checks under the lock; i is the item of e, or None.
Applicable(e, i) ==
    /\ i # None => items[i].status = "pending"
    /\ e.from \subseteq Current
    /\ IF e.target # None THEN Topic(e.target, e.at)
       ELSE \A t \in DOMAIN topics : topics[t].from # PagesOf(e.from)
    /\ e \notin Decided
    /\ i = None => e \notin Reviewed

ItemOf(e) == CHOOSE i \in DOMAIN items : items[i].evidence = e /\ Standing(i)

ApplyJob ==
    /\ topicJob.step = "apply" /\ LockFree
    /\ IF topicJob.evidence \in Reviewed /\ Applicable(topicJob.evidence, ItemOf(topicJob.evidence))
       THEN /\ hand' = [step |-> "write", item |-> ItemOf(topicJob.evidence), by |-> "job"]
            /\ topicJob' = [topicJob EXCEPT !.step = "wait"]
       ELSE topicJob' = Idle /\ UNCHANGED hand
    /\ UNCHANGED <<sources, topics, reviewVars, draft>>

ApplyItem(i) ==
    /\ LockFree /\ Applicable(items[i].evidence, i)
    /\ hand' = [step |-> "write", item |-> i, by |-> "operator"]
    /\ UNCHANGED <<sources, topics, reviewVars, topicJob, draft>>

\* analyze_topic_candidate pays for a draft and its review, and queues nothing.
Analyze(S, named) ==
    /\ \E e \in Drafted(S, topics, Current, named) :
          e \notin Reviewed /\ draft' = {e}
    /\ UNCHANGED <<sources, topics, reviewVars, topicJob, hand>>

\* A draft that was not queued is queued when it is applied.
ApplyDraft(e) ==
    /\ LockFree /\ Applicable(e, None) /\ Len(items) < MaxItems
    /\ items' = Queued(e, "pending", TRUE)
    /\ hand' = [step |-> "write", item |-> Len(items) + 1, by |-> "operator"]
    /\ UNCHANGED <<sources, topics, known, topicJob, draft>>

\* resolve_refresh_target, in the transaction of extract_topic.
Writable(e) ==
    LET pages == PagesOf(e.from)
        Within(t) == topics[t].scope = e.scope /\ topics[t].from # {}
        Shared(t) == Cardinality(topics[t].from \cap pages)
    IN  /\ e.from \subseteq Current
        /\ IF e.target = None
           THEN \A t \in DOMAIN topics : Within(t) => ~pages \subseteq topics[t].from
           ELSE /\ Topic(e.target, e.at) /\ Within(e.target) /\ Shared(e.target) >= 2
                /\ 2 * Shared(e.target) >= Cardinality(topics[e.target].from \cup pages)

Released == hand' = Idle /\ topicJob' = IF hand.by = "job" THEN Idle ELSE topicJob

WriteTopic ==
    LET e == items[hand.item].evidence
        written == [rev |-> e.at + 1, from |-> PagesOf(e.from), scope |-> e.scope]
    IN  /\ hand.step = "write" /\ Writable(e)
        /\ IF e.target = None
           THEN Len(topics) < MaxTopics /\ topics' = Append(topics, written)
           ELSE e.at < MaxEditions /\ topics' = [topics EXCEPT ![e.target] = written]
        /\ items' = [items EXCEPT ![hand.item].status = "accepted"]
        /\ Released
        /\ UNCHANGED <<sources, known, draft>>

\* The store refuses; the item waits on, and a cycle ends without a record.
WriteFails ==
    /\ hand.step = "write" /\ ~Writable(items[hand.item].evidence)
    /\ Released
    /\ UNCHANGED <<sources, topics, reviewVars, draft>>

-----------------------------------------------------------------------------
(* Decisions, and the other writers.                                       *)

Reject(i) ==
    /\ LockFree /\ items[i].status = "pending"
    /\ items' = [items EXCEPT ![i].status = "rejected"]
    /\ UNCHANGED <<sources, topics, known, topicJob, draft, hand>>

\* refresh_maintenance_reviews: changed evidence, and later items of the same.
RefreshReviews ==
    LET Pending(i) == items[i].status = "pending"
        Retired(i) == Pending(i) /\ (\/ ~Fresh(items[i].evidence)
                                     \/ \E j \in 1 .. i - 1 :
                                           Pending(j) /\ items[j].evidence = items[i].evidence)
    IN  /\ LockFree /\ topicJob = Idle
        /\ items' = [i \in DOMAIN items |-> IF Retired(i) THEN [items[i] EXCEPT !.status = "stale"]
                                            ELSE items[i]]
        /\ known' = {items'[i].evidence : i \in {i \in DOMAIN items' : items'[i].status # "stale"}}
        /\ UNCHANGED <<sources, topics, topicJob, draft, hand>>

ReviseSource(p) ==
    /\ sources[p].shown /\ sources[p].rev < MaxSourceRevisions
    /\ sources' = [sources EXCEPT ![p].rev = @ + 1]
    /\ UNCHANGED <<topics, reviewVars, topicJob, draft, hand>>

WithdrawSource(p) ==
    /\ sources[p].shown /\ p \in Withdrawable
    /\ sources' = [sources EXCEPT ![p].shown = FALSE]
    /\ UNCHANGED <<topics, reviewVars, topicJob, draft, hand>>

\* A Topic that is revised by hand has no sources on record.
ReviseTopic(t) ==
    /\ topics[t].rev < MaxEditions
    /\ topics' = [topics EXCEPT ![t].rev = @ + 1, ![t].from = {}]
    /\ UNCHANGED <<sources, reviewVars, topicJob, draft, hand>>

TopicNext ==
    \/ \E W \in TopicWindows(FALSE) : StartJob(W)
    \/ NoDraft \/ VerifyFails \/ Enqueue \/ ApplyJob \/ WriteTopic \/ WriteFails \/ RefreshReviews
    \/ topicJob # Idle /\ topicJob.step = "extract" /\
       \E S \in Drawn(topicJob.window), named \in {None} \cup DOMAIN topicJob.offered : Extract(S, named)
    \/ \E verdict \in {"approve", "needs_review", "no_change"} : Verify(verdict)
    \/ \E S \in UNION {Drawn(W) : W \in TopicWindows(CrossScope)}, named \in {None} \cup DOMAIN topics :
          Analyze(S, named)
    \/ \E e \in draft : ApplyDraft(e)
    \/ \E i \in DOMAIN items : ApplyItem(i) \/ Reject(i)
    \/ \E p \in SourcePages : ReviseSource(p) \/ WithdrawSource(p)
    \/ \E t \in DOMAIN topics : ReviseTopic(t)

TopicSpec == TopicInit /\ [][TopicNext]_topicVars

-----------------------------------------------------------------------------
(* Properties.                                                             *)

TopicTypeOK ==
    /\ hand # Idle => items[hand.item].status = "pending"
    /\ topicJob.step = "wait" <=> hand # Idle /\ hand.by = "job"
    /\ \A t \in DOMAIN topics : topics[t].from # {} =>
          \/ CrossScope \/ \A p \in topics[t].from : Scope[p] = topics[t].scope

\* The same evidence is not in the queue twice, whoever drafted it and however long a
\* review took: neither the job nor an operator asks for a decision that is pending or
\* was made.
EvidenceOnce ==
    \A i, j \in DOMAIN items : Standing(i) /\ Standing(j) /\ i # j =>
        items[i].evidence # items[j].evidence

\* A refresh never loses a source: what a Topic routes to is kept, although the draft
\* was made of a Topic that somebody else may have refreshed since.
TopicKeepsSources ==
    [][WriteTopic => \A t \in DOMAIN topics : topics[t].from \subseteq topics'[t].from]_topicVars

\* What was rejected, by an operator or as no change, is not written by an application
\* that was on its way.
NoTopicAgainstDecision ==
    [][WriteTopic => \A i \in DOMAIN items :
          items[i].status = "rejected" => items[i].evidence # items[hand.item].evidence]_topicVars
=============================================================================
