---------------------------- MODULE MCMaintenance ----------------------------
(* The parts of maintenance in one run: the first state chooses which part  *)
(* works, and the others stay as they were made. The ledger that schedules  *)
(* (schedule); the decisions about what waits for review (topics, fusions,  *)
(* feedbacks: one for each mix of proposals); the jobs of a cycle (packing, *)
(* notes); the operator's requests (decisions, splits); and the discovery of*)
(* Topics (extraction, refresh).                                            *)
EXTENDS Sequences, TLC, MaintenanceSchedule, ReviewInbox

CONSTANTS a, b      \* consoles

VARIABLES
    component,
    jobPages, jobSummaries, assessed, related, leases, jobKeys, jobUsed, records, inventory,
    turns, window, paid,
    pages, summaries, links, keys, used, drafts, queued, pairs, requests, late,
    sources, topics, items, known, topicJob, draft, hand

scheduleVars == <<live, rev, changes, memory, disk, cycle, backlog, full, calls, crashes,
                  failures, covered>>
jobVars == <<jobPages, jobSummaries, assessed, related, leases, jobKeys, jobUsed, records,
             inventory, turns, window, paid>>
operatorVars == <<pages, summaries, links, keys, used, drafts, queued, pairs, requests, late>>
topicVars == <<sources, topics, items, known, topicJob, draft, hand>>

\* The write trigger, whose constants the cfg gives: two Pages of one region.
RegionOfPage == [p \in {"p1", "p2", "p3"} |-> IF p = "p3" THEN "s" ELSE "r"]
PairWindow == {[kind |-> "relation", pages |-> {"p1", "p2"}]}

\* Windows that wait: two Pages of different regions, and one that is too long.
Waiting == INSTANCE MaintenanceSchedule WITH
    Pages <- {"p1", "p3"},
    Planned <- {[kind |-> "relation", pages |-> {"p1", "p3"}], [kind |-> "long_update", pages |-> {"p1"}]},
    MaxChanges <- 1, MaxBacklog <- 1, MaxJobs <- 1, MaxDiscoveryJobs <- 2, MaxAttempts <- 2,
    MaxIssues <- 1, MinNewPages <- 1, PeriodicReview <- FALSE, MaxCrashes <- 1,
    MaxFailures <- 1, FailedCalls <- {1}

\* The inbox, whose constants the cfg gives: two Topics of the same sources, of which
\* one is what the other is reworded to, and a proposal of each other kind.
KindOfItem == [t1 |-> "topic", t2 |-> "topic", r |-> "relation", f |-> "fusion", u |-> "update", c |-> "feedback"]
About == [t1 |-> "sources", t2 |-> "sources", r |-> "pair", f |-> "group", u |-> "change", c |-> "report"]
Rewording == [[i \in DOMAIN About |-> i] EXCEPT !["t1"] = "t2"]

Packing == INSTANCE MaintenanceJobs WITH
    pages <- jobPages, summaries <- jobSummaries, keys <- jobKeys, used <- jobUsed,
    ledger <- records, cycle <- turns, job <- window,
    Sources <- 2, Notes <- 1, Offered <- {"revise", "unpack", "delete_summary"}, Kinds <- {"packing", "summary", "relation"}, Applies <- TRUE,
    MaxJobs <- 2, MaxPages <- 4, MaxRevisions <- 5, MaxCycles <- 2
Reviewing == INSTANCE MaintenanceJobs WITH
    pages <- jobPages, summaries <- jobSummaries, keys <- jobKeys, used <- jobUsed,
    ledger <- records, cycle <- turns, job <- window,
    Sources <- 0, Notes <- 2, Offered <- {"revise", "withdraw"}, Kinds <- {"relation", "archive", "retention"}, Applies <- TRUE,
    MaxJobs <- 2, MaxPages <- 2, MaxRevisions <- 3, MaxCycles <- 2
Proposing == INSTANCE MaintenanceJobs WITH
    pages <- jobPages, summaries <- jobSummaries, keys <- jobKeys, used <- jobUsed,
    ledger <- records, cycle <- turns, job <- window,
    Sources <- 2, Notes <- 1, Offered <- {"revise"}, Kinds <- {"packing", "summary", "relation", "archive", "retention"}, Applies <- FALSE,
    MaxJobs <- 3, MaxPages <- 3, MaxRevisions <- 4, MaxCycles <- 2

Deciding == INSTANCE OperatorActions WITH
    items <- queued, hand <- requests, Operators <- {a, b},
    Sources <- 0, Notes <- 2, Handled <- {"relation"}, Tenants <- {"revise"},
    MaxPages <- 2, MaxRevisions <- 4, MaxDrafts <- 2
Keeping == INSTANCE OperatorActions WITH
    items <- queued, hand <- requests, Operators <- {a, b},
    Sources <- 0, Notes <- 1, Handled <- {"archive", "summary"}, Tenants <- {"revise", "restore", "delete_summary"},
    MaxPages <- 2, MaxRevisions <- 2, MaxDrafts <- 2
Splitting == INSTANCE OperatorActions WITH
    items <- queued, hand <- requests, Operators <- {a, b},
    Sources <- 4, Notes <- 0, Handled <- {"pack", "split"}, Tenants <- {},
    MaxPages <- 7, MaxRevisions <- 8, MaxDrafts <- 2

Growing == INSTANCE TopicDiscovery WITH
    SourcePages <- {"a", "b", "c"}, Scope <- [p \in {"a", "b", "c"} |-> "s"], Groups <- {{"a", "b", "c"}}, Long <- {"a"},
    MinimumPages <- 2, MaxSourcePages <- 3, MaxPendingReviews <- 1, AutoApply <- TRUE,
    CrossScope <- FALSE, Withdrawable <- {}, MaxSourceRevisions <- 1, MaxEditions <- 2,
    MaxTopics <- 1, MaxItems <- 2
Crossing == INSTANCE TopicDiscovery WITH
    SourcePages <- {"a", "b", "c"}, Scope <- [a |-> "s", b |-> "s", c |-> "t"], Groups <- {{"a", "b", "c"}}, Long <- {"a"},
    MinimumPages <- 2, MaxSourcePages <- 3, MaxPendingReviews <- 1, AutoApply <- TRUE,
    CrossScope <- TRUE, Withdrawable <- {"c"}, MaxSourceRevisions <- 1, MaxEditions <- 2,
    MaxTopics <- 1, MaxItems <- 2

\* What the parts assume of their constants.
ASSUME Waiting!LimitAssumption
ASSUME Packing!JobsAssumption /\ Reviewing!JobsAssumption /\ Proposing!JobsAssumption
ASSUME Deciding!OperatorAssumption /\ Keeping!OperatorAssumption /\ Splitting!OperatorAssumption
ASSUME Growing!TopicAssumption /\ Crossing!TopicAssumption

MaintenanceInit ==
    /\ component \in {"dirty", "waiting", "twins", "pairs", "fusions", "feedback", "packing", "reviewing", "proposing", "deciding", "keeping", "splitting", "growing", "crossing"}
    /\ IF component = "waiting" THEN Waiting!Init ELSE Init
    /\ component \in {"dirty", "waiting"} \/ live = {}
    /\ InboxInit
    /\ CASE component = "reviewing" -> Reviewing!JobsInit
         [] component = "proposing" -> Proposing!JobsInit
         [] OTHER -> Packing!JobsInit
    /\ CASE component = "splitting" -> Splitting!OperatorInit
         [] component = "keeping" -> Keeping!OperatorInit
         [] OTHER -> Deciding!OperatorInit
    /\ Growing!TopicInit

At(c) == component = c /\ UNCHANGED component
Schedule_(c) == At(c) /\ UNCHANGED <<inboxVars, jobVars, operatorVars, topicVars>>
Inbox_(c) == At(c) /\ UNCHANGED <<scheduleVars, jobVars, operatorVars, topicVars>>
Jobs_(c) == At(c) /\ UNCHANGED <<scheduleVars, inboxVars, operatorVars, topicVars>>
Operator_(c) == At(c) /\ UNCHANGED <<scheduleVars, inboxVars, jobVars, topicVars>>
Topics_(c) == At(c) /\ UNCHANGED <<scheduleVars, inboxVars, jobVars, operatorVars>>

MaintenanceNext ==
    \/ Schedule_("dirty") /\ \E p \in Pages : WritePage(p)
    \/ Schedule_("dirty") /\ \E p \in Pages : WithdrawPage(p)
    \/ Schedule_("dirty") /\ \E p \in Pages : RestorePage(p)
    \/ Schedule_("dirty") /\ Crash
    \/ Schedule_("dirty") /\ StartCycle
    \/ Schedule_("dirty") /\ ReviewBacklog
    \/ Schedule_("dirty") /\ SelectWindow
    \/ Schedule_("dirty") /\ FinishJob
    \/ Schedule_("dirty") /\ FailJob
    \/ Schedule_("dirty") /\ NoWindow
    \/ Schedule_("dirty") /\ EndCycle
    \/ Schedule_("dirty") /\ FinishCycle
    \/ Schedule_("dirty") /\ \E what \in {"quiet", "wait"} : TimePasses(what)
    \/ Schedule_("waiting") /\ \E p \in {"p1", "p3"} : Waiting!WritePage(p)
    \/ Schedule_("waiting") /\ \E p \in {"p1", "p3"} : Waiting!WithdrawPage(p)
    \/ Schedule_("waiting") /\ Waiting!QueueFills("relation")
    \/ Schedule_("waiting") /\ Waiting!QueueDrains("relation")
    \/ Schedule_("waiting") /\ Waiting!FailCycle
    \/ Schedule_("waiting") /\ Waiting!Crash
    \/ Schedule_("waiting") /\ Waiting!StartCycle
    \/ Schedule_("waiting") /\ Waiting!ReviewBacklog
    \/ Schedule_("waiting") /\ Waiting!SelectWindow
    \/ Schedule_("waiting") /\ Waiting!SkipUpdate
    \/ Schedule_("waiting") /\ Waiting!FinishJob
    \/ Schedule_("waiting") /\ Waiting!FailJob
    \/ Schedule_("waiting") /\ Waiting!NoWindow
    \/ Schedule_("waiting") /\ Waiting!EndCycle
    \/ Schedule_("waiting") /\ Waiting!FinishCycle
    \/ Schedule_("waiting") /\ \E what \in {"quiet", "wait", "retention"} : Waiting!TimePasses(what)
    \/ Inbox_("twins") /\ SaveLedger
    \/ Inbox_("twins") /\ Refresh
    \/ Inbox_("twins") /\ Overtaken
    \/ Inbox_("twins") /\ ApplyResumed
    \/ Inbox_("twins") /\ Restart
    \/ Inbox_("twins") /\ \E i \in {"t1", "t2"} : StartResume(i)
    \/ Inbox_("twins") /\ \E i \in {"t1", "t2"} : Reject(i)
    \/ Inbox_("twins") /\ \E i \in {"t1", "t2"} : Annotate(i)
    \/ Inbox_("twins") /\ \E t \in {"t1", "t2"}, v \in Verdicts : ProposeTopic(t, v)
    \/ Inbox_("twins") /\ \E t \in {"t1", "t2"} : AcceptTopic(t)
    \/ Inbox_("twins") /\ \E v \in Verdicts : ResumeTopic(v)
    \/ Inbox_("twins") /\ \E e \in {About[i] : i \in {"t1", "t2"}} : Move(e)
    \/ Inbox_("pairs") /\ SaveLedger
    \/ Inbox_("pairs") /\ Refresh
    \/ Inbox_("pairs") /\ Overtaken
    \/ Inbox_("pairs") /\ ApplyResumed
    \/ Inbox_("pairs") /\ Restart
    \/ Inbox_("pairs") /\ \E i \in {"r"} : StartResume(i)
    \/ Inbox_("pairs") /\ \E v \in {"approve", "human", "waiting"} : ProposeRelation("r", v)
    \/ Inbox_("pairs") /\ CommitRelation("r")
    \/ Inbox_("pairs") /\ AcceptRelation("r")
    \/ Inbox_("pairs") /\ LinkPair("r")
    \/ Inbox_("pairs") /\ \E status \in {"rejected", "suppressed"} : RejectRelation("r", status)
    \/ Inbox_("pairs") /\ \E status \in {"rejected", "suppressed"} : DecidePair("r", status)
    \/ Inbox_("pairs") /\ \E v \in Verdicts : ResumeRelation(v)
    \/ Inbox_("pairs") /\ \E e \in {About[i] : i \in {"r"}} : Move(e)
    \/ Inbox_("fusions") /\ SaveLedger
    \/ Inbox_("fusions") /\ Refresh
    \/ Inbox_("fusions") /\ Overtaken
    \/ Inbox_("fusions") /\ Restart
    \/ Inbox_("fusions") /\ \E i \in {"f", "u"} : StartResume(i)
    \/ Inbox_("fusions") /\ \E i \in {"f", "u"} : Reject(i)
    \/ Inbox_("fusions") /\ \E i \in {"f", "u"} : Annotate(i)
    \/ Inbox_("fusions") /\ \E i \in {"f", "u"} : ProposeReconciliation(i)
    \/ Inbox_("fusions") /\ ConsoleClose("s1")
    \/ Inbox_("fusions") /\ ApplyApproval("s1")
    \/ Inbox_("fusions") /\ SaveApproval("s1")
    \/ Inbox_("fusions") /\ RequestDies("s1")
    \/ Inbox_("fusions") /\ \E i \in {"f", "u"} : ConsolePublish("s1", i)
    \/ Inbox_("fusions") /\ \E i \in {"f", "u"} : OpenApproval("s1", i)
    \/ Inbox_("fusions") /\ \E v \in Verdicts : ResumeFusion(v)
    \/ Inbox_("fusions") /\ \E i \in {"f", "u"} : Rollback(i)
    \/ Inbox_("fusions") /\ \E e \in {About[i] : i \in {"f", "u"}} : Move(e)
    \/ Inbox_("feedback") /\ SaveLedger
    \/ Inbox_("feedback") /\ Refresh
    \/ Inbox_("feedback") /\ Restart
    \/ Inbox_("feedback") /\ \E i \in {"c"} : Reject(i)
    \/ Inbox_("feedback") /\ \E i \in {"c"} : Annotate(i)
    \/ Inbox_("feedback") /\ RefreshFeedback
    \/ Inbox_("feedback") /\ \E i \in {"c"} : CloseFeedback(i)
    \/ Inbox_("feedback") /\ \E i \in {"c"} : ProposeReconciliation(i)
    \/ Inbox_("feedback") /\ ApplyApproval("s1")
    \/ Inbox_("feedback") /\ SaveApproval("s1")
    \/ Inbox_("feedback") /\ RequestDies("s1")
    \/ Inbox_("feedback") /\ \E i \in {"c"} : OpenApproval("s1", i)
    \/ Inbox_("feedback") /\ \E e \in {About[i] : i \in {"c"}} : Move(e)
    \/ Jobs_("packing") /\ \E p \in DOMAIN jobPages : Packing!Revise(p)
    \/ Jobs_("packing") /\ \E p \in DOMAIN jobPages : Packing!Unpack(p)
    \/ Jobs_("packing") /\ \E p \in DOMAIN jobPages : Packing!DeleteSummary(p)
    \/ Jobs_("packing") /\ Packing!StartCycle
    \/ Jobs_("packing") /\ \E w \in Packing!Selectable(Packing!Kind) : Packing!Select(w)
    \/ Jobs_("packing") /\ Packing!Pass
    \/ Jobs_("packing") /\ Packing!Record
    \/ Jobs_("packing") /\ Packing!MarkAssessed
    \/ Jobs_("packing") /\ Packing!WriteSummary
    \/ Jobs_("packing") /\ Packing!PackPages
    \/ Jobs_("packing") /\ Packing!CommitRelation
    \/ Jobs_("packing") /\ Packing!CycleFails
    \/ Jobs_("reviewing") /\ \E p \in DOMAIN jobPages : Reviewing!Revise(p)
    \/ Jobs_("reviewing") /\ \E p \in DOMAIN jobPages : Reviewing!Withdraw(p)
    \/ Jobs_("reviewing") /\ Reviewing!StartCycle
    \/ Jobs_("reviewing") /\ \E w \in Reviewing!Selectable(Reviewing!Kind) : Reviewing!Select(w)
    \/ Jobs_("reviewing") /\ \E w \in Reviewing!Selectable(Reviewing!Kind) : Reviewing!AllPairsExcluded(w)
    \/ Jobs_("reviewing") /\ Reviewing!Pass
    \/ Jobs_("reviewing") /\ Reviewing!Record
    \/ Jobs_("reviewing") /\ Reviewing!Propose
    \/ Jobs_("reviewing") /\ Reviewing!CommitRelation
    \/ Jobs_("reviewing") /\ Reviewing!PutLeases
    \/ Jobs_("reviewing") /\ Reviewing!CycleFails
    \/ Jobs_("proposing") /\ \E p \in DOMAIN jobPages : Proposing!Revise(p)
    \/ Jobs_("proposing") /\ Proposing!StartCycle
    \/ Jobs_("proposing") /\ \E w \in Proposing!Selectable(Proposing!Kind) : Proposing!Select(w)
    \/ Jobs_("proposing") /\ \E w \in Proposing!Selectable(Proposing!Kind) : Proposing!AllPairsExcluded(w)
    \/ Jobs_("proposing") /\ Proposing!Pass
    \/ Jobs_("proposing") /\ Proposing!Record
    \/ Jobs_("proposing") /\ Proposing!Propose
    \/ Jobs_("proposing") /\ Proposing!PutLeases
    \/ Operator_("deciding") /\ \E p \in DOMAIN pages : Deciding!Revise(p)
    \/ Operator_("deciding") /\ Deciding!AnalyzeRelation
    \/ Operator_("deciding") /\ \E kind \in {"relation"} : \E c \in Deciding!Candidates(kind) : Deciding!Propose(c)
    \/ Operator_("deciding") /\ \E o \in {a, b}, c \in drafts : Deciding!Check(o, c, FALSE)
    \/ Operator_("deciding") /\ \E o \in {a, b}, c \in DOMAIN queued : Deciding!Check(o, c, TRUE)
    \/ Operator_("deciding") /\ \E o \in {a, b} : Deciding!ApplyRelation(o)
    \/ Operator_("deciding") /\ \E o \in {a, b} : Deciding!Resolve(o)
    \/ Operator_("deciding") /\ \E o \in {a, b} : Deciding!Ends(o)
    \/ Operator_("deciding") /\ \E o \in {a, b}, c \in drafts \cup DOMAIN queued, how \in {"rejected", "suppressed"} : Deciding!DecidePair(o, c, how)
    \/ Operator_("keeping") /\ \E p \in DOMAIN pages : Keeping!Revise(p)
    \/ Operator_("keeping") /\ \E p \in DOMAIN pages : Keeping!DeleteSummary(p)
    \/ Operator_("keeping") /\ \E p \in DOMAIN pages : Keeping!Restore(p)
    \/ Operator_("keeping") /\ Keeping!AnalyzeSummary
    \/ Operator_("keeping") /\ Keeping!AnalyzeArchive
    \/ Operator_("keeping") /\ \E kind \in {"archive", "summary"} : \E c \in Keeping!Candidates(kind) : Keeping!Propose(c)
    \/ Operator_("keeping") /\ \E o \in {a, b}, kind \in {"archive", "summary"} : Keeping!Scan(o, kind)
    \/ Operator_("keeping") /\ \E o \in {a, b} : Keeping!AnalyzeSummaries(o)
    \/ Operator_("keeping") /\ \E o \in {a, b}, c \in drafts : Keeping!Check(o, c, FALSE)
    \/ Operator_("keeping") /\ \E o \in {a, b}, c \in DOMAIN queued : Keeping!Check(o, c, TRUE)
    \/ Operator_("keeping") /\ \E o \in {a, b}, c \in DOMAIN queued : Keeping!Reject(o, c)
    \/ Operator_("keeping") /\ \E o \in {a, b} : Keeping!ApplySummary(o)
    \/ Operator_("keeping") /\ \E o \in {a, b} : Keeping!ApplyArchive(o)
    \/ Operator_("keeping") /\ \E o \in {a, b} : Keeping!Resolve(o)
    \/ Operator_("keeping") /\ \E o \in {a, b} : Keeping!Ends(o)
    \/ Operator_("splitting") /\ \E o \in {a, b} : Splitting!Scan(o, "pack")
    \/ Operator_("splitting") /\ \E o \in {a, b} : Splitting!AnalyzePacks(o)
    \/ Operator_("splitting") /\ \E o \in {a, b}, c \in drafts : Splitting!Check(o, c, FALSE)
    \/ Operator_("splitting") /\ \E c \in Splitting!Candidates("pack") : Splitting!Propose(c)
    \/ Operator_("splitting") /\ \E o \in {a, b}, c \in DOMAIN queued : Splitting!Check(o, c, TRUE)
    \/ Operator_("splitting") /\ \E o \in {a, b}, c \in DOMAIN queued : Splitting!Reject(o, c)
    \/ Operator_("splitting") /\ \E o \in {a, b} : Splitting!ApplyPack(o)
    \/ Operator_("splitting") /\ \E o \in {a, b} : Splitting!Resolve(o)
    \/ Operator_("splitting") /\ \E o \in {a, b} : Splitting!Ends(o)
    \/ Operator_("splitting") /\ \E o \in {a, b}, p \in DOMAIN pages : Splitting!Unpack(o, p)
    \/ Operator_("splitting") /\ \E o \in {a, b}, P \in SUBSET (1 .. 4) : Splitting!Repack(o, P)
    \/ Operator_("splitting") /\ \E o \in {a, b}, P \in SUBSET (1 .. 4) : Splitting!PackPart(o, P)
    \/ Topics_("growing") /\ \E W \in Growing!TopicWindows(FALSE) : Growing!StartJob(W)
    \/ Topics_("growing") /\ Growing!NoDraft
    \/ Topics_("growing") /\ Growing!VerifyFails
    \/ Topics_("growing") /\ Growing!Enqueue
    \/ Topics_("growing") /\ Growing!ApplyJob
    \/ Topics_("growing") /\ Growing!WriteTopic
    \/ Topics_("growing") /\ Growing!WriteFails
    \/ Topics_("growing") /\ Growing!RefreshReviews
    \/ Topics_("growing") /\ topicJob # Growing!Idle /\ topicJob.step = "extract" /\ \E S \in Growing!Drawn(topicJob.window), named \in {0} \cup DOMAIN topicJob.offered : Growing!Extract(S, named)
    \/ Topics_("growing") /\ \E verdict \in {"approve", "needs_review", "no_change"} : Growing!Verify(verdict)
    \/ Topics_("growing") /\ \E S \in UNION {Growing!Drawn(W) : W \in Growing!TopicWindows(FALSE)}, named \in {0} \cup DOMAIN topics : Growing!Analyze(S, named)
    \/ Topics_("growing") /\ \E e \in draft : Growing!ApplyDraft(e)
    \/ Topics_("growing") /\ \E i \in DOMAIN items : Growing!ApplyItem(i)
    \/ Topics_("growing") /\ \E i \in DOMAIN items : Growing!Reject(i)
    \/ Topics_("crossing") /\ \E W \in Crossing!TopicWindows(FALSE) : Crossing!StartJob(W)
    \/ Topics_("crossing") /\ Crossing!NoDraft
    \/ Topics_("crossing") /\ Crossing!VerifyFails
    \/ Topics_("crossing") /\ Crossing!Enqueue
    \/ Topics_("crossing") /\ Crossing!ApplyJob
    \/ Topics_("crossing") /\ Crossing!WriteTopic
    \/ Topics_("crossing") /\ Crossing!WriteFails
    \/ Topics_("crossing") /\ Crossing!RefreshReviews
    \/ Topics_("crossing") /\ topicJob # Crossing!Idle /\ topicJob.step = "extract" /\ \E S \in Crossing!Drawn(topicJob.window), named \in {0} \cup DOMAIN topicJob.offered : Crossing!Extract(S, named)
    \/ Topics_("crossing") /\ \E verdict \in {"approve", "needs_review", "no_change"} : Crossing!Verify(verdict)
    \/ Topics_("crossing") /\ \E S \in UNION {Crossing!Drawn(W) : W \in Crossing!TopicWindows(TRUE)}, named \in {0} \cup DOMAIN topics : Crossing!Analyze(S, named)
    \/ Topics_("crossing") /\ \E e \in draft : Crossing!ApplyDraft(e)
    \/ Topics_("crossing") /\ \E i \in DOMAIN items : Crossing!ApplyItem(i)
    \/ Topics_("crossing") /\ \E i \in DOMAIN items : Crossing!Reject(i)
    \/ Topics_("crossing") /\ \E t \in DOMAIN topics : Crossing!ReviseTopic(t)
    \/ Topics_("crossing") /\ \E p \in {"a", "b", "c"} : Crossing!WithdrawSource(p)

MaintenanceSpec == MaintenanceInit /\ [][MaintenanceNext]_<<component, scheduleVars, inboxVars, jobVars, operatorVars, topicVars>>

-----------------------------------------------------------------------------
(* The properties, each of the modules that state it.                      *)

\* The ledger, the reviews and the store's tables fit together in every part.
MaintenanceTypeOK ==
    /\ IF component = "waiting" THEN Waiting!TypeOK ELSE TypeOK
    /\ InboxTypeOK /\ Proposing!JobsTypeOK /\ Deciding!OperatorTypeOK
    /\ IF component = "crossing" THEN Crossing!TopicTypeOK ELSE Growing!TopicTypeOK

\* What was proposed is written once: one item for a draft, and a model that answered
\* is paid again only where an operator undid what came of it, or for a Page that it
\* found not worth a summary; and no source is lost or doubled while packs are split,
\* repacked and applied.
DoneOnce ==
    /\ Growing!EvidenceOnce /\ Packing!PaidTwiceWhenExcused
    /\ component = "splitting" => Splitting!SourcesKept

\* A decision is final, on file and in the store: no edge and no Topic is written
\* against it, and a refresh keeps the sources a Topic already routes to.
NothingAgainstDecision ==
    /\ DecisionsStick /\ NoLinkAgainstDecision
    /\ Deciding!NoEdgeAgainstDecision
    /\ Growing!NoTopicAgainstDecision /\ Growing!TopicKeepsSources

Symmetry == Permutations({a, b})
=============================================================================
