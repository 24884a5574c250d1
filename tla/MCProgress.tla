----------------------------- MODULE MCProgress -----------------------------
(* What happens in the end, in one run: the first state chooses which part  *)
(* works, and the others stay as they were made. Reviews that are paid for  *)
(* (reviewing), the ledger that schedules (schedule), the records of calls  *)
(* (records), the withdrawal of an output (withdrawal), and a Store that is *)
(* opened (opening), each in a small instance.                              *)
(*                                                                          *)
(* As only one part works, the fairness of several parts is that of one     *)
(* action which is the one or the other of them.                            *)
EXTENDS Integers, Sequences, FiniteSets, Functions, TLC

CONSTANTS nocontent, unknown      \* no text, and a usage that is not known

VARIABLES
    component,
    attempts, baseline, remote, workers,
    live, rev, changes, memory, disk, cycle, backlog, full, paid, crashes, faults, covered,
    pages, revs, calls, open, queue, pending, worker, log, aged, committed, answered, made,
    stamps, moves, failures, ends,
    outputs, undoKeys, receipts, recorded, hand, turns, falls,
    version, tables, contract, provenance, index, mentions, pointers, edges, telemetry,
    first, opener, losses

reviewVars == <<attempts, baseline, remote, workers>>
scheduleVars == <<live, rev, changes, memory, disk, cycle, backlog, full, paid, crashes,
                  faults, covered>>
gateVars == <<pages, revs, calls, open, queue, pending, worker, log, aged, committed, answered,
              made, stamps, moves, failures, ends>>
withdrawalVars == <<outputs, undoKeys, receipts, recorded, hand, turns, falls>>
openingVars == <<version, tables, contract, provenance, index, mentions, pointers, edges,
                 telemetry, first, opener, losses>>
all == <<component, reviewVars, scheduleVars, gateVars, withdrawalVars, openingVars>>

Review == INSTANCE ReviewBudget WITH
    Workers <- {"w1", "w2"}, Evidence <- {"e1"}, AlwaysReviewed <- {"e1"}, Oversized <- {},
    Contents <- {"c1"}, NoContent <- nocontent, Revised <- {}, Verdicts <- {"needs_review"},
    Usages <- {1}, BaselineUsages <- {}, Unknown <- unknown, Window <- 1, Lease <- 1, MaxInFlight <- 1,
    TotalCalls <- 2, TotalTokens <- 9, TierCalls <- [sol |-> 2, astra |-> 2],
    TierTokens <- [sol |-> 99, astra |-> 99], Estimate <- 2, BaselineEstimate <- 1,
    AstraEnabled <- FALSE, MaxSubmissions <- 2

Schedule == INSTANCE MaintenanceSchedule WITH
    calls <- paid, failures <- faults,
    Pages <- {"p1"}, Region <- [p \in {"p1"} |-> "r"],
    Planned <- {[kind |-> "relation", pages |-> {"p1"}], [kind |-> "long_update", pages |-> {"p1"}]},
    MaxChanges <- 1, MaxBacklog <- 0, MaxJobs <- 1, MaxDiscoveryJobs <- 2, MaxAttempts <- 2,
    MaxIssues <- 1, MinNewPages <- 1, PeriodicReview <- FALSE, MaxCrashes <- 0, MaxFailures <- 0,
    FailedCalls <- {1}

Sessions == [x |-> "model", y |-> "service"]
Records == INSTANCE AccessGate WITH
    deaths <- ends,
    Callers <- DOMAIN Sessions, Principal <- Sessions,
    Granted <- [c \in DOMAIN Sessions |-> {"Assess", "Audit"} \X {"s"}], Scopes <- {"s"},
    Initial <- <<"s">>, QueueCapacity <- 1, BatchSize <- 2, MaxAllowed <- 1, AllowedBytes <- 1,
    MaxRefused <- 1, RefusedBytes <- 1, Sizes <- [c \in DOMAIN Sessions |-> {1}], MaxCalls <- 3, MaxMoves <- 0, MaxFailures <- 1, MaxDeaths <- 1

Withdrawal == INSTANCE HubWithdrawal WITH
    Outputs <- {"u"}, Kind <- [u |-> "update"], Operators <- {"x", "y"},
    MaxRevisions <- 4, MaxTurns <- 1, MaxFalls <- 2

Openers == {"o1", "o2"}
Opening == INSTANCE Migration WITH
    inputs <- provenance, relations <- edges, deaths <- losses,
    Openers <- Openers, Revisions <- {"r1"}, PageOf <- [r1 |-> "p"], PackOf <- [x \in {} |-> x],
    Autonomous <- {}, Citations <- {[r1 |-> {}]}, Mentions <- {[r1 |-> {}]}, ImageOf <- [x \in {} |-> x], Links <- {{}},
    Stored <- {"none", "draft", "clean", "clean.3", "clean.4"}, MaxDeaths <- 1

ProgressInit ==
    /\ component \in {"reviewing", "schedule", "records", "withdrawal", "opening"}
    /\ Review!Init /\ Schedule!Init /\ Records!GateInit /\ Withdrawal!WithdrawalInit
    /\ Opening!MigrationInit
    /\ component = "schedule" \/ live = {}
    /\ component = "opening" \/ version = "none"

At(c) == component = c /\ UNCHANGED component
Review_ == At("reviewing") /\ UNCHANGED <<scheduleVars, gateVars, withdrawalVars, openingVars>>
Schedule_ == At("schedule") /\ UNCHANGED <<reviewVars, gateVars, withdrawalVars, openingVars>>
Records_ == At("records") /\ UNCHANGED <<reviewVars, scheduleVars, withdrawalVars, openingVars>>
Withdrawal_ == At("withdrawal") /\ UNCHANGED <<reviewVars, scheduleVars, gateVars, openingVars>>
Opening_ == At("opening") /\ UNCHANGED <<reviewVars, scheduleVars, gateVars, withdrawalVars>>

Opens(o) ==
    \/ Opening!Open(o) \/ Opening!Inspect(o) \/ Opening!InsertVersion(o) \/ Opening!MigrateDraft(o)
    \/ Opening!MigrateAssociations(o) \/ Opening!AddTables(o) \/ Opening!Consolidate(o)
    \/ Opening!CreateTable(o) \/ Opening!Stamp(o)
Carried ==
    Withdrawal!LookAtPage \/ Withdrawal!ArchivePage \/ Withdrawal!RestorePrevious \/ Withdrawal!SaveReceipt

ProgressNext ==
    \/ Review_ /\ \E w \in {"w1", "w2"} : Review!Begin(w, "e1", "c1")
    \/ Review_ /\ \E w \in {"w1", "w2"} : Review!Work(w)
    \/ Review_ /\ \E w \in {"w1", "w2"} : Review!Crash(w)
    \/ Review_ /\ \E id \in DOMAIN remote : Review!Finish(id)
    \/ Review_ /\ Review!Tick
    \/ Schedule_ /\ Schedule!WritePage("p1")
    \/ Schedule_ /\ Schedule!WithdrawPage("p1")
    \/ Schedule_ /\ Schedule!QueueFills("relation")
    \/ Schedule_ /\ Schedule!QueueDrains("relation")
    \/ Schedule_ /\ Schedule!Maintainer
    \/ Schedule_ /\ \E what \in {"quiet", "wait", "retention"} : Schedule!TimePasses(what)
    \/ Records_ /\ \E c \in DOMAIN Sessions : Records!AskUnknown(c)
    \/ Records_ /\ \E c \in DOMAIN Sessions : Records!MarkSummaryAssessed(c)
    \/ Records_ /\ \E c \in DOMAIN Sessions : Records!AccessLog(c)
    \/ Records_ /\ \E c \in DOMAIN Sessions : Records!Commit(c)
    \/ Records_ /\ \E c \in DOMAIN Sessions : Records!Send(c)
    \/ Records_ /\ \E c \in DOMAIN Sessions : Records!ReadLog(c)
    \/ Records_ /\ Records!Receive
    \/ Records_ /\ Records!Flush
    \/ Records_ /\ Records!FlushFails
    \/ Records_ /\ Records!Close
    \/ Records_ /\ Records!Disconnected
    \/ Records_ /\ Records!Reopen
    \/ Records_ /\ Records!Crash
    \/ Withdrawal_ /\ \E operator \in {"x", "y"} : Withdrawal!Withdraw("u", operator)
    \/ Withdrawal_ /\ Carried
    \/ Withdrawal_ /\ Withdrawal!RuntimeDies
    \/ Withdrawal_ /\ Withdrawal!Forget
    \/ Withdrawal_ /\ Withdrawal!Edit("u")
    \/ Withdrawal_ /\ Withdrawal!DeleteOutput("u")
    \/ Withdrawal_ /\ Withdrawal!Govern("u")
    \/ Opening_ /\ \E o \in Openers : Opens(o)
    \/ Opening_ /\ \E o \in Openers : Opening!OpenerDies(o)

Again(operator) == Withdrawal!Withdraw("u", operator) /\ receipts["u"] = "withdrawing"

\* The clock goes on and the service ends what it took; the maintainer runs its
\* cycle to the end; the worker thread of the records runs, and who waits for room
\* in its queue gets it in the end; a withdrawal is carried on and asked for again
\* while it is shown as unfinished; and who opens the Store goes on or tries again.
Fairness ==
    /\ WF_all(\/ Review_ /\ Review!Tick
              \/ Schedule_ /\ Schedule!Maintainer
              \/ Records_ /\ Records!Receive
              \/ Withdrawal_ /\ Carried
              \/ Opening_ /\ Opens("o1"))
    /\ WF_all(\/ Review_ /\ 1 \in DOMAIN remote /\ Review!Finish(1)
              \/ Records_ /\ Records!Flush
              \/ Opening_ /\ Opens("o2"))
    /\ WF_all(Review_ /\ 2 \in DOMAIN remote /\ Review!Finish(2))
    /\ SF_all(\/ Schedule_ /\ Schedule!TimePasses("quiet")
              \/ Records_ /\ Records!Send("x")
              \/ Withdrawal_ /\ Again("x"))
    /\ SF_all(\/ Schedule_ /\ Schedule!TimePasses("wait")
              \/ Records_ /\ Records!Send("y")
              \/ Withdrawal_ /\ Again("y"))

ProgressSpec == ProgressInit /\ [][ProgressNext]_all /\ Fairness

-----------------------------------------------------------------------------
(* The properties, each of the modules that state it.                      *)

\* While review calls keep being made, no attempt holds a slot for ever: not one that
\* crashed before its receipt, nor one whose worker gave up (review_budget.rs).
SlotsAreReleased == Review!SlotsAreReleased

\* A region that was written leaves the write trigger in the end, when writes stop
\* (ledger.rs, finish_discovery_pass).
RegionsAreWorkedOff == Schedule!RegionsAreWorkedOff

\* A call that waits for its record is answered although batches fail, a restored Page
\* gets its receipt although the Runtime dies, and whoever opens the Store gets it open
\* although another one dies.
RequestsEnd ==
    /\ Records!AnswersArrive /\ Withdrawal!RestoredIsRecorded
    /\ component = "opening" => Opening!OpensInTheEnd
=============================================================================
