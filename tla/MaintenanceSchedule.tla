------------------------ MODULE MaintenanceSchedule ------------------------
(***************************************************************************)
(* Which Pages maintenance looks at, and when: the write trigger, the       *)
(* scheduled cycle, and the retries of failed model jobs (ledger.rs and     *)
(* coordinator.rs of crates/pcp-runtime/src/maintenance).                   *)
(*                                                                          *)
(* The maintainer works on a ledger in memory that it loaded once, and      *)
(* saves the whole of it at several points of a cycle; a crash goes back to *)
(* the file. Pages are written, withdrawn and restored at any time, also    *)
(* while a model call is out. Review items in the same ledger are the       *)
(* subject of ReviewInbox; here they are a number of reviews that wait, and *)
(* whether the operator's queue is full.                                    *)
(***************************************************************************)
EXTENDS Integers, FiniteSets, Functions

CONSTANTS
    Pages,              \* Pages of the store
    Region,             \* [Pages -> regions]: the Scope or stream of a Page
    Planned,            \* [kind, pages]: the evidence the planner puts together
    MaxChanges,         \* bound on the changes of the store
    MaxBacklog,         \* reviews that wait at the start
    MaxJobs,            \* max_jobs_per_cycle
    MaxDiscoveryJobs,   \* jobs after which a pass over a region ends
    MaxAttempts,        \* MAX_AUTOMATIC_JOB_ATTEMPTS
    MaxIssues,          \* diagnostics kept in the ledger
    MinNewPages,        \* min_new_pages
    PeriodicReview,     \* periodic_review.enabled
    MaxCrashes,         \* bound on crashes
    MaxFailures,        \* bound on cycles that fail on the store
    FailedCalls         \* model calls a failed job may have paid for

ASSUME LimitAssumption == MaxAttempts \in Nat \ {0} /\ FailedCalls \subseteq Nat
ASSUME BoundsAssumption ==
    MaxDiscoveryJobs \in Nat \ {0} /\ MaxIssues \in Nat /\ MaxChanges \in Nat /\ MaxBacklog \in Nat

VARIABLES
    live,       \* Pages the inventory shows
    rev,        \* [Pages -> Nat], the current Revision of each
    changes,    \* number of changes of the store
    memory,     \* the maintainer's ledger
    disk,       \* the ledger file
    cycle,      \* the running cycle
    backlog,    \* reviews that wait for a cycle
    full,       \* kinds of jobs whose review queue is full
    calls,      \* failed model calls of each window that were not forgotten
    crashes,
    failures,
    covered     \* Pages whose head needs no further pass: see NoWriteForgotten

vars == <<live, rev, changes, memory, disk, cycle, backlog, full, calls,
          crashes, failures, covered>>
store == <<live, rev, changes>>
faults == <<crashes, failures>>

Empty == [k \in {} |-> 0]
Without(f, S) == Restrict(f, DOMAIN f \ S)
Over(g, f) ==
    [x \in DOMAIN g \cup DOMAIN f |-> IF x \in DOMAIN g THEN g[x] ELSE f[x]]
Put(f, k, v) == Over([x \in {k} |-> v], f)

-----------------------------------------------------------------------------
(* The ledger.                                                             *)

NewLedger ==
    [observed |-> Empty,     \* watermark: Page -> Revision
     dirty |-> Empty,        \* region -> DirtyRegion
     entries |-> Empty,      \* job key -> outcome of the last attempt
     issues |-> Empty,       \* job key -> attempts of a failed job
     delayed |-> FALSE,      \* discovery_not_before lies ahead
     reviewDue |-> PeriodicReview]     \* the periodic review is due

Heads == Restrict(rev, live)

\* A key names the kind of job and the exact Revisions it is about.
Key(w, heads) == [kind |-> w.kind, heads |-> Restrict(heads, w.pages)]
Current(k, heads) ==
    \A p \in DOMAIN k.heads : p \in DOMAIN heads /\ heads[p] = k.heads[p]

Exhausted(l, k) ==
    \/ k \in DOMAIN l.issues /\ l.issues[k] >= MaxAttempts
    \/ /\ k \in DOMAIN l.entries
       /\ l.entries[k].outcome = "failed"
       /\ l.entries[k].attempts >= MaxAttempts

\* "done" stands for the outcomes of completed_evidence, which no passing of
\* time makes worth another look, "cooling" for those with a cooldown only, and
\* "failed" for isolated_job and waiting_budget.
Eligible(l, k) ==
    /\ ~Exhausted(l, k)
    /\ k \in DOMAIN l.entries =>
          l.entries[k].outcome # "done" /\ l.entries[k].due # "later"

Record(l, k, outcome) ==
    [l EXCEPT !.entries = Put(@, k, [outcome |-> outcome, due |-> "later", attempts |-> 0]),
              !.issues = Without(@, {k})]

\* A fault: only a diagnostic that is still kept counts, not the entry it was about.
DiagnosedAttempts(l, k) == IF k \in DOMAIN l.issues THEN l.issues[k] ELSE 0

Attempts(l, k) ==
    LET entry == IF k \in DOMAIN l.entries THEN l.entries[k].attempts ELSE 0
        issue == IF k \in DOMAIN l.issues THEN l.issues[k] ELSE 0
    IN  IF entry > issue THEN entry ELSE issue

\* The ledgers that may result: one diagnostic too many is archived.
IsolateJob(l, k, attempts) ==
    LET total == Attempts(l, k) + attempts
        kept == Put(l.issues, k, total)
        entry == [outcome |-> "failed", due |-> "later", attempts |-> total]
    IN  {[l EXCEPT !.entries = Put(@, k, entry), !.issues = Without(kept, old)] :
            old \in IF Cardinality(DOMAIN kept) <= MaxIssues THEN {{}}
                    ELSE {{i} : i \in DOMAIN kept}}

ReconcileJobIssues(l, heads) ==
    [l EXCEPT !.issues = Without(@,
        {k \in DOMAIN @ : \/ ~Current(k, heads)
                          \/ k \in DOMAIN l.entries /\ l.entries[k].outcome # "failed"})]

\* Issues that are due, but in no window the planner still selects, wait longer.
DeferUnselectedJobIssues(l) ==
    LET due == {k \in DOMAIN l.issues : Eligible(l, k)}
    IN  [l EXCEPT !.entries = Over([k \in due |->
            [outcome |-> "failed", due |-> "later", attempts |-> l.issues[k]]], @)]

DueJobRegions(l, heads) ==
    {Region[p] : p \in {q \in DOMAIN heads : \E k \in DOMAIN l.issues :
        Eligible(l, k) /\ q \in DOMAIN k.heads /\ k.heads[q] = heads[q]}}

ReadyRegions(l) ==
    {r \in DOMAIN l.dirty :
        \/ Cardinality(l.dirty[r].new) >= MinNewPages /\ l.dirty[r].quiet
        \/ l.dirty[r].waited}

\* Regions whose Pages are all gone, or whose tracked Pages are, are dropped.
StillDirty(l, heads) ==
    LET Here(r) == {p \in DOMAIN heads : Region[p] = r}
        Kept(r) == \/ l.dirty[r].changed \cap Here(r) # {}
                   \/ l.dirty[r].changed = {} /\ Here(r) # {}
    IN  [r \in {x \in DOMAIN l.dirty : Kept(x)} |->
            [l.dirty[r] EXCEPT !.new = @ \cap Here(r), !.changed = @ \cap Here(r)]]

\* The first observation, of an empty watermark, marks nothing.
ObserveWrites(l, heads) ==
    LET entries == Without(l.entries, {k \in DOMAIN l.entries :
            ~Current(k, heads) /\ l.entries[k].outcome # "cooling"})
        old == StillDirty(l, heads)
        changed == {p \in DOMAIN heads :
                       ~(p \in DOMAIN l.observed /\ l.observed[p] = heads[p])}
        new == changed \ DOMAIN l.observed
        touched == {Region[p] : p \in changed}
        Marked(r) ==
            LET here == {p \in changed : Region[p] = r}
                before == IF r \in DOMAIN old THEN old[r]
                          ELSE [new |-> {}, changed |-> {}, jobs |-> 0,
                                quiet |-> FALSE, waited |-> FALSE]
            IN  [before EXCEPT !.new = @ \cup (here \cap new), !.changed = @ \cup here,
                               !.jobs = 0, !.quiet = FALSE]
        first == l.observed = Empty
    IN  [l EXCEPT !.observed = heads,
                  !.entries = entries,
                  !.dirty = IF first THEN old
                            ELSE Over([r \in touched |-> Marked(r)], old),
                  !.delayed = @ /\ (first \/ changed = {})]

\* The snapshot of the regions a pass is about.
RegionSnapshot(heads, regions) ==
    [r \in regions \cap {Region[p] : p \in DOMAIN heads} |->
        Restrict(heads, {p \in DOMAIN heads : Region[p] = r})]

\* Regions of a pass whose Pages are as the pass found them.
Unchanged(expected, heads) ==
    {r \in DOMAIN expected : RegionSnapshot(heads, DOMAIN expected)[r] = expected[r]}

\* A fault: regions that changed during their pass end with it.
AnyRegionEnds(l, expected, heads, jobs, exhausted) ==
    {r \in DOMAIN l.dirty \cap DOMAIN expected : exhausted \/ l.dirty[r].jobs + jobs >= MaxDiscoveryJobs}

\* A region is at the end of its pass: nothing is left, or enough was tried.
PassEnded(l, expected, heads, jobs, exhausted) ==
    {r \in DOMAIN l.dirty \cap DOMAIN expected \cap {Region[p] : p \in DOMAIN heads} :
        /\ r \in Unchanged(expected, heads)
        /\ exhausted \/ l.dirty[r].jobs + jobs >= MaxDiscoveryJobs}

\* A fault: the jobs of a pass that was cut short are not counted.
JobsForgotten(l, expected, heads, jobs, exhausted) ==
    [l EXCEPT !.dirty = Without(@, PassEnded(l, expected, heads, jobs, exhausted))]

FinishDiscoveryPass(l, expected, heads, jobs, exhausted) ==
    LET kept == Without(l.dirty, PassEnded(l, expected, heads, jobs, exhausted))
        same == {r \in DOMAIN expected \cap {Region[p] : p \in DOMAIN heads} :
                    r \in Unchanged(expected, heads)}
        Tried(d) == [d EXCEPT !.jobs = d.jobs + jobs]
    IN  [l EXCEPT !.dirty = [r \in DOMAIN kept |-> IF r \in same THEN Tried(kept[r]) ELSE kept[r]]]

\* A save drops entries past their retention, unless they still say something.
Saved(l) ==
    [l EXCEPT !.entries = Without(@, {k \in DOMAIN @ :
        /\ @[k].due = "expired"
        /\ @[k].outcome # "done"
        /\ @[k].attempts < MaxAttempts})]

-----------------------------------------------------------------------------
(* The store and the clock. Cooldowns pass between cycles and during model  *)
(* calls; the steps in between take no time that counts.                    *)

Idle == [stage |-> "idle"]

Init ==
    /\ live \in {{}, Pages} /\ rev = [p \in Pages |-> Cardinality({p} \cap live)] /\ changes = 0
    /\ memory = NewLedger /\ disk = NewLedger
    /\ cycle = Idle
    /\ backlog = MaxBacklog
    /\ full = {}
    /\ calls = Empty
    /\ crashes = 0 /\ failures = 0
    /\ covered = {}

Change ==
    /\ changes < MaxChanges /\ changes' = changes + 1
    /\ UNCHANGED <<memory, disk, cycle, backlog, full, faults>>

\* A Page is created or revised (also by a job that wrote what it proposed).
WritePage(p) ==
    /\ live' = live \cup {p}
    /\ rev' = [rev EXCEPT ![p] = @ + 1]
    /\ covered' = covered \ {p}
    /\ calls' = Without(calls, {k \in DOMAIN calls : p \in DOMAIN k.heads})
    /\ Change

\* Archived or withdrawn; an archived Page may come back as it was.
WithdrawPage(p) ==
    /\ p \in live /\ live' = live \ {p}
    /\ UNCHANGED <<rev, covered, calls>> /\ Change
RestorePage(p) ==
    /\ p \notin live /\ rev[p] > 0 /\ live' = live \cup {p}
    /\ UNCHANGED <<rev, covered, calls>> /\ Change

\* Timestamps are in the ledger: time passes for the file as for the copy.
Turned(entry, from, to) == IF entry.due = from THEN [entry EXCEPT !.due = to] ELSE entry

Passed(l, what) ==
    CASE what = "quiet" ->
            [l EXCEPT !.dirty = [r \in DOMAIN @ |-> [@[r] EXCEPT !.quiet = TRUE]],
                      !.entries = [k \in DOMAIN @ |-> Turned(@[k], "later", "due")],
                      !.delayed = FALSE]
      [] what = "wait" ->
            [l EXCEPT !.dirty = [r \in DOMAIN @ |->
                          [@[r] EXCEPT !.quiet = TRUE, !.waited = TRUE]],
                      !.reviewDue = PeriodicReview]
      [] what = "retention" ->
            [l EXCEPT !.entries = [k \in DOMAIN @ |-> Turned(@[k], "due", "expired")]]

TimePasses(what) ==
    /\ cycle.stage \in {"idle", "calling"}
    /\ memory' = Passed(memory, what) /\ disk' = Passed(disk, what)
    /\ calls' = IF what = "retention"
                THEN Restrict(calls, {k \in DOMAIN calls : calls[k] >= MaxAttempts}) ELSE calls
    /\ UNCHANGED <<store, cycle, backlog, full, faults, covered>>

\* The operator's queue for a kind of job fills up, or is worked off; a cycle
\* learns of it when it saves.
QueueFills(kind) ==
    /\ cycle.stage \in {"idle", "calling"}
    /\ full' = full \cup {kind}
    /\ full' # full
    /\ UNCHANGED <<store, memory, disk, cycle, backlog, calls, faults, covered>>
QueueDrains(kind) ==
    /\ cycle.stage \in {"idle", "calling"}
    /\ full' = full \ {kind}
    /\ full' # full
    /\ UNCHANGED <<store, memory, disk, cycle, backlog, calls, faults, covered>>

-----------------------------------------------------------------------------
(* The cycle.                                                              *)

\* Heads a first observation takes as given, of an empty watermark.
TakenAsGiven(l) == IF l.observed = Empty THEN live ELSE {}
StillCounted == Restrict(calls, {k \in DOMAIN calls : Current(k, Heads)})

StartCycle ==
    /\ cycle.stage = "idle"
    /\ LET l == Saved(ObserveWrites(memory, Heads)) IN memory' = l /\ disk' = l
    /\ calls' = StillCounted
    /\ covered' = covered \cup TakenAsGiven(memory)
    /\ cycle' = [stage |-> "reviews", heads |-> Heads]
    /\ UNCHANGED <<store, backlog, full, faults>>

\* Candidate reviews, organization and waiting reviews come first; what is left
\* of the budget is for discovery, if some region or the periodic review is due.
ReviewBacklog ==
    /\ cycle.stage = "reviews"
    /\ \E used \in 0 .. MaxJobs :
        /\ used <= backlog
        /\ backlog' = backlog - used
        /\ LET reconciled == ReconcileJobIssues(memory, cycle.heads)
               regions == ReadyRegions(memory) \cup DueJobRegions(reconciled, cycle.heads)
           IN  /\ memory' = IF memory.delayed THEN memory ELSE reconciled
               /\ cycle' =
                    IF memory.delayed \/ (regions = {} /\ ~memory.reviewDue)
                    THEN [stage |-> "done", jobs |-> used, periodic |-> FALSE]
                    ELSE [stage |-> "select", jobs |-> used, before |-> used,
                          regions |-> regions, periodic |-> memory.reviewDue,
                          expected |-> RegionSnapshot(cycle.heads, regions),
                          skipped |-> FALSE]
    /\ UNCHANGED <<store, disk, full, calls, faults, covered>>

\* Pages a pass starts from: the changed ones of its dirty regions, and all of a
\* region that is only due for a retry.
Anchors ==
    IF cycle.periodic THEN live
    ELSE {p \in live : /\ Region[p] \in cycle.regions
                       /\ \/ Region[p] \notin DOMAIN memory.dirty
                          \/ memory.dirty[Region[p]].changed = {}
                          \/ p \in memory.dirty[Region[p]].changed}

Candidates ==
    {w \in Planned : /\ w.pages \subseteq live /\ w.pages \cap Anchors # {}
                     /\ Eligible(memory, Key(w, Heads))}

\* A full review queue stops the jobs that would add to it.
Selectable == {w \in Candidates : w.kind \notin full}

UpdateKinds == {"update", "long_update"}

Selecting == cycle.stage = "select" /\ cycle.jobs < MaxJobs

SelectWindow ==
    /\ Selecting
    /\ \E w \in Selectable :
        /\ ~(w.kind \in UpdateKinds /\ cycle.skipped) /\ w.kind # "long_update"
        /\ cycle' = Put([cycle EXCEPT !.stage = "calling"], "key", Key(w, Heads))
    /\ UNCHANGED <<store, memory, disk, backlog, full, calls, faults, covered>>

\* A pair too long for one review ("long_update") is put aside, and its job says
\* that it did not run: it looks at no other pair in this turn.
SkipUpdate ==
    /\ Selecting /\ ~cycle.skipped
    /\ \E w \in Selectable :
        /\ w.kind = "long_update"
        /\ memory' = Record(memory, Key(w, Heads), "cooling")
    /\ cycle' = [cycle EXCEPT !.skipped = TRUE]
    /\ UNCHANGED <<store, disk, backlog, full, calls, faults, covered>>

\* What a job records when its model answered: windows of topics and relations
\* may be done with; a relation that was made meanwhile leaves no record.
Outcomes(kind) ==
    CASE kind = "relation" -> {"done", "cooling", "unrecorded"}
      [] kind = "topic" -> {"done", "cooling"}
      [] OTHER -> {"cooling"}

JobDone(l) ==
    /\ memory' = Saved(l) /\ disk' = Saved(l)
    /\ cycle' = [Without(cycle, {"key"}) EXCEPT !.stage = "select", !.jobs = @ + 1,
                                               !.skipped = FALSE]
    /\ UNCHANGED <<store, backlog, full, faults, covered>>

FinishJob ==
    /\ cycle.stage = "calling"
    /\ \E outcome \in Outcomes(cycle.key.kind) :
        JobDone(IF outcome = "unrecorded"
                THEN [memory EXCEPT !.issues = Without(@, {cycle.key})]
                ELSE Record(memory, cycle.key, outcome))
    /\ calls' = Without(calls, {cycle.key})

FailJob ==
    /\ cycle.stage = "calling"
    /\ \E paid \in FailedCalls :
        /\ \E l \in IsolateJob(memory, cycle.key, paid) : JobDone(l)
        /\ calls' = Put(calls, cycle.key,
                        paid + IF cycle.key \in DOMAIN calls THEN calls[cycle.key] ELSE 0)

\* No job of this turn ran.
NoWindow ==
    /\ Selecting
    /\ \A w \in Selectable : w.kind \in UpdateKinds /\ cycle.skipped
    /\ cycle' = [cycle EXCEPT !.stage = "finish"]
    /\ UNCHANGED <<store, memory, disk, backlog, full, calls, faults, covered>>

\* When discovery may run again. Jobs that used the whole budget and changed
\* nothing make it wait; polling without any job does not shorten the wait.
Scheduled(l, jobs, periodic) ==
    {Saved([l EXCEPT !.delayed = wait, !.reviewDue = @ /\ ~periodic]) :
        wait \in IF l.delayed /\ jobs = 0 THEN {TRUE}
                 ELSE IF jobs >= MaxJobs /\ ~periodic THEN BOOLEAN ELSE {FALSE}}

EndCycle ==
    /\ cycle.stage = "done"
    /\ \E l \in Scheduled(memory, cycle.jobs, cycle.periodic) : memory' = l /\ disk' = l
    /\ cycle' = Idle
    /\ UNCHANGED <<store, backlog, full, calls, faults, covered>>

\* The pass has looked at the head of p.
Seen(p) ==
    LET pages == cycle.expected[Region[p]]
    IN  p \in DOMAIN pages /\ pages[p] = rev[p]

FinishCycle ==
    /\ cycle.stage = "finish" \/ (cycle.stage = "select" /\ cycle.jobs >= MaxJobs)
    /\ LET jobs == cycle.jobs - cycle.before
           l == DeferUnselectedJobIssues(
                    ReconcileJobIssues(ObserveWrites(memory, Heads), Heads))
           ended == PassEnded(l, cycle.expected, Heads, jobs, cycle.jobs < MaxJobs)
       IN  /\ \E s \in Scheduled(FinishDiscoveryPass(l, cycle.expected, Heads, jobs,
                                                     cycle.jobs < MaxJobs),
                                 cycle.jobs, cycle.periodic) : memory' = s /\ disk' = s
           /\ covered' = covered \cup TakenAsGiven(memory)
                  \cup {p \in live : Region[p] \in ended /\ Seen(p)}
    /\ calls' = StillCounted
    /\ cycle' = Idle
    /\ UNCHANGED <<store, backlog, full, faults>>

\* The store, or a write of a result, fails: the cycle ends and saves what it has.
FailCycle ==
    /\ cycle.stage # "idle" /\ failures < MaxFailures /\ failures' = failures + 1
    /\ memory' = Saved(memory) /\ disk' = Saved(memory)
    /\ cycle' = Idle
    /\ UNCHANGED <<store, backlog, full, calls, crashes, covered>>

Crash ==
    /\ crashes < MaxCrashes /\ crashes' = crashes + 1
    /\ memory' = disk
    /\ cycle' = Idle
    /\ UNCHANGED <<store, disk, backlog, full, calls, failures, covered>>

Environment ==
    \/ \E p \in Pages : WritePage(p) \/ WithdrawPage(p) \/ RestorePage(p)
    \/ \E kind \in {"relation", "topic"} \cap {w.kind : w \in Planned} :
            QueueFills(kind) \/ QueueDrains(kind)
    \/ FailCycle
    \/ Crash

Maintainer ==
    \/ StartCycle \/ ReviewBacklog \/ SelectWindow \/ SkipUpdate \/ FinishJob
    \/ FailJob \/ NoWindow \/ EndCycle \/ FinishCycle

Next ==
    \/ Environment
    \/ Maintainer
    \/ \E what \in {"quiet", "wait", "retention"} : TimePasses(what)

Spec == Init /\ [][Next]_vars

\* The process runs its cycle to the end, and the clock goes on.
FairSpec == Spec /\ WF_vars(Maintainer) /\ SF_vars(TimePasses("quiet"))
                 /\ SF_vars(TimePasses("wait"))

-----------------------------------------------------------------------------
(* Properties.                                                             *)

Regions == {Region[p] : p \in Pages}
LedgerOK(l) ==
    /\ DOMAIN l.observed \subseteq Pages
    /\ DOMAIN l.dirty \subseteq Regions
    /\ \A r \in DOMAIN l.dirty :
        /\ l.dirty[r].new \subseteq l.dirty[r].changed
        /\ \A p \in l.dirty[r].changed : Region[p] = r
        /\ l.dirty[r].jobs < MaxDiscoveryJobs
    /\ Cardinality(DOMAIN l.issues) <= MaxIssues
    /\ \A k \in DOMAIN l.issues : k \in DOMAIN l.entries => l.entries[k].outcome = "failed"

\* The ledger in memory and on disk: every tracked Page belongs to its region, a
\* region at the end of its pass is not kept, and a job has a diagnostic only
\* while its last recorded outcome is a failure.
TypeOK ==
    /\ live \subseteq Pages /\ rev \in [Pages -> 0 .. MaxChanges + 1] /\ changes \in 0 .. MaxChanges
    /\ LedgerOK(memory) /\ LedgerOK(disk)
    /\ cycle.stage \in {"idle", "reviews", "select", "calling", "finish", "done"}
    /\ backlog \in 0 .. MaxBacklog /\ covered \subseteq Pages
    /\ full \subseteq {w.kind : w \in Planned}

\* No write is forgotten: a Page's head is still unobserved, or tracked by a dirty
\* region, or a pass over its region ended after it was seen - in the memory
\* of the maintainer and in the file it would restart from.
NoWriteForgotten ==
    \A l \in {memory, disk} : \A p \in live :
        p \in DOMAIN l.observed /\ l.observed[p] = rev[p] =>
            \/ p \in covered
            \/ Region[p] \in DOMAIN l.dirty /\ p \in l.dirty[Region[p]].changed

\* A failing window is paid for a bounded number of times, however often it is
\* deferred, archived as a diagnostic, or reloaded from the file.
FailedCallsBounded ==
    \A k \in DOMAIN calls : \E paid \in FailedCalls : calls[k] < MaxAttempts + paid

\* A region leaves the write trigger in the end, when writes stop.
RegionsAreWorkedOff ==
    \A r \in {Region[p] : p \in Pages} :
        []<>(r \notin DOMAIN memory.dirty)
=============================================================================
