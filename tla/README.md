# A verification project for the Paged Context Protocol implementation

The repository implements PCP, a store of versioned context Pages with the
runtime around it: a SQLite store, a Runtime that serves it over local sockets,
reviews and synthesises host experience, and maintains the store with model
calls, clients and an MCP server, and a console. This directory holds TLA+
modules translated from that code, TLC runs over small instances of them, and
TLAPS proofs for every instance. `PROJECT.json` maps every definition to the
lines it stands for.

## 1. The system

| Component | State it keeps | Operations | What makes it hard | What makes it right |
|---|---|---|---|---|
| Page store (`pcp-sqlite`: write, retract, repair, governance) | Pages with a head, immutable Revisions, provenance rows, relations and their retractions, idempotency rows, lifecycle events | write, ingest, revise, repair, link, archive, restore, delete, derivation cascade | callers act on heads they read earlier; retries; a cascade rewrites many Pages at once | heads and histories are linear, an update is never lost, a keyed call has one effect, a cascade leaves nothing live on withdrawn evidence |
| Projections (summary, validity, topic extraction) | a current Summary per Page, a current assessment per Page, topic Pages with their sources | write_summary, assess_page_validity, extract_topic | a projection is itself a Page that can be revised, archived, deleted or withdrawn behind its table's back | the table and the Page agree; a stale projection is refused |
| Packing | a packed Page with absorbed Pages, redirected references | pack, unpack | every reference in the store is rewritten and must come back | unpack restores what pack absorbed |
| Retention | leases, collected Revisions | plan, collect, lease | a plan is made before it is executed; many tables protect a Revision | nothing protected is collected, what is planned can be collected |
| Feedback and reconciliation | feedback Pages, signals, targets | submit_feedback, apply_reconciliation | decisions arrive late, twice, or about a Page that moved | one decision per target, on the state it was made on |
| Scopes and access | scopes, aliases, transfers, ACL | create_scope, transfer, alias, authorize | aliases redirect later requests | no request reaches a Scope it is not allowed in |
| Search, read, health, audit | derived indexes and logs | queries, audit writer with a bounded queue, log retention | the audit writer drops under pressure | queries see active content; logs stay within their budgets |
| Context Hub (`pcp-runtime/context_hub`) | activity episodes, candidates, synthesis and review state, on disk | signals, synthesis, review, automatic review, undo | asynchronous model answers apply to state that moved; restarts | an accepted candidate is applied once, an undo restores it |
| Maintenance (`pcp-runtime/maintenance`) | watermark and dirty regions, records of jobs, review items, Topic drafts, all in one ledger file and a copy in memory | discovery, jobs with retry and backoff, reviews, operator requests | model calls are slow, paid, lost by crashes and repeated; operators decide while a cycle works on its copy | no write is forgotten, a job is paid once, a decision is final, a source is never lost |
| Review budget | reservations and baseline calls in one locked file | reserve, submit, settle, release, reconcile | a crash between two writes; answers after the lease; several processes | a review is submitted once, the slots and the token budget hold |
| Enrollment | registered clients, projects, credentials | register, rotate, revoke, reconcile | endpoints start and stop while the registry changes | a revoked client has no endpoint |
| Observer | registrations, snapshots | register, publish | late registrations replace earlier ones | the newest registration wins |
| RPC (`pcp-rpc`) | a connection, pending requests | call, reconnect, serve | a connection breaks between send and answer | a mutating call is not silently repeated |
| Client (`pcp-client`) | the experience outbox, receipts | submit, flush, acknowledge | the process dies between append and delivery | an experience is delivered and never lost |
| Migration | the schema version, the tables, and content in older forms | open | several processes open at once, each in several transactions | whoever has the Store open finds it whole, and nothing is lost |
| MCP server, console, CLI | sessions and views | tools and pages over the components above | thin layers | each forwards what it was asked |

Callers reach the store through the Runtime's sockets (RPC) or in process (the
Context Hub and maintenance). Every store operation is one SQLite transaction;
what is concurrent is what callers read before theirs. The Runtime's own
state is in files that it rewrites atomically, some of them under a lock shared
by processes, with asynchronous model calls between two rewrites.

Where these parts are exposed to faults that a test hardly reaches is listed,
line by line, in `PROJECT.json` under `hazards`, with the properties that would
notice; a hazard without a property says why it has none.

## 2. The plan

The store, the paid reviews and the candidate inbox came first: everything else
either writes through the first or is written by the other two.

| Step | Modules | What they say | Status |
|---|---|---|---|
| 1 | `PageStore`, over `Reachability` and `Numbering` | the store's core transactions | checked and proved |
| 2 | `VersionedPages` | abstract specification of the store's content, implemented by `PageStore` | checked and proved |
| 3 | `ReviewBudget` | paid reviews: ledger, escalation path, model service | checked; its safety proved |
| 4 | `ContextHub` | submission, organization, review, promotion | checked; its safety proved but for `PlansAreKept` |
| 5 | `Projections` | Summaries, assessments, Topics, fusions, feedback, and what the recall surface hides because of them | checked; its safety proved |
| 6 | `Storage` | packing, unpacking, retention and collection over the tables that refer to what they remove | checked; its safety proved |
| 7 | `Migration` | several processes open an older Store | checked; its safety proved |
| 8 | `HubActivity`, `HubWithdrawal` | handoff cards and their readers; the withdrawal of an automatic output | checked; their safety proved |
| 9 | `MaintenanceSchedule` | the write trigger, the cycle, retries | checked; its safety proved |
| 10 | `ReviewInbox`, `MaintenanceJobs`, `OperatorActions`, `TopicDiscovery` | what is proposed, paid, decided and written | checked; their safety proved |
| 11 | `Enrollment`, `AccessGate` | who may use the store and where; the gate of every call and its records | checked; their safety proved |
| 12 | the outbox of the client, the observer, RPC | files renamed in one process, and connections | not modelled: section 7 |

What is left to prove is at the end of section 5, with the reasons.

## 3. The modules and the code

### PageStore (`crates/pcp-sqlite`: write.rs, repair.rs, governance.rs, retract.rs)
A public operation of the store is one `BEGIN IMMEDIATE` transaction, and an
operation that fails rolls back; so an action is one committed transaction. The
concurrency is in the requests: a caller read a head, or Revisions to cite, some
time before, so every Page, expected Revision and cited Revision of a request is
chosen from all that exist at the time of the commit, current or not.

| Variable | Table |
|---|---|
| `pages`, `revisions` | `pcp_pages`, `pcp_revisions` with `pcp_provenance_inputs` (`inputs`) and the event name (`origin`) |
| `relations`, `retracted` | `pcp_relations`, `pcp_relation_retractions` |
| `idempotency` | `pcp_idempotency`, actor folded into the key |
| `lifecycleEvents` | `pcp_page_lifecycle_events` |
| `nextPage`, `nextRevision`, `nextRelation` | generated ids, numbered in the order of issue |

`call` is no column: it records which keyed call made a Revision, so that
`OneEffectPerKey` can speak of effects as well as of recorded results. Actions:
`WritePage`, `IngestPage`, `RevisePage`, `RepairPage`, `LinkPages`, `ArchivePage`,
`RestoreArchivedPage`, `DeletePage`, `TombstoneDerivationCascade`. The recursive
SQL queries (downstream Revisions, derivation cycles) are `Reach`, the least
closed set: this form can be proved about. Left out: Scopes and access, text and
its index; packed Pages are in `Storage`, the rebinding of Summaries and feedback
in `Projections`, access in `AccessGate`.

`VersionedPages` is the abstract specification: Pages with growing sets of
versions never shared or reused, and heads that move, several in one step for a
cascade, only to fresh versions. `ImplementsContents` maps a Page's Revisions to
its versions and the status of its head to its standing.

### ReviewBudget (`crates/pcp-runtime/src/maintenance`: review_budget.rs, review_escalation.rs, infer_worker.rs)

`attempts` and `baseline` are the ledger file, replaced whole under a lock in each
transaction; `remote` is the model service as the worker uses it (external);
`workers` are the processes or tasks that walk a proposal through baseline
evaluation, Sol, Sol's verification of its own text, Astra and its verification.
Each HTTP call and each ledger transaction is a step, with a crash possible
between any two. A request may be lost, rejected, or accepted with its answer
lost; an answer may come without usage, or after the local deadline. A record
keeps its age in ticks, which stops growing at `Window`: the ledger compares
nothing else about time.

### ContextHub (`crates/pcp-runtime/src/context_hub`)

`hub` is the file; `op` is the operation that holds its lock over several
steps, with the copy it changes and saves; `cycle` is the maintenance cycle, which
calls models without the lock; `revs` and `archived` are the Page store as the
hub uses it (external: the hub's side of `PageStore`, with principals and keys).
Hosts submit, the cycle organizes and reviews, the operator edits, approves,
resumes, stops, promotes, defers, rejects; other tenants write and archive
Pages; a crash may come between every write of a Page and the save of its
receipt. A window of time (quiet period, lease, snooze, retry) may have passed
or not at each look at it.

### Projections and Storage (`crates/pcp-sqlite`: summary.rs, validity.rs, extraction.rs, consolidation.rs, reconciliation.rs; pack.rs, retention*.rs)

Both have actions that are transactions, like `PageStore`, over the tables those
files add; writes are there as the smallest operations that move a head. In
`Projections` everything derived is a Page of a kind, and a table says what it is
about: `summaries` and `summaryHeads`, `assessments` and `validityHeads`, `members` (of
Topics), `fusions`, `signals` and `decided` (feedback). `Recalled` is the default
retrieval filter of search/content_roles.rs. In `Storage` the source at position i of
a stream has Page i and Revision i, since unpacking restores the identities that
packing removed; `entries` and `packs` are what a pack keeps, `records` stands for the
other tables that refer to a Revision, `keys` for the recorded ingests. `Protected`
is the closure of the retention plan, `Collect` its execution. `Rows` has what these and other
modules do to a table: put a row, delete some.

### Migration (`crates/pcp-sqlite`: migration.rs, schema.rs)

`opener[o].step` is how far the process o has come with the version it read when it
began; each of its steps is a transaction. `first` keeps what the Store was, for
`NothingIsLost`. Contents are functions of the Revisions: what provenance cites
(`inputs`), what is indexed of it, what a text mentions in the old form (an image by its
digest, an input by a Page or a Revision) and which Pages it names in the new one. A
mention is looked up (`Targets`: among the image Pages with a digest, and the Pages with a
head); an image that is not found stays in the old form, an input that is not found is
stripped of its name, which is the one thing of a text that a migration loses. `MCStoreOperations` extends this module, `Projections` and
`Storage`, one of which works in each behaviour. `MigrationAssumption` is what the code reads: the pack
of a packed Revision is in the table of Revisions (load_packed_replacements). Nothing is
assumed of the mentions: the run has an image that no Page is, and a Revision that was
packed away.

### HubActivity and HubWithdrawal (`context_hub`: activity.rs, reconcile.rs, automatic_review_undo.rs)

A call of the first runs under the lock of the hub's file and saves it once, so it
is one step; what windows remember (`known`) and the answer a reader pages through
(`walk`) are the callers' state. In the second the intent, the Store's operation and
the receipt are steps with a death possible between, while others edit, archive
and delete the Page.

### Maintenance (`crates/pcp-runtime/src/maintenance`, `crates/pcp-console/src/main.rs`)

The coordinator and its ledger are too long for one module; each of these takes one
question and abstracts the others.

- `MaintenanceSchedule`: which Pages a cycle looks at. `memory` and `disk` are the ledger
  in memory and on file: watermark (`observed`), dirty regions, records and retries.
  Deadlines are marks (`due`, `quiet`, `waited`) that `TimePasses` sets. `covered` is a
  history variable: the Pages whose head needs no further pass.
- `ReviewInbox`: the items of the ledger file against the maintainer's older copy, with
  the merges of each save, operators with copies of their own, and what decisions do
  in the store (`effects`).
- `MaintenanceJobs`: one cycle's jobs, each of which selects a window, pays for a decision
  and commits, proposes or records it, while tenants and an operator change the store.
- `OperatorActions`: the console's requests in their steps, several at a time.
- `TopicDiscovery`: how Topics are drafted, reviewed, queued and written, by the job and by
  an operator.

### Enrollment and AccessGate (`pcp-runtime/src/enrollment`, `pcp-cli`, `pcp-sqlite`: adapter.rs, access.rs, audit_writer.rs)

`Enrollment` has the state file, the public calls that hold its lock over several
steps, endpoints, and the command that merges projects while the Runtime is
stopped, which rewrites two files one after the other. `AccessGate` has a call look up
the Scopes it is about and commit later, in a transaction of its own, and the queue,
batches and pruning of the records worker. What changes a Page compares the exact heads it
was asked about (`heads`); what is attached to a Revision (`onto`: summaries, their
assessments, judgements of validity, a reconciliation that changes no source) is judged by the
Scope of that Revision, which never changes. So a session with a grant in the Scope a Page
has left may still attach something to what the Page was there, and none to what it became.
Records have a size, and each kind (successes; refusals and failures) a number, a size
in all and an age up to which they are kept (log_retention.rs): after each batch
`Bounded` keeps the newest of a kind down to the first that does not fit, which takes all
older ones with it, and a record that alone is too big takes itself; `Sweep` does the same,
so many at a time, without a batch. `MCServices` extends `AccessGate`,
`Enrollment`, `HubActivity` and `HubWithdrawal` (the cfg gives their constants) and has
two further instances of `Enrollment` beside them.

## 4. The runs

Every run says `CHECK_DEADLOCK FALSE` because its bounds (identifiers, drafts,
submissions) stop the model; the programs do not stop. A run puts several small
instances together: the first state chooses the scene, and the other parts stay as
they were made.

| Run | Scenes and bounds | What it shows |
|---|---|---|
| `PageStore_stores` | `updates`: 2 Pages, 4 Revisions, 1 key sent to every keyed operation but links (a race of two writers on one Page and one on another; 2 lifecycle events: archive, then restore or a second Page). `relations`: 3 Pages, 3 relations of two types (the shortest cycle that is not a pair). `cascades`: 3 Pages, 5 Revisions (a root, one derived from it, one with an independent predecessor, and the cascade's own). `linked`: a cascade over 2 symmetric relations | no lost update, linear histories, Page and head in one status that the events tell, one effect per key, old Revisions untouched, a sound relation graph, nothing live on withdrawn evidence, `VersionedPages` implemented |
| `ReviewBudget_calls` | `race`: 2 workers, 2 pieces of evidence, one slot and a model that always disagrees (a released slot is taken by the other and would be put back by a late receipt if it could be). `path`: 1 worker whose crashes leave earlier paths behind, 2 texts, every verdict, all four stages, budgets of 3 calls and 4 tokens that are exhausted | one submission per review, slots and budgets hold, usage is settled once, an approval rests on a review of that text |
| `ContextHub_plans` | `plans`: 2 candidates, one Page that tenants may rewrite or archive, one draft of one output, every verdict, an operator who edits the draft or sends what a review saved, stops, crashes. `drafts`: 1 candidate in two drafts of two outputs, with every decision of the operator, who edits what he approves | evidence in progress has one owner, one plan is written per synthesis and what counts as promoted was written, unless a plan whose start was not saved was cut short before, only what was reviewed is attributed to the review, decisions are final |
| `StoreOperations` | `routes`, `feedback`, `judgements`: 4 Pages and 5 Revisions (two memories with a fusion, Topic or feedback over them, and one edit). `packs`: 4 sources (a pack, its extension and its unpacking); `retention`: 3 sources and a clock of 2; `notes`: leases. `opening`: 2 processes, one of which may die, 9 versions of the Store | recall reaches every effective Page; feedback is decided once; sources and the retry of their ingest stand; an opened Store is whole and nothing is lost |
| `Maintenance` | `dirty`: 2 Pages of one region, 2 changes, a crash; `waiting`: a window over two regions and one that is too long, a full queue, a failed cycle. `twins`, `pairs`, `fusions`, `feedback`: the six kinds of items, an operator's session, a death. `packing`, `reviewing`, `proposing`: 2 cycles of 2 or 3 jobs. `deciding`, `keeping`, `splitting`: 2 consoles, 4 sources of a pack. `growing`, `crossing`: 3 sources, 2 editions | no write is forgotten; what was proposed is written once and never against a decision; failed calls are repeated a bounded number of times, and answered ones only where an operator undid them or the model found a Page not worth a summary; no source is lost |
| `Services` | `reclaiming`, `windows`, `walking`, `merging`: 2 windows, 2 cards, one page of one card, so that a snapshot takes two reads. `withdrawal`: 2 outputs, 2 operators, 2 deaths. `enrolling`, `adopting`, `reconciling`: 2 calls at once, a stop, an aborted merge of 2 projects. `gate`: 2 sessions, 2 Scopes, 2 calls, a moved Page, with things attached to its old and its new Revision; `records`: 3 calls, a queue and a batch of 2, at most one success and two refusals kept, of which one of size 1 fits and neither two of them nor one of size 2, days that pass, a failed batch, one end of the process, orderly or not | readers see one snapshot; later edits stand; access ends with its registration; records are kept once, for as long as their kind is; calls commit where they are granted |
| `Progress` | one small instance each of `ReviewBudget`, `MaintenanceSchedule`, `AccessGate`, `HubWithdrawal` and `Migration`; without the ageing and the sweeps of `AccessGate`, which touch no call that waits | the liveness properties, under the fairness below |
| `PageStore_revival` (violation) | 3 Pages, 8 Revisions: two cascades with a rewrite between | a cascade may republish a Revision an earlier cascade withdrew |
| `ReviewBudget_total` (violation) | 3 pieces of evidence under 2 calls | the total budget forgets unsettled calls after the window |
| `ContextHub_retry` (violation) | 1 candidate, deferred once | a promotion of evidence deferred earlier cannot be finished after a failed write |
| `ContextHub_resume` (violation) | 1 candidate, one output | a plan begun by the cycle and resumed by the operator may write an output twice |
| `Enrollment_state` (violation) | 2 clients, 3 project keys, one merge | a stored binding to a retired Scope is a state the Runtime does not start on |

In the first hub of `ContextHub_plans` the operator may send exactly what an automatic
review saved (`"drafted"` in `Wordings`). What the code does then while the group is still
pending breaks what `PlansAreKept` says, when the plan is cut short; section 6 has this as a
divergence. `MCContextHub` therefore remembers the groups a plan of which a crash or a failed
write ended before its start was saved (`unsaved`), and `PlansAreKept` is about all others,
those included that an operator began in this way and that came to their end. The
theorems about `ContextHub` hold for every value of `Wordings`.

**Fairness.** Only `Progress` assumes any.
- `ReviewBudget`: time passes (`Tick`) and the model service ends what it accepted
  (`Finish`, per request: a background response with a status, which infer_worker.rs
  polls until it is final). Nothing is asked of workers, which may crash for ever:
  `SlotsAreReleased` has its premise in the formula, that calls keep being made, for
  a slot is only released by a call that lists unsettled attempts.
- `MaintenanceSchedule`: the loop of the maintainer runs (weak), and each kind of time
  passes (strong, since it may pass only between and during calls).
- `AccessGate`: the worker thread receives and flushes (weak), and a caller that waits for
  room in the queue gets it (strong, a blocking send).
- `HubWithdrawal`: the steps of a withdrawal that runs (weak); and, strongly, that the
  operator repeats a withdrawal whose intent is on record. That is an assumption
  about the environment: the code shows the intent and waits for the repetition.
- `Migration`: an opener that lives goes on (weak).

As one part works in a behaviour of `Progress`, the fairness of several parts is that
of one action which is the one or the other of them.

**Mutants.** Each module lists, before its definitions, faults the code could
plausibly have (a key not looked up, a head that is moved first, a late receipt
that revives an attempt). Put in the place of the definition each names, every
one makes TLC find a violation of the property it is paired with.

**Formulas that are defined and not in a run.** Some modules state what one might
expect of the code and the code does not do, without any text of the repository
that promises it: `OnlyCurrentFeedbackContests`, `PageStatusIsHeads` (Projections: an edited
archived Page), `CandidatesAreCollectable`, `RetryFindsPage` (Storage),
`RejectedIsNotApplied` (OperatorActions), `FeedbackAsDecided`, `PublicationIsOwned` and
`WrittenCanBeAccepted` (ReviewInbox). TLC refutes each; they mark the border of the properties
next to them. Two more, `PaidOnce` (MaintenanceJobs) and `TwelvePerScope` (HubActivity), are
promised: section 6.

## 5. The proofs

For every value of the constants, under the named assumptions `NoKeyAssumption`,
`RequestAssumption`, `BoundAssumption` (PageStore), `SetAssumption`, `AmountAssumption`
and `TierAssumption` (ReviewBudget), `AccessAssumption` (AccessGate), `MigrationAssumption`
(Migration), `ProjectionAssumption` and `StorageAssumption` (numbers of Pages and of positions are
natural numbers), `LimitAssumption` and `BoundsAssumption` (MaintenanceSchedule), `InboxAssumption` (ReviewInbox: a
reworded Topic is about the same evidence, as apply_verified_topic_revision builds it),
`EnrollmentAssumption` (the projects that a merge is given are projects, its target one of
them), `ActivityAssumption` (each window has a client, no two card identities share a place
of the order, limits and lifetimes are at least one), `JobsAssumption` (numbers of Pages are
naturals, and a cycle may run one job: config.rs:619), `TopicAssumption` (finitely many
sources, in Scopes) and `OperatorAssumption` (numbers of Pages are naturals), which TLC
evaluates in the runs; `ContextHub` needs none. "Listed" theorems are in `PROJECT.json`. A
proof module may hold the proofs of several components, one after the other; none of
them uses another's invariant.

`PageStore_proofs`. Every operation that publishes is an `Advance(S, id)`: the Pages of
a set S, and no others, get new Revisions that follow their heads. An ordinary
write has one Page, a cascade as many as it touches. The inductive invariant is
`ContentInv`: types, references, heads that are newest, linear histories, agreement
of Page and head, updates based on what they replace. The parts need each other:
linearity needs the head to be the newest, which needs fresh ids. The action
properties (`RevisionsImmutable`, `CascadeComplete`) follow from the same split into
advances, transitions and steps that leave content alone. For the cascade: what is
downstream afterwards was so before or is one of its tombstones
(`DownstreamAfterCascade`), because a restored predecessor has no affected input.
`HeadsAndHistories` gathers what the run calls `HistoriesAreLines`.

Its second half adds three invariants over `ContentInv`. `RelationInv` (unique
triples, acyclic derivation edges, symmetric pairs stored in order) is kept by
steps that keep the relations, retracting some, or add an admissible one;
the graph lemmas are at the head of the module. `KeyInv` says that the Revision of a keyed call is
the recorded one, and conversely; a step records nothing, or one fresh key with the
one Revision or the relation it returns. `LogInv` is `LifecycleLogReplays` with the log's types; only
transitions append. Together they give `TypeOK` of the whole store, `RelationGraphIsSound`
and `StatusesAreTold`.

The last part of `PageStore_proofs` is `Spec => ImplementsContents`: an advance is `PublishOn(S)`, a
transition is `Govern(p)`, everything else stutters.

`ReviewBudget_proofs`. `SubmittedOnce` is not inductive: `SubmissionsOwned` says that the worker
about to submit a review is the only one, and that no request for it exists
yet, and `LinksOK` that attempts and workers name requests that exist. `IInv` is
their conjunction with `TypeOK`. Most actions only move one worker (`MoveStep`); the
admission, the submission, the service and the clock are proved apart.
`SlotsBounded` rests on one more fact, that no step but an admission adds to the slots;
`SettledOnce` on the shape of `Settled`. `ApprovedTextWasReviewed` needs to know why a worker
is where it is: `RecordsTell` says that requests have the text of their reservation and
attempts name requests of their own review, `Grounded` that a worker carries the text its
call was reserved for and, once approved, a request that reviewed it; a
result that a path takes from the ledger has the place of one it
polled itself. The bounds on calls (`PaidCallsAreBounded`, `TiersKeepUnsettled`: the first and the
third conjunct of `BudgetsHold`) compare what the service accepted with what the ledger
counts: by `CountedInv` an accepted request is of an attempt that counts, attempts only
wane otherwise (`StepWanes`: they age and are settled), and what adds one is an
admission, which compared the count with the limit in the same transaction.
The bound on tokens (`TokensStayWithinBudget`, the second conjunct) also needs that a settled
attempt holds what the service reported for its own request (`UsageInv`: only that request,
or a refusal before there was one, settles it). `TokensInv` counts every record up to its
estimate: a settlement never raises that sum, and an admission adds at most the estimate it
was admitted with. Sums are `MapThenSumSet`, a recursion over subsets; the number of units
(`Total`: pairs of an element and a number up to its value) satisfies it, and another
function that does would differ first on a smallest subset (`SumsAreTotals`), so sums are
compared by injections between finite sets and not by induction.

`ContextHub_proofs`. One invariant of the hub's file, `HubOK`, is proved of `hub` and of the
copy in `op`: candidates, groups, plans, receipts and reviews name each other
consistently, and evidence that is being promoted is in the promoting group alone.
What an operation may do to its copy while it holds the lock is `Later`: the copy
came from the file by steps that keep what was decided, so that its save is as if
they had happened on the file. `HubInvariant` is the conjunction with what each kind of
operation and the cycle remember. From it follow `PromotingIsOwned`, `DecisionsAreFinal` and
`AutomaticAsApproved`, also when an operator sends exactly the plan that a review saved.
`HubTypes` is `TypeOK`: a hub that knows the first n Revisions (`TypedHub(h, n)`) names only
those, in outputs, plans, receipts and inputs of a review, and each operation keeps that; the
store only grows, so what the file, the copy in `op` and the inventory of the cycle name stays
there (`TypedStoreStep`). A write answers with a Revision because the earliest result of a key
is one (`EarliestIsOne`) and an update has a target. The approved outputs are outputs of the
draft since every place up to their number is taken (`PlacesTaken`).

`Maintenance_proofs`, first half (`MaintenanceSchedule`). A ledger `Tracks` its Pages if a head that it observed is covered
by a pass that ended or kept by a dirty region, and no head it observed is newer
than the Page's. `NoWriteForgotten` alone is not inductive, because a Page that is gone comes
back with the head it had (`RestorePage`): `Tracks` speaks of Pages that do not show, too.
Each operation on a ledger either touches neither part (`SamePages`) or is the
observation (`ObserveTracks`) or the end of a pass (`FinishTracks`): what leaves the dirty
regions there is as the pass found it, hence seen.
`FailedCallsAreBounded` rests on `PaidInv`: the ledger in memory and the one on file both
account for the failed calls of each window (`Accounts`). The window has a failed
entry that counts at least as many attempts, and it is past its retention only if
the calls reached the limit, so that no save drops it; diagnostics may be archived, for
the entry keeps the count; and a window that is tried was not exhausted (`CycleFits`).
`LedgersAreTyped` needs the bounds (`BoundsInv`) beside these two: every operation that adds an
issue archives the oldest beyond `MaxIssues` (`FewIssues`), a region is dropped with the
last job it may have (`DirtyOK`), and only the end of a pass counts jobs.

`Maintenance_proofs`, second half (`ReviewInbox`). That one Topic is written of the same evidence, and that decisions
stay, is about copies: the maintainer works on a ledger it loaded before, a request that
approves a reconciliation too, and each save merges its copy into the file. The
invariant says how an older copy stands to the file (`Older`): what it says of a Topic or
a fusion carries a time stamp of the file's or an earlier one, and with the same
stamp it says the same; what it says is decided of a relation, which has no stamp, the
file says too; items the file lacks are pending proposals and no Topics. So a merge
takes nothing back (`MergeAdvances`). The file only `Advances`: decided items stay, and
what changes otherwise is stamped later than any copy that exists, which keeps them all
`Older` (`OlderLater`). `OneStanding` (one Topic of the same evidence is not stale) and `ItemOK`
(what is accepted is done in the store) go with it. Every action is shown to be such a
step (`StepOK`): a new status (`WithSteps`), a record (`AddSteps`), a refresh of many items
(`ManyItems`) or a store's step that the file follows unless the process dies (`FileFollows`).

`Jobs_proofs`, first half (`MaintenanceJobs`). `PaidTwiceOnlyWhenExcused` is about what a call leaves
behind. Of every call that was paid for, but the one whose job runs, `PaidFor` says that it
`Ended`: an operator undid what came of it (`Excused`), the ledger has its window (`OnRecord`),
or the store moved on (`MovedOn`: a Page of it is no more shown, has another head, or has the
summary the call was for). This outlasts every step (`EndedStays`), because a head that has
moved is never head again (`HeadStaysGone`), a Page that was packed away is only shown again
where an operator splits the pack, and a summary is only replaced by that of a newer head,
which needs that no call knows a later Revision than the inventory (`CallFits`). A cycle does
not select from the store, though, but from an inventory it read before: `Passed` says the same
of the inventory, and a new one has it because the calls had ended (`FreshInventory`). Used keys
belong to calls (`KeysFit`), so that a commit that answers from a key was undone before
(`UsedKey`); and a cycle that ends with an error leaves no record, but what refused the commit
is what ended the call (`RefusedEnds`). `JobsAreTyped` needs of the packs that a pack is made of
shown Pages, with sources of their own (`PackKeeps`, `SplitKeeps`).

Second half (`TopicDiscovery`). The job, an operator's draft and the application that holds the
lock have evidence that was drafted of Topics as they were some time before. `Fitting` is what
such evidence keeps: its Scope, and that it has all sources of the Topic it refreshes if that
still is at the Revision it was drafted of (`Covers`); Topics are only added, and what is written
of one has a later Revision (`TopicsGrow`), so a draft that `Fitting` held of stays in it
(`DraftStays`). Then a refresh keeps the sources (`RefreshKeepsSources`), since the store compares that
Revision. `DraftsAreQueuedOnce` is in the invariant: whoever queues looks the evidence up under
the lock. From it follows `NoTopicIsWrittenAgainst`, because the application's own item waits until it
is written and is the only one of its evidence. `TopicsAreTyped` is `TopicTypeOK`.

`OperatorActions_proofs`. `SourcesAreKept` says that exactly one Page that is not gone has each source
(`HeldOnce`), at every step of splits, repacks and applications. A pack is made of Pages that
are active in the same transaction, and a split gives every source back to its own Page, which
exists and has no other (`OwnPages`); a part of a split that another console packed meanwhile is
active no more and is refused. `NoRelationAgainst` rests on the decision lock: the console that applies
a relation holds it from its look at the decisions to the write (`LockFits`), so none is made in
between; and a pair that a decision rejects or suppresses at its Revisions stays undecided at
later ones, as heads only grow (`UndecidedStays`). `OperatorsAreTyped` is `OperatorTypeOK`.

`StoreOperations_proofs`, first part (`Projections`). That recall reaches what it hides is an argument by a measure: a
Topic that routes to a Revision, and an output that carries it, were written after it
(`Later`), so among the effective Pages that are reached from a hidden one the one with the
newest head is not hidden itself (`NewestIsRecalled`, by `ShownByNewer`). `Later` needs
`Numbered`: Revisions are numbered as they come and each Page heads its own. A
reconciliation adds an edge of supersession only from a Page that nothing supersedes,
and a graph stays without circles when it gets an edge from a source (`EdgeFromASource`).
What was decided of feedback is in its head's row (`Decided`), because an edit takes the
row along, only the open target of a head is answered, and what becomes the head of
feedback is an edit of it or its deletion (`AnswersStay`, `DecidedStays`): no table of
Summaries or assessments names a feedback Page (`Referring`). Every publication but that
of a fusion is a `Publication`, hence one lemma about numbers (`PublicationsAreNumbered`).

Second part (`Storage`). Writes, deletions, packing and unpacking are all rewrites of one
shape (`Rewritten`: Pages of positions go with their only Revisions or come back, and one
Page gets the next Revision as head), which keep identifiers and heads (`RewriteKeeps`:
`Counted`, `Heading`). `EachSourceOnce` needs `Placed`: the row of a packed source names a
deleted Page, or the head of a pack that holds it, and the other way round; and a pack
holds two sources at least, which is why no repair of a single source can touch one.
That in turn needs that what is packed are two Pages with different sources
(`SpansAreDisjoint`). The text columns follow by `Resolved`: packing rewrites what names
an absorbed Revision, and collection takes no root (`RootsAreKept`), which includes every
basis and every key that a retry may still use.

`StoreOperations_proofs`, last part (`Migration`). An opener acts on the version it read when it began, which others may
have left behind since. `MigrationInvariant` says what the content is by the version the
Store has now: a draft, or a clean Store, that no migration has reached is as it was found
(`Untouched`); of any later version it is clean, keeps what was cited, has a reference for
each mention that could be followed (`MentionsKept`), and repeats no reference. It says of an opener that the version it acts on is the one
the Store had first, or the ones migrations end with. So a stale migration does no harm:
that of a draft finds the tables of the contract and fails, since only a draft is without
them, and the others, done a second time, change nothing (`UnexposedInputs`: what
is clean stays as it is; `PrunedLinks`: so do relations without a redundant one). Each migration
ends in the same way (`Migrated`), and every other step leaves the content alone
(`ContentStands`). `OpenedStoreIsWhole` follows, because an opener is open only when every
table was there and the version one of the last two.

`Services_proofs`, first part (`AccessGate`). `CommittedWhereGranted` speaks of one step, and needs to know what happened
between the look-up and the transaction: a grant holds (`GrantHolds`) as long as
the heads its request names, which are Revisions, are in Scopes of the grant where the
session has the permission. Operators move Pages, but a move makes a new
Revision and no Revision changes its Scope (`StoreGrows`), so `GrantHolds` outlasts every
step, and the heads the transaction compares put the Page where it was looked
up. `RecordsKept` is proved with `RecordsInv`: a record is in one place, with its call, in
the queue, with the worker or written (`OnePlace`); a refusal in the queue, and one
that the worker holds a reply for, is that of a call that waits (`QueueFits`,
`RepliesFit`); what was answered is written, outgrown, held, or in the queue in front of
any flush that has to show it (`AnsweredFits`). The worker's side rests on `FlushKeeps` and `PruneKeeps`: whatever
pruning takes away, of old records or of new ones, is too old or did not fit with the newer ones of its
kind, and remains so (`OutgrownStays`: more records, which only make the sums greater, and more
days). Every step of a session is a
`CallTurn` for the records, which is why all the operations of the gate take one lemma.

Second part (`Enrollment`). `EnrollInv` relates two files and what runs. `Provisioned`: whoever is bound
to a project has its Scope, and a project's Scope exists; `CallsFit`: a call that holds the lock
over several steps still finds what it began with, as nobody else writes the state file;
`SessionsFit`: every open endpoint has a registration that is not revoked, or its revocation
has a call that will close it (`Closing`), which is `AccessEndsAlways`. A merge of projects is a
command that rewrites first the store and then the state file, and may be aborted between:
`Emptied` (what was retired is a source of the merge and holds no Page any more), `Deserted` and
`Commanded` say how far it came, and that a state is only published if it is valid, hence
that the canonical project alone has the Scopes of its members (`MergedFits`, `PublishKeeps`).

Third part (`HubWithdrawal`). `LaterEditsStand` needs the Revisions of each output in order
(`Grown`): an "undo" comes only right after the Revision the review wrote, since the Store compares
the head. A used key has its Revision (`Restored`), so that a repeated withdrawal is answered
without another, whoever repeats it.

Last part (`HubActivity`). `HandoffsAreRead` is proved with `ActivityInv`: a new version is above all
that any window remembers (`Remembered`), so that the same version means the same content;
and the pages of one answer adjoin (`PagesAdjoin`: the next begins where the items end) as long as
the cards are the same. The place of a card in the order of an answer is the number of cards
before it; that every place up to their number is taken (`PlacesAreTaken`), and that at most a
page's length of cards come before a place (`FewComeFirst`), is shown by removing one card at a time
from a least counterexample, not by induction.

Only model-checked:
- the liveness properties (liveness and ENABLED are out of reach of these provers);
- `PlansAreKept`, which holds but for what section 6 says, and is no theorem;
- the conjunctions that `MCReviewBudget`, `MCMaintenance`, `MCStoreOperations` and `MCServices` make
  of their instances' properties (`BudgetsHold`, `MaintenanceTypeOK`, `DoneOnce`,
  `NothingAgainstDecision`, `StoreTypeOK`, `ServicesTypeOK`): each conjunct is a theorem of the module that states it.

## 6. Findings

Five runs end in a violation of something the repository says; `PROJECT.json` quotes
the lines. A cascade revives withdrawn Revisions (`PageStore_revival`); the total budget
drops unsettled calls after 24 hours (`ReviewBudget_total`); a promotion of
deferred evidence that failed cannot be repeated (`ContextHub_retry`); an output
may be written twice across principals (`ContextHub_resume`); a client that may write
everywhere can bind a project to a retired Scope, which the next start of the Runtime
refuses (`Enrollment_state`).

Three more have no run of their own; TLC finds each when the formula named is given to
the run named.

- *A plan whose start is not saved* (`OnePlanPerSynthesis` and `PromotedIsWritten` over all
  groups, `ContextHub_plans`). The operator who sends exactly the plan that an automatic review
  saved, while its group is still pending, is taken for a retry
  (synthesis_review.rs:84-92): the plan's targets are not checked before the first write
  and "promoting" is not saved. After a crash or a failed write another plan may start for
  the same group: against `src/design/candidate-evolution.md:34` ("can resume only the
  identical plan") and the comment at synthesis_review.rs:176 ("Preflight every target
  before any write"). `PlansAreKept` leaves out the groups where this happened, and
  no others.
- *A summary not worth writing is paid for in every cycle* (`PaidOnce`, `Maintenance`).
  `src/crates/pcp-runtime/README.md:246-249` says that "a `no_candidate` response also cools down"
  its window, "so an unchanged Store does not repeatedly consume semantic-worker tokens". For a
  summary the job only marks the Revision in the Store (coordinator.rs:3368-3376); the
  selection of the next one (coordinator.rs:3277-3293, 6599-6606) asks the ledger and the text,
  never the mark. `PaidTwiceWhenExcused`, the part of `DoneOnce` that is about calls, excuses
  these calls, and those whose result an operator undid. (Of `PaidOnce` TLC refutes both
  parts: the excuse for what an operator undid contradicts no text.)
- *More than twelve cards in a Scope* (`TwelvePerScope`, `Services`).
  `src/integrations/RUNTIME_CONTEXT.md:128` says that "each client keeps at most twelve topic cards
  **per Scope**". The merge of projects moves the cards of one Scope to another
  (context_hub/reconcile.rs:91-98) and counts nothing.

## 7. Not modelled

Search, reading and health (queries without state); the command line and the MCP
server but for the merge of projects and the transfer of Scopes (they forward to the
components above); the console's views; model prompts and their decoding (a verdict is
a value); the intake of experience records. The client's outbox is a directory of files of
one process that is renamed around a network call: its hazards are in `PROJECT.json`, with
the submission that `ContextHub` starts from as what they can harm. The observer
publishes files that are replaced whole and on which nothing rests. RPC has one
request per connection: that a caller repeats a call whose answer was lost is in the
keyed operations of `PageStore` and `Storage`. What each module leaves out of its files is
in the `note` of its component.
