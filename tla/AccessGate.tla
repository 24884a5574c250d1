------------------------------- MODULE AccessGate -------------------------------
(***************************************************************************)
(* Every call of a session on the store passes one gate (pcp-sqlite:        *)
(* adapter.rs, access.rs): it looks up the Scopes that the call is about,   *)
(* compares them with the grants of the session, runs the operation in a    *)
(* transaction of its own, and records what it decided. Between the look-up *)
(* and the transaction an operator may move a Page to another Scope.        *)
(*                                                                          *)
(* Records go through a bounded queue to one worker thread (audit_writer.rs)*)
(* that writes them in batches and keeps the history bounded               *)
(* (log_retention.rs): callers do not wait for the record of a success, and *)
(* do wait for that of a refusal or a failure.                              *)
(***************************************************************************)
EXTENDS Integers, Sequences, FiniteSets, SequencesExt

CONSTANTS
    Callers,       \* sessions, each with one call at a time
    Principal,     \* session -> "model", "host" or "service"
    Granted,       \* session -> pairs of a permission and a Scope
    Scopes,
    Initial,       \* the Scopes of the Pages that exist: a sequence
    QueueCapacity, BatchSize,
    MaxAllowed, AllowedBytes,   \* records of successes that are kept: how many, and how big
    MaxRefused, RefusedBytes,   \* records of refusals and failures that are kept
    Sizes,         \* session -> the sizes that its records may have
    MaxCalls,      \* bound: calls
    MaxMoves,      \* bound: Pages moved to another Scope
    MaxFailures,   \* bound: batches that cannot be written
    MaxDeaths      \* bound: ends of the process, orderly or not

VARIABLES
    pages,         \* Page -> [scope, rev], of its head
    revs,          \* Revision -> its Scope, which never changes
    calls,         \* session -> the call it is in, or Idle
    open,          \* the writer takes records
    queue,         \* what was sent to the worker: [from, rec]
    pending,       \* records that the worker holds
    worker,        \* [step, replies]: what it does, and who waits for the batch
    log,           \* pcp_access_log
    aged,          \* kind of record -> the last one that is older than the kind is kept
    committed,     \* every record that a batch wrote, also those pruned since
    answered,      \* records of calls that were answered as recorded
    made, stamps, moves, failures, deaths   \* counters of the bounds

storeVars == <<pages, revs, moves>>
logVars == <<log, aged, committed>>
auditVars == <<open, queue, pending, worker, logVars, failures>>
gateVars == <<storeVars, auditVars, calls, answered, made, stamps, deaths>>

None == "none"
Idle == [step |-> "idle"]
Running == [step |-> "run", replies |-> {}]

ASSUME AccessAssumption ==
    /\ Granted \in [Callers -> SUBSET (STRING \X Scopes)] /\ Initial \in Seq(Scopes)
    /\ {QueueCapacity, BatchSize, MaxAllowed} \subseteq Nat \ {0}
    /\ {MaxRefused, AllowedBytes, RefusedBytes} \subseteq Nat
    /\ Sizes \in [Callers -> SUBSET (Nat \ {0}) \ {{}}]

GateInit ==
    /\ pages = [p \in DOMAIN Initial |-> [scope |-> Initial[p], rev |-> p]]
    /\ revs = Initial
    /\ calls = [c \in Callers |-> Idle]
    /\ open = TRUE /\ queue = <<>> /\ pending = <<>> /\ worker = Running
    /\ log = {} /\ aged = [b \in BOOLEAN |-> 0] /\ committed = {} /\ answered = {}
    /\ made = 0 /\ stamps = 0 /\ moves = 0 /\ failures = 0 /\ deaths = 0

-----------------------------------------------------------------------------
(* The gate.                                                               *)

Allows(c, permission, scope) == <<permission, scope>> \in Granted[c]

\* authorize_scopes without a list: the Scopes with all the permissions, at least one.
Available(c, needs) == {s \in Scopes : \A n \in needs : Allows(c, n, s)}

\* What a call is about: Pages with the heads its caller knows, Revisions it attaches
\* something to, heads or not, the Scope of a new Page, Revisions that it reads, Pages
\* it relates without a head, and the permissions.
Request == [heads |-> {}, onto |-> {}, needs |-> {}, into |-> None, basis |-> {},
            reads |-> {"ReadDetail"}, derives |-> FALSE, ends |-> {}, effect |-> "attach",
            recorded |-> TRUE]

On(r) == {pages[h[1]].scope : h \in r.heads} \cup {revs[x] : x \in r.onto} \cup ({r.into} \ {None})
From(r) == {revs[b] : b \in r.basis}
To(r) == {pages[p].scope : p \in r.ends}

Authorized(c, r) ==
    /\ \A s \in On(r), n \in r.needs : Allows(c, n, s)
    /\ \A s \in From(r), n \in r.reads : Allows(c, n, s)
    /\ \A s \in On(r), t \in From(r) :
          r.derives /\ s # t => Allows(c, "DeriveAcrossScopes", s)
    /\ r.ends # {} => \A s \in On(r) \cup To(r) : Allows(c, "Link", s)

\* complete, records_access: a service's successful reads are not recorded.
Complete(c, decision, recorded) ==
    IF recorded \/ decision # "allowed"
    THEN /\ stamps' = stamps + 1
         /\ \E n \in Sizes[c] : calls' = [calls EXCEPT ![c] = [step |-> "send", rec |->
                [stamp |-> stamps + 1, allowed |-> decision = "allowed", size |-> n]]]
    ELSE calls' = [calls EXCEPT ![c] = Idle] /\ UNCHANGED stamps

Begin(c) == open /\ calls[c] = Idle /\ made < MaxCalls /\ made' = made + 1

Ask(c, r) ==
    /\ Begin(c)
    /\ IF Authorized(c, r)
       THEN /\ calls' = [calls EXCEPT ![c] = [step |-> "granted", req |-> r,
                              scopes |-> On(r) \cup From(r) \cup To(r)]]
            /\ UNCHANGED stamps
       ELSE Complete(c, "denied", TRUE)
    /\ UNCHANGED <<storeVars, auditVars, answered, deaths>>

\* A Page or a Revision that does not exist: the look-up fails.
AskUnknown(c) ==
    /\ Begin(c) /\ Complete(c, "failed", TRUE)
    /\ UNCHANGED <<storeVars, auditVars, answered, deaths>>

\* delete_page of a Page that does not exist, and a refused read of the records: the
\* error is returned without a record.
AskUnrecorded(c) == Begin(c) /\ UNCHANGED <<storeVars, auditVars, calls, answered, stamps, deaths>>

\* A fault: the transaction looks at the Scopes only.
ScopesOnly(call) ==
    /\ \A h \in call.req.heads : pages[h[1]].scope \in call.scopes
    /\ \A p \in call.req.ends : pages[p].scope \in call.scopes

\* The transaction looks again: the exact heads, in Scopes the call was allowed for. Of
\* a Revision that something is attached to it looks at the Revision's own Scope only
\* (ensure_revision_access), wherever its Page may be by now.
Holds(call) ==
    /\ \A h \in call.req.heads :
          pages[h[1]].rev = h[2] /\ pages[h[1]].scope \in call.scopes
    /\ \A x \in call.req.onto : revs[x] \in call.scopes
    /\ \A p \in call.req.ends : pages[p].scope \in call.scopes

NextRev == Len(revs) + 1

Effect(r) ==
    \/ r.effect = "attach" /\ UNCHANGED <<pages, revs>>
    \/ /\ r.effect = "create"
       /\ pages' = Append(pages, [scope |-> r.into, rev |-> NextRev])
       /\ revs' = Append(revs, r.into)
    \/ /\ r.effect = "revise"
       /\ LET heads == SetToSeq(r.heads)
          IN  /\ pages' = [p \in DOMAIN pages |->
                    IF \E i \in DOMAIN heads : heads[i][1] = p
                    THEN [pages[p] EXCEPT !.rev = Len(revs) +
                             (CHOOSE i \in DOMAIN heads : heads[i][1] = p)]
                    ELSE pages[p]]
              /\ revs' = revs \o [i \in DOMAIN heads |-> pages[heads[i][1]].scope]

Commit(c) ==
    /\ calls[c].step = "granted"
    /\ Holds(calls[c]) /\ Effect(calls[c].req)
    /\ Complete(c, "allowed", calls[c].req.recorded)
    /\ UNCHANGED <<moves, auditVars, answered, made, deaths>>

\* The transaction refuses: the state changed, or the request does not fit the store.
Refuse(c) ==
    /\ calls[c].step = "granted" /\ Complete(c, "failed", calls[c].req.recorded)
    /\ UNCHANGED <<storeVars, auditVars, answered, made, deaths>>

-----------------------------------------------------------------------------
(* The operations.                                                         *)

Pages == DOMAIN pages
Heads(P) == {<<p, pages[p].rev>> : p \in P}
Optional(S) == {{}} \cup {{x} : x \in S}

\* Operations that change the head of one Page.
Change(c, p, need, basis, ends) ==
    Ask(c, [Request EXCEPT !.heads = Heads({p}), !.needs = {need}, !.basis = basis,
                           !.derives = TRUE, !.ends = ends, !.effect = "revise"])

ManagePageLifecycle(c) == \E p \in Pages : Change(c, p, "ManageLifecycle", {}, {})
RevisePage(c) ==
    \E p \in Pages, b \in Optional(DOMAIN revs), e \in Optional(Pages) :
        Change(c, p, "Revise", b, e)
RepairPage(c) ==
    \E p \in Pages, b \in Optional(DOMAIN revs) :
        Principal[c] # "model" /\ Change(c, p, "Repair", b, {})
UnpackPage(c) == \E p \in Pages : Change(c, p, "Retract", {}, {})
DeletePage(c) == \E p \in Pages : Principal[c] # "model" /\ Change(c, p, "Retract", {}, {})
\* repair_page and delete_page of a model client.
RefuseModel(c) ==
    Principal[c] = "model" /\ Begin(c) /\ Complete(c, "denied", TRUE)
    /\ UNCHANGED <<storeVars, auditVars, answered, deaths>>

\* Operations on several Pages, with the permission in each Scope.
PackPages(c) ==
    \E p, q \in Pages : p # q /\ Ask(c, [Request EXCEPT
        !.heads = Heads({p, q}), !.needs = {"Collect"}, !.effect = "revise"])
ConsolidatePages(c) ==
    \E p, q \in Pages : p # q /\ pages[p].scope = pages[q].scope /\ Ask(c, [Request EXCEPT
        !.heads = Heads({p, q}), !.needs = {"ReadDetail", "Ingest", "ManageLifecycle"},
        !.effect = "revise"])
LinkPages(c) == \E p, q \in Pages : p # q /\ Ask(c, [Request EXCEPT !.ends = {p, q}])

\* Operations that make a Page in a Scope they name.
Create(c, s, need, basis, derives, ends) ==
    Ask(c, [Request EXCEPT !.into = s, !.needs = {need}, !.basis = basis,
                           !.derives = derives, !.ends = ends, !.effect = "create"])

IngestPage(c) ==
    \E s \in Scopes, b \in Optional(DOMAIN revs) : Create(c, s, "Ingest", b, TRUE, {})
SubmitFeedback(c) ==
    \E s \in Scopes, b \in Optional(DOMAIN revs) : Create(c, s, "Ingest", b, FALSE, {})
WritePage(c) ==
    \E s \in Scopes, b \in Optional(DOMAIN revs), e \in Optional(Pages) :
        Create(c, s, "Write", b, TRUE, e)
\* Sources need Link too, in whatever Scope; the Topic is new or has a known head.
ExtractTopic(c) ==
    \E s \in Scopes, b \in DOMAIN revs, t \in Optional(Pages) : Ask(c, [Request EXCEPT
        !.into = IF t = {} THEN s ELSE None, !.heads = Heads(t), !.basis = {b},
        !.needs = {"Summarize", "Link"}, !.reads = {"ReadDetail", "Link"}, !.derives = TRUE,
        !.effect = IF t = {} THEN "create" ELSE "revise"])

\* Operations that attach something to Revisions, current or not, or to a Scope.
Attach(c, heads, onto, needs, basis, derives) ==
    Ask(c, [Request EXCEPT !.heads = Heads(heads), !.onto = onto, !.needs = needs,
                           !.basis = basis, !.derives = derives])

WriteSummary(c) ==
    \E x \in DOMAIN revs, b \in Optional(DOMAIN revs) :
        Attach(c, {}, {x}, {"Summarize"}, b, TRUE)
MarkSummaryAssessed(c) == \E x \in DOMAIN revs : Attach(c, {}, {x}, {"Assess"}, {}, FALSE)
AssessPageValidity(c) ==
    \E x \in DOMAIN revs, b \in Optional(DOMAIN revs) :
        Attach(c, {}, {x}, {"Assess"}, b, TRUE)
\* The Feedback and the replacement must be heads, and so must the target, except to
\* close a challenge without a change of its source. The permissions are needed in the
\* Scopes of all of them, the basis included.
ApplyReconciliation(c) ==
    \E x \in DOMAIN revs, P \in Optional(Pages), b \in Optional(DOMAIN revs),
       outcome \in {"no_source_change", "assessed", "superseded"} :
        LET target == {p \in Pages : pages[p].rev = x}
        IN  /\ outcome # "no_source_change" => target # {}
            /\ outcome = "superseded" => P # {}
            /\ Attach(c, P \cup (IF outcome = "no_source_change" THEN {} ELSE target), {x} \cup b,
                      {"Assess", "ReadDetail"} \cup (IF outcome = "superseded" THEN {"Link"} ELSE {}),
                      {}, FALSE)
CreateScope(c) ==
    \E s, parent \in Scopes : Ask(c, [Request EXCEPT !.into = s, !.needs = {"ManageScope"},
        !.basis = {r \in DOMAIN revs : revs[r] = parent}, !.reads = {"ManageScope"}])
PutRevisionRetentionLease(c) ==
    \E s \in Scopes : Ask(c, [Request EXCEPT !.into = s, !.needs = {"Write"}])

\* Operations on whatever is in the Scopes of the session, or those it asks for.
Within(c, needs, asked, r) ==
    IF IF asked = {} THEN Available(c, needs) = {} ELSE ~asked \subseteq Available(c, needs)
    THEN /\ Begin(c) /\ Complete(c, "denied", TRUE)
         /\ UNCHANGED <<storeVars, auditVars, answered, deaths>>
    ELSE /\ Begin(c)
         /\ calls' = [calls EXCEPT ![c] = [step |-> "granted", req |-> r, scopes |->
                          IF asked = {} THEN Available(c, needs) ELSE asked]]
         /\ UNCHANGED <<storeVars, auditVars, answered, stamps, deaths>>

\* A cascade decides in its transaction which Pages it reaches: all must be in scope.
TombstoneDerivationCascade(c) ==
    \E P \in {{p} : p \in Pages} \cup {Pages} :
        Within(c, {"Retract"}, {},
               [Request EXCEPT !.heads = Heads(P), !.needs = {"Retract"}, !.effect = "revise"])
CollectRevisionRetention(c) ==
    \E s \in Optional(Scopes) : Within(c, {"Collect"}, s, Request)

Read(c, needs, asked) ==
    Within(c, needs, asked, [Request EXCEPT !.recorded = Principal[c] # "service"])

ListScopes(c) == Read(c, {"ListScopes"}, {})
SearchPages(c) ==
    \E s \in Optional(Scopes), detail \in {"ReadDetail", "ReadSummary"} :
        Read(c, {"Search", detail}, s)
Browse(c) == \E s \in Optional(Scopes) : Read(c, {"Search", "ReadSummary", "ReadDetail"}, s)
ReadPages(c) == \E detail \in {"ReadDetail", "ReadSummary"} : Read(c, {detail}, {})
CurrentRevisionId(c) == Read(c, {"ReadSummary"}, {})
PageCount(c) == \E s \in Optional(Scopes) : Read(c, {"Search"}, s)
ContentCharCount(c) == \E s \in Optional(Scopes) : Read(c, {"ReadDetail"}, s)
ReadForAudit(c) == \E s \in Optional(Scopes) : Read(c, {"Audit"}, s)
PendingFeedback(c) == \E s \in Optional(Scopes) : Read(c, {"Assess", "ReadDetail"}, s)
NextSummaryCandidate(c) == Read(c, {"Search", "ReadDetail"}, {})
DurablePageInventory(c) == Read(c, {"ReadDetail"}, {})
\* authorize_scopes_any: either permission is enough.
HealthSnapshot(c) == \E n \in {"Observe", "Audit"} : Read(c, {n}, {})

\* The records are written out before they are read; the read itself is not recorded.
AccessLog(c) ==
    /\ Available(c, {"Audit"}) # {} /\ Begin(c)
    /\ calls' = [calls EXCEPT ![c] = [step |-> "flush", seen |-> answered]]
    /\ UNCHANGED <<storeVars, auditVars, answered, stamps, deaths>>

\* transfer_page_scope: an operator's command, in one transaction.
TransferPageScope(p, s) ==
    /\ moves < MaxMoves /\ moves' = moves + 1 /\ pages[p].scope # s
    /\ pages' = [pages EXCEPT ![p] = [scope |-> s, rev |-> NextRev]]
    /\ revs' = Append(revs, s)
    /\ UNCHANGED <<auditVars, calls, answered, made, stamps, deaths>>

-----------------------------------------------------------------------------
(* The records.                                                            *)

\* send: a caller waits for room. A refusal's caller, and a reader, wait for more.
Send(c) ==
    /\ calls[c].step \in {"send", "flush"} /\ Len(queue) < QueueCapacity
    /\ IF calls[c].step = "flush"
       THEN /\ queue' = Append(queue, [from |-> c, rec |-> Idle])
            /\ calls' = [calls EXCEPT ![c].step = "flushing"]
            /\ UNCHANGED answered
       ELSE /\ queue' = Append(queue, [from |-> c, rec |-> calls[c].rec])
            /\ IF calls[c].rec.allowed
               THEN calls' = [calls EXCEPT ![c] = Idle]
                    /\ answered' = answered \cup {calls[c].rec}
               ELSE calls' = [calls EXCEPT ![c].step = "waiting"] /\ UNCHANGED answered
    /\ UNCHANGED <<storeVars, open, pending, worker, logVars, failures, made, stamps, deaths>>

\* recv_timeout: a refusal opens a batch that others may join, until it is full, a
\* flush arrives, or time is up.
Receive ==
    LET m == Head(queue)
    IN  /\ worker.step \in {"run", "collect"} /\ queue # <<>> /\ Len(pending) < BatchSize
        /\ queue' = Tail(queue)
        /\ IF m.rec = Idle
           THEN worker' = [step |-> "flush", replies |-> worker.replies \cup {m.from}]
                /\ UNCHANGED pending
           ELSE /\ pending' = Append(pending, m.rec)
                /\ worker' = IF m.rec.allowed THEN worker
                             ELSE [step |-> "collect", replies |-> worker.replies \cup {m.from}]
        /\ UNCHANGED <<storeVars, calls, open, logVars, answered, failures, made, stamps, deaths>>

\* prune: newest first, successes and refusals each with a budget of their own. The
\* first record that is one too many, or with which the kind takes too many bytes,
\* goes with all that are older, and so does what is older than the kind is kept: a
\* record that alone exceeds the bytes takes the whole kind with it.
Most(allowed) == IF allowed THEN MaxAllowed ELSE MaxRefused
MostBytes(allowed) == IF allowed THEN AllowedBytes ELSE RefusedBytes

Bytes(L) == Cardinality(UNION {{e} \X (1 .. e.size) : e \in L})
DownTo(L, e) == {f \in L : f.allowed = e.allowed /\ f.stamp >= e.stamp}
Fits(L, e) ==
    /\ Cardinality(DownTo(L, e)) <= Most(e.allowed)
    /\ Bytes(DownTo(L, e)) <= MostBytes(e.allowed)
Expired(e) == e.stamp <= aged[e.allowed]

\* Faults: nothing is pruned; and one budget for all of them.
Unbounded(L) == L
OneBudget(L) ==
    {e \in L : LET newer == {f \in L : f.stamp >= e.stamp}
               IN  /\ ~Expired(e) /\ Cardinality(newer) <= MaxAllowed + MaxRefused
                   /\ Bytes(newer) <= AllowedBytes + RefusedBytes}

Bounded(L) == {e \in L : ~Expired(e) /\ Fits(L, e)}

\* prune_operational_events: at most so many per sweep, the oldest of each kind first.
Pruned ==
    \E kept \in SUBSET log :
        /\ Bounded(log) \subseteq kept /\ log' = kept
        /\ \A e \in kept, f \in log : f.allowed = e.allowed /\ f.stamp > e.stamp => f \in kept

\* send_flush_result: the same answer for everyone who waits.
Reply(written) ==
    /\ answered' = answered \cup
          (IF written THEN {calls[c].rec : c \in {d \in worker.replies : calls[d].step = "waiting"}}
           ELSE {})
    /\ calls' = [c \in Callers |->
          IF c \notin worker.replies THEN calls[c]
          ELSE IF calls[c].step = "flushing" /\ written THEN [calls[c] EXCEPT !.step = "read"]
          ELSE Idle]
    /\ worker' = Running

\* flush_pending: for a batch that somebody waits for, a full one, or one of some age.
Flush ==
    /\ worker.step # "stopped" /\ (pending # <<>> \/ worker.step = "flush")
    /\ log' = Bounded(log \cup ToSet(pending)) /\ committed' = committed \cup ToSet(pending)
    /\ pending' = <<>> /\ Reply(TRUE)
    /\ UNCHANGED <<storeVars, open, queue, aged, failures, made, stamps, deaths>>

\* A fault: those who wait for a batch that failed are not told.
FailsSilently ==
    /\ worker.step # "stopped" /\ pending # <<>>
    /\ failures < MaxFailures /\ failures' = failures + 1 /\ pending' = <<>> /\ worker' = Running
    /\ UNCHANGED <<storeVars, open, queue, logVars, calls, answered, made, stamps, deaths>>

FlushFails ==
    /\ worker.step # "stopped" /\ pending # <<>>
    /\ failures < MaxFailures /\ failures' = failures + 1 /\ Reply(FALSE)
    /\ UNCHANGED <<storeVars, open, queue, pending, logVars, made, stamps, deaths>>

ReadLog(c) ==
    /\ calls[c].step = "read" /\ calls' = [calls EXCEPT ![c] = Idle]
    /\ UNCHANGED <<storeVars, auditVars, answered, made, stamps, deaths>>

\* The store is dropped when no call is left; the worker drains the queue and stops.
Close ==
    /\ open /\ deaths < MaxDeaths /\ deaths' = deaths + 1
    /\ \A c \in Callers : calls[c] = Idle
    /\ open' = FALSE
    /\ UNCHANGED <<storeVars, queue, pending, worker, logVars, failures, calls, answered, made, stamps>>

\* Disconnected: one last attempt to write.
Disconnected ==
    /\ ~open /\ queue = <<>> /\ worker = Running /\ Len(pending) < BatchSize
    /\ \/ /\ log' = Bounded(log \cup ToSet(pending)) /\ committed' = committed \cup ToSet(pending)
          /\ UNCHANGED failures
       \/ failures < MaxFailures /\ failures' = failures + 1 /\ UNCHANGED <<log, committed>>
    /\ pending' = <<>> /\ worker' = [Running EXCEPT !.step = "stopped"]
    /\ UNCHANGED <<storeVars, open, queue, aged, calls, answered, made, stamps, deaths>>

\* AccessAuditWriter::start sweeps, after which calls come in again.
Reopen ==
    /\ worker.step = "stopped" /\ worker' = Running /\ open' = TRUE /\ Pruned
    /\ answered' = answered \cap (log \cup {e \in answered : ~e.allowed})
    /\ UNCHANGED <<storeVars, queue, pending, aged, committed, failures, calls, made, stamps, deaths>>

\* Days pass: successes are kept for 7 and refusals and failures for 30.
TimePasses ==
    /\ \E allowed, refused \in 0 .. stamps :
          /\ aged[TRUE] <= allowed /\ aged[FALSE] <= refused /\ refused <= allowed
          /\ aged' = [b \in BOOLEAN |-> IF b THEN allowed ELSE refused]
    /\ aged' # aged
    /\ UNCHANGED <<storeVars, open, queue, pending, worker, log, committed, failures, calls, answered,
                   made, stamps, deaths>>

\* maybe_prune: now and then, also when nothing is written.
Sweep ==
    /\ worker.step # "stopped" /\ Pruned /\ log' # log
    /\ UNCHANGED <<storeVars, open, queue, pending, worker, aged, committed, failures, calls, answered,
                   made, stamps, deaths>>

\* The process dies with what it had not written.
Crash ==
    /\ open /\ deaths < MaxDeaths /\ deaths' = deaths + 1
    /\ calls' = [c \in Callers |-> Idle] /\ queue' = <<>> /\ pending' = <<>> /\ worker' = Running
    /\ answered' = answered \cap (log \cup {e \in answered : ~e.allowed})
    /\ UNCHANGED <<storeVars, open, logVars, failures, made, stamps>>

-----------------------------------------------------------------------------
GateNext ==
    \/ \E c \in Callers :
          \/ AskUnknown(c) \/ AskUnrecorded(c) \/ RefuseModel(c) \/ Commit(c) \/ Refuse(c)
          \/ ManagePageLifecycle(c) \/ RevisePage(c) \/ RepairPage(c) \/ UnpackPage(c)
          \/ DeletePage(c) \/ PackPages(c) \/ ConsolidatePages(c) \/ LinkPages(c)
          \/ IngestPage(c) \/ SubmitFeedback(c) \/ WritePage(c) \/ ExtractTopic(c)
          \/ WriteSummary(c) \/ MarkSummaryAssessed(c) \/ AssessPageValidity(c)
          \/ ApplyReconciliation(c) \/ CreateScope(c) \/ PutRevisionRetentionLease(c)
          \/ TombstoneDerivationCascade(c) \/ CollectRevisionRetention(c) \/ ListScopes(c)
          \/ SearchPages(c) \/ Browse(c) \/ ReadPages(c) \/ CurrentRevisionId(c)
          \/ PageCount(c) \/ ContentCharCount(c) \/ ReadForAudit(c) \/ PendingFeedback(c)
          \/ NextSummaryCandidate(c) \/ DurablePageInventory(c) \/ HealthSnapshot(c)
          \/ AccessLog(c) \/ Send(c) \/ ReadLog(c)
    \/ \E p \in Pages, s \in Scopes : TransferPageScope(p, s)
    \/ Receive \/ Flush \/ FlushFails \/ TimePasses \/ Sweep
    \/ Close \/ Disconnected \/ Reopen \/ Crash

GateSpec == GateInit /\ [][GateNext]_gateVars

\* The worker thread runs, and whoever waits for room in the queue gets it in the end.
GateFairSpec ==
    /\ GateSpec /\ WF_gateVars(Receive) /\ WF_gateVars(Flush)
    /\ \A c \in Callers : SF_gateVars(Send(c))

-----------------------------------------------------------------------------
(* Properties.                                                             *)

\* What the policy of its kind lets go: too old, or too much was written since.
Outgrown(e) == Expired(e) \/ ~Fits(committed, e)

GateTypeOK ==
    /\ \A p \in Pages : pages[p].scope = revs[pages[p].rev]
    /\ Len(queue) <= QueueCapacity /\ Len(pending) <= BatchSize
    /\ \A c \in worker.replies : calls[c].step \in {"waiting", "flushing"}
    /\ log \subseteq committed /\ \A e \in log : Fits(log, e)

\* A call changes a Page only while that is in a Scope where its session holds the
\* permission of the operation: also if an operator moved it after it was looked up, to
\* a Scope that the call may read from. What it attaches to a Revision it attaches
\* where the session holds it in the Scope of that Revision, which may be one that the
\* Page has left since (adapter.rs, ensure_revision_access).
CommittedWhereGranted ==
    [][\A c \in Callers : Commit(c) => \A n \in calls[c].req.needs :
          /\ \A h \in calls[c].req.heads : Allows(c, n, pages[h[1]].scope)
          /\ \A x \in calls[c].req.onto : Allows(c, n, revs[x])]_gateVars

\* A refusal or a failure that was answered as recorded stays on record, through
\* failed batches and crashes, until it is too old, or it and the refusals and failures
\* written since are too many or too big for their budget: successes do not replace it.
AcknowledgedIsKept == \A e \in answered : e.allowed \/ e \in log \/ Outgrown(e)

\* A record is in one place: a batch that could not be written is not written twice.
RecordedOnce ==
    LET sent == [i \in DOMAIN queue |-> queue[i].rec] \o pending
    IN  /\ \A i, j \in DOMAIN sent : i # j /\ sent[i] # Idle => sent[i] # sent[j]
        /\ \A i \in DOMAIN sent : sent[i] \notin committed

\* Who reads the records sees those of every call that was answered before it asked.
ReadersSeeAnswered ==
    \A c \in Callers : calls[c].step = "read" =>
        \A e \in calls[c].seen : e \in log \/ Outgrown(e)

\* A refusal that was answered as recorded stays on record as long as the retention of
\* its kind allows, no record is written twice, and who reads them sees those of the
\* calls answered before (audit_writer.rs, log_retention.rs).
RecordsKept == AcknowledgedIsKept /\ RecordedOnce /\ ReadersSeeAnswered

\* A call that waits for its record to be written is answered, whatever fills the queue
\* and however often the batch cannot be written, if that does not last.
AnswersArrive ==
    \A c \in Callers : LET waits == calls[c].step \in {"send", "waiting", "flushing"}
                       IN  waits ~> ~waits
=============================================================================
