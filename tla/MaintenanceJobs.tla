---------------------------- MODULE MaintenanceJobs ----------------------------
(***************************************************************************)
(* The jobs of one maintenance cycle (maintenance/coordinator.rs): each     *)
(* selects a window of the inventory that was read before it, pays a model  *)
(* for a decision about it, and commits the decision, proposes it to the    *)
(* operator or records that there is nothing to do. Meanwhile tenants write *)
(* and an operator deletes summaries and splits packs again.                *)
(*                                                                          *)
(* Commits carry idempotency keys that name the window, so that the retry   *)
(* of a lost answer changes nothing; ledger records keep a window out of    *)
(* the selection until its cooldown ends, which no run reaches. Calls that  *)
(* fail are the business of MaintenanceSchedule, the topics and feedback    *)
(* decisions that of ReviewInbox.                                           *)
(***************************************************************************)
EXTENDS Integers, FiniteSets, Rows

CONSTANTS
    Sources,        \* sealed Pages of one stream: 1 .. Sources
    Notes,          \* revisioned Pages of tenants: Sources + 1 .. Sources + Notes
    Offered,        \* bound: what tenants and operators do
    Kinds,          \* bound: the kinds of jobs that are enabled
    Applies,        \* config.applies_changes
    MaxJobs,        \* config.max_jobs_per_cycle
    MaxPages,       \* bound: Pages ever created
    MaxRevisions,   \* bound: Revisions ever created
    MaxCycles       \* bound: cycles ever started

JobsAssumption ==
    /\ Offered \subseteq {"revise", "withdraw", "unpack", "delete_summary"}
    /\ Kinds \subseteq {"packing", "summary", "relation", "archive", "retention"}
    /\ Applies \in BOOLEAN
    /\ Sources \in Nat /\ Notes \in Nat /\ MaxJobs \in Nat \ {0}

VARIABLES
    pages,          \* Page -> [head, past, span, shown]: span is {} for a note
    summaries,      \* pcp_page_summary_heads: Page -> the Revision its summary is of
    assessed,       \* pcp_summary_assessments: Revisions not worth a summary
    related,        \* pairs of Pages with a related_to relation
    leases,         \* Revisions with a retention lease
    keys,           \* idempotency keys that were used
    used,           \* identifiers that were given out
    ledger,         \* windows and pairs with a record, whose cooldown runs
    inventory,      \* the Pages the cycle works from, as they were read
    cycle,          \* [phase, jobs, at, turns, scheduled, turn, count]
    job,            \* the window that was paid for and is not settled: [kind, of, with]
    paid            \* the calls that were paid for, those paid for twice, and the
                    \* Pages whose pack or summary an operator undid

jobVars == <<pages, summaries, assessed, related, leases, keys, used, ledger, inventory, cycle,
             job, paid>>
store == <<pages, summaries, assessed, related, leases, keys, used>>

NoJob == [kind |-> "none", of |-> NoRows, with |-> 0]
Packed(p) == Cardinality(pages[p].span) > 1
Shown == {p \in DOMAIN pages : pages[p].shown}

\* durable_page_inventory: the current Pages with what a selection looks at.
Inventory ==
    [p \in Shown |-> [head |-> pages[p].head, span |-> pages[p].span,
                      summary |-> IF p \in DOMAIN summaries THEN summaries[p] ELSE 0,
                      protected |-> p \in DOMAIN summaries \/ pages[p].head \in assessed]]
Heads(P) == {inventory[p].head : p \in P}

JobsInit ==
    /\ pages = [p \in 1 .. Sources + Notes |->
                   [head |-> p, past |-> {}, shown |-> TRUE, span |-> IF p <= Sources THEN {p} ELSE {}]]
    /\ summaries = NoRows /\ assessed = {} /\ related = {} /\ leases = {} /\ keys = {}
    /\ used = [page |-> Sources + Notes, rev |-> Sources + Notes]
    /\ ledger = {} /\ inventory = NoRows /\ job = NoJob
    /\ cycle = [phase |-> "idle", jobs |-> 0, at |-> 0, turns |-> 0, scheduled |-> TRUE,
                turn |-> 0, count |-> 0]
    /\ paid = [once |-> {}, again |-> {}, undone |-> {}]

-----------------------------------------------------------------------------
(* Beside the cycle.                                                        *)

maintenance == <<ledger, inventory, cycle, job>>

Revise(p) ==
    /\ "revise" \in Offered /\ p \in Shown /\ pages[p].span = {} /\ used.rev < MaxRevisions
    /\ used' = [used EXCEPT !.rev = @ + 1]
    /\ pages' = [pages EXCEPT ![p].head = used.rev + 1, ![p].past = pages[p].past \cup {pages[p].head}]
    /\ UNCHANGED <<summaries, assessed, related, leases, keys, maintenance, paid>>

Withdraw(p) ==
    /\ "withdraw" \in Offered /\ p \in Shown
    /\ pages' = [pages EXCEPT ![p].shown = FALSE]
    /\ UNCHANGED <<summaries, assessed, related, leases, keys, used, maintenance, paid>>

\* unpack_page restores the sources with their identities.
Unpack(p) ==
    /\ "unpack" \in Offered /\ p \in Shown /\ Packed(p)
    /\ pages' = [q \in DOMAIN pages |->
            [pages[q] EXCEPT !.shown = q # p /\ (pages[q].shown \/ q \in pages[p].span)]]
    /\ related' = {l \in related : p \notin l}
    /\ paid' = [paid EXCEPT !.undone = @ \cup pages[p].span \cup {p}]
    /\ UNCHANGED <<summaries, assessed, leases, keys, used, maintenance>>

\* delete_page of a summary Page removes it from the heads; its key stays.
DeleteSummary(p) ==
    /\ "delete_summary" \in Offered /\ p \in DOMAIN summaries
    /\ summaries' = Drop(summaries, {p})
    /\ paid' = [paid EXCEPT !.undone = @ \cup {p}]
    /\ UNCHANGED <<pages, assessed, related, leases, keys, used, maintenance>>

-----------------------------------------------------------------------------
(* Selection, from the inventory and the ledger.                           *)

\* Packs, and leaves without a summary or an assessment, that follow each other in
\* the stream. Packs next to each other are taken to share an identifier.
PackingEligible(p) ==
    /\ inventory[p].span # {}
    /\ Cardinality(inventory[p].span) > 1 \/ ~inventory[p].protected
Neighbours(p, q) == \E i \in inventory[p].span : i + 1 \in inventory[q].span
PackingWindows ==
    {w \in SUBSET {p \in DOMAIN inventory : PackingEligible(p)} :
        Cardinality(w) = 2 /\ \E p, q \in w : p # q /\ Neighbours(p, q)}

\* A Page whose summary is of an older Revision comes before one without any.
SummaryWindows ==
    LET open == {p \in DOMAIN inventory : <<"summary", {inventory[p].head}>> \notin ledger}
        stale == {p \in open : inventory[p].summary \notin {0, inventory[p].head}}
        none == {p \in open : inventory[p].summary = 0}
    IN  {{p} : p \in IF stale # {} THEN stale ELSE none}

\* Pages that wait for the operator to approve a pack are left alone.
Proposed == UNION {r[2] : r \in {x \in ledger : x[1] = "pack"}}
RelationWindows == {w \in SUBSET (DOMAIN inventory \ Proposed) : Cardinality(w) = 2}
\* existing_related_pairs and active_relation_pairs: a window of which nothing is open.
Excluded(w) == w \in related \/ <<"pair", w>> \in ledger

ArchiveWindows ==
    {{p} : p \in {q \in DOMAIN inventory :
        Cardinality(inventory[q].span) < 2 /\ ~inventory[q].protected}}

\* The plan is made when the job starts, and the job looks at all of its candidates.
RetentionWindows ==
    LET old == (UNION {pages[p].past : p \in Shown}) \ leases
    IN  IF old = {} THEN {} ELSE {old}

Windows(kind) ==
    CASE kind = "packing" -> PackingWindows [] kind = "summary" -> SummaryWindows
      [] kind = "relation" -> RelationWindows [] kind = "archive" -> ArchiveWindows
      [] kind = "retention" -> RetentionWindows [] OTHER -> {}

\* selection_window_key names Pages, the other keys name Revisions.
Key(kind, w) == <<kind, IF kind \in {"packing", "retention"} THEN w ELSE Heads(w)>>
Selectable(kind) ==
    IF kind \in Kinds THEN {w \in Windows(kind) : Key(kind, w) \notin ledger} ELSE {}

-----------------------------------------------------------------------------
(* The cycle.                                                              *)

\* A scheduled cycle takes up the semantic turns where the last one stopped.
StartCycle ==
    /\ cycle.phase = "idle" /\ cycle.count < MaxCycles
    /\ inventory' = Inventory
    /\ \E scheduled \in BOOLEAN :
         cycle' = [cycle EXCEPT !.phase = "packing", !.jobs = MaxJobs, !.turns = 0,
                       !.scheduled = scheduled, !.at = IF scheduled THEN cycle.turn ELSE 3,
                       !.count = @ + 1]
    /\ UNCHANGED <<store, ledger, job, paid>>

\* Topics and update discovery have the turns 2 and 3: ReviewInbox has them.
Kind == IF cycle.phase # "semantic" THEN cycle.phase
        ELSE IF cycle.at = 0 THEN "summary" ELSE IF cycle.at = 1 THEN "relation" ELSE "other"

\* What follows a job, or a turn at which nothing ran: packing goes on as long as a
\* job runs, each semantic kind has one turn, and the last two kinds one job each.
After(ran) ==
    LET left == IF ran THEN cycle.jobs - 1 ELSE cycle.jobs
        at == (cycle.at + 1) % 4
        phase == CASE cycle.phase = "packing" -> IF ran THEN "packing" ELSE "semantic"
                   [] cycle.phase = "semantic" -> IF cycle.turns = 3 THEN "archive" ELSE "semantic"
                   [] cycle.phase = "archive" -> "retention"
                   [] OTHER -> "idle"
        moved == [cycle EXCEPT !.jobs = left, !.phase = IF left = 0 THEN "idle" ELSE phase]
    IN  IF cycle.phase # "semantic" THEN moved
        ELSE [moved EXCEPT !.at = at, !.turns = @ + 1,
                           !.turn = IF cycle.scheduled THEN at ELSE @]

\* A model is paid for a decision about a window and the Revisions read with it.
Select(w) ==
    /\ cycle.phase # "idle" /\ job = NoJob /\ w \in Selectable(Kind)
    /\ Kind = "relation" => ~Excluded(w)
    /\ LET of == IF Kind = "retention" THEN [r \in w |-> r] ELSE [p \in w |-> inventory[p].head]
           with == IF Kind = "summary" THEN inventory[CHOOSE p \in w : TRUE].summary ELSE 0
           call == <<Kind, of, Kind = "packing" /\ <<"pack", w>> \in ledger>>
       IN  /\ job' = [kind |-> Kind, of |-> of, with |-> with]
           /\ paid' = [paid EXCEPT !.once = @ \cup {call},
                           !.again = IF call \in paid.once THEN @ \cup {call} ELSE @]
    /\ UNCHANGED <<store, ledger, inventory, cycle>>

\* A window without an open pair is recorded unpaid.
AllPairsExcluded(w) ==
    /\ cycle.phase # "idle" /\ job = NoJob /\ Kind = "relation"
    /\ w \in Selectable(Kind) /\ Excluded(w)
    /\ ledger' = ledger \cup {Key("relation", w)}
    /\ cycle' = After(TRUE) /\ inventory' = Inventory
    /\ UNCHANGED <<store, job, paid>>

Pass ==
    /\ job = NoJob /\ cycle.phase # "idle" /\ Selectable(Kind) = {}
    /\ cycle' = After(FALSE)
    /\ UNCHANGED <<store, ledger, inventory, job, paid>>

JobPages == DOMAIN job.of
JobKey == <<job.kind, IF job.kind \in {"packing", "retention"} THEN JobPages
                      ELSE {job.of[p] : p \in JobPages}>>
StillCurrent == \A p \in JobPages : pages[p].shown /\ pages[p].head = job.of[p]

\* The job is over: the next one works from a new inventory.
Settled == job' = NoJob /\ cycle' = After(TRUE) /\ inventory' = Inventory'

\* A fault: the answer is only kept for packs.
PacksRecorded ==
    /\ job # NoJob
    /\ ledger' = IF job.kind = "packing" THEN ledger \cup {JobKey} ELSE ledger
    /\ UNCHANGED <<store, paid>> /\ Settled

\* no_candidate, defer, retain and answers that do not fit the window.
Record ==
    /\ job # NoJob
    /\ ledger' = ledger \cup {JobKey}
    /\ UNCHANGED <<store, paid>> /\ Settled

\* That a Page is not worth a summary goes to the store when changes are applied, and
\* nothing is recorded.
MarkAssessed ==
    /\ Applies /\ job.kind = "summary"
    /\ assessed' = assessed \cup {job.of[p] : p \in JobPages}
    /\ UNCHANGED <<pages, summaries, related, leases, keys, used, ledger, paid>> /\ Settled

\* Observe mode, and archiving in every mode, only propose; a proposed pack is
\* recorded by its Pages, not by the window.
Propose ==
    /\ job # NoJob /\ (~Applies \/ job.kind = "archive") /\ job.kind # "retention"
    /\ ledger' = ledger \cup (CASE job.kind = "packing" -> {<<"pack", JobPages>>}
                                [] job.kind = "relation" -> {<<"pair", JobPages>>, JobKey}
                                [] OTHER -> {JobKey})
    /\ job.kind = "packing" => <<"pack", JobPages>> \notin ledger
    /\ UNCHANGED <<store, paid>> /\ Settled

\* write_summary, keyed by the Revision: a used key is answered without a write.
\* Nothing is recorded, as the new summary takes the Page out of the selection.
WriteSummary ==
    /\ Applies /\ job.kind = "summary"
    /\ \E p \in JobPages :
         /\ JobKey \in keys \/ (pages[p].shown /\ job.with = (IF p \in DOMAIN summaries THEN summaries[p] ELSE 0))
         /\ summaries' = IF JobKey \in keys THEN summaries ELSE Put(summaries, p, job.of[p])
    /\ keys' = keys \cup {JobKey}
    /\ UNCHANGED <<pages, assessed, related, leases, used, ledger, paid>> /\ Settled

\* pack_pages, keyed by the Pages; the first pack keeps its identity.
PackPages ==
    /\ Applies /\ job.kind = "packing"
    /\ LET packs == {p \in JobPages : Packed(p)}
           pack == IF packs = {} THEN used.page + 1 ELSE CHOOSE p \in packs : \A q \in packs : p <= q
           content == [head |-> used.rev + 1, past |-> IF packs = {} THEN {}
                       ELSE pages[pack].past \cup {pages[pack].head},
                       shown |-> TRUE, span |-> UNION {pages[p].span : p \in JobPages}]
       IN  IF JobKey \in keys THEN UNCHANGED <<pages, used>>
           ELSE /\ StillCurrent /\ pack <= MaxPages /\ used.rev < MaxRevisions
                /\ pages' = Put([p \in DOMAIN pages |->
                                     [pages[p] EXCEPT !.shown = pages[p].shown /\ p \notin JobPages]],
                                pack, content)
                /\ used' = [page |-> IF packs = {} THEN pack ELSE used.page, rev |-> used.rev + 1]
    /\ keys' = keys \cup {JobKey}
    /\ UNCHANGED <<summaries, assessed, related, leases, ledger, paid>> /\ Settled

\* link_pages, of Pages whose heads are looked at once more after the verification.
CommitRelation ==
    /\ Applies /\ job.kind = "relation" /\ StillCurrent
    /\ related' = related \cup {JobPages}
    /\ ledger' = ledger \cup {<<"pair", JobPages>>, JobKey}
    /\ UNCHANGED <<pages, summaries, assessed, leases, keys, used, paid>> /\ Settled

\* One lease after the other, for the milestones the model chose.
PutLeases ==
    /\ job.kind = "retention"
    /\ \E milestones \in SUBSET JobPages :
         leases' = IF Applies THEN leases \cup milestones ELSE leases
    /\ ledger' = ledger \cup {JobKey}
    /\ UNCHANGED <<pages, summaries, assessed, related, keys, used, paid>> /\ Settled

\* The commit is refused because the store moved on: the cycle ends with an error,
\* and the window that was paid for has no record.
CycleFails ==
    /\ job # NoJob /\ Applies
    /\ \/ job.kind = "relation" /\ ~StillCurrent
       \/ job.kind = "packing" /\ ~StillCurrent /\ JobKey \notin keys
       \/ /\ job.kind = "summary" /\ JobKey \notin keys
          /\ \E p \in JobPages : \/ ~pages[p].shown
                                 \/ job.with # (IF p \in DOMAIN summaries THEN summaries[p] ELSE 0)
    /\ job' = NoJob
    /\ cycle' = [cycle EXCEPT !.phase = "idle"]
    /\ UNCHANGED <<store, ledger, inventory, paid>>

JobsNext ==
    \/ \E p \in DOMAIN pages : Revise(p) \/ Withdraw(p) \/ Unpack(p) \/ DeleteSummary(p)
    \/ StartCycle
    \/ \E w \in Selectable(Kind) : Select(w) \/ AllPairsExcluded(w)
    \/ Pass \/ Record \/ MarkAssessed \/ Propose \/ WriteSummary \/ PackPages \/ CommitRelation \/ PutLeases
    \/ CycleFails

JobsSpec == JobsInit /\ [][JobsNext]_jobVars

-----------------------------------------------------------------------------
(* Properties.                                                             *)

\* Every Revision has one Page; a summary, a relation and a lease are of Pages and
\* Revisions that exist, and the shown Pages of the stream hold each source once,
\* whatever the cycle packs while operators unpack.
JobsTypeOK ==
    /\ \A p, q \in DOMAIN pages :
         /\ pages[p].head \in 1 .. used.rev /\ pages[p].head \notin pages[p].past
         /\ p # q => ({pages[p].head} \cup pages[p].past) \cap ({pages[q].head} \cup pages[q].past) = {}
         /\ p # q /\ {p, q} \subseteq Shown => pages[p].span \cap pages[q].span = {}
    /\ DOMAIN pages = 1 .. used.page /\ DOMAIN summaries \subseteq DOMAIN pages
    /\ \A p \in DOMAIN summaries : summaries[p] \in {pages[p].head} \cup pages[p].past
    /\ leases \subseteq UNION {pages[p].past : p \in DOMAIN pages}
    /\ cycle.jobs \in 0 .. MaxJobs /\ cycle.turns \in 0 .. 4 /\ (job # NoJob => cycle.jobs > 0)

\* No window is paid for twice with the same Revisions, except where an operator
\* undid what came of it, and for a summary that the model found not worth writing:
\* the store then marks the Revision, but what selects the next Page does not ask for
\* the mark (coordinator.rs:3277, 3368), so that cycle after cycle pays for it again.
\* Every other answer that was paid is in the records or in the store.
PaidTwiceWhenExcused ==
    \A call \in paid.again :
        /\ call[1] \in {"packing", "summary", "relation"}
        /\ \E p \in DOMAIN call[2] :
               p \in paid.undone \/ (call[1] = "summary" /\ call[2][p] \in assessed)

\* README.md:246-249 of pcp-runtime: an answer that there is nothing to do cools its
\* window down, so an unchanged store does not consume the model's tokens again. The
\* code does not keep this for summaries.
PaidOnce == paid.again = {}
=============================================================================
