---------------------------- MODULE OperatorActions ----------------------------
(***************************************************************************)
(* What operators do at the console (pcp-console main.rs, through            *)
(* maintenance/operator.rs and coordinator.rs): they scan the store for       *)
(* candidates, have a model look at them, apply what it found, accept or      *)
(* reject what waits for review, and split packs whose boundaries are wrong.  *)
(*                                                                          *)
(* A request is several steps: it checks the candidate against an inventory,  *)
(* changes the store, and then records the decision in the ledger, and it may *)
(* end between any two of them. Several operators work at a time, and tenants *)
(* write. Relations are of notes only; the cycle is in MaintenanceJobs.       *)
(***************************************************************************)
EXTENDS Integers, FiniteSets, Rows

CONSTANTS
    Sources,        \* sealed Pages of one stream: 1 .. Sources
    Notes,          \* revisioned Pages of tenants: Sources + 1 .. Sources + Notes
    Operators,      \* consoles
    Handled,        \* bound: the kinds of candidates
    Tenants,        \* bound: what else happens in the store
    MaxPages,       \* bound: Pages ever created
    MaxRevisions,   \* bound: Revisions ever created
    MaxDrafts       \* bound: candidates ever found

OperatorAssumption ==
    /\ Sources \in Nat /\ Notes \in Nat
    /\ Handled \subseteq {"pack", "split", "summary", "relation", "archive"}
    /\ Tenants \subseteq {"revise", "restore", "delete_summary"}

VARIABLES
    pages,          \* Page -> [head, span, status]: span is {} for a note
    summaries,      \* pcp_page_summary_heads: Page -> the Revision its summary is of
    links,          \* pairs of Pages with a related_to relation
    keys,           \* idempotency keys: they name candidates
    used,           \* identifiers that were given out
    drafts,         \* candidates that an analysis returned
    items,          \* the review items of the ledger: candidate -> status
    pairs,          \* decisions about relations: rejected as reviewed, or suppressed
    hand,           \* operator -> the request it is at: [step, of, item, groups]
    late            \* candidates that were applied after their rejection

operatorVars == <<pages, summaries, links, keys, used, drafts, items, pairs, hand, late>>
store == <<pages, summaries, links, keys, used>>
ledger == <<items, pairs>>

NoCandidate == [kind |-> "none", of |-> NoRows, with |-> 0]
Idle == [step |-> "idle", of |-> NoCandidate, item |-> FALSE, groups |-> {}]
Active == {p \in DOMAIN pages : pages[p].status = "active"}
Packed(p) == Cardinality(pages[p].span) > 1
SummaryOf(p) == IF p \in DOMAIN summaries THEN summaries[p] ELSE 0

OperatorInit ==
    /\ pages = [p \in 1 .. Sources + Notes |->
                   [head |-> p, status |-> "active", span |-> IF p <= Sources THEN {p} ELSE {}]]
    /\ summaries = NoRows /\ links = {} /\ keys = {}
    /\ used = [page |-> Sources + Notes, rev |-> Sources + Notes]
    /\ drafts = {} /\ items = NoRows /\ pairs = {} /\ late = {}
    /\ hand = [o \in Operators |-> Idle]

-----------------------------------------------------------------------------
(* Candidates. Their identity is the digest of the Pages and Revisions.     *)

Candidate(kind, P, with) == [kind |-> kind, of |-> [p \in P |-> pages[p].head], with |-> with]

\* packing_page_eligible: packs, and leaves without a summary.
Packable(p) == pages[p].span # {} /\ (Packed(p) \/ p \notin DOMAIN summaries)
Follows(p, q) == \E i \in pages[p].span : i + 1 \in pages[q].span
PackWindows ==
    {w \in SUBSET {p \in Active : Packable(p)} :
        /\ Cardinality(w) = 2 /\ \E p \in w : ~Packed(p)
        /\ \E p, q \in w : p # q /\ Follows(p, q)}

\* What a scan offers and an analysis builds a candidate of.
Candidates(kind) ==
    CASE kind = "pack" -> {Candidate(kind, w, 0) : w \in PackWindows}
      [] kind = "summary" -> {Candidate(kind, {p}, SummaryOf(p)) :
             p \in {q \in Active : pages[q].span = {} /\ SummaryOf(q) # pages[q].head}}
      [] kind = "relation" -> {Candidate(kind, w, 0) :
             w \in {P \in SUBSET {p \in Active : pages[p].span = {}} :
                        Cardinality(P) = 2 /\ P \notin links}}
      [] kind = "archive" -> {Candidate(kind, {p}, 0) :
             p \in {q \in Active : ~Packed(q) /\ q \notin DOMAIN summaries}}
      [] OTHER -> {}

Current(c) == \A p \in DOMAIN c.of : p \in Active /\ pages[p].head = c.of[p]
RejectedPair(c) == <<"rejected", c.of>> \in pairs
SuppressedPair(P) == <<"suppressed", P>> \in pairs

\* What is looked at once more before a candidate is applied; an archive candidate is
\* left to the store.
PackApplicable(c) == Current(c) /\ DOMAIN c.of \in PackWindows
SummaryApplicable(c) == Current(c) /\ \A p \in DOMAIN c.of : SummaryOf(p) = c.with
\* A fault: decisions that were made meanwhile are not read.
UnrelatedPair(c) == Current(c) /\ DOMAIN c.of \notin links

RelationApplicable(c) ==
    /\ Current(c) /\ DOMAIN c.of \notin links
    /\ ~SuppressedPair(DOMAIN c.of) /\ ~RejectedPair(c)
Applicable(c) ==
    CASE c.kind = "pack" -> PackApplicable(c) [] c.kind = "summary" -> SummaryApplicable(c)
      [] c.kind = "relation" -> RelationApplicable(c) [] OTHER -> TRUE

-----------------------------------------------------------------------------
(* Beside the operators.                                                   *)

Revise(p) ==
    /\ "revise" \in Tenants /\ p \in Active /\ pages[p].span = {} /\ used.rev < MaxRevisions
    /\ used' = [used EXCEPT !.rev = @ + 1]
    /\ pages' = [pages EXCEPT ![p].head = used.rev + 1]
    /\ UNCHANGED <<summaries, links, keys, drafts, ledger, hand, late>>

Restore(p) ==
    /\ "restore" \in Tenants /\ pages[p].status = "archived"
    /\ pages' = [pages EXCEPT ![p].status = "active"]
    /\ UNCHANGED <<summaries, links, keys, used, drafts, ledger, hand, late>>

DeleteSummary(p) ==
    /\ "delete_summary" \in Tenants /\ p \in DOMAIN summaries
    /\ summaries' = Drop(summaries, {p})
    /\ UNCHANGED <<pages, links, keys, used, drafts, ledger, hand, late>>

\* A cycle puts what it found into the ledger, unless it is there already.
Propose(c) ==
    /\ c \notin DOMAIN items /\ Cardinality(drafts) + Cardinality(DOMAIN items) < MaxDrafts
    /\ c.kind = "relation" => ~SuppressedPair(DOMAIN c.of) /\ ~RejectedPair(c)
    /\ items' = Put(items, c, "pending")
    /\ UNCHANGED <<store, drafts, pairs, hand, late>>

-----------------------------------------------------------------------------
(* Scan and analysis.                                                      *)

Free(o) == hand[o] = Idle
Begin(o, step, c, item, groups) ==
    hand' = [hand EXCEPT ![o] = [step |-> step, of |-> c, item |-> item, groups |-> groups]]
Done(o) == hand' = [hand EXCEPT ![o] = Idle]

\* scan_id: what a scan saw, by the Pages and Revisions of every group.
ScanId(kind) == Candidates(kind)

Scan(o, kind) ==
    /\ Free(o) /\ kind \in Handled \cap {"pack", "summary"} /\ ScanId(kind) # {}
    /\ Begin(o, kind, NoCandidate, FALSE, ScanId(kind))
    /\ UNCHANGED <<store, drafts, ledger, late>>

\* No two packs of an answer have a Page in common.
Disjoint(S) == \A c, d \in S : c # d => DOMAIN c.of \cap DOMAIN d.of = {}

\* The answer to a scan has candidates of that scan; it is refused when the scan is not
\* the store's any more.
Analyzed(o, kind, S) ==
    /\ hand[o].step = kind /\ S \subseteq ScanId(kind)
    /\ S # {} => hand[o].groups = ScanId(kind)
    /\ Cardinality(drafts \cup S) + Cardinality(DOMAIN items) <= MaxDrafts
    /\ drafts' = drafts \cup S
    /\ Done(o) /\ UNCHANGED <<store, ledger, late>>
AnalyzePacks(o) == \E S \in SUBSET ScanId("pack") : Disjoint(S) /\ Analyzed(o, "pack", S)
AnalyzeSummaries(o) == \E S \in SUBSET ScanId("summary") : Analyzed(o, "summary", S)

\* One candidate by itself has to be current, whatever else was written.
AnalyzePage(kind) ==
    /\ kind \in Handled /\ Cardinality(drafts) + Cardinality(DOMAIN items) < MaxDrafts
    /\ \E c \in Candidates(kind) : c \notin drafts /\ drafts' = drafts \cup {c}
    /\ UNCHANGED <<store, ledger, hand, late>>
AnalyzeSummary == AnalyzePage("summary")
AnalyzeRelation == AnalyzePage("relation")
AnalyzeArchive == AnalyzePage("archive")

-----------------------------------------------------------------------------
(* Application. decision_lock is held over the whole application of a        *)
(* relation and over every write of the ledger.                              *)

Unlocked == \A o \in Operators : ~(hand[o].step = "checked" /\ hand[o].of.kind = "relation")

\* apply_*_candidate of a draft, or accept_maintenance_review of an item: whether the
\* item is still pending is not looked at.
Check(o, c, item) ==
    /\ Free(o) /\ c.kind \in Handled
    /\ IF item THEN c \in DOMAIN items ELSE c \in drafts
    /\ Applicable(c) /\ (c.kind = "relation" => Unlocked)
    /\ Begin(o, "checked", c, item, {})
    /\ UNCHANGED <<store, drafts, ledger, late>>

Applying(o, kind) == hand[o].step = "checked" /\ hand[o].of.kind = kind
\* A review is resolved next; the application of a draft is over.
Applied(o, c) ==
    /\ late' = IF hand[o].item /\ items[c] = "rejected" THEN late \cup {c} ELSE late
    /\ IF hand[o].item THEN Begin(o, "applied", c, TRUE, {}) ELSE Done(o)
    /\ UNCHANGED <<drafts, ledger>>

\* pack_pages of leaves, or of a pack, which keeps its identity, and a leaf.
Pack(P) ==
    LET packs == {p \in P : Packed(p)}
        pack == IF packs = {} THEN used.page + 1 ELSE CHOOSE p \in packs : TRUE
    IN  /\ pack <= MaxPages /\ used.rev < MaxRevisions
        /\ pages' = Put([p \in DOMAIN pages |->
                             IF p \in P THEN [pages[p] EXCEPT !.status = "gone"] ELSE pages[p]],
                        pack, [head |-> used.rev + 1, status |-> "active",
                               span |-> UNION {pages[p].span : p \in P}])
        /\ used' = [page |-> IF packs = {} THEN pack ELSE used.page, rev |-> used.rev + 1]
        /\ UNCHANGED <<summaries, links>>

ApplyPack(o) ==
    LET c == hand[o].of IN
    /\ Applying(o, "pack")
    /\ IF c \in keys THEN UNCHANGED <<pages, summaries, links, used>>
       ELSE Current(c) /\ Pack(DOMAIN c.of)
    /\ keys' = keys \cup {c} /\ Applied(o, c)

ApplySummary(o) ==
    LET c == hand[o].of IN
    /\ Applying(o, "summary")
    /\ IF c \in keys THEN UNCHANGED summaries
       ELSE /\ \A p \in DOMAIN c.of : p \in Active /\ SummaryOf(p) = c.with
            /\ summaries' = Over(c.of, summaries)
    /\ keys' = keys \cup {c} /\ Applied(o, c) /\ UNCHANGED <<pages, links, used>>

ApplyRelation(o) ==
    LET c == hand[o].of IN
    /\ Applying(o, "relation") /\ DOMAIN c.of \subseteq Active
    /\ links' = links \cup {DOMAIN c.of}
    /\ keys' = keys \cup {c} /\ Applied(o, c) /\ UNCHANGED <<pages, summaries, used>>

ApplyArchive(o) ==
    LET c == hand[o].of IN
    /\ Applying(o, "archive") /\ Current(c)
    /\ pages' = [p \in DOMAIN pages |->
                    IF p \in DOMAIN c.of THEN [pages[p] EXCEPT !.status = "archived"] ELSE pages[p]]
    /\ Applied(o, c) /\ UNCHANGED <<summaries, links, keys, used>>

\* resolve_review. A refusal ends the request after the store was changed.
Resolve(o) ==
    LET c == hand[o].of
        status == IF hand[o].step = "applied" THEN "accepted" ELSE "rejected"
    IN  /\ hand[o].step \in {"applied", "decided"} /\ Unlocked
        /\ items' = IF items[c] = "pending" THEN [items EXCEPT ![c] = status] ELSE items
        /\ Done(o) /\ UNCHANGED <<store, drafts, pairs, late>>

\* The store refused, the connection broke or the console ended: a request is not
\* resumed.
Ends(o) == ~Free(o) /\ Done(o) /\ UNCHANGED <<store, drafts, ledger, late>>

\* reject_maintenance_review, and suppress_maintenance_review for a relation, whose
\* decision is written before the item is resolved.
Reject(o, c) ==
    /\ Free(o) /\ c \in DOMAIN items /\ c.kind # "relation" /\ Unlocked
    /\ items' = IF items[c] = "pending" THEN [items EXCEPT ![c] = "rejected"] ELSE items
    /\ UNCHANGED <<store, drafts, pairs, hand, late>>

DecidePair(o, c, how) ==
    /\ Free(o) /\ c.kind = "relation" /\ c \in drafts \cup DOMAIN items /\ Unlocked
    /\ Current(c) \/ (how = "suppressed" /\ DOMAIN c.of \in links
                      /\ \A p \in DOMAIN c.of : pages[p].head = c.of[p])
    /\ pairs' = pairs \cup {IF how = "rejected" THEN <<how, c.of>> ELSE <<how, DOMAIN c.of>>}
    /\ IF c \in DOMAIN items THEN Begin(o, "decided", c, TRUE, {}) ELSE UNCHANGED hand
    /\ UNCHANGED <<store, drafts, items, late>>

-----------------------------------------------------------------------------
(* Splitting a pack: unpack_page and then one pack_pages for each part.     *)

Parts(span) ==
    {{P, span \ P} : P \in {Q \in SUBSET span :
        /\ Cardinality(Q) > 1 /\ Cardinality(span \ Q) > 1
        /\ \A i \in Q, j \in span \ Q : i < j}}

Unpack(o, p) ==
    /\ "split" \in Handled /\ Free(o) /\ p \in Active /\ Packed(p) /\ Parts(pages[p].span) # {}
    /\ pages' = [q \in DOMAIN pages |->
            IF q = p THEN [pages[p] EXCEPT !.status = "gone"]
            ELSE IF q \in pages[p].span THEN [pages[q] EXCEPT !.status = "active"] ELSE pages[q]]
    /\ \E parts \in Parts(pages[p].span) : Begin(o, "split", NoCandidate, FALSE, parts)
    /\ UNCHANGED <<summaries, links, keys, used, drafts, ledger, late>>

\* maintenance_repack_restored, after a split that did not get through.
Repack(o, P) ==
    /\ "split" \in Handled /\ Free(o) /\ P \subseteq Active /\ P # {}
    /\ \E parts \in Parts(P) : Begin(o, "split", NoCandidate, FALSE, parts)
    /\ UNCHANGED <<store, drafts, ledger, late>>

\* What is left of a split when one of its parts is packed.
Without(request, P) ==
    IF request.groups = {P} THEN Idle ELSE [request EXCEPT !.groups = @ \ {P}]

\* A fault: a part is packed of Pages that another operator packed meanwhile.
PackAnyPart(o, P) ==
    /\ hand[o].step = "split" /\ P \in hand[o].groups
    /\ Pack(P) /\ UNCHANGED keys
    /\ hand' = [hand EXCEPT ![o] = Without(@, P)]
    /\ UNCHANGED <<drafts, ledger, late>>

PackPart(o, P) ==
    /\ hand[o].step = "split" /\ P \in hand[o].groups /\ P \subseteq Active
    /\ \A Q \in hand[o].groups : \E i \in P : \A j \in Q : i <= j
    /\ Pack(P) /\ UNCHANGED keys
    /\ hand' = [hand EXCEPT ![o] = Without(@, P)]
    /\ UNCHANGED <<drafts, ledger, late>>

OperatorNext ==
    \/ \E p \in DOMAIN pages : Revise(p) \/ Restore(p) \/ DeleteSummary(p)
    \/ AnalyzeSummary \/ AnalyzeRelation \/ AnalyzeArchive
    \/ \E kind \in Handled : \E c \in Candidates(kind) : Propose(c)
    \/ \E o \in Operators :
         \/ \E kind \in Handled : Scan(o, kind)
         \/ AnalyzePacks(o) \/ AnalyzeSummaries(o)
         \/ \E c \in drafts : Check(o, c, FALSE)
         \/ \E c \in DOMAIN items : Check(o, c, TRUE) \/ Reject(o, c)
         \/ ApplyPack(o) \/ ApplySummary(o) \/ ApplyRelation(o) \/ ApplyArchive(o)
         \/ Resolve(o) \/ Ends(o)
         \/ \E c \in drafts \cup DOMAIN items, how \in {"rejected", "suppressed"} :
              DecidePair(o, c, how)
         \/ \E p \in DOMAIN pages : Unpack(o, p)
         \/ \E P \in SUBSET (1 .. Sources) : Repack(o, P) \/ PackPart(o, P)

OperatorSpec == OperatorInit /\ [][OperatorNext]_operatorVars

-----------------------------------------------------------------------------
(* Properties.                                                             *)

\* The tables fit together: one Page for each Revision, summaries and relations of
\* Pages that exist, and at most one lock.
OperatorTypeOK ==
    /\ DOMAIN pages = 1 .. used.page
    /\ \A p, q \in DOMAIN pages : pages[p].head = pages[q].head => p = q
    /\ \A p \in DOMAIN pages : pages[p].head \in 1 .. used.rev
    /\ DOMAIN summaries \subseteq DOMAIN pages /\ UNION links \subseteq DOMAIN pages
    /\ Cardinality({o \in Operators : Applying(o, "relation")}) <= 1

\* No source is lost or doubled, whichever step of a split, a repack or an application
\* fails or meets another operator: exactly one Page that is not gone has it.
SourcesKept ==
    \A s \in 1 .. Sources :
        Cardinality({p \in DOMAIN pages : pages[p].status # "gone" /\ s \in pages[p].span}) = 1

\* No relation appears against a decision: not for a suppressed pair, nor for the
\* Revisions for which it was rejected, though tenants revise during an application.
NoEdgeAgainstDecision ==
    [][\A P \in links' \ links :
          ~SuppressedPair(P) /\ <<"rejected", [p \in P |-> pages[p].head]>> \notin pairs]_operatorVars

\* coordinator.rs:1453-1457 refuses a decision because the "review is no longer
\* pending": what was rejected is not applied.
RejectedIsNotApplied == late = {}
=============================================================================
