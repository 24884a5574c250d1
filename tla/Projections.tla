----------------------------- MODULE Projections -----------------------------
(***************************************************************************)
(* What the store derives from Pages and shows instead of them (pcp-sqlite: *)
(* summary.rs, validity.rs, extraction.rs, consolidation.rs and             *)
(* reconciliation.rs): Summaries, validity assessments, Topics, fusions of  *)
(* Pages into canonical ones, feedback and its reconciliation. Each of them *)
(* is a Page too, which its owners edit, archive, restore and delete like   *)
(* any other; tables of their own say what they are about. The recall       *)
(* surface (search/content_roles.rs) hides what something current covers.   *)
(*                                                                          *)
(* Every operation is one transaction. A repeated call with its key changes *)
(* nothing, as PageStore shows for writes, and is left out.                 *)
(***************************************************************************)
EXTENDS Integers, FiniteSets, Reachability, Rows

CONSTANTS
    Memories,       \* number of Pages that tenants wrote before
    MaxPages,       \* bound: Pages ever created
    MaxRevisions    \* bound: Revisions ever created

ASSUME ProjectionAssumption == Memories \in Nat

VARIABLES
    pages,          \* Page -> [kind, head, status]
    revs,           \* Revision -> [page, status]
    summaries,      \* pcp_summaries: Summary Revision -> target Revision
    summaryHeads,   \* pcp_page_summary_heads: target Page -> Summary Page
    assessments,    \* pcp_validity_assessments: Revision -> [target, standing]
    validityHeads,  \* pcp_validity_heads: target Page -> assessment Page
    members,        \* pcp_topic_extraction_members: Topic Revision -> Revisions
    links,          \* active relations <<from, type, to>> of Pages
    fusions,        \* pcp_consolidations: [sources, covers]
    signals,        \* pcp_feedback_targets: feedback Revision -> target -> status
    decided         \* <<feedback Page, target, disposition>> that were applied

projectionVars == <<pages, revs, summaries, summaryHeads, assessments,
                    validityHeads, members, links, fusions, signals, decided>>
projectionTables == <<summaries, summaryHeads, assessments, validityHeads, members>>

NewPage == Cardinality(DOMAIN pages) + 1
NewRevision == Cardinality(DOMAIN revs) + 1
HeadOf(p) == pages[p].head
HeadsOf(P) == {pages[p].head : p \in P}
PagesOf(R) == {revs[r].page : r \in R}
IsHead(r) == HeadOf(revs[r].page) = r
ActivePage(p) == pages[p].status = "active"

\* insert_revision and the move of the head. The status of an existing Page is
\* the caller's business.
Published(p, kind, status) ==
    /\ NewRevision <= MaxRevisions /\ NewPage <= MaxPages + 1
    /\ p <= MaxPages
    /\ revs' = Put(revs, NewRevision, [page |-> p, status |-> status])
    /\ pages' = Put(pages, p,
          [kind |-> kind, head |-> NewRevision,
           status |-> IF p \in DOMAIN pages THEN pages[p].status ELSE status])

ProjectionInit ==
    /\ pages = [p \in 1 .. Memories |-> [kind |-> "memory", head |-> p, status |-> "active"]]
    /\ revs = [r \in 1 .. Memories |-> [page |-> r, status |-> "active"]]
    /\ summaries = NoRows /\ summaryHeads = NoRows
    /\ assessments = NoRows /\ validityHeads = NoRows
    /\ members = NoRows /\ links = {} /\ fusions = {}
    /\ signals = NoRows /\ decided = {}

-----------------------------------------------------------------------------
(* What is current.                                                        *)

Superseded(p) == \E l \in links : l[2] = "supersedes" /\ l[3] = p

\* current_validity: the head of the assessment Page, if it is about r.
Standing(r) ==
    LET p == revs[r].page
    IN  IF /\ p \in DOMAIN validityHeads
           /\ HeadOf(validityHeads[p]) \in DOMAIN assessments
           /\ assessments[HeadOf(validityHeads[p])].target = r
        THEN assessments[HeadOf(validityHeads[p])].standing ELSE "none"

\* append_effective_page_filter; assessment Pages are records, never candidates.
Effective(p) ==
    /\ ActivePage(p) /\ revs[HeadOf(p)].status = "active"
    /\ ~Superseded(p) /\ Standing(HeadOf(p)) # "retracted"
    /\ \A q \in DOMAIN validityHeads : validityHeads[q] # p

\* A fault: a Topic that is not shown itself hides what it covers.
AnyRoute(p) == {t \in DOMAIN pages : HeadOf(t) \in DOMAIN members /\ HeadOf(p) \in members[HeadOf(t)]}

\* current_topic_route: Topics that show p's head.
Routes(p) ==
    {t \in DOMAIN pages : /\ HeadOf(t) \in DOMAIN members /\ HeadOf(p) \in members[HeadOf(t)]
                          /\ Effective(t)}

\* CURRENT_CONSOLIDATION_COVERAGE: Pages that carry all of p's head.
Coverage(p) ==
    UNION {PagesOf(f.covers[HeadOf(p)]) :
        f \in {g \in fusions : /\ HeadOf(p) \in DOMAIN g.covers
                               /\ \A o \in g.covers[HeadOf(p)] :
                                      IsHead(o) /\ Effective(revs[o].page)}}

\* append_default_retrieval_filter.
Recalled(p) == Effective(p) /\ Routes(p) = {} /\ Coverage(p) = {}

-----------------------------------------------------------------------------
(* Pages. A memory stands for any Page of a tenant.                        *)

\* repair_page, and revise_page of a Page that is not sealed. A repair takes the
\* target of a Summary and the work of feedback to the new Revision.
Edit(p) ==
    /\ pages[p].status # "tombstoned"
    /\ Published(p, pages[p].kind, revs[HeadOf(p)].status)
    /\ summaries' = IF HeadOf(p) \in DOMAIN summaries
                    THEN Put(summaries, NewRevision, summaries[HeadOf(p)]) ELSE summaries
    /\ signals' = IF HeadOf(p) \in DOMAIN signals
                  THEN Put(signals, NewRevision, signals[HeadOf(p)]) ELSE signals
    /\ UNCHANGED <<summaryHeads, assessments, validityHeads, members, links, fusions, decided>>

Transition(p, from, to) ==
    /\ pages[p].status = from /\ revs[HeadOf(p)].status = from
    /\ pages' = [pages EXCEPT ![p].status = to]
    /\ revs' = [revs EXCEPT ![HeadOf(p)].status = to]
    /\ UNCHANGED <<projectionTables, links, fusions, signals, decided>>
Archive(p) == Transition(p, "active", "archived")
Restore(p) == Transition(p, "archived", "active")

Delete(p) ==
    /\ revs[HeadOf(p)].status # "tombstoned"
    /\ NewRevision <= MaxRevisions
    /\ revs' = Put(revs, NewRevision, [page |-> p, status |-> "tombstoned"])
    /\ pages' = [pages EXCEPT ![p] =
            [kind |-> "tombstone", head |-> NewRevision, status |-> "tombstoned"]]
    /\ links' = {l \in links : p \notin {l[1], l[3]}}
    /\ summaryHeads' = Drop(summaryHeads, {q \in DOMAIN summaryHeads : summaryHeads[q] = p})
    /\ UNCHANGED <<summaries, assessments, validityHeads, members, fusions, signals, decided>>

-----------------------------------------------------------------------------
(* Summaries and assessments, each one Page for each target Page.          *)

WriteSummary(r) ==
    LET p == revs[r].page
        s == IF p \in DOMAIN summaryHeads THEN summaryHeads[p] ELSE NewPage
    IN  /\ Published(s, IF s = NewPage THEN "summary" ELSE pages[s].kind, "active")
        /\ summaries' = Put(summaries, NewRevision, r)
        /\ summaryHeads' = Put(summaryHeads, p, s)
        /\ links' = IF s = NewPage THEN links \cup {<<s, "summarizes", p>>} ELSE links
        /\ UNCHANGED <<assessments, validityHeads, members, fusions, signals, decided>>

\* assess_page_validity_tx, also of a Revision that is not the head.
Assessed(r, standing) ==
    LET p == revs[r].page
        a == IF p \in DOMAIN validityHeads THEN validityHeads[p] ELSE NewPage
    IN  /\ Published(a, IF a = NewPage THEN "assessment" ELSE pages[a].kind, "active")
        /\ assessments' = Put(assessments, NewRevision, [target |-> r, standing |-> standing])
        /\ validityHeads' = Put(validityHeads, p, a)
AssessLink(r) ==
    IF revs[r].page \in DOMAIN validityHeads THEN {}
    ELSE {<<NewPage, "assesses", revs[r].page>>}

AssessPageValidity(r, standing) ==
    /\ Assessed(r, standing)
    /\ links' = links \cup AssessLink(r)
    /\ UNCHANGED <<summaries, summaryHeads, members, fusions, signals, decided>>

-----------------------------------------------------------------------------
(* Topics.                                                                 *)

\* current_topic_source_sets
Topics ==
    {t \in DOMAIN pages : /\ pages[t].kind = "topic" /\ ActivePage(t) /\ ~Superseded(t)
                          /\ HeadOf(t) \in DOMAIN members}
SourcePages(t) == PagesOf(members[HeadOf(t)])

\* resolve_refresh_target: a new Topic needs sources no Topic covers, a refresh
\* sources that mostly are its own.
MayExtract(sources, target) ==
    IF target = 0 THEN ~\E t \in Topics : sources \subseteq SourcePages(t)
    ELSE LET shared == Cardinality(sources \cap SourcePages(target))
         IN  shared >= 2 /\ 2 * shared >= Cardinality(sources \cup SourcePages(target))

ExtractTopic(sources, target) ==
    LET t == IF target = 0 THEN NewPage ELSE target
        kept == {l \in links : ~(l[1] = t /\ l[2] = "summarizes")}
    IN  /\ Cardinality(sources) >= 2
        /\ \A p \in sources : revs[HeadOf(p)].status = "active" /\ pages[p].kind # "topic"
        /\ target \in Topics \cup {0} /\ MayExtract(sources, target)
        /\ Published(t, "topic", "active")
        /\ members' = Put(members, NewRevision, HeadsOf(sources))
        /\ links' = kept \cup {<<t, "summarizes", p>> : p \in sources}
        /\ UNCHANGED <<summaries, summaryHeads, assessments, validityHeads, fusions, signals,
                       decided>>

-----------------------------------------------------------------------------
(* Fusions: sources that are covered completely are shown by the outputs.  *)

\* Rows of feedback targets count whichever Revision of the feedback they are of.
Contested(r) ==
    \/ \E f \in DOMAIN signals : r \in DOMAIN signals[f] /\ signals[f][r] = "pending"
    \/ Superseded(revs[r].page)
    \/ Standing(r) \notin {"none", "live"}

\* ensure_no_active_duplicate
Duplicate(sources) ==
    \E f \in fusions : /\ f.sources = HeadsOf(sources)
                       /\ \A o \in f.outputs : ActivePage(revs[o].page)

\* Complete sources have the first output, those in "both" a second one as well.
ConsolidatePages(sources, complete, both, automatic) ==
    LET outputs == IF both = {} THEN 1 ELSE 2
        new == NewRevision .. NewRevision + outputs - 1
        PageFor(r) == NewPage + r - NewRevision
        covers == [r \in HeadsOf(complete) |->
                      IF r \in HeadsOf(both) THEN new ELSE {NewRevision}]
    IN  /\ complete # {} /\ \A p \in sources : revs[HeadOf(p)].status = "active"
        /\ automatic => complete = sources /\ \A p \in sources : ~Contested(HeadOf(p))
        /\ ~Duplicate(sources)
        /\ NewRevision + outputs - 1 <= MaxRevisions /\ NewPage + outputs - 1 <= MaxPages
        /\ revs' = Over([r \in new |-> [page |-> PageFor(r), status |-> "active"]], revs)
        /\ pages' = Over([p \in {PageFor(r) : r \in new} |->
                [kind |-> "fused", head |-> NewRevision + p - NewPage, status |-> "active"]], pages)
        /\ fusions' = fusions \cup
               {[sources |-> HeadsOf(sources), outputs |-> new, covers |-> covers]}
        /\ UNCHANGED <<projectionTables, links, signals, decided>>

-----------------------------------------------------------------------------
(* Feedback.                                                               *)

SubmitFeedback(challenged) ==
    /\ challenged # {}
    /\ Published(NewPage, "feedback", "active")
    /\ signals' = Put(signals, NewRevision, [r \in challenged |-> "pending"])
    /\ UNCHANGED <<projectionTables, links, fusions, decided>>

\* A fault: a target that was answered is open again.
AnyTarget(f, r) ==
    f \in DOMAIN signals /\ IsHead(f) /\ ActivePage(revs[f].page) /\ r \in DOMAIN signals[f]

\* The feedback is the current Revision of an active Page, and its target open.
Actionable(f, r) ==
    /\ f \in DOMAIN signals /\ IsHead(f) /\ ActivePage(revs[f].page)
    /\ r \in DOMAIN signals[f] /\ signals[f][r] = "pending"

Replacement(new, r) ==
    /\ new # revs[r].page /\ ActivePage(new)
    /\ ~Superseded(new) /\ Standing(HeadOf(new)) \notin {"retracted", "superseded"}

\* apply_reconciliation, of feedback f or (0) of a change that was discovered, by
\* a request that names the assessment that is current.
ApplyReconciliation(f, r, disposition, new) ==
    LET none == disposition = "no_source_change"
    IN  /\ f # 0 => Actionable(f, r)
        /\ none \/ (IsHead(r) /\ ActivePage(revs[r].page))
        /\ disposition = "superseded" => Replacement(new, r)
        /\ IF none THEN UNCHANGED <<pages, revs, assessments, validityHeads>>
                   ELSE Assessed(r, disposition)
        /\ links' = links \cup (IF none THEN {} ELSE AssessLink(r))
                          \cup (IF disposition = "superseded"
                                THEN {<<new, "supersedes", revs[r].page>>} ELSE {})
        /\ IF f = 0 THEN UNCHANGED <<signals, decided>>
           ELSE /\ signals' = [signals EXCEPT ![f][r] = disposition]
                /\ decided' = decided \cup {<<revs[f].page, r, disposition>>}
        /\ UNCHANGED <<summaries, summaryHeads, members, fusions>>

-----------------------------------------------------------------------------
ProjectionNext ==
    \/ \E p \in DOMAIN pages : Edit(p) \/ Archive(p) \/ Restore(p) \/ Delete(p)
    \/ \E r \in DOMAIN revs : WriteSummary(r)
    \/ \E r \in DOMAIN revs, s \in {"live", "retracted"} : AssessPageValidity(r, s)
    \/ \E sources \in SUBSET DOMAIN pages, target \in DOMAIN pages \cup {0} :
            ExtractTopic(sources, target)
    \/ \E sources \in SUBSET {p \in DOMAIN pages : ActivePage(p)}, fuse \in BOOLEAN :
            \E complete \in SUBSET sources : \E both \in SUBSET complete :
                ConsolidatePages(sources, complete, both, fuse)
    \/ \E challenged \in SUBSET DOMAIN revs : SubmitFeedback(challenged)
    \/ \E f \in DOMAIN signals \cup {0}, r \in DOMAIN revs, new \in DOMAIN pages,
          d \in {"no_source_change", "qualified", "superseded", "retracted"} :
            ApplyReconciliation(f, r, d, new)

ProjectionSpec == ProjectionInit /\ [][ProjectionNext]_projectionVars

-----------------------------------------------------------------------------
(* Properties.                                                             *)

\* The tables name Pages and Revisions of the kinds they are about.
ProjectionTypeOK ==
    /\ \A p \in DOMAIN pages : revs[HeadOf(p)].page = p
    /\ \A s \in DOMAIN summaries : summaries[s] \in DOMAIN revs
    /\ \A p \in DOMAIN summaryHeads : \E s \in DOMAIN summaries :
            revs[s].page = summaryHeads[p] /\ revs[summaries[s]].page = p
    /\ \A p \in DOMAIN validityHeads : \E a \in DOMAIN assessments :
            revs[a].page = validityHeads[p] /\ revs[assessments[a].target].page = p
    /\ \A l \in links : {l[1], l[3]} \subseteq DOMAIN pages

\* Whatever is effective is recalled, or something that shows it is: fusions of
\* fusions and Topics, edited, archived or superseded, never hide a Page behind
\* one that is not shown itself.
ShownReaches ==
    LET shows == UNION {{<<p, q>> : q \in Routes(p) \cup Coverage(p)} : p \in DOMAIN pages}
    IN  \A p \in DOMAIN pages :
            Effective(p) => \E q \in Reach(DOMAIN pages, p, shows) : Recalled(q)

\* Supersession by reconciliation runs in no circle, in which all Pages would hide
\* each other.
SupersessionAcyclic ==
    AcyclicGraph(DOMAIN pages, {<<l[1], l[3]>> : l \in {k \in links : k[2] = "supersedes"}})

\* Nothing effective is hidden without something shown that carries it (the
\* default retrieval filter), and no circle of supersessions hides all its Pages.
RecallReaches == ShownReaches /\ SupersessionAcyclic

\* An edit of feedback "never undoes or repeats an approval": a target is decided
\* once for the Page, and its current Revision says how.
FeedbackDecidedOnce ==
    \A d \in decided :
        /\ \A e \in decided : e[1] = d[1] /\ e[2] = d[2] => e = d
        /\ pages[d[1]].status # "tombstoned" => signals[HeadOf(d[1])][d[2]] = d[3]

\* A source is contested by feedback only while the current Revision of active
\* feedback challenges it and was not answered.
OnlyCurrentFeedbackContests ==
    \A r \in DOMAIN revs : Contested(r) =>
        \/ \E f \in DOMAIN signals : Actionable(f, r)
        \/ Superseded(revs[r].page) \/ Standing(r) \notin {"none", "live"}

\* The status of a Page is the status of its head.
PageStatusIsHeads == \A p \in DOMAIN pages : pages[p].status = revs[HeadOf(p)].status
=============================================================================
