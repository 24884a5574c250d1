------------------------------ MODULE PageStore ------------------------------
(***************************************************************************)
(* The SQLite Page store (crates/pcp-sqlite): Pages with an immutable      *)
(* history of Revisions and a head, typed relations between Pages, the     *)
(* provenance of Revisions, and the idempotency table.                     *)
(*                                                                         *)
(* Every public operation of the store runs in one SQLite transaction, so  *)
(* one action is one committed transaction; an operation that fails, or    *)
(* that finds its idempotency key already recorded, commits nothing and is *)
(* a stuttering step.  Callers run concurrently: what a caller read before *)
(* its transaction (the expected Revision, the Revisions it cites) is a    *)
(* parameter that may be out of date when the transaction runs.            *)
(*                                                                         *)
(* Identifiers are numbered in the order they are issued; a Revision's     *)
(* number therefore also stands for its created_at.                        *)
(***************************************************************************)
EXTENDS Integers, Sequences, FiniteSets, Numbering, Reachability

CONSTANTS
    Keys,                 \* idempotency keys, each with the actor that sends it
    NoKey,                \* a request without a key
    Mutabilities,         \* the mutabilities that WritePage requests ask for
    RequestStatuses,      \* the lifecycle statuses that requests ask for
    RelationTypes,        \* the relation types that requests ask for
    MaxCascadeRevisions,  \* the safety limit of a derivation cascade
    Offered,              \* bound: the operations that the callers call
    MaxInputs,            \* bound: Revisions cited by one request
    MaxPages,             \* bound: Pages ever created
    MaxRevisions,         \* bound: Revisions ever created
    MaxRelations,         \* bound: relations ever created
    MaxLifecycleEvents    \* bound: archive and restore transitions

Statuses == {"active", "superseded", "archived", "tombstoned"}
DerivationTypes == {"aggregates", "derived_from", "summarizes"}
None == 0

ASSUME NoKeyAssumption == NoKey \notin Keys
ASSUME RequestAssumption ==
    /\ Mutabilities \subseteq {"sealed", "revisioned"}
    /\ RequestStatuses \subseteq Statuses
    /\ Offered \subseteq {"write_page", "ingest_page", "link_pages",
           "revise_page", "repair_page", "delete_page", "archive_page",
           "restore_archived_page", "tombstone_derivation_cascade"}
ASSUME BoundAssumption ==
    {MaxCascadeRevisions, MaxInputs, MaxPages, MaxRevisions, MaxRelations,
        MaxLifecycleEvents} \subseteq Nat

VARIABLES
    pages,            \* pcp_pages: Page -> [head, mutability, status]
    revisions,        \* pcp_revisions with pcp_provenance_inputs
    relations,        \* pcp_relations: relation -> [from, type, to, basis]
    retracted,        \* pcp_relation_retractions: the relations withdrawn
    idempotency,      \* pcp_idempotency: <<operation, key>> -> result id
    lifecycleEvents,  \* pcp_page_lifecycle_events, in the order they happened
    nextPage, nextRevision, nextRelation   \* the next identifiers to issue

vars == <<pages, revisions, relations, retracted, idempotency,
          lifecycleEvents, nextPage, nextRevision, nextRelation>>

\* The operations whose requests carry an idempotency key; ingest_page uses
\* the keys of write_page.
KeyedOperations == {"write_page", "revise_page", "repair_page", "delete_page",
                    "link_pages"}

\* The operation a Revision's provenance event names; "caller" stands for the
\* events a caller brings with its request instead of the default one.
Origins == {"write", "ingest", "revise", "caller", "repair", "delete",
            "retract", "retract_restore"}

Page == [head: Nat, mutability: {"sealed", "revisioned"}, status: Statuses]
Revision == [page: Nat, status: Statuses, previous: Nat, inputs: SUBSET Nat,
             origin: Origins, call: (KeyedOperations \X Keys) \cup {<<>>}]
Relation == [from: Nat, type: RelationTypes, to: Nat, basis: SUBSET Nat]
LifecycleEvent == [revision: Nat, previous: Statuses, next: Statuses]

Put(f, x, v) == [y \in DOMAIN f \cup {x} |-> IF y = x THEN v ELSE f[y]]
RevisionsOf(p) == {r \in DOMAIN revisions : revisions[r].page = p}
Current(p) == revisions[pages[p].head]

-----------------------------------------------------------------------------
(***************************************************************************)
(* Plausible faults.  Each has the parameters of a definition below and is *)
(* what that definition would be if the code forgot a condition or took a  *)
(* wrong value.  No action uses them: they show that the properties can    *)
(* fail.                                                                   *)
(***************************************************************************)
KeyNotLookedUp(op, key) == TRUE
ProvenanceEdgesOnly(revs) ==
    UNION {{<<revs[r].page, revs[i].page>> : i \in revs[r].inputs} :
               r \in DOMAIN revs}
OutgoingOnly(ps) == {r \in DOMAIN relations : relations[r].from \in ps}
AnyRevisionOfPage(p, expected) == expected \in RevisionsOf(p)
WhateverStatus(p, expected, from) == TRUE
HeadMovedFirst(p, revision) ==
    /\ nextRevision <= MaxRevisions
    /\ nextRevision' = nextRevision + 1
    /\ pages' = [pages EXCEPT ![p].head = nextRevision, ![p].status = revision.status]
    /\ UNCHANGED revisions
AnyPredecessor(p, affected) ==
    {r \in RevisionsOf(p) : revisions[r].status # "tombstoned" /\ r # pages[p].head}
SuccessorOfInput(p, status, input, origin) ==
    [page |-> p, status |-> status, previous |-> input, inputs |-> {input},
     origin |-> origin, call |-> <<>>]
OneIdForAll(touched, p) == nextRevision

-----------------------------------------------------------------------------
(* Idempotency *)

\* The lookup that opens an operation: a recorded key answers with the stored
\* result and changes nothing.
Unrecorded(op, key) == <<op, key>> \notin DOMAIN idempotency

Record(op, key, result) ==
    idempotency' = IF key = NoKey THEN idempotency
                   ELSE Put(idempotency, <<op, key>>, result)

-----------------------------------------------------------------------------
(* Relations *)

ActiveRelations == DOMAIN relations \ retracted

\* The derivation graph between Pages: the active derivation relations and
\* the provenance of every Revision, current or not.
DerivationEdges(revs) ==
    {<<relations[r].from, relations[r].to>> :
         r \in {x \in ActiveRelations : relations[x].type \in DerivationTypes}}
    \cup UNION {{<<revs[r].page, revs[i].page>> : i \in revs[r].inputs} :
                    r \in DOMAIN revs}

\* A relation of the given type is refused when it would close a cycle.
MayRelate(pgs, revs, from, type, to) ==
    /\ type = "related_to" => from # to
    /\ type \in DerivationTypes =>
           from \notin Reach(DOMAIN pgs, to, DerivationEdges(revs))

\* related_to is symmetric and is stored from the smaller to the larger id.
Canonical(from, type, to) ==
    IF type = "related_to" /\ from > to THEN <<to, from>> ELSE <<from, to>>

SameTriple(ends, type) ==
    {r \in ActiveRelations : /\ relations[r].from = ends[1]
                             /\ relations[r].to = ends[2]
                             /\ relations[r].type = type}

\* insert_page_relation: the caller names Pages; the basis records the heads
\* that pgs holds.  An active relation with the same triple is reused, as it is.
InsertRelation(pgs, revs, from, type, to) ==
    LET ends == Canonical(from, type, to)
    IN  /\ MayRelate(pgs, revs, ends[1], type, ends[2])
        /\ \/ /\ SameTriple(ends, type) # {}
              /\ UNCHANGED <<relations, nextRelation>>
           \/ /\ SameTriple(ends, type) = {}
              /\ nextRelation <= MaxRelations
              /\ relations' = Put(relations, nextRelation,
                     [from |-> ends[1], type |-> type, to |-> ends[2],
                      basis |-> {pgs[from].head, pgs[to].head}])
              /\ nextRelation' = nextRelation + 1

\* The initial relations of a write: at most one here.
InitialRelation(pgs, revs, from, target) ==
    \/ target = <<>> /\ UNCHANGED <<relations, nextRelation>>
    \/ /\ target # <<>>
       /\ InsertRelation(pgs, revs, from, target[1], target[2])

\* retract_incident_relations
Incident(ps) ==
    {r \in DOMAIN relations : relations[r].from \in ps \/ relations[r].to \in ps}

-----------------------------------------------------------------------------
(* Publishing Revisions *)

\* The provenance an operation may cite: Revisions that exist.
Citable == {S \in SUBSET DOMAIN revisions : Cardinality(S) <= MaxInputs}

CallOf(op, key) == IF key = NoKey THEN <<>> ELSE <<op, key>>

\* complete_provenance: the events a caller cites (<<set of inputs>>), or one
\* default event (<<>>).
Citations == {<<>>} \cup {<<S>> : S \in Citable}
OriginOf(default, cited) == IF cited = <<>> THEN default ELSE "caller"
InputsOf(default, cited) == IF cited = <<>> THEN default ELSE cited[1]

\* The expected_revision_id check of every operation that replaces a head.
Expected(p, expected) == expected = pages[p].head

\* The head of p becomes a new Revision; the Page takes its status.
Publish(p, revision) ==
    /\ nextRevision <= MaxRevisions
    /\ revisions' = Put(revisions, nextRevision, revision)
    /\ nextRevision' = nextRevision + 1
    /\ pages' = [pages EXCEPT ![p].head = nextRevision,
                              ![p].status = revision.status]

-----------------------------------------------------------------------------
(* Writing *)

Init ==
    /\ pages = [p \in {} |-> None]
    /\ revisions = [r \in {} |-> None]
    /\ relations = [r \in {} |-> None]
    /\ retracted = {}
    /\ idempotency = [c \in {} |-> None]
    /\ lifecycleEvents = <<>>
    /\ nextPage = 1 /\ nextRevision = 1 /\ nextRelation = 1

\* A new Page with its first Revision.  The head is published before the
\* initial relation, so the relation's basis holds the new Revision.
CreatePage(mutability, status, inputs, origin, target, key) ==
    LET p == nextPage
        r == nextRevision
    IN  /\ Unrecorded("write_page", key)
        /\ nextPage <= MaxPages /\ nextRevision <= MaxRevisions
        /\ revisions' = Put(revisions, r,
               [page |-> p, status |-> status, previous |-> None,
                inputs |-> inputs, origin |-> origin,
                call |-> CallOf("write_page", key)])
        /\ pages' = Put(pages, p,
               [head |-> r, mutability |-> mutability, status |-> status])
        /\ nextPage' = p + 1 /\ nextRevision' = r + 1
        /\ InitialRelation(pages', revisions', p, target)
        /\ Record("write_page", key, r)
        /\ UNCHANGED <<retracted, lifecycleEvents>>

WritePage(mutability, status, cited, target, key) ==
    CreatePage(mutability, status, InputsOf({}, cited), OriginOf("write", cited),
               target, key)

\* ingest_page: a sealed, active Page whose provenance is what it is based on.
IngestPage(basedOn, key) ==
    CreatePage("sealed", "active", basedOn, "ingest", <<>>, key)

\* The initial relation is inserted before the new head is published.
RevisePage(p, expected, status, cited, target, key) ==
    /\ Unrecorded("revise_page", key)
    /\ Expected(p, expected)
    /\ pages[p].mutability = "revisioned"
    /\ Publish(p, [page |-> p, status |-> status, previous |-> pages[p].head,
                   inputs |-> InputsOf({expected}, cited),
                   origin |-> OriginOf("revise", cited),
                   call |-> CallOf("revise_page", key)])
    /\ InitialRelation(pages, revisions', p, target)
    /\ Record("revise_page", key, nextRevision)
    /\ UNCHANGED <<retracted, lifecycleEvents, nextPage>>

\* repair_page also replaces the head of a sealed Page; it keeps the status.
RepairPage(p, expected, basedOn, key) ==
    /\ Unrecorded("repair_page", key)
    /\ Expected(p, expected)
    /\ pages[p].status # "tombstoned"
    /\ Publish(p, [page |-> p, status |-> pages[p].status,
                   previous |-> pages[p].head, inputs |-> basedOn \cup {expected},
                   origin |-> "repair", call |-> CallOf("repair_page", key)])
    /\ Record("repair_page", key, nextRevision)
    /\ UNCHANGED <<relations, retracted, lifecycleEvents, nextPage, nextRelation>>

\* The key is recorded with the relation found or created.
LinkPages(from, type, to, key) ==
    LET same == SameTriple(Canonical(from, type, to), type)
    IN  /\ Unrecorded("link_pages", key)
        /\ InsertRelation(pages, revisions, from, type, to)
        /\ Record("link_pages", key,
                  IF same = {} THEN nextRelation ELSE Latest(same))
        /\ UNCHANGED <<pages, revisions, retracted, lifecycleEvents, nextPage,
                       nextRevision>>

-----------------------------------------------------------------------------
(* Governance *)

\* transition_page_lifecycle: the Page and its current Revision are in the
\* status that is left, and move together.
InStatus(p, expected, from) ==
    pages[p].status = from /\ revisions[expected].status = from

LifecycleTransition(p, expected, from, to) ==
    /\ Expected(p, expected)
    /\ InStatus(p, expected, from)
    /\ Len(lifecycleEvents) < MaxLifecycleEvents
    /\ pages' = [pages EXCEPT ![p].status = to]
    /\ revisions' = [revisions EXCEPT ![expected].status = to]
    /\ lifecycleEvents' =
           Append(lifecycleEvents, [revision |-> expected, previous |-> from, next |-> to])
    /\ UNCHANGED <<relations, retracted, idempotency, nextPage, nextRevision,
                   nextRelation>>

ArchivePage(p, expected) == LifecycleTransition(p, expected, "active", "archived")
RestoreArchivedPage(p, expected) ==
    LifecycleTransition(p, expected, "archived", "active")

DeletePage(p, expected, key) ==
    /\ Unrecorded("delete_page", key)
    /\ Expected(p, expected)
    /\ Current(p).status # "tombstoned"
    /\ Publish(p, [page |-> p, status |-> "tombstoned",
                   previous |-> pages[p].head, inputs |-> {pages[p].head},
                   origin |-> "delete", call |-> CallOf("delete_page", key)])
    /\ retracted' = retracted \cup Incident({p})
    /\ Record("delete_page", key, nextRevision)
    /\ UNCHANGED <<relations, lifecycleEvents, nextPage, nextRelation>>

-----------------------------------------------------------------------------
(* Withdrawing a Revision and everything derived from it *)

ProvenanceEdges == UNION {{<<i, r>> : i \in revisions[r].inputs} : r \in DOMAIN revisions}

\* downstream_revision_ids
Downstream(root) == Reach(DOMAIN revisions, root, ProvenanceEdges)

\* latest_unaffected_revision chooses among these.
Fallbacks(p, affected) ==
    {r \in RevisionsOf(p) \ affected : revisions[r].status # "tombstoned"}

CascadeRow(p, status, input, origin) ==
    [page |-> p, status |-> status, previous |-> pages[p].head, inputs |-> {input},
     origin |-> origin, call |-> <<>>]

\* The Revision the cascade publishes on an affected Page: its latest
\* unaffected Revision again, or a tombstone; always a tombstone on the
\* Page of the root.
CascadeRevision(p, root, affected) ==
    LET fallbacks == IF p = revisions[root].page THEN {} ELSE Fallbacks(p, affected)
    IN  IF fallbacks = {}
        THEN CascadeRow(p, "tombstoned", pages[p].head, "retract")
        ELSE CascadeRow(p, revisions[Latest(fallbacks)].status, Latest(fallbacks),
                        "retract_restore")

\* The Pages it changes, in the order of their ids; those already
\* tombstoned are skipped.
Touched(affected) ==
    {p \in {revisions[r].page : r \in affected} : Current(p).status # "tombstoned"}
CascadeId(touched, p) == nextRevision + Rank(touched, p)

TombstoneDerivationCascade(root) ==
    LET affected == Downstream(root)
        touched == Touched(affected)
        published == {CascadeId(touched, p) : p \in touched}
        pageOf(r) == CHOOSE p \in touched : CascadeId(touched, p) = r
    IN  /\ pages[revisions[root].page].head = root
        /\ revisions[root].status # "tombstoned"
        /\ Cardinality(affected) <= MaxCascadeRevisions
        /\ nextRevision + Cardinality(touched) <= MaxRevisions + 1
        /\ revisions' =
               [r \in DOMAIN revisions \cup published |->
                    IF r \in published THEN CascadeRevision(pageOf(r), root, affected)
                    ELSE revisions[r]]
        /\ pages' =
               [p \in DOMAIN pages |->
                    IF p \in touched
                    THEN [pages[p] EXCEPT
                             !.head = CascadeId(touched, p),
                             !.status = CascadeRevision(p, root, affected).status]
                    ELSE pages[p]]
        /\ nextRevision' = nextRevision + Cardinality(touched)
        /\ retracted' =
               retracted \cup Incident({revisions[r].page : r \in affected})
        /\ UNCHANGED <<relations, idempotency, lifecycleEvents, nextPage,
                       nextRelation>>

-----------------------------------------------------------------------------
Targets == {<<>>} \cup (RelationTypes \X DOMAIN pages)

\* Any caller may send any request about any Page, with any Revision it read.
Next ==
    \E key \in Keys \cup {NoKey}, op \in Offered :
        \/ /\ op = "write_page"
           /\ \E status \in RequestStatuses, mutability \in Mutabilities,
                 cited \in Citations, target \in Targets :
                  WritePage(mutability, status, cited, target, key)
        \/ /\ op = "ingest_page"
           /\ \E basedOn \in Citable : IngestPage(basedOn, key)
        \/ /\ op = "link_pages"
           /\ \E from, to \in DOMAIN pages, type \in RelationTypes :
                  LinkPages(from, type, to, key)
        \/ \E p \in DOMAIN pages, expected \in DOMAIN revisions :
              \/ /\ op = "revise_page"
                 /\ \E status \in RequestStatuses, cited \in Citations,
                       target \in Targets :
                        RevisePage(p, expected, status, cited, target, key)
              \/ /\ op = "repair_page"
                 /\ \E basedOn \in Citable : RepairPage(p, expected, basedOn, key)
              \/ op = "delete_page" /\ DeletePage(p, expected, key)
              \/ op = "archive_page" /\ ArchivePage(p, expected)
              \/ op = "restore_archived_page" /\ RestoreArchivedPage(p, expected)
        \/ /\ op = "tombstone_derivation_cascade"
           /\ \E root \in DOMAIN revisions : TombstoneDerivationCascade(root)

Spec == Init /\ [][Next]_vars

-----------------------------------------------------------------------------
(* Properties *)

PagesTypeOK ==
    /\ nextPage \in Nat \ {0} /\ nextRevision \in Nat \ {0}
    /\ DOMAIN pages \subseteq 1..nextPage - 1
    /\ DOMAIN revisions \subseteq 1..nextRevision - 1
    /\ pages \in [DOMAIN pages -> Page]
    /\ revisions \in [DOMAIN revisions -> Revision]
    /\ \A p \in DOMAIN pages : pages[p].head \in DOMAIN revisions
    /\ \A r \in DOMAIN revisions : /\ revisions[r].page \in DOMAIN pages
                                   /\ revisions[r].inputs \subseteq DOMAIN revisions

TablesTypeOK ==
    /\ nextRelation \in Nat \ {0}
    /\ DOMAIN relations \subseteq 1..nextRelation - 1
    /\ relations \in [DOMAIN relations -> Relation]
    /\ \A r \in DOMAIN relations :
           {relations[r].from, relations[r].to} \subseteq DOMAIN pages
    /\ retracted \subseteq DOMAIN relations
    /\ idempotency \in [DOMAIN idempotency -> Nat]
    /\ DOMAIN idempotency \subseteq KeyedOperations \X Keys
    /\ lifecycleEvents \in Seq(LifecycleEvent)
    /\ \A i \in DOMAIN lifecycleEvents : lifecycleEvents[i].revision \in DOMAIN revisions

\* The variables have their types, an identifier is issued once, and every
\* reference between rows leads to a row.
TypeOK == PagesTypeOK /\ TablesTypeOK

\* A Page's head is its own, and the newest of its Revisions: neither a late
\* write nor a cascade that goes back to older content puts an old Revision
\* back in front (write.rs, repair.rs, retract.rs).
HeadIsNewest ==
    \A p \in DOMAIN pages :
        /\ revisions[pages[p].head].page = p
        /\ \A r \in RevisionsOf(p) : r <= pages[p].head

\* The history of a Page is a line: each Revision names as its previous one
\* the newest that came before it, so nobody's update is skipped or forked.
LinearHistory ==
    \A r \in DOMAIN revisions :
        LET before == {x \in RevisionsOf(revisions[r].page) : x < r}
        IN  revisions[r].previous = IF before = {} THEN None ELSE Latest(before)

\* An operation that replaces a head on its caller's authority cites the
\* Revision it replaced: what the caller read is what was replaced, however
\* many writers raced with it (the expected_revision_id of revise_page,
\* repair_page and delete_page).
NoLostUpdate ==
    \A r \in DOMAIN revisions :
        revisions[r].origin \in {"revise", "repair", "delete", "retract"} =>
            revisions[r].previous \in revisions[r].inputs

\* The three parts of a history: heads, lines and the basis of every update.
HistoriesAreLines == HeadIsNewest /\ LinearHistory /\ NoLostUpdate

\* The status of a Page, which listings and governance read, is the status of
\* its head, which search and reading read.
LifecycleCoherent == \A p \in DOMAIN pages : pages[p].status = Current(p).status

\* The lifecycle events of a Revision tell its present status: they alternate
\* and the last one leads to it, across revisions, deletions and cascades
\* (pcp_page_lifecycle_events).
LifecycleLogReplays ==
    \A i \in DOMAIN lifecycleEvents :
        LET event == lifecycleEvents[i]
            later == {j \in DOMAIN lifecycleEvents :
                          j > i /\ lifecycleEvents[j].revision = event.revision}
        IN  IF later = {} THEN revisions[event.revision].status = event.next
            ELSE \E j \in later : /\ \A k \in later : j <= k
                                  /\ lifecycleEvents[j].previous = event.next

\* What a reader of a Page, of its head and of its events is told about its
\* standing is one thing.
StatusesAreTold == LifecycleCoherent /\ LifecycleLogReplays

\* No relation is asserted twice: of the relations not retracted, two never
\* hold the same triple, nor the same related_to pair in two directions, even
\* after retractions and repeated calls without a key.
ActiveTriplesUnique ==
    \A r, s \in ActiveRelations :
        /\ relations[r].type = relations[s].type
        /\ \/ /\ relations[r].from = relations[s].from
              /\ relations[r].to = relations[s].to
           \/ /\ relations[r].type = "related_to"
              /\ relations[r].from = relations[s].to
              /\ relations[r].to = relations[s].from
        => r = s

\* The active derivation relations form no cycle, whatever types they mix.
DerivationRelationsAcyclic ==
    AcyclicGraph(DOMAIN pages,
        {<<relations[r].from, relations[r].to>> :
             r \in {x \in ActiveRelations : relations[x].type \in DerivationTypes}})

\* The graph that navigation follows: each edge once, and no way back to where
\* a derivation started.
RelationGraphIsSound == ActiveTriplesUnique /\ DerivationRelationsAcyclic

\* A call with a key takes effect once, however often it is retried, and the
\* stored result names that effect.
OneEffectPerKey ==
    /\ \A r, s \in DOMAIN revisions :
           revisions[r].call # <<>> /\ revisions[r].call = revisions[s].call => r = s
    /\ \A c \in DOMAIN idempotency :
           IF c[1] = "link_pages" THEN idempotency[c] \in DOMAIN relations
           ELSE /\ idempotency[c] \in DOMAIN revisions
                /\ revisions[idempotency[c]].call = c

\* A Revision never changes once another one has replaced it, and a current
\* one changes only in its status, between active and archived.
OnlyHeadsMove ==
    \A r \in DOMAIN revisions :
        /\ r \in DOMAIN revisions'
        /\ revisions'[r] # revisions[r] =>
               /\ pages[revisions[r].page].head = r
               /\ {revisions[r].status, revisions'[r].status} = {"active", "archived"}
               /\ revisions'[r] = [revisions[r] EXCEPT !.status = revisions'[r].status]
RevisionsImmutable == [][OnlyHeadsMove]_vars

\* A Page that an operator deletes or a cascade tombstones leaves the relation
\* graph in the same step: no active relation starts or ends at it.
UnlinkedWhenWithdrawn ==
    [][\A p \in DOMAIN pages :
           /\ pages'[p].head # pages[p].head
           /\ revisions'[pages'[p].head].origin \in {"delete", "retract"}
           => \A r \in DOMAIN relations' \ retracted' :
                  p \notin {relations'[r].from, relations'[r].to}
      ]_vars

\* After a cascade nothing current rests on the withdrawn Revision: its Page
\* is tombstoned, and no Page has a live head derived from it, directly or
\* through any chain of Revisions of any Pages.
NothingRestsOn(root) ==
    /\ pages'[revisions[root].page].status = "tombstoned"
    /\ \A p \in DOMAIN pages' : \/ pages'[p].status = "tombstoned"
                               \/ pages'[p].head \notin Downstream(root)'
CascadeComplete ==
    [][\A root \in DOMAIN revisions :
           TombstoneDerivationCascade(root) => NothingRestsOn(root)]_vars

\* The Revisions a cascade withdrew: the roots and what they brought down.
Withdrawn == {revisions[r].previous :
                  r \in {x \in DOMAIN revisions : revisions[x].origin = "retract"}}

\* retract.rs promises a downstream Page a valid predecessor: what a cascade
\* republishes is derived from nothing that this or an earlier one withdrew.
CascadeRevivesOnlyValid ==
    [][\A r \in DOMAIN revisions' \ DOMAIN revisions :
           revisions'[r].origin = "retract_restore" =>
               \A w \in Withdrawn' : r \notin Downstream(w)'
      ]_vars

-----------------------------------------------------------------------------
(* Refinement *)

\* The store's histories are those of VersionedPages: whatever operations and
\* cascades interleave, versions accumulate, heads move only to new versions,
\* and a Page's standing, as readers of the head see it, moves with its head or
\* between active and archived.
Contents == INSTANCE VersionedPages WITH
    PageIds <- 1..MaxPages,
    VersionIds <- 1..MaxRevisions,
    Standings <- Statuses,
    NoVersion <- None,
    NoStanding <- "none",
    versions <- [p \in 1..MaxPages |-> RevisionsOf(p)],
    head <- [p \in 1..MaxPages |-> IF p \in DOMAIN pages THEN pages[p].head ELSE None],
    standing <- [p \in 1..MaxPages |->
                    IF p \in DOMAIN pages THEN Current(p).status ELSE "none"]

ImplementsContents == Contents!ASpec
=============================================================================
