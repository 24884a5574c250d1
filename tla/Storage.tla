-------------------------------- MODULE Storage --------------------------------
(***************************************************************************)
(* What the store rewrites and removes for good (pcp-sqlite: pack.rs,       *)
(* retention.rs, retention_collection.rs, retention_lease.rs): sealed Pages *)
(* of a stream are packed into one Page and restored from it, and old       *)
(* Revisions are collected. Both delete rows that others refer to, some of  *)
(* them by foreign keys and some by an identifier in a text column.         *)
(*                                                                          *)
(* The Page and the Revision that hold position i of the stream are both i: *)
(* unpacking restores the identities that packing removed.                  *)
(***************************************************************************)
EXTENDS Integers, FiniteSets, Reachability, Rows

CONSTANTS
    MaxSources,             \* length of the stream
    MaxStoredPages,         \* bound: Pages ever created
    MaxStoredRevisions,     \* bound: Revisions ever created
    MaxRelations,           \* bound: relations at a time
    MaxTime,                \* bound: the clock
    KeepRecent,             \* policy.keep_recent_revisions_per_page
    MinimumAge,             \* policy.minimum_age_days
    MaxGap                  \* MAX_PACK_ENTRY_GAP_SECONDS

ASSUME StorageAssumption == MaxSources \in Nat

VARIABLES
    storedPages,            \* Page -> [head, status]
    storedRevs,             \* Revision -> [page, span, at]: its positions in the stream
    entries,                \* position -> [at, from]: what a pack keeps of a source
    packs,                  \* pcp_page_packs: position -> [page, rev]
    storedInputs,           \* pcp_provenance_inputs: <<derived, input>>
    storedRelations,        \* pcp_relations: id -> [from, to, basis, active]
    keys,                   \* pcp_idempotency of the ingests: position -> [rev, at]
    leases,                 \* Revision -> time at which its lease ends
    records,                \* <<table, Revision>> of other tables that refer to Revisions
    used,                   \* identifiers that were given out: [page, rev]
    now

storageVars == <<storedPages, storedRevs, entries, packs, storedInputs, storedRelations, keys, leases, records,
                 used, now>>

CurrentOf(p) == storedPages[p].head
Span(p) == storedRevs[CurrentOf(p)].span
InUse(p) == storedPages[p].status = "active"
Sealed(p) == p <= MaxSources
Packed(p) == Cardinality(Span(p)) > 1
NextPage == used.page + 1
NextRevision == used.rev + 1
NextRelation == CHOOSE l \in 1 .. MaxRelations : l \notin DOMAIN storedRelations

StorageInit ==
    /\ storedPages = NoRows /\ storedRevs = NoRows /\ entries = NoRows /\ packs = NoRows
    /\ storedInputs = {} /\ storedRelations = NoRows /\ keys = NoRows /\ leases = NoRows
    /\ records = {} /\ used = [page |-> MaxSources, rev |-> MaxSources] /\ now = 0

\* A new Revision becomes the head of p, which may be new.
Inserted(p, span, from) ==
    /\ NextRevision <= MaxStoredRevisions /\ p <= MaxStoredPages
    /\ storedRevs' = Put(storedRevs, NextRevision, [page |-> p, span |-> span, at |-> now])
    /\ storedPages' = Put(storedPages, p, [head |-> NextRevision, status |-> "active"])
    /\ storedInputs' = storedInputs \cup {<<NextRevision, r>> : r \in from}
    /\ used' = [page |-> IF p > used.page THEN p ELSE used.page, rev |-> NextRevision]

-----------------------------------------------------------------------------
(* Writers.                                                                *)

\* ingest_page of the next position. A retry finds the key and is answered with
\* its result.
Ingest(from) ==
    LET i == Cardinality(DOMAIN entries) + 1
    IN  /\ i <= MaxSources
        /\ storedPages' = Put(storedPages, i, [head |-> i, status |-> "active"])
        /\ storedRevs' = Put(storedRevs, i, [page |-> i, span |-> {i}, at |-> now])
        /\ entries' = Put(entries, i, [at |-> now, from |-> from])
        /\ storedInputs' = storedInputs \cup {<<i, r>> : r \in from}
        /\ keys' = Put(keys, i, [rev |-> i, at |-> now])
        /\ UNCHANGED <<packs, storedRelations, leases, records, used, now>>

WriteNote(from) ==
    /\ Inserted(NextPage, {}, from)
    /\ UNCHANGED <<entries, packs, storedRelations, keys, leases, records, now>>

\* A fault: packs are repaired like other Pages.
RepairAny(p) ==
    /\ InUse(p) /\ Inserted(p, Span(p), {CurrentOf(p)})
    /\ UNCHANGED <<entries, packs, storedRelations, keys, leases, records, now>>

\* repair_page: of sealed Pages too, never of a pack.
Repair(p) ==
    /\ InUse(p) /\ ~Packed(p)
    /\ Inserted(p, Span(p), {CurrentOf(p)})
    /\ UNCHANGED <<entries, packs, storedRelations, keys, leases, records, now>>

Incident(p) == {l \in DOMAIN storedRelations : p \in {storedRelations[l].from, storedRelations[l].to}}
Retracted(p) ==
    [l \in DOMAIN storedRelations |->
        IF l \in Incident(p) THEN [storedRelations[l] EXCEPT !.active = FALSE] ELSE storedRelations[l]]

\* p is replaced by a tombstone, and the relations at it are retracted.
Tombstone(p) ==
    /\ NextRevision <= MaxStoredRevisions
    /\ storedRelations' = Retracted(p)
    /\ used' = [used EXCEPT !.rev = NextRevision]

DeletePage(p) ==
    /\ storedPages[p].status # "tombstoned" /\ Tombstone(p)
    /\ storedRevs' = Put(storedRevs, NextRevision, [page |-> p, span |-> {}, at |-> now])
    /\ storedPages' = [storedPages EXCEPT ![p] = [head |-> NextRevision, status |-> "tombstoned"]]
    /\ storedInputs' = storedInputs \cup {<<NextRevision, CurrentOf(p)>>}
    /\ UNCHANGED <<entries, packs, keys, leases, records, now>>

Link(p, q) ==
    /\ p # q /\ InUse(p) /\ InUse(q) /\ Cardinality(DOMAIN storedRelations) < MaxRelations
    /\ storedRelations' = Put(storedRelations, NextRelation,
            [from |-> p, to |-> q, basis |-> {CurrentOf(p), CurrentOf(q)}, active |-> TRUE])
    /\ UNCHANGED <<storedPages, storedRevs, entries, packs, storedInputs, keys, leases, records, used, now>>

\* Rows about the current Revision of a Page: "projection" stands for summaries
\* and assessments, "member" for Topics, feedback and fusions.
Refer(table, p) ==
    /\ InUse(p)
    /\ records' = records \cup {<<table, CurrentOf(p)>>}
    /\ UNCHANGED <<storedPages, storedRevs, entries, packs, storedInputs, storedRelations, keys, leases, used, now>>

PutLease(r, until) ==
    /\ until > now
    /\ leases' = Put(leases, r, until)
    /\ UNCHANGED <<storedPages, storedRevs, entries, packs, storedInputs, storedRelations, keys, records, used, now>>

TimePasses ==
    /\ now < MaxTime /\ now' = now + 1
    /\ UNCHANGED <<storedPages, storedRevs, entries, packs, storedInputs, storedRelations, keys, leases, records, used>>

-----------------------------------------------------------------------------
(* Packing.                                                                *)

First(S) == CHOOSE i \in S : \A j \in S : i <= j
Last(S) == CHOOSE i \in S : \A j \in S : i >= j

\* A leaf is the only Revision of its sealed Page, and no table pins it.
Packable(p) ==
    /\ Sealed(p) /\ CurrentOf(p) = p /\ p \notin DOMAIN leases
    /\ <<"projection", p>> \notin records

\* Neighbours in the stream that were seen shortly after each other.
Continuous(S) ==
    /\ S = First(S) .. Last(S)
    /\ \A i \in S \ {Last(S)} : entries[i + 1].at - entries[i].at \in 0 .. MaxGap

\* The rows of pcp_page_packs agree with the entries of the anchor.
Membership(a) == Span(a) \subseteq {i \in DOMAIN packs : packs[i].page = a}

\* A fault: what refers to absorbed leaves is left alone.
ReferencesLeftBehind(leaves, pack, revision) == UNCHANGED <<storedRelations, storedInputs>>

\* The references to absorbed leaves go to the pack; what this leaves between the
\* pack and itself is deleted. Retracted relations are rewritten as well.
RewritePackReferences(leaves, pack, revision) ==
    LET Page(p) == IF p \in leaves THEN pack ELSE p
        Revision(r) == IF r \in leaves THEN revision ELSE r
        rewritten == [l \in DOMAIN storedRelations |->
            [from |-> Page(storedRelations[l].from), to |-> Page(storedRelations[l].to),
             basis |-> {Revision(r) : r \in storedRelations[l].basis},
             active |-> storedRelations[l].active]]
    IN  /\ storedRelations' = Drop(rewritten, {l \in DOMAIN rewritten : rewritten[l].from = rewritten[l].to})
        /\ storedInputs' = {<<Revision(e[1]), Revision(e[2])>> : e \in storedInputs}
                     \ {<<revision, revision>>}

\* The keys of absorbed leaves are answered with the pack.
Redirected(leaves, revision) ==
    [i \in DOMAIN keys |-> IF keys[i].rev \in leaves THEN [keys[i] EXCEPT !.rev = revision]
                           ELSE keys[i]]

\* pack_pages. Of two packs the first takes over the entries of the other.
PackPages(P) ==
    LET anchors == {p \in P : ~Sealed(p)}
        leaves == P \ anchors
        span == UNION {Span(p) : p \in P}
        pack == IF anchors = {} THEN NextPage
                ELSE CHOOSE a \in anchors : \A b \in anchors : First(Span(a)) <= First(Span(b))
        absorbed == anchors \ {pack}
    IN  /\ Cardinality(P) >= 2 /\ Cardinality(anchors) <= 2
        /\ \A p \in P : InUse(p) /\ Span(p) # {}
        /\ \A p \in leaves : Packable(p)
        /\ \A a \in anchors : Membership(a)
        /\ Continuous(span)
        /\ NextRevision <= MaxStoredRevisions /\ pack <= MaxStoredPages
        /\ storedRevs' = Put(Drop(storedRevs, leaves), NextRevision, [page |-> pack, span |-> span, at |-> now])
        /\ storedPages' = Put([p \in DOMAIN storedPages \ leaves |->
                                 IF p \in absorbed THEN [storedPages[p] EXCEPT !.status = "superseded"]
                                 ELSE storedPages[p]],
                              pack, [head |-> NextRevision, status |-> "active"])
        /\ packs' = Over([i \in span |-> [page |-> pack, rev |-> NextRevision]], packs)
        /\ keys' = Redirected(leaves, NextRevision)
        /\ RewritePackReferences(leaves, pack, NextRevision)
        /\ used' = [page |-> IF anchors = {} THEN pack ELSE used.page, rev |-> NextRevision]
        /\ UNCHANGED <<entries, leases, records, now>>

\* unpack_page: the sources come back as they were written, as far as what they
\* were derived from still exists.
UnpackPage(p) ==
    LET span == Span(p)
        exists == DOMAIN storedRevs \cup span
    IN  /\ InUse(p) /\ Packed(p) /\ span \cap DOMAIN storedPages = {}
        /\ Tombstone(p)
        /\ storedRevs' = Put(Over([i \in span |-> [page |-> i, span |-> {i}, at |-> entries[i].at]], storedRevs),
                             NextRevision, [page |-> p, span |-> {}, at |-> now])
        /\ storedPages' = Over([i \in span |-> [head |-> i, status |-> "active"]],
                    [storedPages EXCEPT ![p] = [head |-> NextRevision, status |-> "tombstoned"]])
        /\ packs' = Drop(packs, {i \in DOMAIN packs : packs[i].page = p})
        /\ storedInputs' = storedInputs \cup {<<NextRevision, CurrentOf(p)>>}
              \cup UNION {{<<i, r>> : r \in entries[i].from \cap exists} : i \in span}
        /\ UNCHANGED <<entries, keys, leases, records, now>>

-----------------------------------------------------------------------------
(* Retention.                                                              *)

Live(key) == key.at > now - MinimumAge
Recent(r) == Cardinality({s \in DOMAIN storedRevs : storedRevs[s].page = storedRevs[r].page /\ s > r}) < KeepRecent
Leased(r) == r \in DOMAIN leases /\ leases[r] > now

Roots ==
    {r \in DOMAIN storedRevs :
        \/ CurrentOf(storedRevs[r].page) = r \/ Sealed(storedRevs[r].page)
        \/ Recent(r) \/ storedRevs[r].at > now - MinimumAge
        \/ \E l \in DOMAIN storedRelations : r \in storedRelations[l].basis
        \/ <<"projection", r>> \in records \/ Leased(r)
        \/ \E i \in DOMAIN keys : keys[i].rev = r /\ Live(keys[i])}

\* Provenance protects across Pages only.
Evidence(edges) == {e \in edges : storedRevs[e[1]].page # storedRevs[e[2]].page}
Protected == UNION {Reach(DOMAIN storedRevs, r, Evidence(storedInputs)) : r \in Roots}
Candidates == DOMAIN storedRevs \ Protected

\* collect_revision_retention plans again in its transaction and deletes only what
\* is a candidate still. A row of another table makes the whole batch fail.
Collect(R) ==
    /\ R # {} /\ R \subseteq Candidates
    /\ \A r \in R : <<"member", r>> \notin records
    /\ storedRevs' = Drop(storedRevs, R)
    /\ storedInputs' = {e \in storedInputs : e[1] \notin R /\ e[2] \notin R}
    /\ keys' = Drop(keys, {i \in DOMAIN keys : keys[i].rev \in R /\ ~Live(keys[i])})
    /\ leases' = Drop(leases, {r \in R \cap DOMAIN leases : leases[r] <= now})
    /\ UNCHANGED <<storedPages, entries, packs, storedRelations, records, used, now>>

-----------------------------------------------------------------------------
StorageNext ==
    \/ \E from \in {{}} \cup {{r} : r \in DOMAIN storedRevs} : Ingest(from) \/ WriteNote(from)
    \/ \E p \in DOMAIN storedPages : Repair(p) \/ DeletePage(p) \/ UnpackPage(p)
    \/ \E p, q \in DOMAIN storedPages : Link(p, q)
    \/ \E p \in DOMAIN storedPages, table \in {"projection", "member"} : Refer(table, p)
    \/ \E P \in SUBSET DOMAIN storedPages : PackPages(P)
    \/ \E r \in DOMAIN storedRevs : PutLease(r, now + 1)
    \/ \E R \in SUBSET Candidates : Collect(R)
    \/ TimePasses

StorageSpec == StorageInit /\ [][StorageNext]_storageVars

-----------------------------------------------------------------------------
(* Properties.                                                             *)

\* What foreign keys promise, and the heads of Pages.
StorageTypeOK ==
    /\ \A p \in DOMAIN storedPages : CurrentOf(p) \in DOMAIN storedRevs /\ storedRevs[CurrentOf(p)].page = p
    /\ \A e \in storedInputs : {e[1], e[2]} \subseteq DOMAIN storedRevs
    /\ \A l \in DOMAIN storedRelations : {storedRelations[l].from, storedRelations[l].to} \subseteq DOMAIN storedPages
    /\ DOMAIN leases \subseteq DOMAIN storedRevs

\* Every source of the stream is found in one place: as its own Page, or in the
\* head of the pack its row names, until that is deleted; and no two Pages that
\* are shown hold the same source.
EachSourceOnce ==
    /\ \A i \in DOMAIN entries :
          /\ i \in DOMAIN storedPages <=> i \notin DOMAIN packs
          /\ i \in DOMAIN packs => LET p == packs[i].page
                                   IN  \/ storedPages[p].status = "tombstoned"
                                       \/ packs[i].rev = CurrentOf(p) /\ i \in Span(p)
    /\ \A p, q \in DOMAIN storedPages : InUse(p) /\ InUse(q) /\ p # q => Span(p) \cap Span(q) = {}

\* The basis of a relation is text that no foreign key guards: packing rewrites it
\* and retention protects it, so that all of it can be read.
BasisExists == \A l \in DOMAIN storedRelations : storedRelations[l].basis \subseteq DOMAIN storedRevs

\* The retry of an ingest is answered by a Revision that holds the source, through
\* packing, merging, unpacking and collection.
RetryIsAnswered ==
    \A i \in DOMAIN keys : keys[i].rev \in DOMAIN storedRevs /\ i \in storedRevs[keys[i].rev].span

\* Each source of the stream is in one place and shown once, the basis of each
\* relation can be read, and the retry of an ingest is answered by a Revision that
\* holds the source, through packing, unpacking, repair and collection.
SourcesStand == EachSourceOnce /\ BasisExists /\ RetryIsAnswered

\* Whatever a plan offers for collection can be collected.
CandidatesAreCollectable == \A r \in Candidates : <<"member", r>> \notin records

\* The retry of an ingest is answered by a Page that is shown, unless the source
\* was deleted.
RetryFindsPage ==
    \A i \in DOMAIN keys :
        \/ storedPages[storedRevs[keys[i].rev].page].status # "tombstoned"
        \/ i \notin DOMAIN storedPages \/ ~InUse(i)
=============================================================================
