--------------------------- MODULE PageStore_proofs ---------------------------
(***************************************************************************)
(* Proofs about PageStore, for every value of its constants.               *)
(*                                                                         *)
(* Every operation that publishes content, from the creation of one Page   *)
(* to a cascade over many, advances some Pages by one new Revision each:   *)
(* Advance below says so, a lemma for each action shows that it is an      *)
(* Advance (or changes no content), and one lemma shows that an Advance    *)
(* preserves the invariant.  The lemmas about numbered identifiers and     *)
(* about reachability come first, the refinement of VersionedPages last.   *)
(***************************************************************************)
EXTENDS PageStore, FiniteSetTheorems, WellFoundedInduction, TLAPS

-----------------------------------------------------------------------------
(* Numbered identifiers and reachability                                   *)

\* A nonempty set of identifiers below a bound has a latest one.
LEMMA LatestIsMaximum ==
    ASSUME NEW n \in Nat, NEW S \in SUBSET (1..n), S # {}
    PROVE  Latest(S) \in S /\ \A s \in S : s <= Latest(S)
<1> DEFINE T == {n - s : s \in S}
<1>1. T \subseteq Nat /\ T # {}
  <2>1. \A s \in S : n - s \in Nat
      OBVIOUS
  <2>2. PICK s \in S : TRUE
      OBVIOUS
  <2>3. n - s \in T
      OBVIOUS
  <2> QED BY <2>1, <2>3
<1>2. IsWellFoundedOn(OpToRel(<, Nat), Nat)
    BY NatLessThanWellFounded
<1>3. \E x \in T : \A y \in T : ~(<<y, x>> \in OpToRel(<, Nat))
    BY <1>1, <1>2, WFMin
<1>4. PICK x \in T : \A y \in T : ~(<<y, x>> \in OpToRel(<, Nat))
    BY <1>3
<1>5. \A y \in T : x <= y
  <2> TAKE y \in T
  <2>1. x \in Nat /\ y \in Nat
      BY <1>1
  <2>2. ~(y < x)
      BY <1>4, <2>1 DEF OpToRel
  <2> QED BY <2>1, <2>2
<1>6. PICK r \in S : x = n - r
    OBVIOUS
<1>7. \A s \in S : s <= r
  <2> TAKE s \in S
  <2>1. x <= n - s
      BY <1>5
  <2> QED BY <2>1, <1>6
<1> QED BY <1>6, <1>7 DEF Latest

\* Among k identifiers the positions are 0 .. k-1, and no two share one.
LEMMA RankBound ==
    ASSUME NEW S, IsFiniteSet(S), S \subseteq Nat, NEW x \in S
    PROVE  Rank(S, x) \in Nat /\ Rank(S, x) < Cardinality(S)
<1> DEFINE B == {y \in S : y < x}
<1>1. B \in SUBSET S /\ B # S
    OBVIOUS
<1>2. Cardinality(B) \in Nat /\ Cardinality(S) \in Nat
    BY <1>1, FS_Subset, FS_CardinalityType
<1>3. Cardinality(B) <= Cardinality(S) /\ Cardinality(B) # Cardinality(S)
    BY <1>1, FS_Subset
<1> QED BY <1>2, <1>3 DEF Rank

LEMMA RankInjective ==
    ASSUME NEW S, IsFiniteSet(S), S \subseteq Nat, NEW x \in S, NEW y \in S,
           Rank(S, x) = Rank(S, y)
    PROVE  x = y
<1>1. ASSUME NEW a \in S, NEW b \in S, a < b
      PROVE  Rank(S, a) # Rank(S, b)
  <2> DEFINE A == {z \in S : z < a}
             B == {z \in S : z < b}
  <2>1. IsFiniteSet(B)
      BY FS_Subset
  <2>2. A \subseteq B
    <3>1. \A z \in S : z \in Int /\ a \in Int /\ b \in Int
        OBVIOUS
    <3>2. \A z \in S : z < a => z < b
        BY <1>1, <3>1
    <3> QED BY <3>2
  <2>3. a \in B /\ a \notin A
      BY <1>1
  <2>4. Cardinality(A) # Cardinality(B)
      BY <2>1, <2>2, <2>3, FS_Subset
  <2> QED BY <2>4 DEF Rank
<1>2. x < y \/ y < x \/ x = y
    OBVIOUS
<1> QED BY <1>1, <1>2

\* What is reached contains the start, is closed, and is the least such set.
LEMMA ReachHasStart ==
    ASSUME NEW nodes, NEW start \in nodes, NEW edges
    PROVE  start \in Reach(nodes, start, edges)
BY DEF Reach

LEMMA ReachIsClosed ==
    ASSUME NEW nodes, NEW start \in nodes, NEW edges,
           NEW e \in edges, e[2] \in nodes, e[1] \in Reach(nodes, start, edges)
    PROVE  e[2] \in Reach(nodes, start, edges)
BY DEF Reach, Closed

LEMMA ReachIsLeast ==
    ASSUME NEW nodes, NEW start, NEW edges, NEW S \in SUBSET nodes,
           start \in S, Closed(S, edges)
    PROVE  Reach(nodes, start, edges) \subseteq S
BY DEF Reach

\* Fewer edges reach less, and unconnected nodes change nothing.
LEMMA ReachMonotone ==
    ASSUME NEW nodes, NEW start, NEW edges, NEW fewer \in SUBSET edges
    PROVE  Reach(nodes, start, fewer) \subseteq Reach(nodes, start, edges)
BY DEF Reach, Closed

LEMMA ReachStaysInside ==
    ASSUME NEW all, NEW nodes, nodes \subseteq all, NEW start \in nodes,
           NEW edges, edges \subseteq nodes \X nodes
    PROVE  Reach(all, start, edges) \subseteq Reach(nodes, start, edges)
<1>1. Closed(nodes, edges)
    BY DEF Closed
<1> QED BY <1>1 DEF Reach

LEMMA FewerEdgesAcyclic ==
    ASSUME NEW nodes, NEW edges, NEW fewer \in SUBSET edges,
           AcyclicGraph(nodes, edges)
    PROVE  AcyclicGraph(nodes, fewer)
BY ReachMonotone DEF AcyclicGraph

LEMMA MoreNodesAcyclic ==
    ASSUME NEW all, NEW nodes, nodes \subseteq all,
           NEW edges, edges \subseteq nodes \X nodes,
           AcyclicGraph(nodes, edges)
    PROVE  AcyclicGraph(all, edges)
BY ReachStaysInside DEF AcyclicGraph

\* An edge from a node that its end does not reach closes no cycle.
LEMMA NewEdgeAcyclic ==
    ASSUME NEW nodes, NEW edges, edges \subseteq nodes \X nodes,
           AcyclicGraph(nodes, edges),
           NEW from \in nodes, NEW to \in nodes,
           from \notin Reach(nodes, to, edges)
    PROVE  AcyclicGraph(nodes, edges \cup {<<from, to>>})
<1> DEFINE more == edges \cup {<<from, to>>}
           R(n) == Reach(nodes, n, edges)
<1>1. \A n \in nodes : n \in R(n) /\ R(n) \in SUBSET nodes /\ Closed(R(n), edges)
  <2> TAKE n \in nodes
  <2>1. n \in R(n) /\ R(n) \in SUBSET nodes
      BY ReachHasStart DEF Reach
  <2>2. \A e \in edges : e[1] \in R(n) => e[2] \in R(n)
      BY ReachIsClosed
  <2> QED BY <2>1, <2>2 DEF Closed
<1> HIDE DEF R
<1>2. ASSUME NEW n \in nodes, from \notin R(n)
      PROVE  Reach(nodes, n, more) \subseteq R(n)
  <2>1. Closed(R(n), more)
      BY <1>1, <1>2 DEF Closed
  <2> QED BY <1>1, <2>1, ReachIsLeast
<1>3. ASSUME NEW n \in nodes
      PROVE  Reach(nodes, n, more) \subseteq R(n) \cup R(to)
  <2>1. Closed(R(n) \cup R(to), more)
      BY <1>1 DEF Closed
  <2>2. R(n) \cup R(to) \in SUBSET nodes /\ n \in R(n) \cup R(to)
      BY <1>1
  <2> QED BY <2>1, <2>2, ReachIsLeast
<1>4. from \notin Reach(nodes, to, more)
    BY <1>2 DEF R
<1>5. ASSUME NEW e \in edges
      PROVE  e[1] \notin Reach(nodes, e[2], more)
  <2>1. e[1] \in nodes /\ e[2] \in nodes /\ e[1] \notin R(e[2])
      BY DEF AcyclicGraph, R
  <2>2. CASE from \notin R(e[2])
      BY <2>1, <2>2, <1>2
  <2>3. CASE from \in R(e[2])
    <3>1. ASSUME e[1] \in R(to) PROVE FALSE
      <4>1. e[2] \in R(to)
          BY <3>1, <1>1 DEF Closed
      <4>2. R(e[2]) \subseteq R(to)
          BY <4>1, <1>1, ReachIsLeast DEF R
      <4> QED BY <4>2, <2>3 DEF R
    <3> QED BY <3>1, <2>1, <1>3
  <2> QED BY <2>2, <2>3
<1>6. \A e \in more : e[1] \notin Reach(nodes, e[2], more)
    BY <1>4, <1>5
<1> QED BY <1>6 DEF AcyclicGraph

-----------------------------------------------------------------------------
(* The content of Pages and Revisions                                      *)

\* The inductive invariant of Pages and Revisions.  HeadIsNewest and
\* LifecycleCoherent are what makes the previous Revision of a new one right.
ContentInv ==
    /\ PagesTypeOK
    /\ HeadIsNewest
    /\ LinearHistory
    /\ LifecycleCoherent
    /\ NoLostUpdate

\* A step in which the Pages of S, and no others, get the new Revisions id[p].
Advance(S, id) ==
    /\ nextRevision' \in Nat /\ nextRevision' >= nextRevision
    /\ nextPage' \in Nat /\ nextPage' >= nextPage
    /\ DOMAIN pages' = DOMAIN pages \cup S
    /\ DOMAIN pages' \subseteq 1..nextPage' - 1
    /\ DOMAIN revisions' = DOMAIN revisions \cup {id[p] : p \in S}
    /\ \A p \in S : id[p] \in nextRevision..nextRevision' - 1
    /\ \A p, q \in S : id[p] = id[q] => p = q
    /\ pages' \in [DOMAIN pages' -> Page]
    /\ revisions' \in [DOMAIN revisions' -> Revision]
    /\ \A r \in DOMAIN revisions : revisions'[r] = revisions[r]
    /\ \A p \in DOMAIN pages \ S : pages'[p] = pages[p]
    /\ \A p \in S :
           LET new == revisions'[id[p]]
           IN  /\ pages'[p].head = id[p] /\ pages'[p].status = new.status
               /\ new.page = p
               /\ new.previous = IF p \in DOMAIN pages THEN pages[p].head ELSE None
               /\ new.inputs \subseteq DOMAIN revisions
               /\ new.origin \in {"revise", "repair", "delete", "retract"} =>
                      new.previous \in new.inputs

LEMMA AdvanceTypes ==
    ASSUME ContentInv, NEW S, NEW id, Advance(S, id)
    PROVE  PagesTypeOK'
<1>1. nextPage' \in Nat \ {0} /\ nextRevision' \in Nat \ {0}
    BY DEF ContentInv, PagesTypeOK, Advance
<1>2. ASSUME NEW r \in DOMAIN revisions'
      PROVE  r \in 1..nextRevision' - 1
  <2>1. CASE r \in DOMAIN revisions
      BY <2>1 DEF ContentInv, PagesTypeOK, Advance
  <2>2. CASE r \notin DOMAIN revisions
    <3>1. PICK p \in S : r = id[p]
        BY <2>2, <1>2 DEF Advance
    <3> QED BY <3>1 DEF ContentInv, PagesTypeOK, Advance
  <2> QED BY <2>1, <2>2
<1>3. ASSUME NEW p \in DOMAIN pages'
      PROVE  pages'[p].head \in DOMAIN revisions'
    BY <1>3 DEF ContentInv, PagesTypeOK, Advance
<1>4. ASSUME NEW r \in DOMAIN revisions'
      PROVE  /\ revisions'[r].page \in DOMAIN pages'
             /\ revisions'[r].inputs \subseteq DOMAIN revisions'
    BY <1>4 DEF ContentInv, PagesTypeOK, Advance
<1> QED BY <1>1, <1>2, <1>3, <1>4 DEF PagesTypeOK, Advance, ContentInv

LEMMA AdvanceHeads ==
    ASSUME ContentInv, NEW S, NEW id, Advance(S, id)
    PROVE  HeadIsNewest' /\ LifecycleCoherent'
<1>1. ASSUME NEW p \in DOMAIN pages', p \in S
      PROVE  /\ revisions'[pages'[p].head].page = p
             /\ \A r \in RevisionsOf(p)' : r <= pages'[p].head
             /\ pages'[p].status = Current(p).status'
  <2>1. pages'[p].head = id[p] /\ revisions'[id[p]].page = p
      BY <1>1 DEF Advance
  <2>2. ASSUME NEW r \in RevisionsOf(p)'
        PROVE  r <= id[p]
    <3>1. CASE r \in DOMAIN revisions
        BY <3>1, <1>1 DEF Advance, ContentInv, PagesTypeOK
    <3>2. CASE r \notin DOMAIN revisions
      <4>1. PICK q \in S : r = id[q]
          BY <3>2 DEF RevisionsOf, Advance
      <4>2. q = p
          BY <4>1 DEF RevisionsOf, Advance
      <4> QED BY <4>1, <4>2, <1>1 DEF Advance, ContentInv, PagesTypeOK
    <3> QED BY <3>1, <3>2
  <2>3. pages'[p].status = revisions'[pages'[p].head].status
      BY <1>1 DEF Advance
  <2> QED BY <2>1, <2>2, <2>3 DEF Current
<1>2. ASSUME NEW p \in DOMAIN pages', p \notin S
      PROVE  /\ revisions'[pages'[p].head].page = p
             /\ \A r \in RevisionsOf(p)' : r <= pages'[p].head
             /\ pages'[p].status = Current(p).status'
  <2>1. /\ p \in DOMAIN pages /\ pages'[p] = pages[p]
        /\ revisions'[pages[p].head] = revisions[pages[p].head]
      BY <1>2 DEF Advance, ContentInv, PagesTypeOK
  <2>2. RevisionsOf(p)' \subseteq RevisionsOf(p)
      BY <1>2 DEF RevisionsOf, Advance
  <2> QED BY <2>1, <2>2 DEF ContentInv, HeadIsNewest, LifecycleCoherent, Current
<1> QED BY <1>1, <1>2 DEF HeadIsNewest, LifecycleCoherent

LEMMA LatestIsHead ==
    ASSUME PagesTypeOK, HeadIsNewest, NEW p \in DOMAIN pages
    PROVE  RevisionsOf(p) # {} /\ Latest(RevisionsOf(p)) = pages[p].head
<1>1. /\ pages[p].head \in RevisionsOf(p)
      /\ \A r \in RevisionsOf(p) : r <= pages[p].head
    BY DEF PagesTypeOK, HeadIsNewest, RevisionsOf
<1>2. RevisionsOf(p) \in SUBSET (1..nextRevision - 1) /\ nextRevision - 1 \in Nat
    BY DEF PagesTypeOK, RevisionsOf
<1>3. /\ Latest(RevisionsOf(p)) \in RevisionsOf(p)
      /\ \A r \in RevisionsOf(p) : r <= Latest(RevisionsOf(p))
    BY <1>1, <1>2, LatestIsMaximum
<1>4. Latest(RevisionsOf(p)) \in Nat /\ pages[p].head \in Nat
    BY <1>1, <1>2, <1>3
<1> QED BY <1>1, <1>3, <1>4

LEMMA AdvanceHistory ==
    ASSUME ContentInv, NEW S, NEW id, Advance(S, id)
    PROVE  LinearHistory' /\ NoLostUpdate'
<1> DEFINE Before(r) == {x \in RevisionsOf(revisions[r].page) : x < r}
<1>1. ASSUME NEW r \in DOMAIN revisions
      PROVE  /\ revisions'[r] = revisions[r]
             /\ Before(r)' = Before(r)
  <2>1. revisions'[r] = revisions[r] /\ r < nextRevision /\ r \in Nat
      BY DEF Advance, ContentInv, PagesTypeOK
  <2>2. ASSUME NEW x \in DOMAIN revisions', x < r
        PROVE  x \in DOMAIN revisions
    <3>1. SUFFICES ASSUME x \notin DOMAIN revisions PROVE FALSE
        OBVIOUS
    <3>2. PICK q \in S : x = id[q]
        BY <3>1 DEF Advance
    <3>3. x \in nextRevision..nextRevision' - 1
        BY <3>2 DEF Advance
    <3> QED BY <3>3, <2>1, <2>2 DEF ContentInv, PagesTypeOK, Advance
  <2>3. \A x \in DOMAIN revisions : /\ x \in DOMAIN revisions'
                                    /\ revisions'[x] = revisions[x]
      BY DEF Advance
  <2> QED BY <2>1, <2>2, <2>3 DEF RevisionsOf
<1>2. ASSUME NEW r \in DOMAIN revisions', r \notin DOMAIN revisions
      PROVE  /\ revisions'[r].previous = IF Before(r)' = {} THEN None
                                         ELSE Latest(Before(r)')
             /\ revisions'[r].origin \in {"revise", "repair", "delete", "retract"} =>
                    revisions'[r].previous \in revisions'[r].inputs
  <2>1. PICK p \in S : r = id[p]
      BY <1>2 DEF Advance
  <2>2. revisions'[r].page = p
      BY <2>1 DEF Advance
  <2>3. ASSUME NEW x \in DOMAIN revisions', revisions'[x].page = p, x < r
        PROVE  x \in DOMAIN revisions
    <3>1. SUFFICES ASSUME x \notin DOMAIN revisions PROVE FALSE
        OBVIOUS
    <3>2. PICK q \in S : x = id[q]
        BY <3>1 DEF Advance
    <3>3. q = p
        BY <3>2, <2>3 DEF Advance
    <3>4. r \in Int
        BY <2>1 DEF Advance, ContentInv, PagesTypeOK
    <3> QED BY <3>2, <3>3, <3>4, <2>1, <2>3
  <2>4. ASSUME NEW x \in DOMAIN revisions
        PROVE  x \in DOMAIN revisions' /\ revisions'[x] = revisions[x] /\ x < r
      BY <2>1 DEF Advance, ContentInv, PagesTypeOK
  <2>5. Before(r)' = RevisionsOf(p)
      BY <2>2, <2>3, <2>4 DEF RevisionsOf
  <2>6. CASE p \in DOMAIN pages
    <3>1. RevisionsOf(p) # {} /\ Latest(RevisionsOf(p)) = pages[p].head
        BY <2>6, LatestIsHead DEF ContentInv
    <3> QED BY <3>1, <2>1, <2>5, <2>6 DEF Advance
  <2>7. CASE p \notin DOMAIN pages
    <3>1. RevisionsOf(p) = {}
        BY <2>7 DEF RevisionsOf, ContentInv, PagesTypeOK
    <3> QED BY <3>1, <2>1, <2>5, <2>7 DEF Advance
  <2> QED BY <2>6, <2>7
<1>3. ASSUME NEW r \in DOMAIN revisions'
      PROVE  revisions'[r].previous = IF Before(r)' = {} THEN None
                                      ELSE Latest(Before(r)')
  <2>1. CASE r \in DOMAIN revisions
      BY <2>1, <1>1 DEF ContentInv, LinearHistory
  <2> QED BY <2>1, <1>2
<1>4. NoLostUpdate'
    BY <1>1, <1>2 DEF NoLostUpdate, ContentInv
<1> QED BY <1>3, <1>4 DEF LinearHistory

-----------------------------------------------------------------------------
(* What each operation does to Pages and Revisions *)

Overwrites == {"revise", "repair", "delete", "retract"}
Single(p) == [q \in {p} |-> nextRevision]

LEMMA PublishAdvances ==
    ASSUME ContentInv, NEW p \in DOMAIN pages, NEW rev \in Revision,
           rev.page = p, rev.previous = pages[p].head,
           rev.inputs \subseteq DOMAIN revisions,
           rev.origin \in Overwrites => rev.previous \in rev.inputs,
           Publish(p, rev), nextPage' = nextPage
    PROVE  Advance({p}, Single(p))
<1> USE DEF Single
<1>1. /\ nextRevision \in Nat \ {0} /\ nextRevision' = nextRevision + 1
      /\ nextRevision \notin DOMAIN revisions
      /\ DOMAIN revisions' = DOMAIN revisions \cup {nextRevision}
      /\ DOMAIN pages' = DOMAIN pages
    BY DEF ContentInv, PagesTypeOK, Publish, Put
<1>2. /\ revisions'[nextRevision] = rev
      /\ \A r \in DOMAIN revisions : revisions'[r] = revisions[r]
      /\ revisions' \in [DOMAIN revisions' -> Revision]
    BY <1>1 DEF ContentInv, PagesTypeOK, Publish, Put
<1>3. pages'[p] = [pages[p] EXCEPT !.head = nextRevision, !.status = rev.status]
    BY DEF ContentInv, PagesTypeOK, Publish
<1>4. \A q \in DOMAIN pages \ {p} : pages'[q] = pages[q]
    BY DEF ContentInv, PagesTypeOK, Publish
<1>5. pages[p] \in Page
    BY DEF ContentInv, PagesTypeOK
<1>6. pages'[p] \in Page /\ pages'[p].head = nextRevision /\ pages'[p].status = rev.status
    BY <1>1, <1>3, <1>5 DEF Page, Revision
<1>7. pages' \in [DOMAIN pages' -> Page]
    BY <1>1, <1>4, <1>6 DEF ContentInv, PagesTypeOK, Publish
<1>8. /\ nextPage' \in Nat /\ nextPage' >= nextPage
      /\ DOMAIN pages' \subseteq 1..nextPage' - 1
    BY <1>1 DEF ContentInv, PagesTypeOK
<1>9. /\ {Single(p)[q] : q \in {p}} = {nextRevision}
      /\ DOMAIN pages' = DOMAIN pages \cup {p}
    BY <1>1
<1>10. /\ nextRevision' \in Nat /\ nextRevision' >= nextRevision
       /\ nextRevision \in nextRevision..nextRevision' - 1
    BY <1>1
<1> QED BY <1>1, <1>2, <1>4, <1>6, <1>7, <1>8, <1>9, <1>10 DEF Advance, Overwrites

LEMMA CitableSubset ==
    ASSUME NEW S \in Citable PROVE S \subseteq DOMAIN revisions
BY DEF Citable

LEMMA CallOfType ==
    ASSUME NEW op \in KeyedOperations, NEW key \in Keys \cup {NoKey}
    PROVE  CallOf(op, key) \in (KeyedOperations \X Keys) \cup {<<>>}
BY NoKeyAssumption DEF CallOf

LEMMA CitationsType ==
    ASSUME ContentInv, NEW cited \in Citations, NEW S \in SUBSET DOMAIN revisions
    PROVE  InputsOf(S, cited) \subseteq DOMAIN revisions
BY DEF InputsOf, Citations, Citable

LEMMA CreateAdvances ==
    ASSUME ContentInv, NEW mutability \in {"sealed", "revisioned"},
           NEW status \in Statuses, NEW inputs \in SUBSET DOMAIN revisions,
           NEW origin \in Origins \ Overwrites, NEW target,
           NEW key \in Keys \cup {NoKey},
           CreatePage(mutability, status, inputs, origin, target, key)
    PROVE  Advance({nextPage}, Single(nextPage))
<1> DEFINE rev == [page |-> nextPage, status |-> status, previous |-> None,
                   inputs |-> inputs, origin |-> origin,
                   call |-> CallOf("write_page", key)]
           page == [head |-> nextRevision, mutability |-> mutability, status |-> status]
<1> USE DEF Single
<1>1. /\ nextRevision \in Nat \ {0} /\ nextRevision' = nextRevision + 1
      /\ nextPage \in Nat \ {0} /\ nextPage' = nextPage + 1
      /\ nextRevision \notin DOMAIN revisions /\ nextPage \notin DOMAIN pages
    BY DEF ContentInv, PagesTypeOK, CreatePage
<1>2. CallOf("write_page", key) \in (KeyedOperations \X Keys) \cup {<<>>}
    BY CallOfType DEF KeyedOperations
<1>3. rev \in Revision /\ page \in Page
    BY <1>1, <1>2 DEF Revision, Page, ContentInv, PagesTypeOK, None, Overwrites
<1>4. revisions' = Put(revisions, nextRevision, rev) /\ pages' = Put(pages, nextPage, page)
    BY DEF CreatePage
<1> HIDE DEF rev, page
<1>5. /\ DOMAIN revisions' = DOMAIN revisions \cup {nextRevision}
      /\ DOMAIN pages' = DOMAIN pages \cup {nextPage}
      /\ revisions'[nextRevision] = rev /\ pages'[nextPage] = page
      /\ \A r \in DOMAIN revisions : revisions'[r] = revisions[r]
      /\ \A p \in DOMAIN pages : pages'[p] = pages[p]
      /\ revisions' \in [DOMAIN revisions' -> Revision]
      /\ pages' \in [DOMAIN pages' -> Page]
    BY <1>1, <1>3, <1>4 DEF ContentInv, PagesTypeOK, Put
<1>6. DOMAIN pages' \subseteq 1..nextPage' - 1
    BY <1>1, <1>5 DEF ContentInv, PagesTypeOK
<1>7. /\ page.head = nextRevision /\ page.status = rev.status /\ rev.page = nextPage
      /\ rev.previous = None /\ rev.inputs \subseteq DOMAIN revisions
      /\ rev.origin \notin Overwrites
    BY DEF rev, page
<1> QED BY <1>1, <1>5, <1>6, <1>7 DEF Advance, Overwrites

LEMMA ReviseAdvances ==
    ASSUME ContentInv, NEW p \in DOMAIN pages, NEW expected \in DOMAIN revisions,
           NEW status \in Statuses, NEW cited \in Citations, NEW target,
           NEW key \in Keys \cup {NoKey},
           RevisePage(p, expected, status, cited, target, key)
    PROVE  Advance({p}, Single(p))
<1> DEFINE rev == [page |-> p, status |-> status, previous |-> pages[p].head,
                   inputs |-> InputsOf({expected}, cited),
                   origin |-> OriginOf("revise", cited),
                   call |-> CallOf("revise_page", key)]
<1>1. Publish(p, rev) /\ nextPage' = nextPage /\ expected = pages[p].head
    BY DEF RevisePage, Expected
<1>2. InputsOf({expected}, cited) \subseteq DOMAIN revisions
    BY CitationsType
<1>3. CallOf("revise_page", key) \in (KeyedOperations \X Keys) \cup {<<>>}
    BY CallOfType DEF KeyedOperations
<1>4. /\ pages[p].head \in Nat /\ p \in Nat
      /\ InputsOf({expected}, cited) \in SUBSET Nat
  <2>1. DOMAIN revisions \subseteq Nat /\ pages[p].head \in Nat /\ p \in Nat
      BY DEF ContentInv, PagesTypeOK, Page
  <2> QED BY <1>2, <2>1
<1>5. OriginOf("revise", cited) \in Origins
    BY DEF OriginOf, Origins
<1>6. rev \in Revision
    BY <1>3, <1>4, <1>5 DEF Revision
<1>7. OriginOf("revise", cited) \in Overwrites =>
          pages[p].head \in InputsOf({expected}, cited)
    BY <1>1 DEF OriginOf, InputsOf, Overwrites
<1> QED BY <1>1, <1>2, <1>6, <1>7, PublishAdvances

LEMMA RepairAdvances ==
    ASSUME ContentInv, NEW p \in DOMAIN pages, NEW expected \in DOMAIN revisions,
           NEW basedOn \in Citable, NEW key \in Keys \cup {NoKey},
           RepairPage(p, expected, basedOn, key)
    PROVE  Advance({p}, Single(p))
<1> DEFINE rev == [page |-> p, status |-> pages[p].status,
                   previous |-> pages[p].head, inputs |-> basedOn \cup {expected},
                   origin |-> "repair", call |-> CallOf("repair_page", key)]
<1>1. Publish(p, rev) /\ nextPage' = nextPage /\ expected = pages[p].head
    BY DEF RepairPage, Expected
<1>2. basedOn \cup {expected} \subseteq DOMAIN revisions
    BY CitableSubset
<1>3. CallOf("repair_page", key) \in (KeyedOperations \X Keys) \cup {<<>>}
    BY CallOfType DEF KeyedOperations
<1>4. /\ pages[p].head \in Nat /\ p \in Nat /\ pages[p].status \in Statuses
      /\ basedOn \cup {expected} \in SUBSET Nat
    BY <1>2 DEF ContentInv, PagesTypeOK, Page
<1>5. rev \in Revision
    BY <1>3, <1>4 DEF Revision, Origins
<1> QED BY <1>1, <1>2, <1>5, PublishAdvances

LEMMA DeleteAdvances ==
    ASSUME ContentInv, NEW p \in DOMAIN pages, NEW expected \in DOMAIN revisions,
           NEW key \in Keys \cup {NoKey}, DeletePage(p, expected, key)
    PROVE  Advance({p}, Single(p))
<1> DEFINE rev == [page |-> p, status |-> "tombstoned",
                   previous |-> pages[p].head, inputs |-> {pages[p].head},
                   origin |-> "delete", call |-> CallOf("delete_page", key)]
<1>1. Publish(p, rev) /\ nextPage' = nextPage
    BY DEF DeletePage
<1>2. CallOf("delete_page", key) \in (KeyedOperations \X Keys) \cup {<<>>}
    BY CallOfType DEF KeyedOperations
<1>3. pages[p].head \in Nat /\ p \in Nat /\ pages[p].head \in DOMAIN revisions
    BY DEF ContentInv, PagesTypeOK, Page
<1>4. rev \in Revision
    BY <1>2, <1>3 DEF Revision, Origins, Statuses
<1> QED BY <1>1, <1>3, <1>4, PublishAdvances

-----------------------------------------------------------------------------
(* The cascade *)

Touching(root) == Touched(Downstream(root))
CascadeIds(root) == [p \in Touching(root) |-> CascadeId(Touching(root), p)]

LEMMA DownstreamSubset ==
    ASSUME NEW root PROVE Downstream(root) \subseteq DOMAIN revisions
BY DEF Downstream, Reach

LEMMA TouchedPages ==
    ASSUME ContentInv, NEW root
    PROVE  /\ Touching(root) \subseteq DOMAIN pages
           /\ Touching(root) \subseteq Nat
           /\ IsFiniteSet(Touching(root))
<1>1. Touching(root) \subseteq DOMAIN pages
    BY DownstreamSubset DEF Touching, Touched, ContentInv, PagesTypeOK
<1>2. Touching(root) \subseteq 1..nextPage - 1 /\ nextPage - 1 \in Int
    BY <1>1 DEF ContentInv, PagesTypeOK
<1>3. IsFiniteSet(1..nextPage - 1)
    BY <1>2, FS_Interval
<1> QED BY <1>1, <1>2, <1>3, FS_Subset

LEMMA CascadeNumbers ==
    ASSUME ContentInv, NEW root
    PROVE  /\ Cardinality(Touching(root)) \in Nat
           /\ \A p \in Touching(root) :
                  CascadeId(Touching(root), p) \in
                      nextRevision..nextRevision + Cardinality(Touching(root)) - 1
           /\ \A p, q \in Touching(root) :
                  CascadeId(Touching(root), p) = CascadeId(Touching(root), q) => p = q
<1> DEFINE T == Touching(root)
<1>1. IsFiniteSet(T) /\ T \subseteq Nat /\ nextRevision \in Nat
    BY TouchedPages DEF ContentInv, PagesTypeOK
<1> HIDE DEF T
<1>2. Cardinality(T) \in Nat
    BY <1>1, FS_CardinalityType
<1>3. \A p \in T : Rank(T, p) \in Nat /\ Rank(T, p) < Cardinality(T)
    BY <1>1, RankBound
<1>4. \A p, q \in T : Rank(T, p) = Rank(T, q) => p = q
    BY <1>1, RankInjective
<1>5. \A p \in T : CascadeId(T, p) \in nextRevision..nextRevision + Cardinality(T) - 1
    BY <1>1, <1>2, <1>3 DEF CascadeId
<1>6. \A p, q \in T : CascadeId(T, p) = CascadeId(T, q) => p = q
    BY <1>1, <1>3, <1>4 DEF CascadeId
<1> QED BY <1>2, <1>5, <1>6 DEF T

\* The Revision a cascade gives a Page follows its head, and cites that head
\* or an earlier Revision of the same Page that is not affected.
LEMMA CascadeRevisionType ==
    ASSUME ContentInv, NEW root \in DOMAIN revisions, NEW affected,
           NEW p \in DOMAIN pages
    PROVE  LET new == CascadeRevision(p, root, affected)
           IN  /\ new \in Revision
               /\ new.page = p /\ new.previous = pages[p].head
               /\ new.inputs \subseteq DOMAIN revisions
               /\ new.origin \in Overwrites => new.previous \in new.inputs
               /\ new.status # "tombstoned" => new.inputs \cap affected = {}
               /\ p = revisions[root].page => new.status = "tombstoned"
<1> DEFINE fallbacks == IF p = revisions[root].page THEN {} ELSE Fallbacks(p, affected)
<1>1. pages[p].head \in DOMAIN revisions /\ p \in Nat /\ DOMAIN revisions \subseteq Nat
    BY DEF ContentInv, PagesTypeOK
<1>2. CASE fallbacks = {}
  <2>1. CascadeRevision(p, root, affected) =
            CascadeRow(p, "tombstoned", pages[p].head, "retract")
      BY <1>2 DEF CascadeRevision
  <2> QED BY <1>1, <2>1 DEF CascadeRow, Revision, Statuses, Origins
<1>3. CASE fallbacks # {}
  <2>1. p # revisions[root].page /\ fallbacks = Fallbacks(p, affected)
      BY <1>3
  <2>2. fallbacks \in SUBSET (1..nextRevision - 1) /\ nextRevision - 1 \in Nat
      BY <2>1 DEF Fallbacks, RevisionsOf, ContentInv, PagesTypeOK
  <2>3. Latest(fallbacks) \in fallbacks
      BY <1>3, <2>2, LatestIsMaximum
  <2>4. Latest(fallbacks) \in DOMAIN revisions \ affected
      BY <2>1, <2>3 DEF Fallbacks, RevisionsOf
  <2>5. revisions[Latest(fallbacks)].status \in Statuses
      BY <2>4 DEF ContentInv, PagesTypeOK, Revision
  <2>6. CascadeRevision(p, root, affected) =
            CascadeRow(p, revisions[Latest(fallbacks)].status, Latest(fallbacks),
                       "retract_restore")
      BY <1>3 DEF CascadeRevision
  <2> QED BY <1>1, <2>1, <2>4, <2>5, <2>6
          DEF CascadeRow, Revision, Origins, Overwrites
<1> QED BY <1>2, <1>3

LEMMA CascadeAdvances ==
    ASSUME ContentInv, NEW root \in DOMAIN revisions, TombstoneDerivationCascade(root)
    PROVE  /\ Advance(Touching(root), CascadeIds(root))
           /\ \A p \in Touching(root) :
                  revisions'[CascadeIds(root)[p]] =
                      CascadeRevision(p, root, Downstream(root))
<1> DEFINE T == Touching(root)
           A == Downstream(root)
           id == CascadeIds(root)
           published == {CascadeId(T, p) : p \in T}
           row(p) == CascadeRevision(p, root, A)
           pageOf(r) == CHOOSE p \in T : CascadeId(T, p) = r
<1>1. /\ T \subseteq DOMAIN pages
      /\ Cardinality(T) \in Nat
      /\ \A p \in T : CascadeId(T, p) \in nextRevision..nextRevision + Cardinality(T) - 1
      /\ \A p, q \in T : CascadeId(T, p) = CascadeId(T, q) => p = q
    BY TouchedPages, CascadeNumbers
<1>2. /\ nextRevision \in Nat \ {0} /\ nextPage \in Nat
      /\ DOMAIN revisions \subseteq 1..nextRevision - 1
      /\ DOMAIN pages \subseteq 1..nextPage - 1
    BY DEF ContentInv, PagesTypeOK
<1>3. /\ revisions' = [r \in DOMAIN revisions \cup published |->
                           IF r \in published THEN row(pageOf(r)) ELSE revisions[r]]
      /\ pages' = [p \in DOMAIN pages |->
                       IF p \in T
                       THEN [pages[p] EXCEPT !.head = CascadeId(T, p),
                                             !.status = row(p).status]
                       ELSE pages[p]]
      /\ nextRevision' = nextRevision + Cardinality(T)
      /\ nextPage' = nextPage
    BY DEF TombstoneDerivationCascade, Touching
<1>4. \A p \in T : /\ row(p) \in Revision
                   /\ row(p).page = p /\ row(p).previous = pages[p].head
                   /\ row(p).inputs \subseteq DOMAIN revisions
                   /\ row(p).origin \in Overwrites => row(p).previous \in row(p).inputs
    BY <1>1, CascadeRevisionType
<1>5. \A p \in T : id[p] = CascadeId(T, p)
    BY DEF CascadeIds
<1>6. \A p \in T : pageOf(CascadeId(T, p)) = p
    BY <1>1
<1> HIDE DEF T, A, id, row, pageOf
<1>7. published \cap DOMAIN revisions = {}
  <2> SUFFICES ASSUME NEW p \in T, CascadeId(T, p) \in DOMAIN revisions PROVE FALSE
      OBVIOUS
  <2> QED BY <1>1, <1>2
<1>8. \A p \in T : CascadeId(T, p) \in published
    OBVIOUS
<1>9. \A p \in T : revisions'[id[p]] = row(p)
    BY <1>3, <1>5, <1>6, <1>8
<1>10. /\ DOMAIN revisions' = DOMAIN revisions \cup {id[p] : p \in T}
       /\ \A r \in DOMAIN revisions : revisions'[r] = revisions[r]
    BY <1>3, <1>5, <1>7
<1>11. \A r \in DOMAIN revisions' : revisions'[r] \in Revision
  <2> TAKE r \in DOMAIN revisions'
  <2>1. CASE r \in DOMAIN revisions
      BY <2>1, <1>10 DEF ContentInv, PagesTypeOK
  <2>2. CASE r \notin DOMAIN revisions
    <3>1. PICK p \in T : r = id[p]
        BY <2>2, <1>10
    <3> QED BY <3>1, <1>9, <1>4
  <2> QED BY <2>1, <2>2
<1>12. revisions' \in [DOMAIN revisions' -> Revision]
    BY <1>3, <1>11
<1>13. \A p \in T : /\ pages'[p].head = id[p]
                    /\ pages'[p].status = row(p).status
                    /\ pages'[p] \in Page
  <2> TAKE p \in T
  <2>1. pages'[p] = [pages[p] EXCEPT !.head = CascadeId(T, p), !.status = row(p).status]
      BY <1>1, <1>3
  <2>2. pages[p] \in Page /\ CascadeId(T, p) \in Nat
      BY <1>1, <1>2 DEF ContentInv, PagesTypeOK
  <2>3. row(p).status \in Statuses
      BY <1>4 DEF Revision
  <2> QED BY <2>1, <2>2, <2>3, <1>5 DEF Page
<1>14. /\ DOMAIN pages' = DOMAIN pages \cup T
       /\ \A p \in DOMAIN pages \ T : pages'[p] = pages[p]
    BY <1>1, <1>3
<1>15. pages' \in [DOMAIN pages' -> Page]
    BY <1>1, <1>3, <1>13, <1>14 DEF ContentInv, PagesTypeOK
<1>16. DOMAIN pages' = DOMAIN pages
    BY <1>3
<1> HIDE DEF published
<1>17. nextRevision' = nextRevision + Cardinality(T) /\ nextPage' = nextPage
    BY <1>3
<1>18. \A p \in T : id[p] \in nextRevision..nextRevision' - 1
  <2> TAKE p \in T
  <2>1. CascadeId(T, p) \in nextRevision..nextRevision + Cardinality(T) - 1
      BY <1>1
  <2>2. id[p] = CascadeId(T, p)
      BY <1>5
  <2> QED BY <2>1, <2>2, <1>1, <1>2, <1>17
<1>19. \A p, q \in T : id[p] = id[q] => p = q
    BY <1>1, <1>5
<1>20. /\ nextRevision' \in Nat /\ nextRevision' >= nextRevision
       /\ nextPage' \in Nat /\ nextPage' >= nextPage
    BY <1>1, <1>2, <1>17
<1>21. DOMAIN pages' \subseteq 1..nextPage' - 1
    BY <1>2, <1>3, <1>16
<1>22. \A p \in T :
           LET new == revisions'[id[p]]
           IN  /\ pages'[p].head = id[p] /\ pages'[p].status = new.status
               /\ new.page = p
               /\ new.previous = IF p \in DOMAIN pages THEN pages[p].head ELSE None
               /\ new.inputs \subseteq DOMAIN revisions
               /\ new.origin \in Overwrites => new.previous \in new.inputs
    BY <1>1, <1>4, <1>9, <1>13
<1>23. Advance(T, id)
    BY <1>22, <1>10, <1>12, <1>14, <1>15, <1>18, <1>19, <1>20, <1>21
    DEF Advance, Overwrites
<1> QED BY <1>9, <1>23 DEF T, A, id, row

-----------------------------------------------------------------------------
(* The invariant *)

\* Archiving and restoring change the status of one Page and its head.
LEMMA TransitionKeepsContent ==
    ASSUME ContentInv, NEW p \in DOMAIN pages, NEW expected \in DOMAIN revisions,
           NEW from \in Statuses, NEW to \in Statuses,
           LifecycleTransition(p, expected, from, to)
    PROVE  ContentInv'
<1>1. /\ expected = pages[p].head
      /\ pages' = [pages EXCEPT ![p].status = to]
      /\ revisions' = [revisions EXCEPT ![expected].status = to]
      /\ nextPage' = nextPage /\ nextRevision' = nextRevision
    BY DEF LifecycleTransition, Expected
<1>2. /\ DOMAIN pages' = DOMAIN pages /\ DOMAIN revisions' = DOMAIN revisions
      /\ \A q \in DOMAIN pages : /\ pages'[q] \in Page
                                 /\ pages'[q].head = pages[q].head
                                 /\ pages'[q].status = IF q = p THEN to ELSE pages[q].status
    BY <1>1 DEF ContentInv, PagesTypeOK, Page
<1>3. \A r \in DOMAIN revisions :
          /\ revisions'[r] \in Revision
          /\ revisions'[r].page = revisions[r].page
          /\ revisions'[r].previous = revisions[r].previous
          /\ revisions'[r].inputs = revisions[r].inputs
          /\ revisions'[r].origin = revisions[r].origin
          /\ revisions'[r].status = IF r = expected THEN to ELSE revisions[r].status
    BY <1>1 DEF ContentInv, PagesTypeOK, Revision
<1>4. /\ pages' \in [DOMAIN pages' -> Page]
      /\ revisions' \in [DOMAIN revisions' -> Revision]
    BY <1>1, <1>2, <1>3 DEF ContentInv, PagesTypeOK
<1>5. PagesTypeOK'
    BY <1>1, <1>2, <1>3, <1>4 DEF ContentInv, PagesTypeOK
<1>6. \A q \in DOMAIN pages : RevisionsOf(q)' = RevisionsOf(q)
    BY <1>2, <1>3 DEF RevisionsOf
<1>7. HeadIsNewest'
  <2> SUFFICES ASSUME NEW q \in DOMAIN pages
               PROVE  /\ revisions'[pages'[q].head].page = q
                      /\ \A r \in RevisionsOf(q)' : r <= pages'[q].head
      BY <1>2 DEF HeadIsNewest
  <2>1. pages'[q].head = pages[q].head /\ pages[q].head \in DOMAIN revisions
      BY <1>2 DEF ContentInv, PagesTypeOK
  <2>2. /\ revisions[pages[q].head].page = q
        /\ \A r \in RevisionsOf(q) : r <= pages[q].head
      BY DEF ContentInv, HeadIsNewest
  <2> QED BY <2>1, <2>2, <1>3, <1>6
<1>8. LinearHistory'
  <2> DEFINE Before(r) == {x \in RevisionsOf(revisions[r].page) : x < r}
  <2>1. ASSUME NEW r \in DOMAIN revisions
        PROVE  /\ Before(r)' = Before(r)
               /\ revisions'[r].previous =
                      IF Before(r) = {} THEN None ELSE Latest(Before(r))
    <3>1. Before(r)' = Before(r)
        BY <1>2, <1>3 DEF RevisionsOf
    <3> QED BY <3>1, <1>3 DEF ContentInv, LinearHistory
  <2> QED BY <2>1, <1>2 DEF LinearHistory
<1>9. LifecycleCoherent'
  <2>1. \A q \in DOMAIN pages : pages[q].head = expected => q = p
      BY <1>1 DEF ContentInv, HeadIsNewest
  <2> QED BY <2>1, <1>1, <1>2, <1>3
          DEF ContentInv, LifecycleCoherent, Current, PagesTypeOK
<1>10. NoLostUpdate'
    BY <1>2, <1>3 DEF ContentInv, NoLostUpdate
<1> QED BY <1>5, <1>7, <1>8, <1>9, <1>10 DEF ContentInv

LEMMA AdvanceKeepsContent ==
    ASSUME ContentInv, NEW S, NEW id, Advance(S, id)
    PROVE  ContentInv'
BY AdvanceTypes, AdvanceHeads, AdvanceHistory DEF ContentInv

\* One step of the store either advances some Pages, or moves one head
\* between active and archived, or leaves Pages and Revisions alone.
LEMMA StepKinds ==
    ASSUME ContentInv, [Next]_vars
    PROVE  \/ \E S, id : Advance(S, id)
           \/ \E p \in DOMAIN pages, expected \in DOMAIN revisions :
                  ArchivePage(p, expected) \/ RestoreArchivedPage(p, expected)
           \/ UNCHANGED <<pages, revisions, nextPage, nextRevision>>
<1>1. CASE UNCHANGED vars
    BY <1>1 DEF vars
<1>2. ASSUME NEW key \in Keys \cup {NoKey}, NEW status \in RequestStatuses,
             NEW mutability \in Mutabilities, NEW cited \in Citations, NEW target,
             WritePage(mutability, status, cited, target, key)
      PROVE  \E S, id : Advance(S, id)
  <2>1. /\ InputsOf({}, cited) \in SUBSET DOMAIN revisions
        /\ OriginOf("write", cited) \in Origins \ Overwrites
        /\ mutability \in {"sealed", "revisioned"} /\ status \in Statuses
      BY CitationsType, RequestAssumption DEF OriginOf, Origins, Overwrites
  <2> QED BY <1>2, <2>1, CreateAdvances DEF WritePage
<1>3. ASSUME NEW key \in Keys \cup {NoKey}, NEW basedOn \in Citable,
             IngestPage(basedOn, key)
      PROVE  \E S, id : Advance(S, id)
  <2>1. /\ basedOn \in SUBSET DOMAIN revisions /\ "ingest" \in Origins \ Overwrites
        /\ "sealed" \in {"sealed", "revisioned"} /\ "active" \in Statuses
      BY CitableSubset DEF Origins, Overwrites, Statuses
  <2> QED BY <1>3, <2>1, CreateAdvances DEF IngestPage
<1>4. ASSUME NEW key \in Keys \cup {NoKey}, NEW p \in DOMAIN pages,
             NEW expected \in DOMAIN revisions, NEW status \in RequestStatuses,
             NEW cited \in Citations, NEW target,
             RevisePage(p, expected, status, cited, target, key)
      PROVE  \E S, id : Advance(S, id)
    BY <1>4, ReviseAdvances, RequestAssumption
<1>5. ASSUME NEW key \in Keys \cup {NoKey}, NEW p \in DOMAIN pages,
             NEW expected \in DOMAIN revisions, NEW basedOn \in Citable,
             RepairPage(p, expected, basedOn, key)
      PROVE  \E S, id : Advance(S, id)
    BY <1>5, RepairAdvances
<1>6. ASSUME NEW key \in Keys \cup {NoKey}, NEW p \in DOMAIN pages,
             NEW expected \in DOMAIN revisions, DeletePage(p, expected, key)
      PROVE  \E S, id : Advance(S, id)
    BY <1>6, DeleteAdvances
<1>7. ASSUME NEW root \in DOMAIN revisions, TombstoneDerivationCascade(root)
      PROVE  \E S, id : Advance(S, id)
    BY <1>7, CascadeAdvances
<1>8. ASSUME NEW key \in Keys \cup {NoKey}, NEW from, NEW to, NEW type,
             LinkPages(from, type, to, key)
      PROVE  UNCHANGED <<pages, revisions, nextPage, nextRevision>>
    BY <1>8 DEF LinkPages
<1> QED BY <1>1, <1>2, <1>3, <1>4, <1>5, <1>6, <1>7, <1>8 DEF Next

LEMMA ContentInvStep ==
    ASSUME ContentInv, [Next]_vars
    PROVE  ContentInv'
<1>1. CASE \E S, id : Advance(S, id)
    BY <1>1, AdvanceKeepsContent
<1>2. ASSUME NEW p \in DOMAIN pages, NEW expected \in DOMAIN revisions,
             ArchivePage(p, expected) \/ RestoreArchivedPage(p, expected)
      PROVE  ContentInv'
  <2>1. "active" \in Statuses /\ "archived" \in Statuses
      BY DEF Statuses
  <2> QED BY <1>2, <2>1, TransitionKeepsContent DEF ArchivePage, RestoreArchivedPage
<1>3. CASE UNCHANGED <<pages, revisions, nextPage, nextRevision>>
  <2>1. PagesTypeOK'
      BY <1>3 DEF ContentInv, PagesTypeOK
  <2>2. HeadIsNewest' /\ LifecycleCoherent'
      BY <1>3 DEF ContentInv, HeadIsNewest, LifecycleCoherent, RevisionsOf, Current
  <2>3. LinearHistory' /\ NoLostUpdate'
      BY <1>3 DEF ContentInv, LinearHistory, NoLostUpdate, RevisionsOf
  <2> QED BY <2>1, <2>2, <2>3 DEF ContentInv
<1> QED BY <1>1, <1>2, <1>3, StepKinds

LEMMA ContentInvInit ==
    Init => ContentInv
BY DEF Init, ContentInv, PagesTypeOK, HeadIsNewest, LinearHistory,
   LifecycleCoherent, NoLostUpdate, RevisionsOf, Current

\* Whatever requests the callers send, in whatever order their transactions
\* commit, the histories of all Pages stay what ContentInv says.
THEOREM ContentCorrect == Spec => []ContentInv
<1>1. Init => ContentInv
    BY ContentInvInit
<1>2. ContentInv /\ [Next]_vars => ContentInv'
    BY ContentInvStep
<1> QED BY <1>1, <1>2, PTL DEF Spec

\* The type invariant of Pages and Revisions, and the shape of every Page's
\* history: a line that ends in the head and in which every update cites the
\* Revision it replaced (insert_revision, revise_page).
THEOREM HeadsAndHistories == Spec => [](PagesTypeOK /\ HistoriesAreLines)
<1>1. ContentInv => PagesTypeOK /\ HistoriesAreLines
    BY DEF ContentInv, HistoriesAreLines
<1> QED BY <1>1, ContentCorrect, PTL

\* A Page and its head never disagree about the lifecycle status.
THEOREM StatusesAgree == Spec => []LifecycleCoherent
<1>1. ContentInv => LifecycleCoherent
    BY DEF ContentInv
<1> QED BY <1>1, ContentCorrect, PTL

\* An update is based on the Revision it replaces.
THEOREM UpdatesAreBased == Spec => []NoLostUpdate
<1>1. ContentInv => NoLostUpdate
    BY DEF ContentInv
<1> QED BY <1>1, ContentCorrect, PTL

-----------------------------------------------------------------------------
(* What no step does *)

LEMMA TransitionMovesHead ==
    ASSUME ContentInv, NEW p \in DOMAIN pages, NEW expected \in DOMAIN revisions,
           ArchivePage(p, expected) \/ RestoreArchivedPage(p, expected)
    PROVE  OnlyHeadsMove
<1>1. PICK from, to : /\ {from, to} = {"active", "archived"}
                      /\ LifecycleTransition(p, expected, from, to)
    BY DEF ArchivePage, RestoreArchivedPage
<1>2. /\ expected = pages[p].head /\ revisions[expected].status = from
      /\ revisions' = [revisions EXCEPT ![expected].status = to]
    BY <1>1 DEF LifecycleTransition, Expected, InStatus
<1>3. revisions[expected].page = p
    BY <1>2 DEF ContentInv, HeadIsNewest
<1>4. revisions[expected] \in Revision
    BY DEF ContentInv, PagesTypeOK
<1>5. revisions'[expected] = [revisions[expected] EXCEPT !.status = to]
    BY <1>2
<1>6. revisions'[expected].status = to
    BY <1>4, <1>5 DEF Revision
<1>7. \A r \in DOMAIN revisions \ {expected} : revisions'[r] = revisions[r]
    BY <1>2
<1> QED BY <1>1, <1>2, <1>3, <1>5, <1>6, <1>7 DEF OnlyHeadsMove

\* A Revision that has been replaced is never written again, and a current one
\* only moves between active and archived.
THEOREM HistoryIsImmutable == Spec => RevisionsImmutable
<1>1. ASSUME ContentInv, [Next]_vars PROVE OnlyHeadsMove
  <2>1. ASSUME NEW S, NEW id, Advance(S, id) PROVE OnlyHeadsMove
      BY <2>1 DEF Advance, OnlyHeadsMove
  <2>2. CASE UNCHANGED <<pages, revisions, nextPage, nextRevision>>
      BY <2>2 DEF OnlyHeadsMove
  <2> QED BY <1>1, <2>1, <2>2, StepKinds, TransitionMovesHead
<1> QED BY <1>1, ContentCorrect, PTL DEF Spec, RevisionsImmutable

\* The Revisions downstream of the root after a cascade are those that were
\* downstream before, and the tombstones it published.
LEMMA DownstreamAfterCascade ==
    ASSUME ContentInv, NEW root \in DOMAIN revisions, TombstoneDerivationCascade(root)
    PROVE  Downstream(root)' \subseteq
               Downstream(root) \cup
               {CascadeIds(root)[p] : p \in {q \in Touching(root) :
                                                pages'[q].status = "tombstoned"}}
<1> DEFINE T == Touching(root)
           A == Downstream(root)
           id == CascadeIds(root)
           N == {id[p] : p \in {q \in T : pages'[q].status = "tombstoned"}}
<1>1. Advance(T, id) /\ \A p \in T : revisions'[id[p]] = CascadeRevision(p, root, A)
    BY CascadeAdvances
<1>2. A \subseteq DOMAIN revisions /\ T \subseteq DOMAIN pages
    BY DownstreamSubset, TouchedPages
<1>3. root \in A
    BY ReachHasStart DEF Downstream
<1>4. A \cup N \subseteq DOMAIN revisions'
    BY <1>1, <1>2 DEF Advance
<1>5. \A p \in T : id[p] \notin DOMAIN revisions
    BY <1>1 DEF Advance, ContentInv, PagesTypeOK
<1>6. ASSUME NEW r \in DOMAIN revisions', NEW i \in revisions'[r].inputs, i \in A \cup N
      PROVE  r \in A \cup N
  <2>1. i \in DOMAIN revisions
    <3>1. CASE r \in DOMAIN revisions
        BY <3>1, <1>1 DEF Advance, ContentInv, PagesTypeOK
    <3>2. CASE r \notin DOMAIN revisions
        BY <3>2, <1>1 DEF Advance
    <3> QED BY <3>1, <3>2
  <2>2. i \in A
      BY <2>1, <1>5, <1>6
  <2>3. CASE r \in DOMAIN revisions
    <3>1. i \in revisions[r].inputs
        BY <2>3, <1>1 DEF Advance
    <3>2. <<i, r>> \in ProvenanceEdges
        BY <3>1, <2>3 DEF ProvenanceEdges
    <3> QED BY <3>2, <2>2, <2>3, ReachIsClosed DEF Downstream
  <2>4. CASE r \notin DOMAIN revisions
    <3>1. PICK p \in T : r = id[p]
        BY <2>4, <1>1 DEF Advance
    <3>2. /\ revisions'[r] = CascadeRevision(p, root, A)
          /\ pages'[p].status = revisions'[r].status
        BY <3>1, <1>1 DEF Advance
    <3>3. revisions'[r].status = "tombstoned"
        BY <3>2, <1>2, <2>2, CascadeRevisionType
    <3> QED BY <3>1, <3>2, <3>3
  <2> QED BY <2>3, <2>4
<1>7. Closed(A \cup N, ProvenanceEdges')
    BY <1>6 DEF Closed, ProvenanceEdges
<1> QED BY <1>3, <1>4, <1>7, ReachIsLeast DEF Downstream

LEMMA CascadeWithdraws ==
    ASSUME ContentInv, NEW root \in DOMAIN revisions, TombstoneDerivationCascade(root)
    PROVE  NothingRestsOn(root)
<1> DEFINE T == Touching(root)
           A == Downstream(root)
           id == CascadeIds(root)
           N == {id[p] : p \in {q \in T : pages'[q].status = "tombstoned"}}
<1>1. Advance(T, id) /\ \A p \in T : revisions'[id[p]] = CascadeRevision(p, root, A)
    BY CascadeAdvances
<1>2. /\ A \subseteq DOMAIN revisions /\ T \subseteq DOMAIN pages
      /\ Downstream(root)' \subseteq A \cup N
    BY DownstreamSubset, TouchedPages, DownstreamAfterCascade
<1>3. root \in A
    BY ReachHasStart DEF Downstream
<1>4. ASSUME NEW p \in DOMAIN pages, pages[p].head \in A, p \notin T
      PROVE  pages[p].status = "tombstoned"
  <2>1. revisions[pages[p].head].page = p
      BY DEF ContentInv, HeadIsNewest
  <2>2. p \in {revisions[r].page : r \in A}
      BY <2>1, <1>4
  <2> QED BY <2>2, <1>4 DEF Touching, Touched, ContentInv, LifecycleCoherent
<1>5. pages'[revisions[root].page].status = "tombstoned"
  <2> DEFINE p == revisions[root].page
  <2>1. p \in DOMAIN pages /\ pages[p].head = root /\ revisions[root].status # "tombstoned"
      BY DEF TombstoneDerivationCascade, ContentInv, PagesTypeOK
  <2>2. pages[p].status # "tombstoned"
      BY <2>1 DEF ContentInv, LifecycleCoherent, Current
  <2>3. p \in T
      BY <2>1, <2>2, <1>3, <1>4
  <2>4. CascadeRevision(p, root, A).status = "tombstoned"
      BY <2>1, CascadeRevisionType
  <2> QED BY <2>3, <2>4, <1>1 DEF Advance
<1>6. ASSUME NEW p \in DOMAIN pages', pages'[p].head \in Downstream(root)'
      PROVE  pages'[p].status = "tombstoned"
  <2>1. p \in DOMAIN pages /\ pages'[p].head \in A \cup N
      BY <1>1, <1>2, <1>6 DEF Advance
  <2>2. CASE p \in T
    <3>1. pages'[p].head = id[p] /\ id[p] \notin DOMAIN revisions
        BY <2>2, <1>1 DEF Advance, ContentInv, PagesTypeOK
    <3>2. id[p] \in N
        BY <3>1, <2>1, <1>2
    <3>3. PICK q \in T : id[q] = id[p] /\ pages'[q].status = "tombstoned"
        BY <3>2
    <3> QED BY <3>3, <2>2, <1>1 DEF Advance
  <2>3. CASE p \notin T
    <3>1. pages'[p] = pages[p] /\ pages[p].head \in DOMAIN revisions
        BY <2>1, <2>3, <1>1 DEF Advance, ContentInv, PagesTypeOK
    <3>2. pages[p].head \notin N
        BY <3>1, <1>1 DEF Advance, ContentInv, PagesTypeOK
    <3> QED BY <3>1, <3>2, <2>1, <2>3, <1>4
  <2> QED BY <2>2, <2>3
<1> QED BY <1>5, <1>6 DEF NothingRestsOn

\* However many Pages and Revisions rest on it, directly or not, the
\* withdrawal of a Revision leaves no live head that does.
THEOREM CascadeIsComplete == Spec => CascadeComplete
<1>1. ASSUME ContentInv, [Next]_vars
      PROVE  \A root \in DOMAIN revisions :
                 TombstoneDerivationCascade(root) => NothingRestsOn(root)
    BY <1>1, CascadeWithdraws
<1> QED BY <1>1, ContentCorrect, PTL DEF Spec, CascadeComplete

-----------------------------------------------------------------------------
(* PageStore implements VersionedPages: an Advance of the Pages of S is a   *)
(* transaction that publishes on S, a lifecycle transition governs one Page,*)
(* and every other step stutters.                                           *)

\* The abstract state, as the refinement mapping of PageStore defines it.
Versions == [p \in 1..MaxPages |-> RevisionsOf(p)]
Heads == [p \in 1..MaxPages |-> IF p \in DOMAIN pages THEN pages[p].head ELSE None]
Standing == [p \in 1..MaxPages |->
                IF p \in DOMAIN pages THEN Current(p).status ELSE "none"]

\* No more identifiers are issued than there are abstract Pages and versions.
WithinBounds == nextPage <= MaxPages + 1 /\ nextRevision <= MaxRevisions + 1

RefinementInv == ContentInv /\ WithinBounds

LEMMA WithinBoundsStep ==
    ASSUME RefinementInv, [Next]_vars
    PROVE  WithinBounds'
<1> USE DEF WithinBounds
<1>0. /\ nextPage \in Nat /\ nextRevision \in Nat
      /\ MaxPages \in Nat /\ MaxRevisions \in Nat
      /\ WithinBounds
    BY BoundAssumption DEF RefinementInv, ContentInv, PagesTypeOK
<1>1. CASE UNCHANGED vars
    BY <1>0, <1>1 DEF vars
<1>2. ASSUME NEW key, NEW status, NEW mutability, NEW cited, NEW target,
             WritePage(mutability, status, cited, target, key)
      PROVE  WithinBounds'
    BY <1>0, <1>2 DEF WritePage, CreatePage
<1>3. ASSUME NEW key, NEW basedOn, IngestPage(basedOn, key)
      PROVE  WithinBounds'
    BY <1>0, <1>3 DEF IngestPage, CreatePage
<1>4. ASSUME NEW key, NEW p, NEW expected, NEW status, NEW cited, NEW target,
             RevisePage(p, expected, status, cited, target, key)
      PROVE  WithinBounds'
    BY <1>0, <1>4 DEF RevisePage, Publish
<1>5. ASSUME NEW key, NEW p, NEW expected, NEW basedOn,
             RepairPage(p, expected, basedOn, key)
      PROVE  WithinBounds'
    BY <1>0, <1>5 DEF RepairPage, Publish
<1>6. ASSUME NEW key, NEW p, NEW expected, DeletePage(p, expected, key)
      PROVE  WithinBounds'
    BY <1>0, <1>6 DEF DeletePage, Publish
<1>7. ASSUME NEW root \in DOMAIN revisions, TombstoneDerivationCascade(root)
      PROVE  WithinBounds'
    BY <1>0, <1>7 DEF TombstoneDerivationCascade
<1>8. ASSUME NEW p, NEW expected,
             ArchivePage(p, expected) \/ RestoreArchivedPage(p, expected)
      PROVE  WithinBounds'
    BY <1>0, <1>8 DEF ArchivePage, RestoreArchivedPage, LifecycleTransition
<1>9. ASSUME NEW key, NEW from, NEW to, NEW type, LinkPages(from, type, to, key)
      PROVE  WithinBounds'
    BY <1>0, <1>9 DEF LinkPages
<1> QED BY <1>1, <1>2, <1>3, <1>4, <1>5, <1>6, <1>7, <1>8, <1>9 DEF Next

LEMMA InitWithinBounds == Init => WithinBounds
BY BoundAssumption DEF Init, WithinBounds

\* The rows of the tables are among the abstract Pages and versions.
LEMMA RowsWithinBounds ==
    ASSUME RefinementInv
    PROVE  /\ DOMAIN pages \subseteq 1..MaxPages
           /\ DOMAIN revisions \subseteq 1..MaxRevisions
           /\ \A p \in 1..MaxPages : RevisionsOf(p) \subseteq 1..nextRevision - 1
BY BoundAssumption
DEF RefinementInv, WithinBounds, ContentInv, PagesTypeOK, RevisionsOf

-----------------------------------------------------------------------------
\* What an Advance does to the abstract state.
LEMMA AdvancedVersions ==
    ASSUME ContentInv, NEW S, NEW id, Advance(S, id)
    PROVE  Versions' = [p \in 1..MaxPages |-> IF p \in S THEN Versions[p] \cup {id[p]}
                                              ELSE Versions[p]]
<1>1. ASSUME NEW p \in 1..MaxPages
      PROVE  RevisionsOf(p)' = IF p \in S THEN RevisionsOf(p) \cup {id[p]}
                               ELSE RevisionsOf(p)
  <2>1. /\ DOMAIN revisions' = DOMAIN revisions \cup {id[q] : q \in S}
        /\ \A r \in DOMAIN revisions : revisions'[r] = revisions[r]
        /\ \A q \in S : revisions'[id[q]].page = q
      BY DEF Advance
  <2>2. RevisionsOf(p)' = {r \in DOMAIN revisions' : revisions'[r].page = p}
      BY DEF RevisionsOf
  <2> QED BY <2>1, <2>2 DEF RevisionsOf
<1> QED BY <1>1 DEF Versions

LEMMA AdvancedHeads ==
    ASSUME ContentInv, NEW S, NEW id, Advance(S, id)
    PROVE  Heads' = [p \in 1..MaxPages |-> IF p \in S THEN id[p] ELSE Heads[p]]
BY DEF Heads, Advance

LEMMA AdvancedStanding ==
    ASSUME ContentInv, NEW S, NEW id, Advance(S, id), NEW p \in 1..MaxPages
    PROVE  IF p \in S THEN Standing'[p] \in Statuses ELSE Standing'[p] = Standing[p]
<1>1. Standing'[p] = IF p \in DOMAIN pages'
                     THEN revisions'[pages'[p].head].status ELSE "none"
    BY DEF Standing, Current
<1>2. CASE p \in S
  <2>1. p \in DOMAIN pages' /\ pages'[p].head = id[p] /\ id[p] \in DOMAIN revisions'
      BY <1>2 DEF Advance
  <2>2. revisions'[id[p]] \in Revision
      BY <2>1 DEF Advance
  <2> QED BY <1>1, <1>2, <2>1, <2>2 DEF Revision
<1>3. CASE p \notin S
  <2>1. p \in DOMAIN pages' <=> p \in DOMAIN pages
      BY <1>3 DEF Advance
  <2>2. CASE p \in DOMAIN pages
    <3>1. pages'[p] = pages[p] /\ pages[p].head \in DOMAIN revisions
        BY <1>3, <2>2 DEF Advance, ContentInv, PagesTypeOK
    <3>2. revisions'[pages[p].head] = revisions[pages[p].head]
        BY <3>1 DEF Advance
    <3> QED BY <1>1, <1>3, <2>1, <2>2, <3>1, <3>2 DEF Standing, Current
  <2>3. CASE p \notin DOMAIN pages
      BY <1>1, <1>3, <2>1, <2>3 DEF Standing
  <2> QED BY <2>2, <2>3
<1> QED BY <1>2, <1>3

\* The versions given to the Pages of S are new and all different.
LEMMA AdvancePublishes ==
    ASSUME RefinementInv, WithinBounds', NEW S, NEW id, Advance(S, id)
    PROVE  Contents!ANext
<1> DEFINE fresh == [p \in S |-> id[p]]
<1>1. ContentInv /\ MaxPages \in Nat /\ MaxRevisions \in Nat
    BY BoundAssumption DEF RefinementInv
<1>2. nextRevision \in Nat \ {0} /\ nextRevision' \in Nat
    BY <1>1 DEF ContentInv, PagesTypeOK, Advance
<1>3. S \in SUBSET (1..MaxPages)
    BY <1>1 DEF Advance, WithinBounds
<1>4. \A p \in S : id[p] \in 1..MaxRevisions /\ id[p] \notin 1..nextRevision - 1
    BY <1>1, <1>2 DEF Advance, WithinBounds
<1>5. Contents!Used = UNION {Versions[p] : p \in 1..MaxPages}
    BY DEF Contents!Used, Versions
<1>6. Contents!Used \subseteq 1..nextRevision - 1
    BY <1>5, RowsWithinBounds DEF Versions
<1>7. fresh \in [S -> 1..MaxRevisions \ Contents!Used]
    BY <1>4, <1>6
<1>8. \A p, q \in S : fresh[p] = fresh[q] => p = q
    BY DEF Advance
<1>9. Versions' = [p \in 1..MaxPages |-> IF p \in S THEN Versions[p] \cup {fresh[p]}
                                         ELSE Versions[p]]
    BY <1>1, AdvancedVersions
<1>10. Heads' = [p \in 1..MaxPages |-> IF p \in S THEN fresh[p] ELSE Heads[p]]
    BY <1>1, AdvancedHeads
<1>11. \A p \in 1..MaxPages : IF p \in S THEN Standing'[p] \in Statuses
                              ELSE Standing'[p] = Standing[p]
    BY <1>1, AdvancedStanding
<1> HIDE DEF fresh
<1>12. Contents!PublishOn(S)
    BY <1>7, <1>8, <1>9, <1>10, <1>11
    DEF Contents!PublishOn, Versions, Heads, Standing
<1> QED BY <1>3, <1>12 DEF Contents!ANext

\* An archived or restored head changes the standing of its Page only.
LEMMA TransitionGoverns ==
    ASSUME RefinementInv, NEW p \in DOMAIN pages, NEW expected \in DOMAIN revisions,
           NEW from, NEW to, <<from, to>> \in {<<"active", "archived">>,
                                               <<"archived", "active">>},
           LifecycleTransition(p, expected, from, to)
    PROVE  Contents!ANext
<1>1. /\ expected = pages[p].head
      /\ pages[p].status = from /\ revisions[expected].status = from
      /\ pages' = [pages EXCEPT ![p].status = to]
      /\ revisions' = [revisions EXCEPT ![expected].status = to]
    BY DEF LifecycleTransition, Expected, InStatus
<1>2. ContentInv /\ p \in 1..MaxPages
    BY RowsWithinBounds DEF RefinementInv
<1>3. /\ DOMAIN pages' = DOMAIN pages /\ DOMAIN revisions' = DOMAIN revisions
      /\ \A q \in DOMAIN pages : pages'[q].head = pages[q].head
      /\ \A r \in DOMAIN revisions :
             /\ revisions'[r].page = revisions[r].page
             /\ revisions'[r].status = IF r = expected THEN to ELSE revisions[r].status
    BY <1>1, <1>2 DEF ContentInv, PagesTypeOK, Page, Revision
<1>4. \A q \in DOMAIN pages : pages[q].head \in DOMAIN revisions
                              /\ (pages[q].head = expected => q = p)
    BY <1>1, <1>2 DEF ContentInv, PagesTypeOK, HeadIsNewest
<1>5. Versions' = Versions
    BY <1>3 DEF Versions, RevisionsOf
<1>6. Heads' = Heads
    BY <1>3 DEF Heads
<1>7. Standing[p] = from /\ Standing' = [Standing EXCEPT ![p] = to]
  <2>1. Standing[p] = from
      BY <1>1, <1>2 DEF Standing, Current
  <2>2. ASSUME NEW q \in 1..MaxPages
        PROVE  Standing'[q] = IF q = p THEN to ELSE Standing[q]
    <3>1. Standing'[q] = IF q \in DOMAIN pages'
                         THEN revisions'[pages'[q].head].status ELSE "none"
        BY DEF Standing, Current
    <3>2. CASE q \in DOMAIN pages
        BY <3>1, <3>2, <1>1, <1>3, <1>4 DEF Standing, Current
    <3>3. CASE q \notin DOMAIN pages
        BY <3>1, <3>3, <1>3 DEF Standing
    <3> QED BY <3>2, <3>3
  <2>3. Standing' = [q \in 1..MaxPages |-> Standing'[q]]
      BY DEF Standing
  <2> QED BY <2>1, <2>2, <2>3, <1>2 DEF Standing
<1>8. Contents!Govern(p)
    BY <1>2, <1>5, <1>6, <1>7 DEF Contents!Govern, Versions, Heads, Standing
<1> QED BY <1>2, <1>8 DEF Contents!ANext

-----------------------------------------------------------------------------
LEMMA StepRefines ==
    ASSUME RefinementInv, [Next]_vars
    PROVE  [Contents!ANext]_Contents!avars
<1>1. ContentInv /\ WithinBounds'
    BY WithinBoundsStep DEF RefinementInv
<1>2. CASE \E S, id : Advance(S, id)
    BY <1>1, <1>2, AdvancePublishes
<1>3. ASSUME NEW p \in DOMAIN pages, NEW expected \in DOMAIN revisions,
             ArchivePage(p, expected) \/ RestoreArchivedPage(p, expected)
      PROVE  Contents!ANext
    BY <1>3, TransitionGoverns DEF ArchivePage, RestoreArchivedPage
<1>4. CASE UNCHANGED <<pages, revisions, nextPage, nextRevision>>
    BY <1>4 DEF Contents!avars, RevisionsOf, Current
<1> QED BY <1>1, <1>2, <1>3, <1>4, StepKinds

LEMMA InitRefines == Init => Contents!AInit
BY DEF Init, Contents!AInit, RevisionsOf

\* PageStore implements the versions, heads and standings of VersionedPages,
\* whatever operations and cascades interleave (write.rs, repair.rs,
\* retract.rs, governance.rs).
THEOREM StoreImplementsContents == Spec => ImplementsContents
<1>1. Init => RefinementInv
    BY ContentInvInit, InitWithinBounds DEF RefinementInv
<1>2. RefinementInv /\ [Next]_vars => RefinementInv'
    BY ContentInvStep, WithinBoundsStep DEF RefinementInv
<1>3. RefinementInv /\ [Next]_vars => [Contents!ANext]_Contents!avars
    BY StepRefines
<1> QED BY <1>1, <1>2, <1>3, InitRefines, PTL
        DEF Spec, ImplementsContents, Contents!ASpec

-----------------------------------------------------------------------------
(***************************************************************************)
(* The tables beside Pages and Revisions: relations, the idempotency table *)
(* and the lifecycle events.                                               *)
(*                                                                         *)
(* Of the relations a step either keeps all, retracting some, or adds one  *)
(* that is admissible; of the keys it records none or one, for the one     *)
(* Revision or relation it makes.  Every action is shown to be such a      *)
(* step, and every such step to keep the invariant.                        *)
(***************************************************************************)

\* The edges that DerivationRelationsAcyclic speaks of.
RelationEdges ==
    {<<relations[r].from, relations[r].to>> :
         r \in {x \in ActiveRelations : relations[x].type \in DerivationTypes}}

\* Stored from the smaller to the larger id, a symmetric relation has one triple.
RelatedInOrder(rel) == rel.type = "related_to" => rel.from < rel.to

RelationTables ==
    /\ nextRelation \in Nat \ {0}
    /\ DOMAIN relations \subseteq 1..nextRelation - 1
    /\ relations \in [DOMAIN relations -> Relation]
    /\ \A r \in DOMAIN relations :
           {relations[r].from, relations[r].to} \subseteq DOMAIN pages
    /\ retracted \subseteq DOMAIN relations

TriplesUnique ==
    \A r, s \in ActiveRelations :
        /\ relations[r].type = relations[s].type
        /\ relations[r].from = relations[s].from
        /\ relations[r].to = relations[s].to
        => r = s

RelationInv ==
    /\ RelationTables
    /\ \A r \in DOMAIN relations : RelatedInOrder(relations[r])
    /\ TriplesUnique
    /\ AcyclicGraph(DOMAIN pages, RelationEdges)

-----------------------------------------------------------------------------
(* Steps *)

KeepsRelations ==
    /\ UNCHANGED <<relations, nextRelation>>
    /\ retracted \subseteq retracted' /\ retracted' \subseteq DOMAIN relations

\* A new relation between Pages that exist afterwards, that no active one
\* repeats, and that closes no derivation cycle.
AddsRelation(rel) ==
    /\ relations' = Put(relations, nextRelation, rel)
    /\ nextRelation' = nextRelation + 1
    /\ retracted' = retracted
    /\ rel \in Relation
    /\ rel.from \in DOMAIN pages' /\ rel.to \in DOMAIN pages'
    /\ RelatedInOrder(rel)
    /\ SameTriple(<<rel.from, rel.to>>, rel.type) = {}
    /\ rel.type \in DerivationTypes =>
           rel.from \notin Reach(DOMAIN pages', rel.to, RelationEdges)

LEMMA RelationEdgesInside ==
    ASSUME RelationTables
    PROVE  RelationEdges \subseteq (DOMAIN pages) \X (DOMAIN pages)
<1> SUFFICES ASSUME NEW e \in RelationEdges
             PROVE  e \in (DOMAIN pages) \X (DOMAIN pages)
    OBVIOUS
<1>1. PICK r \in DOMAIN relations : e = <<relations[r].from, relations[r].to>>
    BY DEF RelationEdges, ActiveRelations
<1>2. relations[r].from \in DOMAIN pages /\ relations[r].to \in DOMAIN pages
    BY DEF RelationTables
<1> QED BY <1>1, <1>2

LEMMA KeepingKeepsRelations ==
    ASSUME RelationInv, KeepsRelations, DOMAIN pages \subseteq DOMAIN pages'
    PROVE  RelationInv'
<1>1. RelationTables /\ RelationTables'
    BY DEF RelationInv, RelationTables, KeepsRelations
<1>2. ActiveRelations' \subseteq ActiveRelations
    BY DEF ActiveRelations, KeepsRelations
<1>3. RelationEdges' \in SUBSET RelationEdges
    BY <1>2 DEF RelationEdges, KeepsRelations
<1>4. (\A r \in DOMAIN relations : RelatedInOrder(relations[r]))' /\ TriplesUnique'
    BY <1>2 DEF RelationInv, TriplesUnique, RelatedInOrder, KeepsRelations
<1>5. AcyclicGraph(DOMAIN pages, RelationEdges')
    BY <1>3, FewerEdgesAcyclic DEF RelationInv
<1>6. RelationEdges' \subseteq (DOMAIN pages) \X (DOMAIN pages)
    BY <1>1, <1>3, RelationEdgesInside
<1>7. AcyclicGraph(DOMAIN pages', RelationEdges')
    BY <1>5, <1>6, MoreNodesAcyclic
<1> QED BY <1>1, <1>4, <1>7 DEF RelationInv

LEMMA AddingKeepsRelations ==
    ASSUME RelationInv, NEW rel, AddsRelation(rel), DOMAIN pages \subseteq DOMAIN pages'
    PROVE  RelationInv'
<1>1. /\ nextRelation \in Nat \ {0} /\ nextRelation \notin DOMAIN relations
      /\ DOMAIN relations' = DOMAIN relations \cup {nextRelation}
      /\ relations'[nextRelation] = rel
      /\ \A r \in DOMAIN relations : relations'[r] = relations[r]
      /\ relations' \in [DOMAIN relations' -> Relation]
    BY DEF RelationInv, RelationTables, AddsRelation, Put
<1>2. RelationTables'
    BY <1>1 DEF RelationInv, RelationTables, AddsRelation
<1>3. ActiveRelations' = ActiveRelations \cup {nextRelation}
    BY <1>1 DEF ActiveRelations, AddsRelation, RelationInv, RelationTables
<1>4. (\A r \in DOMAIN relations : RelatedInOrder(relations[r]))'
    BY <1>1 DEF RelationInv, RelatedInOrder, AddsRelation
<1>5. \A r \in ActiveRelations : ~ (/\ relations[r].type = rel.type
                                    /\ relations[r].from = rel.from
                                    /\ relations[r].to = rel.to)
    BY DEF AddsRelation, SameTriple
<1>6. TriplesUnique'
  <2> SUFFICES ASSUME NEW r \in ActiveRelations', NEW s \in ActiveRelations',
                      relations'[r].type = relations'[s].type,
                      relations'[r].from = relations'[s].from,
                      relations'[r].to = relations'[s].to
               PROVE  r = s
      BY DEF TriplesUnique
  <2>1. CASE r \in ActiveRelations /\ s \in ActiveRelations
      BY <2>1, <1>1 DEF RelationInv, TriplesUnique, ActiveRelations
  <2>2. CASE r = nextRelation /\ s \in ActiveRelations
      BY <2>2, <1>1, <1>5 DEF ActiveRelations
  <2>3. CASE s = nextRelation /\ r \in ActiveRelations
      BY <2>3, <1>1, <1>5 DEF ActiveRelations
  <2> QED BY <2>1, <2>2, <2>3, <1>3
<1>7. RelationEdges' = IF rel.type \in DerivationTypes
                       THEN RelationEdges \cup {<<rel.from, rel.to>>}
                       ELSE RelationEdges
    BY <1>1, <1>3 DEF RelationEdges, ActiveRelations
<1>8. RelationEdges \subseteq (DOMAIN pages) \X (DOMAIN pages)
    BY RelationEdgesInside DEF RelationInv
<1>9. AcyclicGraph(DOMAIN pages', RelationEdges)
    BY <1>8, MoreNodesAcyclic DEF RelationInv
<1>10. RelationEdges \subseteq (DOMAIN pages') \X (DOMAIN pages')
    BY <1>8
<1>11. CASE rel.type \in DerivationTypes
  <2>1. AcyclicGraph(DOMAIN pages', RelationEdges \cup {<<rel.from, rel.to>>})
      BY <1>9, <1>10, <1>11, NewEdgeAcyclic DEF AddsRelation
  <2> QED BY <2>1, <1>2, <1>4, <1>6, <1>7, <1>11 DEF RelationInv
<1>12. CASE rel.type \notin DerivationTypes
    BY <1>12, <1>2, <1>4, <1>6, <1>7, <1>9 DEF RelationInv
<1> QED BY <1>11, <1>12

\* insert_page_relation, whichever state of the Pages it reads.
LEMMA InsertionAdmits ==
    ASSUME RelationTables, NEW pgs, NEW revs,
           DOMAIN pgs = DOMAIN pages', DOMAIN pgs \subseteq Nat,
           \A q \in DOMAIN pgs : pgs[q].head \in Nat,
           NEW from \in DOMAIN pgs, NEW to \in DOMAIN pgs, NEW type \in RelationTypes,
           retracted' = retracted, InsertRelation(pgs, revs, from, type, to)
    PROVE  KeepsRelations \/ \E rel : AddsRelation(rel)
<1> DEFINE ends == Canonical(from, type, to)
           rel == [from |-> ends[1], type |-> type, to |-> ends[2],
                   basis |-> {pgs[from].head, pgs[to].head}]
<1>1. CASE SameTriple(ends, type) # {}
  <2>1. UNCHANGED <<relations, nextRelation>>
      BY <1>1 DEF InsertRelation
  <2> QED BY <2>1 DEF KeepsRelations, RelationTables
<1>2. CASE SameTriple(ends, type) = {}
  <2>1. /\ relations' = Put(relations, nextRelation, rel)
        /\ nextRelation' = nextRelation + 1
        /\ MayRelate(pgs, revs, ends[1], type, ends[2])
      BY <1>2 DEF InsertRelation
  <2>2. /\ ends[1] \in DOMAIN pgs /\ ends[2] \in DOMAIN pgs
        /\ ends = <<ends[1], ends[2]>>
      BY DEF Canonical
  <2>3. type = "related_to" => ends[1] < ends[2]
      BY <2>1 DEF Canonical, MayRelate
  <2>4. rel \in Relation
      BY <2>2 DEF Relation
  <2>5. RelationEdges \in SUBSET DerivationEdges(revs)
      BY DEF RelationEdges, DerivationEdges
  <2>6. type \in DerivationTypes =>
            ends[1] \notin Reach(DOMAIN pgs, ends[2], RelationEdges)
      BY <2>1, <2>5, ReachMonotone DEF MayRelate
  <2>7. /\ rel.from = ends[1] /\ rel.to = ends[2] /\ rel.type = type
      OBVIOUS
  <2> HIDE DEF ends, rel
  <2>8. AddsRelation(rel)
      BY <1>2, <2>1, <2>2, <2>3, <2>4, <2>6, <2>7 DEF AddsRelation, RelatedInOrder
  <2> QED BY <2>8
<1> QED BY <1>1, <1>2

LEMMA InitialRelationAdmits ==
    ASSUME RelationTables, NEW pgs, NEW revs,
           DOMAIN pgs = DOMAIN pages', DOMAIN pgs \subseteq Nat,
           \A q \in DOMAIN pgs : pgs[q].head \in Nat,
           NEW from \in DOMAIN pgs, NEW target \in Targets,
           DOMAIN pages \subseteq DOMAIN pgs,
           retracted' = retracted, InitialRelation(pgs, revs, from, target)
    PROVE  KeepsRelations \/ \E rel : AddsRelation(rel)
<1>1. CASE target = <<>> /\ UNCHANGED <<relations, nextRelation>>
    BY <1>1 DEF KeepsRelations, RelationTables
<1>2. CASE target # <<>> /\ InsertRelation(pgs, revs, from, target[1], target[2])
  <2>1. target[1] \in RelationTypes /\ target[2] \in DOMAIN pgs
      BY <1>2 DEF Targets
  <2> QED BY <1>2, <2>1, InsertionAdmits
<1> QED BY <1>1, <1>2 DEF InitialRelation

\* One step of the store keeps the relations or adds one.
LEMMA PagesRemain ==
    ASSUME ContentInv, [Next]_vars
    PROVE  DOMAIN pages \subseteq DOMAIN pages'
<1>1. ASSUME NEW p \in DOMAIN pages, NEW expected \in DOMAIN revisions,
             ArchivePage(p, expected) \/ RestoreArchivedPage(p, expected)
      PROVE  DOMAIN pages' = DOMAIN pages
    BY <1>1 DEF ArchivePage, RestoreArchivedPage, LifecycleTransition
<1>2. ASSUME NEW S, NEW id, Advance(S, id)
      PROVE  DOMAIN pages \subseteq DOMAIN pages'
    BY <1>2 DEF Advance
<1> QED BY <1>1, <1>2, StepKinds

LEMMA StepAdmits ==
    ASSUME ContentInv, RelationTables, [Next]_vars
    PROVE  KeepsRelations \/ \E rel : AddsRelation(rel)
<1>0. /\ PagesTypeOK /\ PagesTypeOK' /\ DOMAIN pages \subseteq DOMAIN pages'
    BY ContentInvStep, PagesRemain DEF ContentInv
<1>a. /\ DOMAIN pages \subseteq Nat /\ \A q \in DOMAIN pages : pages[q].head \in Nat
      /\ DOMAIN pages' \subseteq Nat /\ \A q \in DOMAIN pages' : pages'[q].head \in Nat
    BY <1>0 DEF PagesTypeOK, Page
<1>b. ASSUME UNCHANGED <<relations, nextRelation, retracted>>
      PROVE  KeepsRelations
    BY <1>b DEF KeepsRelations, RelationTables
<1>1. CASE UNCHANGED vars
    BY <1>1, <1>b DEF vars
<1>2. ASSUME NEW key, NEW status, NEW mutability, NEW cited, NEW target \in Targets,
             WritePage(mutability, status, cited, target, key)
      PROVE  KeepsRelations \/ \E rel : AddsRelation(rel)
  <2>1. /\ InitialRelation(pages', revisions', nextPage, target)
        /\ retracted' = retracted /\ nextPage \in DOMAIN pages'
      BY <1>2 DEF WritePage, CreatePage, Put
  <2> QED BY <1>0, <1>a, <2>1, InitialRelationAdmits
<1>3. ASSUME NEW key, NEW basedOn, IngestPage(basedOn, key)
      PROVE  KeepsRelations
    BY <1>3, <1>b DEF IngestPage, CreatePage, InitialRelation
<1>4. ASSUME NEW key, NEW p \in DOMAIN pages, NEW expected, NEW status, NEW cited,
             NEW target \in Targets,
             RevisePage(p, expected, status, cited, target, key)
      PROVE  KeepsRelations \/ \E rel : AddsRelation(rel)
  <2>1. /\ InitialRelation(pages, revisions', p, target)
        /\ retracted' = retracted /\ DOMAIN pages' = DOMAIN pages
      BY <1>4 DEF RevisePage, Publish
  <2> QED BY <1>a, <2>1, InitialRelationAdmits
<1>5. ASSUME NEW key, NEW p, NEW expected, NEW basedOn,
             RepairPage(p, expected, basedOn, key)
      PROVE  KeepsRelations
    BY <1>5, <1>b DEF RepairPage
<1>6. ASSUME NEW key, NEW p, NEW expected, DeletePage(p, expected, key)
      PROVE  KeepsRelations
    BY <1>6 DEF DeletePage, KeepsRelations, Incident, RelationTables, Publish
<1>7. ASSUME NEW root \in DOMAIN revisions, TombstoneDerivationCascade(root)
      PROVE  KeepsRelations
    BY <1>7 DEF TombstoneDerivationCascade, KeepsRelations, Incident, RelationTables
<1>8. ASSUME NEW p, NEW expected,
             ArchivePage(p, expected) \/ RestoreArchivedPage(p, expected)
      PROVE  KeepsRelations
    BY <1>8, <1>b DEF ArchivePage, RestoreArchivedPage, LifecycleTransition
<1>9. ASSUME NEW key, NEW from \in DOMAIN pages, NEW to \in DOMAIN pages,
             NEW type \in RelationTypes, LinkPages(from, type, to, key)
      PROVE  KeepsRelations \/ \E rel : AddsRelation(rel)
  <2>1. /\ InsertRelation(pages, revisions, from, type, to)
        /\ retracted' = retracted /\ pages' = pages
      BY <1>9 DEF LinkPages
  <2> QED BY <1>a, <2>1, InsertionAdmits
<1> QED BY <1>1, <1>2, <1>3, <1>4, <1>5, <1>6, <1>7, <1>8, <1>9 DEF Next

LEMMA RelationInvStep ==
    ASSUME ContentInv, RelationInv, [Next]_vars
    PROVE  RelationInv'
BY StepAdmits, PagesRemain, KeepingKeepsRelations, AddingKeepsRelations DEF RelationInv

LEMMA RelationInvInit == Init => RelationInv
BY DEF Init, RelationInv, RelationTables, TriplesUnique, ActiveRelations,
   AcyclicGraph, RelationEdges

\* The relation tables keep their references, their triples stay unique and the
\* derivation graph acyclic, whatever the callers send (write.rs, retract.rs).
THEOREM RelationsCorrect == Spec => [](ContentInv /\ RelationInv)
<1>1. Init => ContentInv /\ RelationInv
    BY ContentInvInit, RelationInvInit
<1>2. ContentInv /\ RelationInv /\ [Next]_vars => ContentInv' /\ RelationInv'
    BY ContentInvStep, RelationInvStep
<1> QED BY <1>1, <1>2, PTL DEF Spec

\* No relation is asserted twice, in either direction of related_to, for any
\* number of callers and retractions (write.rs, insert_page_relation).
THEOREM RelationsAreAssertedOnce == Spec => []ActiveTriplesUnique
<1>1. RelationInv => ActiveTriplesUnique
  <2> SUFFICES ASSUME RelationInv, NEW r \in ActiveRelations, NEW s \in ActiveRelations,
                      relations[r].type = relations[s].type,
                      \/ /\ relations[r].from = relations[s].from
                         /\ relations[r].to = relations[s].to
                      \/ /\ relations[r].type = "related_to"
                         /\ relations[r].from = relations[s].to
                         /\ relations[r].to = relations[s].from
               PROVE  r = s
      BY DEF ActiveTriplesUnique
  <2>1. /\ relations[r].from \in Nat /\ relations[r].to \in Nat
        /\ relations[s].from \in Nat /\ relations[s].to \in Nat
      BY DEF RelationInv, RelationTables, ActiveRelations, Relation
  <2>2. RelatedInOrder(relations[r]) /\ RelatedInOrder(relations[s])
      BY DEF RelationInv, ActiveRelations
  <2>3. /\ relations[r].from = relations[s].from
        /\ relations[r].to = relations[s].to
      BY <2>1, <2>2 DEF RelatedInOrder
  <2> QED BY <2>3 DEF RelationInv, TriplesUnique
<1> QED BY <1>1, RelationsCorrect, PTL

\* The derivation relations stay acyclic, whatever types they mix and whatever
\* is retracted in between (write.rs, the cycle check of insert_page_relation).
THEOREM DerivationsAreAcyclic == Spec => []DerivationRelationsAcyclic
<1>1. RelationInv => DerivationRelationsAcyclic
    BY DEF RelationInv, DerivationRelationsAcyclic, RelationEdges
<1> QED BY <1>1, RelationsCorrect, PTL

\* Each edge of the relation graph is there once, and derivations never lead
\* back, whatever is linked, withdrawn and linked again (insert_page_relation,
\* ensure_acyclic_derivation_relation).
THEOREM TheGraphIsSound == Spec => []RelationGraphIsSound
<1>1. ActiveTriplesUnique /\ DerivationRelationsAcyclic => RelationGraphIsSound
    BY DEF RelationGraphIsSound
<1> QED BY <1>1, RelationsAreAssertedOnce, DerivationsAreAcyclic, PTL

-----------------------------------------------------------------------------
(* Keys *)

\* What makes a retry safe: the Revision of a keyed call is the recorded one.
KeyInv ==
    /\ DOMAIN idempotency \subseteq KeyedOperations \X Keys
    /\ idempotency \in [DOMAIN idempotency -> Nat]
    /\ \A r \in DOMAIN revisions :
           LET c == revisions[r].call
           IN  c # <<>> => c \in DOMAIN idempotency /\ idempotency[c] = r
    /\ \A c \in DOMAIN idempotency :
           IF c[1] = "link_pages" THEN idempotency[c] \in DOMAIN relations
           ELSE /\ idempotency[c] \in DOMAIN revisions
                /\ revisions[idempotency[c]].call = c

\* What is there stays there, with its call.
CallsRemain ==
    /\ DOMAIN relations \subseteq DOMAIN relations'
    /\ \A r \in DOMAIN revisions : /\ r \in DOMAIN revisions'
                                   /\ revisions'[r].call = revisions[r].call

NewRevisions == DOMAIN revisions' \ DOMAIN revisions

RecordsNothing ==
    /\ idempotency' = idempotency
    /\ \A r \in NewRevisions : revisions'[r].call = <<>>

RecordsRevision(c) ==
    /\ c \in (KeyedOperations \ {"link_pages"}) \X Keys /\ c \notin DOMAIN idempotency
    /\ NewRevisions = {nextRevision}
    /\ revisions'[nextRevision].call = c
    /\ idempotency' = Put(idempotency, c, nextRevision)

RecordsRelation(c, r) ==
    /\ c \in {"link_pages"} \X Keys /\ c \notin DOMAIN idempotency
    /\ NewRevisions = {}
    /\ r \in DOMAIN relations' /\ r \in Nat
    /\ idempotency' = Put(idempotency, c, r)

Records ==
    /\ CallsRemain
    /\ \/ RecordsNothing
       \/ \E c : RecordsRevision(c)
       \/ \E c, r : RecordsRelation(c, r)

LEMMA NothingRecorded ==
    ASSUME KeyInv, CallsRemain, RecordsNothing
    PROVE  KeyInv'
BY DEF KeyInv, CallsRemain, RecordsNothing, NewRevisions

LEMMA RevisionRecorded ==
    ASSUME KeyInv, ContentInv, CallsRemain, NEW c, RecordsRevision(c)
    PROVE  KeyInv'
<1>1. /\ DOMAIN idempotency' = DOMAIN idempotency \cup {c}
      /\ idempotency'[c] = nextRevision
      /\ \A d \in DOMAIN idempotency : idempotency'[d] = idempotency[d] /\ d # c
      /\ nextRevision \in Nat /\ nextRevision \notin DOMAIN revisions
      /\ idempotency' \in [DOMAIN idempotency' -> Nat]
    BY DEF KeyInv, RecordsRevision, Put, ContentInv, PagesTypeOK
<1>2. DOMAIN revisions' = DOMAIN revisions \cup {nextRevision}
    BY DEF RecordsRevision, NewRevisions, CallsRemain
<1>3. c \in KeyedOperations \X Keys /\ c[1] # "link_pages"
    BY DEF RecordsRevision
<1>4. (\A r \in DOMAIN revisions :
          revisions[r].call # <<>> => /\ revisions[r].call \in DOMAIN idempotency
                                      /\ idempotency[revisions[r].call] = r)'
    BY <1>1, <1>2 DEF KeyInv, RecordsRevision, CallsRemain
<1>5. (\A d \in DOMAIN idempotency :
           IF d[1] = "link_pages" THEN idempotency[d] \in DOMAIN relations
           ELSE /\ idempotency[d] \in DOMAIN revisions
                /\ revisions[idempotency[d]].call = d)'
    BY <1>1, <1>2, <1>3 DEF KeyInv, RecordsRevision, CallsRemain
<1> QED BY <1>1, <1>3, <1>4, <1>5 DEF KeyInv

LEMMA RelationRecorded ==
    ASSUME KeyInv, CallsRemain, NEW c, NEW r, RecordsRelation(c, r)
    PROVE  KeyInv'
<1>1. /\ DOMAIN idempotency' = DOMAIN idempotency \cup {c}
      /\ idempotency'[c] = r
      /\ \A d \in DOMAIN idempotency : idempotency'[d] = idempotency[d] /\ d # c
      /\ idempotency' \in [DOMAIN idempotency' -> Nat]
    BY DEF KeyInv, RecordsRelation, Put
<1>2. DOMAIN revisions' = DOMAIN revisions
    BY DEF RecordsRelation, NewRevisions, CallsRemain
<1>3. c \in KeyedOperations \X Keys /\ c[1] = "link_pages"
    BY DEF RecordsRelation, KeyedOperations
<1>4. (\A q \in DOMAIN revisions :
          revisions[q].call # <<>> => /\ revisions[q].call \in DOMAIN idempotency
                                      /\ idempotency[revisions[q].call] = q)'
    BY <1>1, <1>2 DEF KeyInv, CallsRemain
<1>5. (\A d \in DOMAIN idempotency :
           IF d[1] = "link_pages" THEN idempotency[d] \in DOMAIN relations
           ELSE /\ idempotency[d] \in DOMAIN revisions
                /\ revisions[idempotency[d]].call = d)'
    BY <1>1, <1>2, <1>3 DEF KeyInv, RecordsRelation, CallsRemain
<1> QED BY <1>1, <1>3, <1>4, <1>5 DEF KeyInv

\* An operation that looks its key up, makes one Revision and records it.
LEMMA KeyedRevision ==
    ASSUME ContentInv, NEW op \in KeyedOperations \ {"link_pages"},
           NEW key \in Keys \cup {NoKey}, NEW rev,
           rev.call = CallOf(op, key), Unrecorded(op, key),
           revisions' = Put(revisions, nextRevision, rev),
           DOMAIN relations \subseteq DOMAIN relations',
           Record(op, key, nextRevision)
    PROVE  Records
<1>1. nextRevision \notin DOMAIN revisions
    BY DEF ContentInv, PagesTypeOK
<1>2. /\ NewRevisions = {nextRevision} /\ revisions'[nextRevision] = rev
      /\ CallsRemain
    BY <1>1 DEF NewRevisions, Put, CallsRemain
<1>3. CASE key = NoKey
  <2>1. RecordsNothing
      BY <1>2, <1>3 DEF RecordsNothing, Record, CallOf
  <2> QED BY <1>2, <2>1 DEF Records
<1>4. CASE key # NoKey
  <2>1. RecordsRevision(<<op, key>>)
      BY <1>2, <1>4 DEF RecordsRevision, Record, CallOf, Unrecorded
  <2> QED BY <1>2, <2>1 DEF Records
<1> QED BY <1>3, <1>4

LEMMA StepRecords ==
    ASSUME ContentInv, RelationInv, [Next]_vars
    PROVE  Records
<1>a. DOMAIN relations \subseteq DOMAIN relations'
  <2>1. CASE KeepsRelations
      BY <2>1 DEF KeepsRelations
  <2>2. ASSUME NEW rel, AddsRelation(rel)
        PROVE  DOMAIN relations \subseteq DOMAIN relations'
      BY <2>2 DEF AddsRelation, Put
  <2> QED BY <2>1, <2>2, StepAdmits DEF RelationInv
<1>b. ASSUME UNCHANGED <<revisions, idempotency>>
      PROVE  Records
    BY <1>a, <1>b DEF Records, CallsRemain, RecordsNothing, NewRevisions
<1>1. CASE UNCHANGED vars
    BY <1>1, <1>b DEF vars
<1>2. ASSUME NEW key \in Keys \cup {NoKey}, NEW mutability, NEW status, NEW inputs,
             NEW origin, NEW target,
             CreatePage(mutability, status, inputs, origin, target, key)
      PROVE  Records
  <2> DEFINE rev == [page |-> nextPage, status |-> status, previous |-> None,
                     inputs |-> inputs, origin |-> origin,
                     call |-> CallOf("write_page", key)]
  <2>1. /\ revisions' = Put(revisions, nextRevision, rev)
        /\ Unrecorded("write_page", key) /\ Record("write_page", key, nextRevision)
      BY <1>2 DEF CreatePage
  <2>2. rev.call = CallOf("write_page", key)
      OBVIOUS
  <2>3. "write_page" \in KeyedOperations \ {"link_pages"}
      BY DEF KeyedOperations
  <2> HIDE DEF rev
  <2> QED BY <2>1, <2>2, <2>3, <1>a, KeyedRevision
<1>3. ASSUME NEW key \in Keys \cup {NoKey}, NEW status, NEW mutability, NEW cited,
             NEW target, WritePage(mutability, status, cited, target, key)
      PROVE  Records
    BY <1>2, <1>3 DEF WritePage
<1>4. ASSUME NEW key \in Keys \cup {NoKey}, NEW basedOn, IngestPage(basedOn, key)
      PROVE  Records
    BY <1>2, <1>4 DEF IngestPage
<1>5. ASSUME NEW op \in KeyedOperations \ {"link_pages"}, NEW key \in Keys \cup {NoKey},
             NEW p, NEW rev, Publish(p, rev), rev.call = CallOf(op, key),
             Unrecorded(op, key), Record(op, key, nextRevision)
      PROVE  Records
    BY <1>5, <1>a, KeyedRevision DEF Publish
<1>6. ASSUME NEW key \in Keys \cup {NoKey}, NEW p, NEW expected, NEW status, NEW cited,
             NEW target, RevisePage(p, expected, status, cited, target, key)
      PROVE  Records
  <2> DEFINE rev == [page |-> p, status |-> status, previous |-> pages[p].head,
                     inputs |-> InputsOf({expected}, cited),
                     origin |-> OriginOf("revise", cited),
                     call |-> CallOf("revise_page", key)]
  <2>1. /\ Publish(p, rev) /\ Unrecorded("revise_page", key)
        /\ Record("revise_page", key, nextRevision)
      BY <1>6 DEF RevisePage
  <2>2. rev.call = CallOf("revise_page", key)
      OBVIOUS
  <2>3. "revise_page" \in KeyedOperations \ {"link_pages"}
      BY DEF KeyedOperations
  <2> HIDE DEF rev
  <2> QED BY <2>1, <2>2, <2>3, <1>5
<1>7. ASSUME NEW key \in Keys \cup {NoKey}, NEW p, NEW expected, NEW basedOn,
             RepairPage(p, expected, basedOn, key)
      PROVE  Records
  <2> DEFINE rev == [page |-> p, status |-> pages[p].status,
                     previous |-> pages[p].head, inputs |-> basedOn \cup {expected},
                     origin |-> "repair", call |-> CallOf("repair_page", key)]
  <2>1. /\ Publish(p, rev) /\ Unrecorded("repair_page", key)
        /\ Record("repair_page", key, nextRevision)
      BY <1>7 DEF RepairPage
  <2>2. rev.call = CallOf("repair_page", key)
      OBVIOUS
  <2>3. "repair_page" \in KeyedOperations \ {"link_pages"}
      BY DEF KeyedOperations
  <2> HIDE DEF rev
  <2> QED BY <2>1, <2>2, <2>3, <1>5
<1>8. ASSUME NEW key \in Keys \cup {NoKey}, NEW p, NEW expected,
             DeletePage(p, expected, key)
      PROVE  Records
  <2> DEFINE rev == [page |-> p, status |-> "tombstoned",
                     previous |-> pages[p].head, inputs |-> {pages[p].head},
                     origin |-> "delete", call |-> CallOf("delete_page", key)]
  <2>1. /\ Publish(p, rev) /\ Unrecorded("delete_page", key)
        /\ Record("delete_page", key, nextRevision)
      BY <1>8 DEF DeletePage
  <2>2. rev.call = CallOf("delete_page", key)
      OBVIOUS
  <2>3. "delete_page" \in KeyedOperations \ {"link_pages"}
      BY DEF KeyedOperations
  <2> HIDE DEF rev
  <2> QED BY <2>1, <2>2, <2>3, <1>5
<1>9. ASSUME NEW p \in DOMAIN pages, NEW expected \in DOMAIN revisions,
             ArchivePage(p, expected) \/ RestoreArchivedPage(p, expected)
      PROVE  Records
  <2>1. PICK to : revisions' = [revisions EXCEPT ![expected].status = to]
      BY <1>9 DEF ArchivePage, RestoreArchivedPage, LifecycleTransition
  <2>2. idempotency' = idempotency
      BY <1>9 DEF ArchivePage, RestoreArchivedPage, LifecycleTransition
  <2>3. DOMAIN revisions' = DOMAIN revisions
        /\ \A r \in DOMAIN revisions : revisions'[r].call = revisions[r].call
      BY <2>1 DEF ContentInv, PagesTypeOK, Revision
  <2> QED BY <2>2, <2>3, <1>a DEF Records, CallsRemain, RecordsNothing, NewRevisions
<1>10. ASSUME NEW root \in DOMAIN revisions, TombstoneDerivationCascade(root)
       PROVE  Records
  <2> DEFINE A == Downstream(root)
             T == Touched(A)
             ids == {CascadeId(T, p) : p \in T}
  <2>1. /\ idempotency' = idempotency
        /\ revisions' = [r \in DOMAIN revisions \cup ids |->
                            IF r \in ids
                            THEN CascadeRevision(CHOOSE p \in T : CascadeId(T, p) = r,
                                                 root, A)
                            ELSE revisions[r]]
      BY <1>10 DEF TombstoneDerivationCascade
  <2>2. ids \cap DOMAIN revisions = {}
    <3>1. T = Touching(root)
        BY DEF Touching
    <3> HIDE DEF T, A
    <3>2. \A p \in T : CascadeId(T, p) \in nextRevision..nextRevision + Cardinality(T) - 1
        BY <3>1, CascadeNumbers
    <3>3. DOMAIN revisions \subseteq 1..nextRevision - 1 /\ nextRevision \in Nat
        BY DEF ContentInv, PagesTypeOK
    <3>4. Cardinality(T) \in Nat
        BY <3>1, CascadeNumbers
    <3> QED BY <3>2, <3>3, <3>4
  <2>3. \A p : CascadeRevision(p, root, A).call = <<>>
      BY DEF CascadeRevision, CascadeRow
  <2>4. CallsRemain
      BY <2>1, <2>2, <1>a DEF CallsRemain
  <2>5. RecordsNothing
      BY <2>1, <2>3 DEF RecordsNothing, NewRevisions
  <2> QED BY <2>4, <2>5 DEF Records
<1>11. ASSUME NEW key \in Keys \cup {NoKey}, NEW from, NEW to, NEW type,
              LinkPages(from, type, to, key)
       PROVE  Records
  <2> DEFINE same == SameTriple(Canonical(from, type, to), type)
             result == IF same = {} THEN nextRelation ELSE Latest(same)
  <2>1. /\ Unrecorded("link_pages", key) /\ Record("link_pages", key, result)
        /\ revisions' = revisions
        /\ InsertRelation(pages, revisions, from, type, to)
      BY <1>11 DEF LinkPages
  <2>2. CallsRemain /\ NewRevisions = {}
      BY <2>1, <1>a DEF CallsRemain, NewRevisions
  <2>3. CASE key = NoKey
    <3>1. RecordsNothing
        BY <2>1, <2>2, <2>3 DEF RecordsNothing, Record
    <3> QED BY <2>2, <3>1 DEF Records
  <2>4. CASE key # NoKey
    <3>1. result \in DOMAIN relations' /\ result \in Nat
      <4>1. CASE same = {}
          BY <4>1, <2>1 DEF InsertRelation, Put, RelationInv, RelationTables
      <4>2. CASE same # {}
        <5>1. same \in SUBSET (1..nextRelation - 1) /\ nextRelation - 1 \in Nat
              /\ same \subseteq DOMAIN relations
            BY DEF SameTriple, ActiveRelations, RelationInv, RelationTables
        <5>2. Latest(same) \in same
            BY <4>2, <5>1, LatestIsMaximum
        <5> QED BY <4>2, <5>1, <5>2, <1>a
      <4> QED BY <4>1, <4>2
    <3>2. RecordsRelation(<<"link_pages", key>>, result)
        BY <2>1, <2>2, <2>4, <3>1 DEF RecordsRelation, Unrecorded, Record
    <3> QED BY <2>2, <3>2 DEF Records
  <2> QED BY <2>3, <2>4
<1> QED BY <1>1, <1>3, <1>4, <1>6, <1>7, <1>8, <1>9, <1>10, <1>11 DEF Next

LEMMA KeyInvStep ==
    ASSUME ContentInv, RelationInv, KeyInv, [Next]_vars
    PROVE  KeyInv'
BY StepRecords, NothingRecorded, RevisionRecorded, RelationRecorded DEF Records

LEMMA KeyInvInit == Init => KeyInv
BY DEF Init, KeyInv

\* A keyed call has one effect for ever, whatever was called in between, and
\* its record leads to it (write.rs, lookup_idempotency and record_idempotency).
THEOREM KeyedCallsTakeEffectOnce == Spec => []OneEffectPerKey
<1>1. Init => ContentInv /\ RelationInv /\ KeyInv
    BY ContentInvInit, RelationInvInit, KeyInvInit
<1>2. ContentInv /\ RelationInv /\ KeyInv /\ [Next]_vars
          => (ContentInv /\ RelationInv /\ KeyInv)'
    BY ContentInvStep, RelationInvStep, KeyInvStep
<1>3. KeyInv => OneEffectPerKey
    BY DEF KeyInv, OneEffectPerKey
<1> QED BY <1>1, <1>2, <1>3, PTL DEF Spec
-----------------------------------------------------------------------------
(* Lifecycle events *)

LogTypes ==
    /\ lifecycleEvents \in Seq(LifecycleEvent)
    /\ \A i \in DOMAIN lifecycleEvents : lifecycleEvents[i].revision \in DOMAIN revisions
LogInv == LogTypes /\ LifecycleLogReplays

\* What LifecycleLogReplays says of one event.
LaterEvents(i) ==
    {j \in DOMAIN lifecycleEvents :
         j > i /\ lifecycleEvents[j].revision = lifecycleEvents[i].revision}
Continued(i) ==
    IF LaterEvents(i) = {}
    THEN revisions[lifecycleEvents[i].revision].status = lifecycleEvents[i].next
    ELSE \E j \in LaterEvents(i) :
             /\ \A k \in LaterEvents(i) : j <= k
             /\ lifecycleEvents[j].previous = lifecycleEvents[i].next

Transitions ==
    \E p \in DOMAIN pages, expected \in DOMAIN revisions :
        ArchivePage(p, expected) \/ RestoreArchivedPage(p, expected)

LEMMA OnlyTransitionsLog ==
    ASSUME [Next]_vars
    PROVE  Transitions \/ UNCHANGED lifecycleEvents
<1>1. ASSUME NEW key, NEW status, NEW mutability, NEW cited, NEW target,
             WritePage(mutability, status, cited, target, key)
      PROVE  UNCHANGED lifecycleEvents
    BY <1>1 DEF WritePage, CreatePage
<1>2. ASSUME NEW key, NEW basedOn, IngestPage(basedOn, key)
      PROVE  UNCHANGED lifecycleEvents
    BY <1>2 DEF IngestPage, CreatePage
<1>3. ASSUME NEW key, NEW from, NEW to, NEW type, LinkPages(from, type, to, key)
      PROVE  UNCHANGED lifecycleEvents
    BY <1>3 DEF LinkPages
<1>4. ASSUME NEW key, NEW p, NEW expected, NEW status, NEW cited, NEW target,
             RevisePage(p, expected, status, cited, target, key)
      PROVE  UNCHANGED lifecycleEvents
    BY <1>4 DEF RevisePage
<1>5. ASSUME NEW key, NEW p, NEW expected, NEW basedOn,
             RepairPage(p, expected, basedOn, key)
      PROVE  UNCHANGED lifecycleEvents
    BY <1>5 DEF RepairPage
<1>6. ASSUME NEW key, NEW p, NEW expected, DeletePage(p, expected, key)
      PROVE  UNCHANGED lifecycleEvents
    BY <1>6 DEF DeletePage
<1>7. ASSUME NEW root, TombstoneDerivationCascade(root)
      PROVE  UNCHANGED lifecycleEvents
    BY <1>7 DEF TombstoneDerivationCascade
<1> QED BY <1>1, <1>2, <1>3, <1>4, <1>5, <1>6, <1>7 DEF Next, vars, Transitions

\* The event of a transition continues the log of its Revision.
LEMMA TransitionKeepsLog ==
    ASSUME ContentInv, LogInv, Transitions
    PROVE  LogInv'
<1>1. PICK p \in DOMAIN pages, expected \in DOMAIN revisions, from \in Statuses,
           to \in Statuses :
               LifecycleTransition(p, expected, from, to)
    BY DEF Transitions, ArchivePage, RestoreArchivedPage, Statuses
<1> DEFINE event == [revision |-> expected, previous |-> from, next |-> to]
           n == Len(lifecycleEvents)
           log == lifecycleEvents
<1>2. /\ lifecycleEvents' = Append(log, event)
      /\ revisions' = [revisions EXCEPT ![expected].status = to]
      /\ revisions[expected].status = from
    BY <1>1 DEF LifecycleTransition, InStatus
<1>3. event \in LifecycleEvent /\ log \in Seq(LifecycleEvent) /\ n \in Nat
    BY <1>1 DEF LogInv, LogTypes, LifecycleEvent, ContentInv, PagesTypeOK
<1>4. revisions[expected] \in Revision
    BY DEF ContentInv, PagesTypeOK
<1>5. /\ DOMAIN revisions' = DOMAIN revisions
      /\ revisions'[expected].status = to
      /\ \A r \in DOMAIN revisions \ {expected} : revisions'[r] = revisions[r]
    BY <1>2, <1>4 DEF Revision
<1>6. /\ lifecycleEvents' \in Seq(LifecycleEvent)
      /\ DOMAIN lifecycleEvents' = 1..n + 1 /\ DOMAIN log = 1..n
      /\ \A i \in 1..n : lifecycleEvents'[i] = log[i]
      /\ lifecycleEvents'[n + 1] = event
    BY <1>2, <1>3
<1>7. LogTypes'
    BY <1>3, <1>5, <1>6 DEF LogInv, LogTypes
<1>8. ASSUME NEW i \in 1..n + 1
      PROVE  Continued(i)'
  <2> DEFINE later == LaterEvents(i)'
             before == LaterEvents(i)
  <2>a. /\ later = {j \in 1..n + 1 :
                        j > i /\ lifecycleEvents'[j].revision
                                   = lifecycleEvents'[i].revision}
        /\ before = {j \in 1..n : j > i /\ log[j].revision = log[i].revision}
      BY <1>6 DEF LaterEvents
  <2>b. i \in 1..n => Continued(i)
      BY <1>6 DEF LogInv, LifecycleLogReplays, Continued, LaterEvents
  <2> SUFFICES IF later = {}
               THEN revisions'[lifecycleEvents'[i].revision].status
                        = lifecycleEvents'[i].next
               ELSE \E j \in later :
                        /\ \A k \in later : j <= k
                        /\ lifecycleEvents'[j].previous = lifecycleEvents'[i].next
      BY DEF Continued
  <2> HIDE DEF later, before
  <2>1. CASE i = n + 1
    <3>1. later = {}
        BY <2>1, <2>a, <1>3
    <3> QED BY <3>1, <2>1, <1>5, <1>6
  <2>2. CASE i \in 1..n /\ before # {}
    <3>1. PICK j \in before : /\ \A k \in before : j <= k
                              /\ log[j].previous = log[i].next
        BY <2>2, <2>b DEF Continued, before
    <3>2. j \in later
        BY <3>1, <2>2, <2>a, <1>3, <1>6
    <3>3. \A k \in later : k \in before \/ k = n + 1
        BY <2>2, <2>a, <1>3, <1>6
    <3>4. \A k \in later : j <= k
        BY <3>1, <3>3, <2>a, <1>3
    <3>5. lifecycleEvents'[j].previous = lifecycleEvents'[i].next
        BY <3>1, <2>2, <2>a, <1>6
    <3> QED BY <3>2, <3>4, <3>5
  <2>3. CASE i \in 1..n /\ before = {}
    <3>1. revisions[log[i].revision].status = log[i].next
        BY <2>3, <2>b DEF Continued, before
    <3>2. \A k \in later : k = n + 1
        BY <2>3, <2>a, <1>3, <1>6
    <3>3. CASE log[i].revision = expected
      <4>1. n + 1 \in later
          BY <3>3, <2>3, <2>a, <1>3, <1>6
      <4>2. lifecycleEvents'[n + 1].previous = lifecycleEvents'[i].next
          BY <3>1, <3>3, <2>3, <1>2, <1>6
      <4> QED BY <4>1, <4>2, <3>2, <1>3
    <3>4. CASE log[i].revision # expected
      <4>1. later = {}
          BY <3>2, <3>4, <2>3, <2>a, <1>3, <1>6
      <4>2. log[i].revision \in DOMAIN revisions
          BY <2>3, <1>6 DEF LogInv, LogTypes
      <4> QED BY <4>1, <4>2, <3>1, <3>4, <2>3, <1>5, <1>6
    <3> QED BY <3>3, <3>4
  <2> QED BY <2>1, <2>2, <2>3, <1>3
<1>9. LifecycleLogReplays'
    BY <1>6, <1>8 DEF LifecycleLogReplays, Continued, LaterEvents
<1> QED BY <1>7, <1>9 DEF LogInv

LEMMA LogInvStep ==
    ASSUME ContentInv, LogInv, [Next]_vars
    PROVE  LogInv'
<1>1. CASE Transitions
    BY <1>1, TransitionKeepsLog
<1>2. CASE ~ Transitions
  <2>1. UNCHANGED lifecycleEvents
      BY <1>2, OnlyTransitionsLog
  <2>2. \A r \in DOMAIN revisions : r \in DOMAIN revisions' /\ revisions'[r] = revisions[r]
    <3>1. ASSUME NEW S, NEW id, Advance(S, id)
          PROVE  \A r \in DOMAIN revisions :
                     r \in DOMAIN revisions' /\ revisions'[r] = revisions[r]
        BY <3>1 DEF Advance
    <3> QED BY <3>1, <1>2, StepKinds DEF Transitions
  <2>3. LogTypes'
      BY <2>1, <2>2 DEF LogInv, LogTypes
  <2>4. \A i \in DOMAIN lifecycleEvents :
            revisions'[lifecycleEvents[i].revision] = revisions[lifecycleEvents[i].revision]
      BY <2>2 DEF LogInv, LogTypes
  <2>5. LifecycleLogReplays'
      BY <2>1, <2>4 DEF LogInv, LifecycleLogReplays
  <2> QED BY <2>3, <2>5 DEF LogInv
<1> QED BY <1>1, <1>2

LEMMA LogInvInit == Init => LogInv
BY DEF Init, LogInv, LogTypes, LifecycleLogReplays

LEMMA TablesAlways == Spec => [](ContentInv /\ RelationInv /\ KeyInv /\ LogInv)
<1>1. Init => ContentInv /\ RelationInv /\ KeyInv /\ LogInv
    BY ContentInvInit, RelationInvInit, KeyInvInit, LogInvInit
<1>2. ContentInv /\ RelationInv /\ KeyInv /\ LogInv /\ [Next]_vars
          => (ContentInv /\ RelationInv /\ KeyInv /\ LogInv)'
    BY ContentInvStep, RelationInvStep, KeyInvStep, LogInvStep
<1> QED BY <1>1, <1>2, PTL DEF Spec

\* The lifecycle events of every Revision tell its present status, through any
\* number of transitions, revisions and withdrawals in between (governance.rs),
\* and that status is the Page's own.
THEOREM EventsTellTheStatus == Spec => []StatusesAreTold
<1>1. ContentInv /\ LogInv => StatusesAreTold
    BY DEF ContentInv, LogInv, StatusesAreTold
<1> QED BY <1>1, TablesAlways, PTL

\* Every table of the store keeps its types and its references (schema.rs).
THEOREM StoreTypes == Spec => []TypeOK
<1>1. ContentInv /\ RelationInv /\ KeyInv /\ LogInv => TypeOK
    BY DEF ContentInv, RelationInv, RelationTables, KeyInv, LogInv, LogTypes, TypeOK,
           TablesTypeOK
<1> QED BY <1>1, TablesAlways, PTL

-----------------------------------------------------------------------------
(* Withdrawal from the relation graph *)

Unlinked(p) ==
    /\ pages'[p].head # pages[p].head
    /\ revisions'[pages'[p].head].origin \in {"delete", "retract"}
    => \A r \in DOMAIN relations' \ retracted' :
           p \notin {relations'[r].from, relations'[r].to}

LEMMA StepUnlinks ==
    ASSUME ContentInv, [Next]_vars, NEW p \in DOMAIN pages
    PROVE  Unlinked(p)
<1>0. /\ nextRevision \notin DOMAIN revisions /\ nextPage \notin DOMAIN pages
      /\ nextRevision \in Nat /\ nextPage \in Nat
    BY DEF ContentInv, PagesTypeOK
<1>1. CASE UNCHANGED pages
    BY <1>1 DEF Unlinked
<1>2. ASSUME NEW q \in DOMAIN pages, NEW rev, Publish(q, rev),
             rev.origin \notin {"delete", "retract"}
      PROVE  Unlinked(p)
    BY <1>0, <1>2 DEF Publish, Put, Unlinked, ContentInv, PagesTypeOK, Page
<1>3. ASSUME NEW key, NEW status, NEW mutability, NEW inputs, NEW origin, NEW target,
             CreatePage(mutability, status, inputs, origin, target, key)
      PROVE  Unlinked(p)
    BY <1>0, <1>3 DEF CreatePage, Put, Unlinked
<1>4. ASSUME NEW key, NEW q \in DOMAIN pages, NEW expected, NEW status, NEW cited, NEW target,
             RevisePage(q, expected, status, cited, target, key)
      PROVE  Unlinked(p)
  <2> DEFINE rev == [page |-> q, status |-> status, previous |-> pages[q].head,
                     inputs |-> InputsOf({expected}, cited),
                     origin |-> OriginOf("revise", cited),
                     call |-> CallOf("revise_page", key)]
  <2>1. Publish(q, rev)
      BY <1>4 DEF RevisePage
  <2>2. rev.origin \notin {"delete", "retract"}
      BY DEF OriginOf
  <2> HIDE DEF rev
  <2> QED BY <2>1, <2>2, <1>2
<1>5. ASSUME NEW key, NEW q \in DOMAIN pages, NEW expected, NEW basedOn,
             RepairPage(q, expected, basedOn, key)
      PROVE  Unlinked(p)
  <2> DEFINE rev == [page |-> q, status |-> pages[q].status,
                     previous |-> pages[q].head, inputs |-> basedOn \cup {expected},
                     origin |-> "repair", call |-> CallOf("repair_page", key)]
  <2>1. Publish(q, rev)
      BY <1>5 DEF RepairPage
  <2>2. rev.origin \notin {"delete", "retract"}
      OBVIOUS
  <2> HIDE DEF rev
  <2> QED BY <2>1, <2>2, <1>2
<1>6. ASSUME NEW key, NEW q \in DOMAIN pages, NEW expected, DeletePage(q, expected, key)
      PROVE  Unlinked(p)
  <2>1. /\ relations' = relations /\ retracted' = retracted \cup Incident({q})
        /\ p # q => pages'[p] = pages[p]
      BY <1>6 DEF DeletePage, Publish
  <2>2. CASE p = q
      BY <2>1, <2>2 DEF Unlinked, Incident
  <2>3. CASE p # q
      BY <2>1, <2>3 DEF Unlinked
  <2> QED BY <2>2, <2>3
<1>7. ASSUME NEW q \in DOMAIN pages, NEW expected \in DOMAIN revisions,
             ArchivePage(q, expected) \/ RestoreArchivedPage(q, expected)
      PROVE  Unlinked(p)
  <2>1. PICK to : pages' = [pages EXCEPT ![q].status = to]
      BY <1>7 DEF ArchivePage, RestoreArchivedPage, LifecycleTransition
  <2>2. pages'[p].head = pages[p].head
      BY <2>1 DEF ContentInv, PagesTypeOK, Page
  <2> QED BY <2>2 DEF Unlinked
<1>8. ASSUME NEW root \in DOMAIN revisions, TombstoneDerivationCascade(root)
      PROVE  Unlinked(p)
  <2>1. /\ relations' = relations
        /\ retracted' = retracted \cup
               Incident({revisions[r].page : r \in Downstream(root)})
        /\ p \notin Touched(Downstream(root)) => pages'[p] = pages[p]
      BY <1>8 DEF TombstoneDerivationCascade
  <2>2. CASE p \in Touched(Downstream(root))
    <3>1. p \in {revisions[r].page : r \in Downstream(root)}
        BY <2>2 DEF Touched
    <3> QED BY <2>1, <3>1 DEF Unlinked, Incident
  <2>3. CASE p \notin Touched(Downstream(root))
      BY <2>1, <2>3 DEF Unlinked
  <2> QED BY <2>2, <2>3
<1> QED BY <1>1, <1>3, <1>4, <1>5, <1>6, <1>7, <1>8 DEF Next, vars, WritePage, IngestPage,
          LinkPages

\* Whatever links were made before, a deletion or a cascade that withdraws a
\* Page takes it out of the relation graph in the same transaction
\* (retract.rs, retract_incident_relations).
THEOREM WithdrawalUnlinks == Spec => UnlinkedWhenWithdrawn
<1>1. ContentInv /\ [Next]_vars => \A p \in DOMAIN pages : Unlinked(p)
    BY StepUnlinks
<1> QED BY <1>1, ContentCorrect, PTL DEF Spec, UnlinkedWhenWithdrawn, Unlinked
=============================================================================
