----------------------- MODULE StoreOperations_proofs -----------------------
(***************************************************************************)
(* Proofs about Projections, Storage and Migration, the three parts of the *)
(* store that MCStoreOperations runs beside each other; none uses          *)
(* another's invariant.                                                    *)
(***************************************************************************)
EXTENDS Migration, Projections, Storage, FiniteSetTheorems, WellFoundedInduction, TLAPS

-----------------------------------------------------------------------------
(***************************************************************************)
(* Projections, for any number of memories and any bounds.                 *)
(* Pages and Revisions are numbered as they come, and whatever shows a     *)
(* Revision, a Topic that routes to it or a fusion that carries it, was    *)
(* written after it: so a Page that is hidden by ever newer ones is shown  *)
(* by the newest.  A feedback Page takes its answers along when it is      *)
(* edited, and nothing else becomes its head.                              *)
(***************************************************************************)

-----------------------------------------------------------------------------
(* The inductive invariant                                                 *)

PageKinds == {"memory", "summary", "assessment", "topic", "fused", "feedback", "tombstone"}
Statuses == {"active", "archived", "tombstoned"}

\* Pages and Revisions are numbered from 1, and each Page heads its own.
Numbered ==
    /\ \E n \in Nat : DOMAIN pages = 1 .. n
    /\ \E k \in Nat : DOMAIN revs = 1 .. k
    /\ pages \in [DOMAIN pages -> [kind : PageKinds, head : DOMAIN revs, status : Statuses]]
    /\ revs \in [DOMAIN revs -> [page : DOMAIN pages, status : Statuses]]
    /\ \A p \in DOMAIN pages : revs[pages[p].head].page = p

\* The tables name what they are about, and no feedback.
RowsNamed ==
    /\ DOMAIN summaries \subseteq DOMAIN revs /\ DOMAIN assessments \subseteq DOMAIN revs
    /\ \A s \in DOMAIN summaries : summaries[s] \in DOMAIN revs
    /\ \A a \in DOMAIN assessments : assessments[a].target \in DOMAIN revs
SummaryRow(p) ==
    /\ p \in DOMAIN pages /\ summaryHeads[p] \in DOMAIN pages
    /\ pages[summaryHeads[p]].kind # "feedback"
    /\ \E s \in DOMAIN summaries :
          revs[s].page = summaryHeads[p] /\ revs[summaries[s]].page = p
ValidityRow(p) ==
    /\ p \in DOMAIN pages /\ validityHeads[p] \in DOMAIN pages
    /\ pages[validityHeads[p]].kind # "feedback"
    /\ \E a \in DOMAIN assessments :
          revs[a].page = validityHeads[p] /\ revs[assessments[a].target].page = p
Referring ==
    /\ RowsNamed
    /\ \A p \in DOMAIN summaryHeads : SummaryRow(p)
    /\ \A p \in DOMAIN validityHeads : ValidityRow(p)

\* What shows a Revision was written after it.
Later ==
    /\ \A m \in DOMAIN members :
          m \in DOMAIN revs /\ \A r \in members[m] : r \in DOMAIN revs /\ r < m
    /\ \A f \in fusions : \A r \in DOMAIN f.covers :
          r \in DOMAIN revs /\ \A o \in f.covers[r] : o \in DOMAIN revs /\ r < o

\* Supersession by links, as edges between Pages.
Supersedes(L) == {<<l[1], l[3]>> : l \in {k \in L : k[2] = "supersedes"}}
Ordered ==
    /\ \A l \in links : l[1] \in DOMAIN pages /\ l[3] \in DOMAIN pages
    /\ AcyclicGraph(DOMAIN pages, Supersedes(links))

\* What was decided of a feedback Page that is not deleted is what its head says.
Answered(d) ==
    /\ pages[d[1]].kind = "feedback" /\ HeadOf(d[1]) \in DOMAIN signals
    /\ d[2] \in DOMAIN signals[HeadOf(d[1])]
    /\ signals[HeadOf(d[1])][d[2]] = d[3] /\ d[3] # "pending"
Decided ==
    /\ DOMAIN signals \subseteq DOMAIN revs
    /\ \A p \in DOMAIN pages : HeadOf(p) \in DOMAIN signals => pages[p].kind = "feedback"
    /\ \A d \in decided :
          /\ d[1] \in DOMAIN pages
          /\ pages[d[1]].status # "tombstoned" => Answered(d)
          /\ \A e \in decided : e[1] = d[1] /\ e[2] = d[2] => e = d

ProjectionInv == Numbered /\ Referring /\ Later /\ Ordered /\ Decided

\* Nothing changes its Page, its kind but to be deleted, or is alive again.
Grown ==
    /\ \A r \in DOMAIN revs : r \in DOMAIN revs' /\ revs'[r].page = revs[r].page
    /\ \A p \in DOMAIN pages :
          /\ p \in DOMAIN pages' /\ pages'[p].kind \in {pages[p].kind, "tombstone"}
          /\ pages[p].status = "tombstoned" => pages'[p].status = "tombstoned"

-----------------------------------------------------------------------------
(* Numbers and reachability                                                *)

\* Some numbers below a bound have a largest one.
LEMMA Largest ==
    ASSUME NEW k \in Nat, NEW S \in SUBSET (1 .. k), S # {}
    PROVE  \E m \in S : \A s \in S : ~(m < s)
<1>. DEFINE T == {k - s : s \in S}
<1>1. T \subseteq Nat /\ T # {}
  <2>1. \A s \in S : k - s \in Nat
    OBVIOUS
  <2>. QED  BY <2>1
<1>2. IsWellFoundedOn(OpToRel(<, Nat), Nat)
  BY NatLessThanWellFounded
<1>3. \E x \in T : \A y \in T : ~(<<y, x>> \in OpToRel(<, Nat))
  BY <1>1, <1>2, WFMin
<1>4. PICK x \in T : \A y \in T : ~(<<y, x>> \in OpToRel(<, Nat))
  BY <1>3
<1>5. \A y \in T : ~(y < x)
  BY <1>1, <1>4 DEF OpToRel
<1>6. PICK m \in S : x = k - m
  OBVIOUS
<1>7. \A s \in S : ~(m < s)
  BY <1>5, <1>6
<1>. QED  BY <1>7

\* What is reached holds its start and is left by no edge.
LEMMA ReachIsClosed ==
    ASSUME NEW nodes, NEW start \in nodes, NEW edges
    PROVE  /\ start \in Reach(nodes, start, edges)
           /\ Reach(nodes, start, edges) \subseteq nodes
           /\ \A n \in Reach(nodes, start, edges), m \in nodes :
                 <<n, m>> \in edges => m \in Reach(nodes, start, edges)
<1>1. start \in Reach(nodes, start, edges) /\ Reach(nodes, start, edges) \subseteq nodes
  BY DEF Reach
<1>2. ASSUME NEW n \in Reach(nodes, start, edges), NEW m \in nodes, <<n, m>> \in edges,
             NEW S \in SUBSET nodes, start \in S, Closed(S, edges)
      PROVE  m \in S
  <2>1. n \in S
    BY <1>2 DEF Reach
  <2>2. <<n, m>>[1] \in S => <<n, m>>[2] \in S
    BY <1>2 DEF Closed
  <2>. QED  BY <2>1, <2>2
<1>3. ASSUME NEW n \in Reach(nodes, start, edges), NEW m \in nodes, <<n, m>> \in edges
      PROVE  m \in Reach(nodes, start, edges)
  BY <1>2, <1>3 DEF Reach
<1>. QED  BY <1>1, <1>3

\* A graph without circles has none when it gets nodes and loses edges.
LEMMA FewerEdges ==
    ASSUME NEW N, NEW M, N \subseteq M, NEW E, NEW F, F \subseteq E, AcyclicGraph(N, E),
           \A e \in E : e[1] \in N /\ e[2] \in N
    PROVE  AcyclicGraph(M, F)
<1>. SUFFICES ASSUME NEW e \in F PROVE e[1] \notin Reach(M, e[2], F)
  BY DEF AcyclicGraph
<1>1. e[1] \notin Reach(N, e[2], E) /\ e[1] \in N
  BY DEF AcyclicGraph
<1>2. PICK S \in SUBSET N : e[2] \in S /\ Closed(S, E) /\ e[1] \notin S
  BY <1>1 DEF Reach
<1>3. S \in SUBSET M /\ Closed(S, F)
  BY <1>2 DEF Closed
<1>. QED  BY <1>2, <1>3 DEF Reach

\* Nor when it gets an edge to another node from one that no edge enters.
LEMMA EdgeFromASource ==
    ASSUME NEW N, NEW E, AcyclicGraph(N, E), NEW n \in N, NEW m \in N, n # m,
           \A e \in E : e[1] \in N /\ e[2] \in N /\ e[2] # n
    PROVE  AcyclicGraph(N, E \cup {<<n, m>>})
<1>. DEFINE F == E \cup {<<n, m>>}
<1>. SUFFICES ASSUME NEW e \in F PROVE e[1] \notin Reach(N, e[2], F)
  BY DEF AcyclicGraph
<1>1. CASE e \in E
  <2>1. e[1] \notin Reach(N, e[2], E) /\ e[1] \in N /\ e[2] # n
    BY <1>1 DEF AcyclicGraph
  <2>2. PICK S \in SUBSET N : e[2] \in S /\ Closed(S, E) /\ e[1] \notin S
    BY <2>1 DEF Reach
  <2>. DEFINE T == S \ {n}
  <2>3. T \in SUBSET N /\ e[2] \in T /\ e[1] \notin T
    BY <2>1, <2>2
  <2>4. Closed(T, F)
    <3>. SUFFICES ASSUME NEW f \in F, f[1] \in T PROVE f[2] \in T
      BY DEF Closed
    <3>1. f \in E
      OBVIOUS
    <3>. QED  BY <2>2, <3>1 DEF Closed
  <2>. QED  BY <2>3, <2>4 DEF Reach
<1>2. CASE e = <<n, m>>
  <2>. DEFINE T == N \ {n}
  <2>1. T \in SUBSET N /\ e[2] \in T /\ e[1] \notin T
    BY <1>2
  <2>2. Closed(T, F)
    <3>. SUFFICES ASSUME NEW f \in F, f[1] \in T PROVE f[2] \in T
      BY DEF Closed
    <3>. QED  OBVIOUS
  <2>. QED  BY <2>1, <2>2 DEF Reach
<1>. QED  BY <1>1, <1>2

-----------------------------------------------------------------------------
(* New Pages and Revisions                                                 *)

LEMMA OneMore ==
    ASSUME NEW n \in Nat, n # 0
    PROVE  (1 .. n - 1) \cup {n} = 1 .. n
OBVIOUS

LEMMA NumbersAreNew ==
    ASSUME Numbered
    PROVE  /\ NewPage \in Nat /\ NewPage \notin DOMAIN pages /\ NewPage # 0
           /\ NewRevision \in Nat /\ NewRevision \notin DOMAIN revs /\ NewRevision # 0
           /\ DOMAIN pages = 1 .. NewPage - 1 /\ DOMAIN revs = 1 .. NewRevision - 1
<1>1. PICK n \in Nat : DOMAIN pages = 1 .. n
  BY DEF Numbered
<1>2. PICK k \in Nat : DOMAIN revs = 1 .. k
  BY DEF Numbered
<1>3. \A i \in Nat : Cardinality(1 .. i) = i
  BY FS_Interval
<1>4. NewPage = n + 1
  BY <1>1, <1>3 DEF NewPage
<1>5. NewRevision = k + 1
  BY <1>2, <1>3 DEF NewRevision
<1>. QED  BY <1>1, <1>2, <1>4, <1>5

\* A Revision is published, of a new Page or of one that keeps its kind.
Publication(p, kind, status) ==
    /\ Numbered' /\ Grown
    /\ DOMAIN revs' = DOMAIN revs \cup {NewRevision}
    /\ revs'[NewRevision] = [page |-> p, status |-> status]
    /\ \A r \in DOMAIN revs : revs'[r] = revs[r]
    /\ DOMAIN pages' = DOMAIN pages \cup {p}
    /\ pages'[p].head = NewRevision /\ pages'[p].kind = kind
    /\ \A q \in DOMAIN pages : q # p => pages'[q] = pages[q]

LEMMA PublicationsAreNumbered ==
    ASSUME Numbered, NEW p, NEW kind \in PageKinds, NEW status \in Statuses,
           \/ p \in DOMAIN pages /\ kind = pages[p].kind
           \/ p = NewPage,
           Published(p, kind, status)
    PROVE  Publication(p, kind, status)
<1>. DEFINE row == [kind |-> kind, head |-> NewRevision,
                    status |-> IF p \in DOMAIN pages THEN pages[p].status ELSE status]
<1>1. revs' = Put(revs, NewRevision, [page |-> p, status |-> status]) /\ pages' = Put(pages, p, row)
  BY DEF Published
<1>2. /\ NewPage \in Nat /\ NewPage \notin DOMAIN pages
      /\ NewRevision \in Nat /\ NewRevision \notin DOMAIN revs /\ NewPage # 0 /\ NewRevision # 0
      /\ DOMAIN pages = 1 .. NewPage - 1 /\ DOMAIN revs = 1 .. NewRevision - 1
  BY NumbersAreNew
<1>. HIDE DEF row
<1>3. /\ DOMAIN revs' = DOMAIN revs \cup {NewRevision}
      /\ revs'[NewRevision] = [page |-> p, status |-> status]
      /\ \A r \in DOMAIN revs : revs'[r] = revs[r]
  BY <1>1, <1>2 DEF Put
<1>4. /\ DOMAIN pages' = DOMAIN pages \cup {p} /\ pages'[p] = row
      /\ \A q \in DOMAIN pages : q # p => pages'[q] = pages[q]
  BY <1>1 DEF Put
<1>5. row.head = NewRevision /\ row.kind = kind
      /\ row \in [kind : PageKinds, head : DOMAIN revs', status : Statuses]
      /\ (p \in DOMAIN pages => row.status = pages[p].status)
  BY <1>3 DEF row, Numbered
<1>6. \E n \in Nat : DOMAIN pages' = 1 .. n
  <2>1. CASE p \in DOMAIN pages
    <3>1. DOMAIN pages' = DOMAIN pages
      BY <1>4, <2>1
    <3>. QED  BY <3>1 DEF Numbered
  <2>2. CASE p = NewPage
    <3>1. DOMAIN pages' = 1 .. NewPage
      BY <1>2, <1>4, <2>2, OneMore
    <3>. QED  BY <1>2, <3>1
  <2>. QED  BY <2>1, <2>2
<1>7. \E k \in Nat : DOMAIN revs' = 1 .. k
  <2>1. DOMAIN revs' = 1 .. NewRevision
    BY <1>2, <1>3, OneMore
  <2>. QED  BY <1>2, <2>1
<1>8. pages' \in [DOMAIN pages' -> [kind : PageKinds, head : DOMAIN revs', status : Statuses]]
  <2>1. pages' = [q \in DOMAIN pages' |-> pages'[q]]
    BY <1>1 DEF Put
  <2>2. \A q \in DOMAIN pages' : pages'[q] \in [kind : PageKinds, head : DOMAIN revs', status : Statuses]
    <3>. SUFFICES ASSUME NEW q \in DOMAIN pages', q # p
                  PROVE  pages'[q] \in [kind : PageKinds, head : DOMAIN revs', status : Statuses]
      BY <1>4, <1>5
    <3>1. pages'[q] = pages[q] /\ pages[q] \in [kind : PageKinds, head : DOMAIN revs, status : Statuses]
      BY <1>4 DEF Numbered
    <3>. QED  BY <1>3, <3>1
  <2>. QED  BY <2>1, <2>2
<1>9. revs' \in [DOMAIN revs' -> [page : DOMAIN pages', status : Statuses]]
  <2>1. revs' = [q \in DOMAIN revs' |-> revs'[q]]
    BY <1>1 DEF Put
  <2>2. \A r \in DOMAIN revs' : revs'[r] \in [page : DOMAIN pages', status : Statuses]
    BY <1>3, <1>4 DEF Numbered
  <2>. QED  BY <2>1, <2>2
<1>10. \A q \in DOMAIN pages' : revs'[pages'[q].head].page = q
  <2>. SUFFICES ASSUME NEW q \in DOMAIN pages' PROVE revs'[pages'[q].head].page = q
    OBVIOUS
  <2>1. CASE q = p
    BY <1>3, <1>4, <1>5, <2>1
  <2>2. CASE q # p
    <3>1. q \in DOMAIN pages /\ pages'[q] = pages[q]
      BY <1>4, <2>2
    <3>2. pages[q].head \in DOMAIN revs /\ revs[pages[q].head].page = q
      BY <3>1 DEF Numbered
    <3>. QED  BY <1>3, <3>1, <3>2
  <2>. QED  BY <2>1, <2>2
<1>11. Numbered'
  BY <1>6, <1>7, <1>8, <1>9, <1>10 DEF Numbered
<1>12. Grown
  BY <1>2, <1>3, <1>4, <1>5 DEF Grown
<1>. QED  BY <1>3, <1>4, <1>5, <1>11, <1>12 DEF Publication

-----------------------------------------------------------------------------
(* What is hidden is shown                                                 *)

\* What shows an effective Page that is not recalled is effective and newer.
LEMMA ShownByNewer ==
    ASSUME Numbered, Later, NEW p \in DOMAIN pages, Effective(p), ~Recalled(p)
    PROVE  \E q \in DOMAIN pages :
              q \in Routes(p) \cup Coverage(p) /\ Effective(q) /\ HeadOf(p) < HeadOf(q)
<1>1. CASE Routes(p) # {}
  <2>1. PICK t \in DOMAIN pages : /\ HeadOf(t) \in DOMAIN members
                                  /\ HeadOf(p) \in members[HeadOf(t)] /\ Effective(t)
    BY <1>1 DEF Routes
  <2>2. t \in Routes(p)
    BY <2>1 DEF Routes
  <2>. QED  BY <2>1, <2>2 DEF Later
<1>2. CASE Coverage(p) # {}
  <2>1. PICK f \in fusions : /\ HeadOf(p) \in DOMAIN f.covers
                             /\ \A o \in f.covers[HeadOf(p)] : IsHead(o) /\ Effective(revs[o].page)
                             /\ PagesOf(f.covers[HeadOf(p)]) # {}
    BY <1>2 DEF Coverage
  <2>2. PICK o \in f.covers[HeadOf(p)] : TRUE
    BY <2>1 DEF PagesOf
  <2>3. revs[o].page \in Coverage(p)
    BY <2>1, <2>2 DEF Coverage, PagesOf
  <2>4. o \in DOMAIN revs /\ HeadOf(p) < o
    BY <2>1, <2>2 DEF Later
  <2>5. revs[o].page \in DOMAIN pages /\ HeadOf(revs[o].page) = o
    BY <2>1, <2>2, <2>4 DEF Numbered, IsHead
  <2>. QED  BY <2>1, <2>2, <2>3, <2>4, <2>5
<1>. QED  BY <1>1, <1>2 DEF Recalled

\* Of the effective Pages that are reached from a Page the newest is recalled.
LEMMA NewestIsRecalled ==
    ASSUME Numbered, Later
    PROVE  ShownReaches
<1>. DEFINE shows == UNION {{<<p, q>> : q \in Routes(p) \cup Coverage(p)} : p \in DOMAIN pages}
<1>. SUFFICES ASSUME NEW p \in DOMAIN pages, Effective(p)
              PROVE  \E q \in Reach(DOMAIN pages, p, shows) : Recalled(q)
  BY DEF ShownReaches
<1>. DEFINE R == Reach(DOMAIN pages, p, shows)
            S == {HeadOf(q) : q \in {r \in R : Effective(r)}}
<1>1. p \in R /\ R \subseteq DOMAIN pages
  BY ReachIsClosed
<1>2. PICK k \in Nat : DOMAIN revs = 1 .. k
  BY DEF Numbered
<1>3. \A q \in DOMAIN pages : HeadOf(q) \in 1 .. k
  BY <1>2 DEF Numbered, HeadOf
<1>4. S \in SUBSET (1 .. k) /\ S # {}
  BY <1>1, <1>3
<1>5. PICK m \in S : \A s \in S : ~(m < s)
  BY <1>4, Largest
<1>6. PICK q \in R : Effective(q) /\ m = HeadOf(q)
  BY <1>5
<1>7. ASSUME ~Recalled(q) PROVE FALSE
  <2>1. PICK t \in DOMAIN pages : t \in Routes(q) \cup Coverage(q) /\ Effective(t) /\ HeadOf(q) < HeadOf(t)
    BY <1>1, <1>6, <1>7, ShownByNewer
  <2>2. <<q, t>> \in shows
    BY <1>1, <2>1
  <2>. HIDE DEF shows
  <2>3. t \in R
    BY <1>6, <2>1, <2>2, ReachIsClosed
  <2>4. HeadOf(t) \in S
    BY <2>1, <2>3
  <2>. QED  BY <1>5, <1>6, <2>1, <2>4
<1>. QED  BY <1>6, <1>7

-----------------------------------------------------------------------------
(* What a step has to leave alone                                          *)

RowsKept ==
    /\ \A s \in DOMAIN summaries : s \in DOMAIN summaries' /\ summaries'[s] = summaries[s]
    /\ \A a \in DOMAIN assessments : a \in DOMAIN assessments' /\ assessments'[a] = assessments[a]

LEMMA SummaryRowStays ==
    ASSUME Referring, Grown, RowsKept, NEW p \in DOMAIN summaryHeads,
           summaryHeads'[p] = summaryHeads[p]
    PROVE  SummaryRow(p)'
<1>1. SummaryRow(p)
  BY DEF Referring
<1>2. PICK s \in DOMAIN summaries : revs[s].page = summaryHeads[p] /\ revs[summaries[s]].page = p
  BY <1>1 DEF SummaryRow
<1>3. s \in DOMAIN revs /\ summaries[s] \in DOMAIN revs
  BY DEF Referring, RowsNamed
<1>4. revs'[s].page = summaryHeads'[p] /\ revs'[summaries'[s]].page = p /\ s \in DOMAIN summaries'
  BY <1>2, <1>3 DEF Grown, RowsKept
<1>. QED  BY <1>1, <1>4 DEF Grown, SummaryRow

LEMMA ValidityRowStays ==
    ASSUME Referring, Grown, RowsKept, NEW p \in DOMAIN validityHeads,
           validityHeads'[p] = validityHeads[p]
    PROVE  ValidityRow(p)'
<1>1. ValidityRow(p)
  BY DEF Referring
<1>2. PICK a \in DOMAIN assessments :
         revs[a].page = validityHeads[p] /\ revs[assessments[a].target].page = p
  BY <1>1 DEF ValidityRow
<1>3. a \in DOMAIN revs /\ assessments[a].target \in DOMAIN revs
  BY DEF Referring, RowsNamed
<1>4. /\ revs'[a].page = validityHeads'[p] /\ revs'[assessments'[a].target].page = p
      /\ a \in DOMAIN assessments'
  BY <1>2, <1>3 DEF Grown, RowsKept
<1>. QED  BY <1>1, <1>4 DEF Grown, ValidityRow

LEMMA ReferringGrows ==
    ASSUME Referring, Grown, RowsKept, RowsNamed', UNCHANGED validityHeads,
           \A p \in DOMAIN summaryHeads' : p \in DOMAIN summaryHeads /\ summaryHeads'[p] = summaryHeads[p]
    PROVE  Referring'
<1>1. \A p \in DOMAIN summaryHeads' : SummaryRow(p)'
  BY SummaryRowStays
<1>2. \A p \in DOMAIN validityHeads' : ValidityRow(p)'
  BY ValidityRowStays
<1>. QED  BY <1>1, <1>2 DEF Referring

LEMMA ReferringStays ==
    ASSUME Referring, Grown, UNCHANGED <<summaries, assessments, validityHeads, summaryHeads>>
    PROVE  Referring'
<1>1. RowsKept
  BY DEF RowsKept
<1>2. RowsNamed'
  BY DEF Referring, RowsNamed, Grown
<1>. QED  BY <1>1, <1>2, ReferringGrows

LEMMA LaterGrows ==
    ASSUME Later, Grown, UNCHANGED <<members, fusions>>
    PROVE  Later'
BY DEF Later, Grown

LEMMA OrderedShrinks ==
    ASSUME Ordered, Grown, Supersedes(links') \subseteq Supersedes(links),
           \A l \in links' : l \in links \/ (l[1] \in DOMAIN pages' /\ l[3] \in DOMAIN pages')
    PROVE  Ordered'
<1>1. DOMAIN pages \subseteq DOMAIN pages'
  BY DEF Grown
<1>2. \A e \in Supersedes(links) : e[1] \in DOMAIN pages /\ e[2] \in DOMAIN pages
  BY DEF Supersedes, Ordered
<1>3. AcyclicGraph(DOMAIN pages', Supersedes(links'))
  BY <1>1, <1>2, FewerEdges DEF Ordered
<1>4. \A l \in links' : l[1] \in DOMAIN pages' /\ l[3] \in DOMAIN pages'
  BY <1>1 DEF Ordered
<1>. QED  BY <1>3, <1>4 DEF Ordered, Supersedes

\* Feedback that is not deleted stays feedback and takes its answers along.
AnswersStay ==
    /\ DOMAIN signals' \subseteq DOMAIN revs'
    /\ \A p \in DOMAIN pages' : pages'[p].head \in DOMAIN signals' => pages'[p].kind = "feedback"
    /\ \A p \in DOMAIN pages : pages[p].kind = "feedback" /\ pages'[p].status # "tombstoned" =>
          /\ pages'[p].kind = "feedback"
          /\ HeadOf(p) \in DOMAIN signals =>
                pages'[p].head \in DOMAIN signals' /\ signals'[pages'[p].head] = signals[HeadOf(p)]

LEMMA DecidedStays ==
    ASSUME Decided, Grown, AnswersStay, decided' = decided
    PROVE  Decided'
<1>1. ASSUME NEW d \in decided, pages'[d[1]].status # "tombstoned"
      PROVE  Answered(d)'
  <2>1. d[1] \in DOMAIN pages
    BY DEF Decided
  <2>2. pages[d[1]].status # "tombstoned"
    BY <1>1, <2>1 DEF Grown
  <2>3. Answered(d)
    BY <2>2 DEF Decided
  <2>. QED  BY <1>1, <2>1, <2>3 DEF Answered, AnswersStay, HeadOf
<1>2. \A d \in decided : d[1] \in DOMAIN pages'
  BY DEF Decided, Grown
<1>3. /\ DOMAIN signals' \subseteq DOMAIN revs'
      /\ \A p \in DOMAIN pages' : HeadOf(p)' \in DOMAIN signals' => pages'[p].kind = "feedback"
  BY DEF AnswersStay, HeadOf
<1>. QED  BY <1>1, <1>2, <1>3 DEF Decided

\* A Page that is no feedback is published, and the signals stay.
LEMMA PublicationsAnswerNothing ==
    ASSUME NEW p, NEW kind, NEW status, Numbered, Decided, Publication(p, kind, status),
           UNCHANGED signals, p \in DOMAIN pages => pages[p].kind # "feedback"
    PROVE  AnswersStay
<1>1. NewRevision \notin DOMAIN revs
  BY NumbersAreNew
<1>2. \A q \in DOMAIN pages' : pages'[q].head \in DOMAIN signals' => q \in DOMAIN pages /\ pages'[q] = pages[q]
  BY <1>1 DEF Publication, Decided
<1>. QED  BY <1>2 DEF Publication, AnswersStay, HeadOf, Decided

-----------------------------------------------------------------------------
(* The steps                                                               *)

LEMMA EditKeeps ==
    ASSUME ProjectionInv, NEW p \in DOMAIN pages, Edit(p)
    PROVE  ProjectionInv'
<1>. USE DEF ProjectionInv
<1>. DEFINE kind == pages[p].kind
            status == revs[HeadOf(p)].status
<1>1. kind \in PageKinds /\ HeadOf(p) \in DOMAIN revs /\ status \in Statuses
  BY DEF Numbered, HeadOf
<1>2. Published(p, kind, status)
  BY DEF Edit
<1>. HIDE DEF kind, status
<1>3. Publication(p, kind, status)
  BY <1>1, <1>2, PublicationsAreNumbered DEF kind
<1>4. Numbered' /\ Grown
  BY <1>3 DEF Publication
<1>5. NewRevision \notin DOMAIN revs
  BY NumbersAreNew
<1>6. Referring'
  <2>1. CASE UNCHANGED summaries
    BY <1>4, <2>1, ReferringStays DEF Edit
  <2>2. CASE HeadOf(p) \in DOMAIN summaries /\ summaries' = Put(summaries, NewRevision, summaries[HeadOf(p)])
    <3>1. /\ DOMAIN summaries' = DOMAIN summaries \cup {NewRevision}
          /\ summaries'[NewRevision] = summaries[HeadOf(p)]
          /\ \A s \in DOMAIN summaries : summaries'[s] = summaries[s]
      BY <1>5, <2>2 DEF Put, Referring, RowsNamed
    <3>2. RowsNamed' /\ RowsKept
      BY <1>3, <2>2, <3>1 DEF Edit, Referring, Publication, RowsNamed, RowsKept
    <3>. QED  BY <1>4, <3>2, ReferringGrows DEF Edit
  <2>. QED  BY <2>1, <2>2 DEF Edit
<1>7. Later'
  BY <1>4, LaterGrows DEF Edit
<1>8. Ordered'
  BY <1>4, OrderedShrinks DEF Edit
<1>9. AnswersStay
  <2>1. CASE HeadOf(p) \in DOMAIN signals
    <3>1. signals' = Put(signals, NewRevision, signals[HeadOf(p)])
      BY <2>1 DEF Edit
    <3>2. /\ DOMAIN signals' = DOMAIN signals \cup {NewRevision}
          /\ signals'[NewRevision] = signals[HeadOf(p)]
          /\ \A s \in DOMAIN signals : signals'[s] = signals[s]
      BY <1>5, <3>1 DEF Put, Decided
    <3>3. DOMAIN signals' \subseteq DOMAIN revs'
      BY <1>3, <3>2 DEF Publication, Decided
    <3>4. ASSUME NEW q \in DOMAIN pages', pages'[q].head \in DOMAIN signals'
          PROVE  pages'[q].kind = "feedback"
      <4>1. CASE q = p
        BY <1>3, <2>1, <4>1 DEF Publication, Decided, kind
      <4>2. CASE q # p
        <5>1. q \in DOMAIN pages /\ pages'[q] = pages[q] /\ pages[q].head \in DOMAIN revs
          BY <1>3, <4>2 DEF Publication, Numbered
        <5>2. pages[q].head \in DOMAIN signals
          BY <1>5, <3>2, <3>4, <5>1
        <5>. QED  BY <5>1, <5>2 DEF Decided, HeadOf
      <4>. QED  BY <4>1, <4>2
    <3>5. ASSUME NEW q \in DOMAIN pages, pages[q].kind = "feedback", HeadOf(q) \in DOMAIN signals
          PROVE  /\ pages'[q].kind = "feedback" /\ pages'[q].head \in DOMAIN signals'
                 /\ signals'[pages'[q].head] = signals[HeadOf(q)]
      <4>1. CASE q = p
        BY <1>3, <3>2, <3>5, <4>1 DEF Publication, kind
      <4>2. CASE q # p
        BY <1>3, <3>2, <3>5, <4>2 DEF Publication, HeadOf
      <4>. QED  BY <4>1, <4>2
    <3>6. ASSUME NEW q \in DOMAIN pages, pages[q].kind = "feedback" PROVE pages'[q].kind = "feedback"
      BY <1>3, <3>6 DEF Publication, kind
    <3>. QED  BY <3>3, <3>4, <3>5, <3>6 DEF AnswersStay
  <2>2. CASE HeadOf(p) \notin DOMAIN signals
    <3>1. signals' = signals
      BY <2>2 DEF Edit
    <3>2. DOMAIN signals' \subseteq DOMAIN revs'
      BY <1>3, <3>1 DEF Publication, Decided
    <3>3. ASSUME NEW q \in DOMAIN pages', pages'[q].head \in DOMAIN signals'
          PROVE  pages'[q].kind = "feedback"
      <4>1. q # p
        BY <1>3, <1>5, <3>1, <3>3 DEF Publication, Decided
      <4>2. q \in DOMAIN pages /\ pages'[q] = pages[q]
        BY <1>3, <4>1 DEF Publication
      <4>. QED  BY <3>1, <3>3, <4>2 DEF Decided, HeadOf
    <3>4. ASSUME NEW q \in DOMAIN pages, pages[q].kind = "feedback"
          PROVE  pages'[q].kind = "feedback" /\ (HeadOf(q) \in DOMAIN signals => pages'[q] = pages[q])
      BY <1>3, <2>2, <3>4 DEF Publication, kind
    <3>. QED  BY <3>1, <3>2, <3>3, <3>4 DEF AnswersStay, HeadOf
  <2>. QED  BY <2>1, <2>2
<1>10. Decided'
  BY <1>4, <1>9, DecidedStays DEF Edit
<1>. QED  BY <1>4, <1>6, <1>7, <1>8, <1>10

LEMMA TransitionKeeps ==
    ASSUME ProjectionInv, NEW p \in DOMAIN pages, NEW from, NEW to \in Statuses, from # "tombstoned",
           Transition(p, from, to)
    PROVE  ProjectionInv'
<1>. USE DEF ProjectionInv
<1>1. /\ HeadOf(p) \in DOMAIN revs /\ pages[p].status = from
      /\ pages' = [pages EXCEPT ![p].status = to]
      /\ revs' = [revs EXCEPT ![HeadOf(p)].status = to]
  BY DEF Transition, Numbered, HeadOf
<1>2. /\ DOMAIN pages' = DOMAIN pages /\ DOMAIN revs' = DOMAIN revs
      /\ \A q \in DOMAIN pages : /\ pages'[q].kind = pages[q].kind /\ pages'[q].head = pages[q].head
                                 /\ q # p => pages'[q].status = pages[q].status
      /\ \A r \in DOMAIN revs : revs'[r].page = revs[r].page
  BY <1>1 DEF Numbered
<1>3. Numbered'
  <2>1. pages' \in [DOMAIN pages -> [kind : PageKinds, head : DOMAIN revs, status : Statuses]]
    BY <1>1 DEF Numbered
  <2>2. revs' \in [DOMAIN revs -> [page : DOMAIN pages, status : Statuses]]
    BY <1>1 DEF Numbered
  <2>3. \A q \in DOMAIN pages : revs'[pages'[q].head].page = q
    BY <1>2 DEF Numbered
  <2>. QED  BY <1>2, <2>1, <2>2, <2>3 DEF Numbered
<1>4. Grown
  BY <1>1, <1>2 DEF Grown
<1>5. UNCHANGED <<summaries, summaryHeads, assessments, validityHeads, members, links, fusions,
                  signals, decided>>
  BY DEF Transition, projectionTables
<1>6. Referring'
  BY <1>4, <1>5, ReferringStays
<1>7. Later'
  BY <1>4, <1>5, LaterGrows
<1>8. Ordered'
  BY <1>4, <1>5, OrderedShrinks
<1>9. AnswersStay
  BY <1>2, <1>5 DEF AnswersStay, HeadOf, Decided
<1>10. Decided'
  BY <1>4, <1>5, <1>9, DecidedStays
<1>. QED  BY <1>3, <1>6, <1>7, <1>8, <1>10

LEMMA DeleteKeeps ==
    ASSUME ProjectionInv, NEW p \in DOMAIN pages, Delete(p)
    PROVE  ProjectionInv'
<1>. USE DEF ProjectionInv
<1>. DEFINE row == [kind |-> "tombstone", head |-> NewRevision, status |-> "tombstoned"]
<1>1. revs' = Put(revs, NewRevision, [page |-> p, status |-> "tombstoned"]) /\ pages' = [pages EXCEPT ![p] = row]
  BY DEF Delete
<1>2. /\ NewRevision \in Nat /\ NewRevision \notin DOMAIN revs /\ NewRevision # 0
      /\ DOMAIN revs = 1 .. NewRevision - 1
  BY NumbersAreNew
<1>. HIDE DEF row
<1>3. /\ DOMAIN revs' = DOMAIN revs \cup {NewRevision}
      /\ revs'[NewRevision] = [page |-> p, status |-> "tombstoned"]
      /\ \A r \in DOMAIN revs : revs'[r] = revs[r]
  BY <1>1, <1>2 DEF Put
<1>4. /\ DOMAIN pages' = DOMAIN pages /\ pages'[p] = row
      /\ \A q \in DOMAIN pages : q # p => pages'[q] = pages[q]
  BY <1>1
<1>5. /\ row.head = NewRevision /\ row.kind = "tombstone" /\ row.status = "tombstoned"
      /\ row \in [kind : PageKinds, head : DOMAIN revs', status : Statuses]
  BY <1>3 DEF row, PageKinds, Statuses
<1>6. Numbered'
  <2>1. \E n \in Nat : DOMAIN pages' = 1 .. n
    BY <1>4 DEF Numbered
  <2>2. \E k \in Nat : DOMAIN revs' = 1 .. k
    <3>1. DOMAIN revs' = 1 .. NewRevision
      BY <1>2, <1>3, OneMore
    <3>. QED  BY <1>2, <3>1
  <2>3. pages' \in [DOMAIN pages' -> [kind : PageKinds, head : DOMAIN revs', status : Statuses]]
    <3>1. pages' = [q \in DOMAIN pages' |-> pages'[q]]
      BY <1>1, <1>4
    <3>2. \A q \in DOMAIN pages' : pages'[q] \in [kind : PageKinds, head : DOMAIN revs', status : Statuses]
      <4>. SUFFICES ASSUME NEW q \in DOMAIN pages, q # p
                    PROVE  pages'[q] \in [kind : PageKinds, head : DOMAIN revs', status : Statuses]
        BY <1>4, <1>5
      <4>1. pages'[q] = pages[q] /\ pages[q] \in [kind : PageKinds, head : DOMAIN revs, status : Statuses]
        BY <1>4 DEF Numbered
      <4>. QED  BY <1>3, <4>1
    <3>. QED  BY <3>1, <3>2
  <2>4. revs' \in [DOMAIN revs' -> [page : DOMAIN pages', status : Statuses]]
    <3>1. revs' = [q \in DOMAIN revs' |-> revs'[q]]
      BY <1>1 DEF Put
    <3>2. \A r \in DOMAIN revs' : revs'[r] \in [page : DOMAIN pages', status : Statuses]
      BY <1>3, <1>4 DEF Numbered, Statuses
    <3>. QED  BY <3>1, <3>2
  <2>5. \A q \in DOMAIN pages' : revs'[pages'[q].head].page = q
    <3>. SUFFICES ASSUME NEW q \in DOMAIN pages PROVE revs'[pages'[q].head].page = q
      BY <1>4
    <3>1. CASE q = p
      BY <1>3, <1>4, <1>5, <3>1
    <3>2. CASE q # p
      <4>1. pages'[q] = pages[q] /\ pages[q].head \in DOMAIN revs /\ revs[pages[q].head].page = q
        BY <1>4, <3>2 DEF Numbered
      <4>. QED  BY <1>3, <4>1
    <3>. QED  BY <3>1, <3>2
  <2>. QED  BY <2>1, <2>2, <2>3, <2>4, <2>5 DEF Numbered
<1>7. Grown
  BY <1>3, <1>4, <1>5 DEF Grown
<1>8. Referring'
  <2>1. RowsKept
    BY DEF RowsKept, Delete
  <2>2. RowsNamed'
    BY <1>7 DEF Referring, RowsNamed, Grown, Delete
  <2>3. \A q \in DOMAIN summaryHeads' : q \in DOMAIN summaryHeads /\ summaryHeads'[q] = summaryHeads[q]
    BY DEF Delete, Drop
  <2>. QED  BY <1>7, <2>1, <2>2, <2>3, ReferringGrows DEF Delete
<1>9. Later'
  BY <1>7, LaterGrows DEF Delete
<1>10. Ordered'
  <2>1. links' \subseteq links
    BY DEF Delete
  <2>2. Supersedes(links') \subseteq Supersedes(links)
    BY <2>1 DEF Supersedes
  <2>. QED  BY <1>7, <2>1, <2>2, OrderedShrinks
<1>11. AnswersStay
  <2>1. signals' = signals /\ DOMAIN signals' \subseteq DOMAIN revs'
    BY <1>3 DEF Delete, Decided
  <2>2. ASSUME NEW q \in DOMAIN pages', pages'[q].head \in DOMAIN signals'
        PROVE  pages'[q].kind = "feedback"
    <3>1. q # p
      BY <1>2, <1>4, <1>5, <2>1, <2>2 DEF Delete, Decided
    <3>. QED  BY <1>4, <2>1, <2>2, <3>1 DEF Decided, HeadOf
  <2>. QED  BY <1>4, <1>5, <2>1, <2>2 DEF AnswersStay, HeadOf
<1>12. Decided'
  BY <1>7, <1>11, DecidedStays DEF Delete
<1>. QED  BY <1>6, <1>8, <1>9, <1>10, <1>12

LEMMA WriteSummaryKeeps ==
    ASSUME ProjectionInv, NEW r \in DOMAIN revs, WriteSummary(r)
    PROVE  ProjectionInv'
<1>. USE DEF ProjectionInv
<1>. DEFINE p == revs[r].page
            s == IF p \in DOMAIN summaryHeads THEN summaryHeads[p] ELSE NewPage
            kind == IF s = NewPage THEN "summary" ELSE pages[s].kind
<1>1. /\ Published(s, kind, "active") /\ summaries' = Put(summaries, NewRevision, r)
      /\ summaryHeads' = Put(summaryHeads, p, s)
      /\ links' = IF s = NewPage THEN links \cup {<<s, "summarizes", p>>} ELSE links
      /\ UNCHANGED <<assessments, validityHeads, members, fusions, signals, decided>>
  BY DEF WriteSummary
<1>2. NewPage \notin DOMAIN pages /\ NewRevision \notin DOMAIN revs
  BY NumbersAreNew
<1>3. p \in DOMAIN pages
  BY DEF Numbered
<1>4. /\ (s \in DOMAIN pages /\ kind = pages[s].kind) \/ s = NewPage
      /\ kind \in PageKinds /\ kind # "feedback"
      /\ s \in DOMAIN pages => pages[s].kind # "feedback"
  BY <1>2 DEF Referring, SummaryRow, Numbered, PageKinds
<1>. HIDE DEF kind, s, p
<1>5. Publication(s, kind, "active")
  <2>1. "active" \in Statuses
    BY DEF Statuses
  <2>. QED  BY <1>1, <1>4, <2>1, PublicationsAreNumbered
<1>6. Numbered' /\ Grown
  BY <1>5 DEF Publication
<1>7. Referring'
  <2>1. /\ DOMAIN summaries' = DOMAIN summaries \cup {NewRevision} /\ summaries'[NewRevision] = r
        /\ \A x \in DOMAIN summaries : summaries'[x] = summaries[x]
    BY <1>1, <1>2 DEF Put, Referring, RowsNamed
  <2>2. RowsKept
    BY <1>1, <2>1 DEF RowsKept
  <2>3. RowsNamed'
    BY <1>1, <1>5, <2>1 DEF Referring, Publication, RowsNamed
  <2>4. ASSUME NEW x, x = p PROVE SummaryRow(x)'
    <3>1. summaryHeads'[x] = s /\ revs'[NewRevision].page = s /\ revs'[r].page = x
      BY <1>1, <1>5, <1>6, <2>4 DEF Put, Publication, Grown, p
    <3>2. x \in DOMAIN pages' /\ s \in DOMAIN pages' /\ pages'[s].kind # "feedback"
      BY <1>3, <1>4, <1>5, <1>6, <2>4 DEF Publication, Grown
    <3>3. NewRevision \in DOMAIN summaries' /\ summaries'[NewRevision] = r
      BY <2>1
    <3>. QED  BY <3>1, <3>2, <3>3 DEF SummaryRow
  <2>5. \A x \in DOMAIN summaryHeads' : SummaryRow(x)'
    <3>1. \A x \in DOMAIN summaryHeads' : x = p \/ (x \in DOMAIN summaryHeads /\ summaryHeads'[x] = summaryHeads[x])
      BY <1>1 DEF Put
    <3>. QED  BY <1>6, <2>2, <2>4, <3>1, SummaryRowStays
  <2>6. \A x \in DOMAIN validityHeads' : ValidityRow(x)'
    BY <1>1, <1>6, <2>2, ValidityRowStays
  <2>. QED  BY <2>3, <2>5, <2>6 DEF Referring
<1>8. Later'
  BY <1>1, <1>6, LaterGrows
<1>9. Ordered'
  <2>1. \A l \in links' : l \in links \/ (l = <<s, "summarizes", p>> /\ s \in DOMAIN pages' /\ p \in DOMAIN pages')
    BY <1>1, <1>3, <1>5 DEF Publication
  <2>2. Supersedes(links') \subseteq Supersedes(links)
    BY <2>1 DEF Supersedes
  <2>. QED  BY <1>6, <2>1, <2>2, OrderedShrinks
<1>10. AnswersStay
  BY <1>1, <1>4, <1>5, PublicationsAnswerNothing
<1>11. Decided'
  BY <1>1, <1>6, <1>10, DecidedStays
<1>. QED  BY <1>6, <1>7, <1>8, <1>9, <1>11

\* A judgement publishes a Page that is no feedback, or a new one.
LEMMA JudgementsAreNamed ==
    ASSUME ProjectionInv, NEW r \in DOMAIN revs, NEW standing, Assessed(r, standing),
           UNCHANGED <<summaries, summaryHeads>>
    PROVE  /\ Numbered' /\ Grown /\ Referring'
           /\ \A l \in AssessLink(r) : /\ l[2] = "assesses"
                                       /\ l[1] \in DOMAIN pages' /\ l[3] \in DOMAIN pages'
           /\ \A q \in DOMAIN pages : pages[q].kind = "feedback" => pages'[q] = pages[q]
           /\ \A q \in DOMAIN pages' : \/ q \in DOMAIN pages /\ pages'[q] = pages[q]
                                       \/ pages'[q].head \notin DOMAIN revs
<1>. USE DEF ProjectionInv
<1>. DEFINE p == revs[r].page
            a == IF p \in DOMAIN validityHeads THEN validityHeads[p] ELSE NewPage
            kind == IF a = NewPage THEN "assessment" ELSE pages[a].kind
            row == [target |-> r, standing |-> standing]
<1>1. /\ Published(a, kind, "active") /\ assessments' = Put(assessments, NewRevision, row)
      /\ validityHeads' = Put(validityHeads, p, a)
  BY DEF Assessed
<1>2. NewPage \notin DOMAIN pages /\ NewRevision \notin DOMAIN revs
  BY NumbersAreNew
<1>3. p \in DOMAIN pages /\ row.target = r
  BY DEF Numbered
<1>4. /\ (a \in DOMAIN pages /\ kind = pages[a].kind) \/ a = NewPage
      /\ kind \in PageKinds /\ kind # "feedback"
      /\ a \in DOMAIN pages => pages[a].kind # "feedback"
      /\ p \notin DOMAIN validityHeads => a = NewPage
  BY <1>2 DEF Referring, ValidityRow, Numbered, PageKinds
<1>5. \A l \in AssessLink(r) : /\ l[2] = "assesses" /\ l[3] = p
                               /\ l[1] = NewPage /\ p \notin DOMAIN validityHeads
  BY DEF AssessLink
<1>. HIDE DEF kind, a, p, row
<1>6. Publication(a, kind, "active")
  <2>1. "active" \in Statuses
    BY DEF Statuses
  <2>. QED  BY <1>1, <1>4, <2>1, PublicationsAreNumbered
<1>7. Numbered' /\ Grown
  BY <1>6 DEF Publication
<1>8. Referring'
  <2>1. /\ DOMAIN assessments' = DOMAIN assessments \cup {NewRevision}
        /\ assessments'[NewRevision] = row
        /\ \A x \in DOMAIN assessments : assessments'[x] = assessments[x]
    BY <1>1, <1>2 DEF Put, Referring, RowsNamed
  <2>2. RowsKept
    BY <2>1 DEF RowsKept
  <2>3. RowsNamed'
    BY <1>3, <1>6, <2>1 DEF Referring, Publication, RowsNamed
  <2>4. ASSUME NEW x, x = p PROVE ValidityRow(x)'
    <3>1. validityHeads'[x] = a /\ revs'[NewRevision].page = a /\ revs'[r].page = x
      BY <1>1, <1>6, <1>7, <2>4 DEF Put, Publication, Grown, p
    <3>2. x \in DOMAIN pages' /\ a \in DOMAIN pages' /\ pages'[a].kind # "feedback"
      BY <1>3, <1>4, <1>6, <1>7, <2>4 DEF Publication, Grown
    <3>3. NewRevision \in DOMAIN assessments' /\ assessments'[NewRevision].target = r
      BY <1>3, <2>1
    <3>. QED  BY <3>1, <3>2, <3>3 DEF ValidityRow
  <2>5. \A x \in DOMAIN validityHeads' : ValidityRow(x)'
    <3>1. \A x \in DOMAIN validityHeads' :
             x = p \/ (x \in DOMAIN validityHeads /\ validityHeads'[x] = validityHeads[x])
      BY <1>1 DEF Put
    <3>. QED  BY <1>7, <2>2, <2>4, <3>1, ValidityRowStays
  <2>6. \A x \in DOMAIN summaryHeads' : SummaryRow(x)'
    BY <1>7, <2>2, SummaryRowStays
  <2>. QED  BY <2>3, <2>5, <2>6 DEF Referring
<1>9. \A l \in AssessLink(r) : l[2] = "assesses" /\ l[1] \in DOMAIN pages' /\ l[3] \in DOMAIN pages'
  BY <1>3, <1>4, <1>5, <1>6 DEF Publication
<1>10. \A q \in DOMAIN pages : pages[q].kind = "feedback" => pages'[q] = pages[q]
  BY <1>4, <1>6 DEF Publication
<1>11. \A q \in DOMAIN pages' : \/ q \in DOMAIN pages /\ pages'[q] = pages[q]
                                \/ pages'[q].head \notin DOMAIN revs
  BY <1>2, <1>6 DEF Publication
<1>. QED  BY <1>7, <1>8, <1>9, <1>10, <1>11

LEMMA AssessPageValidityKeeps ==
    ASSUME ProjectionInv, NEW r \in DOMAIN revs, NEW standing, AssessPageValidity(r, standing)
    PROVE  ProjectionInv'
<1>. USE DEF ProjectionInv
<1>1. /\ Assessed(r, standing) /\ links' = links \cup AssessLink(r)
      /\ UNCHANGED <<summaries, summaryHeads, members, fusions, signals, decided>>
  BY DEF AssessPageValidity
<1>2. /\ Numbered' /\ Grown /\ Referring'
      /\ \A l \in AssessLink(r) : /\ l[2] = "assesses"
                                  /\ l[1] \in DOMAIN pages' /\ l[3] \in DOMAIN pages'
      /\ \A q \in DOMAIN pages : pages[q].kind = "feedback" => pages'[q] = pages[q]
      /\ \A q \in DOMAIN pages' : \/ q \in DOMAIN pages /\ pages'[q] = pages[q]
                                  \/ pages'[q].head \notin DOMAIN revs
  BY <1>1, JudgementsAreNamed
<1>3. Later'
  BY <1>1, <1>2, LaterGrows
<1>4. Ordered'
  <2>1. Supersedes(links') \subseteq Supersedes(links)
    BY <1>1, <1>2 DEF Supersedes
  <2>. QED  BY <1>1, <1>2, <2>1, OrderedShrinks
<1>5. AnswersStay
  <2>1. DOMAIN signals' \subseteq DOMAIN revs'
    BY <1>1, <1>2 DEF Grown, Decided
  <2>2. \A q \in DOMAIN pages' : pages'[q].head \in DOMAIN signals' => pages'[q].kind = "feedback"
    BY <1>1, <1>2 DEF Decided, HeadOf
  <2>. QED  BY <1>1, <1>2, <2>1, <2>2 DEF AnswersStay, HeadOf
<1>6. Decided'
  BY <1>1, <1>2, <1>5, DecidedStays
<1>. QED  BY <1>2, <1>3, <1>4, <1>6

LEMMA SubmitFeedbackKeeps ==
    ASSUME ProjectionInv, NEW challenged, SubmitFeedback(challenged)
    PROVE  ProjectionInv'
<1>. USE DEF ProjectionInv
<1>1. /\ Published(NewPage, "feedback", "active")
      /\ signals' = Put(signals, NewRevision, [r \in challenged |-> "pending"])
      /\ UNCHANGED <<summaries, summaryHeads, assessments, validityHeads, members, links, fusions,
                     decided>>
  BY DEF SubmitFeedback, projectionTables
<1>2. NewPage \notin DOMAIN pages /\ NewRevision \notin DOMAIN revs
  BY NumbersAreNew
<1>3. Publication(NewPage, "feedback", "active")
  <2>1. "active" \in Statuses /\ "feedback" \in PageKinds
    BY DEF Statuses, PageKinds
  <2>. QED  BY <1>1, <2>1, PublicationsAreNumbered
<1>4. Numbered' /\ Grown
  BY <1>3 DEF Publication
<1>5. Referring'
  BY <1>1, <1>4, ReferringStays
<1>6. Later'
  BY <1>1, <1>4, LaterGrows
<1>7. Ordered'
  BY <1>1, <1>4, OrderedShrinks
<1>8. AnswersStay
  <2>1. /\ DOMAIN signals' = DOMAIN signals \cup {NewRevision}
        /\ \A s \in DOMAIN signals : signals'[s] = signals[s]
    BY <1>1, <1>2 DEF Put, Decided
  <2>2. DOMAIN signals' \subseteq DOMAIN revs'
    BY <1>3, <2>1 DEF Publication, Decided
  <2>3. ASSUME NEW q \in DOMAIN pages', pages'[q].head \in DOMAIN signals'
        PROVE  pages'[q].kind = "feedback"
    <3>1. CASE q = NewPage
      BY <1>3, <3>1 DEF Publication
    <3>2. CASE q # NewPage
      <4>1. q \in DOMAIN pages /\ pages'[q] = pages[q] /\ pages[q].head \in DOMAIN revs
        BY <1>3, <3>2 DEF Publication, Numbered
      <4>. QED  BY <1>2, <2>1, <2>3, <4>1 DEF Decided, HeadOf
    <3>. QED  BY <3>1, <3>2
  <2>4. \A q \in DOMAIN pages : pages'[q] = pages[q]
    BY <1>2, <1>3 DEF Publication
  <2>. QED  BY <2>1, <2>2, <2>3, <2>4 DEF AnswersStay, HeadOf
<1>9. Decided'
  BY <1>1, <1>4, <1>8, DecidedStays
<1>. QED  BY <1>4, <1>5, <1>6, <1>7, <1>9

LEMMA ExtractTopicKeeps ==
    ASSUME ProjectionInv, NEW sources \in SUBSET DOMAIN pages, NEW target \in DOMAIN pages \cup {0},
           ExtractTopic(sources, target)
    PROVE  ProjectionInv'
<1>. USE DEF ProjectionInv
<1>. DEFINE t == IF target = 0 THEN NewPage ELSE target
            kept == {l \in links : ~(l[1] = t /\ l[2] = "summarizes")}
<1>1. /\ target \in Topics \cup {0} /\ Published(t, "topic", "active")
      /\ members' = Put(members, NewRevision, HeadsOf(sources))
      /\ links' = kept \cup {<<t, "summarizes", p>> : p \in sources}
      /\ UNCHANGED <<summaries, summaryHeads, assessments, validityHeads, fusions, signals, decided>>
  BY DEF ExtractTopic
<1>2. /\ NewPage \notin DOMAIN pages /\ NewRevision \notin DOMAIN revs /\ NewRevision \in Nat
      /\ DOMAIN pages = 1 .. NewPage - 1 /\ DOMAIN revs = 1 .. NewRevision - 1
  BY NumbersAreNew
<1>3. (t \in DOMAIN pages /\ pages[t].kind = "topic") \/ t = NewPage
  BY <1>1 DEF Topics
<1>. HIDE DEF t
<1>4. Publication(t, "topic", "active")
  <2>1. "active" \in Statuses /\ "topic" \in PageKinds
    BY DEF Statuses, PageKinds
  <2>. QED  BY <1>1, <1>3, <2>1, PublicationsAreNumbered
<1>5. Numbered' /\ Grown
  BY <1>4 DEF Publication
<1>6. Referring'
  BY <1>1, <1>5, ReferringStays
<1>7. Later'
  <2>1. \A r \in HeadsOf(sources) : r \in DOMAIN revs /\ r < NewRevision
    BY <1>2 DEF HeadsOf, Numbered
  <2>2. \A m \in DOMAIN members' :
           m \in DOMAIN revs' /\ \A r \in members'[m] : r \in DOMAIN revs' /\ r < m
    <3>. SUFFICES ASSUME NEW m \in DOMAIN members'
                  PROVE  m \in DOMAIN revs' /\ \A r \in members'[m] : r \in DOMAIN revs' /\ r < m
      OBVIOUS
    <3>1. CASE m = NewRevision
      <4>1. members'[m] = HeadsOf(sources) /\ m \in DOMAIN revs'
        BY <1>1, <1>4, <3>1 DEF Put, Publication
      <4>. QED  BY <1>5, <2>1, <3>1, <4>1 DEF Grown
    <3>2. CASE m # NewRevision
      <4>1. m \in DOMAIN members /\ members'[m] = members[m]
        BY <1>1, <3>2 DEF Put
      <4>. QED  BY <1>5, <4>1 DEF Later, Grown
    <3>. QED  BY <3>1, <3>2
  <2>3. \A f \in fusions : \A r \in DOMAIN f.covers :
           r \in DOMAIN revs' /\ \A o \in f.covers[r] : o \in DOMAIN revs' /\ r < o
    BY <1>5 DEF Later, Grown
  <2>. QED  BY <1>1, <2>2, <2>3 DEF Later
<1>8. Ordered'
  <2>1. \A l \in links' : l \in links \/ \E p \in sources : l = <<t, "summarizes", p>>
    BY <1>1
  <2>2. \A l \in links' : \/ l \in links
                          \/ l[2] = "summarizes" /\ l[1] \in DOMAIN pages' /\ l[3] \in DOMAIN pages'
    <3>1. t \in DOMAIN pages' /\ sources \subseteq DOMAIN pages'
      BY <1>4 DEF Publication
    <3>. QED  BY <2>1, <3>1
  <2>3. Supersedes(links') \subseteq Supersedes(links)
    BY <2>2 DEF Supersedes
  <2>. QED  BY <1>5, <2>2, <2>3, OrderedShrinks
<1>9. AnswersStay
  BY <1>1, <1>2, <1>3, <1>4, PublicationsAnswerNothing
<1>10. Decided'
  BY <1>1, <1>5, <1>9, DecidedStays
<1>. QED  BY <1>5, <1>6, <1>7, <1>8, <1>10

\* Numbers that follow on others.
LEMMA NumbersFollow ==
    ASSUME NEW n \in Nat, n # 0, NEW o \in {1, 2}
    PROVE  (1 .. n - 1) \cup (n .. n + o - 1) = 1 .. n + o - 1 /\ n + o - 1 \in Nat
<1>1. CASE o = 1
  BY <1>1
<1>2. CASE o = 2
  BY <1>2
<1>. QED  BY <1>1, <1>2

\* The numbers of two such intervals match one by one.
LEMMA FollowersMatch ==
    ASSUME NEW n \in Nat, NEW k \in Nat, NEW o \in {1, 2}, NEW p \in n .. n + o - 1
    PROVE  k + p - n \in k .. k + o - 1 /\ n + (k + p - n) - k = p
<1>1. CASE o = 1
  BY <1>1
<1>2. CASE o = 2
  BY <1>2
<1>. QED  BY <1>1, <1>2

\* One or two new Pages, each of which has one of the new Revisions.
LEMMA OutputsAreNumbered ==
    ASSUME Numbered, NEW outputs \in {1, 2},
           revs' = Over([r \in NewRevision .. NewRevision + outputs - 1 |->
                           [page |-> NewPage + r - NewRevision, status |-> "active"]], revs),
           pages' = Over([p \in {NewPage + r - NewRevision :
                                   r \in NewRevision .. NewRevision + outputs - 1} |->
                            [kind |-> "fused", head |-> NewRevision + p - NewPage,
                             status |-> "active"]], pages)
    PROVE  /\ Numbered' /\ Grown
           /\ DOMAIN revs' = DOMAIN revs \cup (NewRevision .. NewRevision + outputs - 1)
           /\ \A p \in DOMAIN pages : pages'[p] = pages[p]
           /\ \A p \in DOMAIN pages' : p \notin DOMAIN pages => pages'[p].head \notin DOMAIN revs
<1>1. /\ NewPage \in Nat /\ NewPage # 0 /\ DOMAIN pages = 1 .. NewPage - 1
      /\ NewRevision \in Nat /\ NewRevision # 0 /\ DOMAIN revs = 1 .. NewRevision - 1
  BY NumbersAreNew
<1>. DEFINE n == NewPage
            k == NewRevision
            newPages == n .. n + outputs - 1
            newRevs == k .. k + outputs - 1
<1>2. n \in Nat /\ n # 0 /\ k \in Nat /\ k # 0
  BY <1>1
<1>3. {n + r - k : r \in newRevs} = newPages
  <2>1. \A r \in newRevs : n + r - k \in newPages
    BY <1>2, FollowersMatch
  <2>2. \A p \in newPages : k + p - n \in newRevs /\ p = n + (k + p - n) - k
    BY <1>2, FollowersMatch
  <2>. QED  BY <2>1, <2>2
<1>4. /\ revs' = Over([r \in newRevs |-> [page |-> n + r - k, status |-> "active"]], revs)
      /\ pages' = Over([p \in newPages |->
                          [kind |-> "fused", head |-> k + p - n, status |-> "active"]], pages)
  BY <1>3
<1>5. DOMAIN pages = 1 .. n - 1 /\ DOMAIN revs = 1 .. k - 1
  BY <1>1
<1>. HIDE DEF n, k
<1>6. /\ \A p \in newPages : p \notin DOMAIN pages
      /\ \A r \in newRevs : r \notin DOMAIN revs
  BY <1>2, <1>5
<1>7. /\ DOMAIN revs' = DOMAIN revs \cup newRevs
      /\ \A r \in DOMAIN revs : revs'[r] = revs[r]
      /\ \A r \in newRevs : revs'[r] = [page |-> n + r - k, status |-> "active"]
      /\ revs' = [r \in DOMAIN revs' |-> revs'[r]]
  BY <1>4, <1>6 DEF Over
<1>8. /\ DOMAIN pages' = DOMAIN pages \cup newPages
      /\ \A p \in DOMAIN pages : pages'[p] = pages[p]
      /\ \A p \in newPages : pages'[p] = [kind |-> "fused", head |-> k + p - n, status |-> "active"]
      /\ pages' = [p \in DOMAIN pages' |-> pages'[p]]
  BY <1>4, <1>6 DEF Over
<1>9. Numbered'
  <2>1. \E i \in Nat : DOMAIN pages' = 1 .. i
    <3>1. DOMAIN pages' = 1 .. n + outputs - 1 /\ n + outputs - 1 \in Nat
      BY <1>2, <1>5, <1>8, NumbersFollow
    <3>. QED  BY <3>1
  <2>2. \E i \in Nat : DOMAIN revs' = 1 .. i
    <3>1. DOMAIN revs' = 1 .. k + outputs - 1 /\ k + outputs - 1 \in Nat
      BY <1>2, <1>5, <1>7, NumbersFollow
    <3>. QED  BY <3>1
  <2>3. ASSUME NEW p \in DOMAIN pages'
        PROVE  pages'[p] \in [kind : PageKinds, head : DOMAIN revs', status : Statuses]
               /\ revs'[pages'[p].head].page = p
    <3>1. CASE p \in DOMAIN pages
      <4>1. /\ pages[p] \in [kind : PageKinds, head : DOMAIN revs, status : Statuses]
            /\ revs[pages[p].head].page = p
        BY <3>1 DEF Numbered
      <4>. QED  BY <1>7, <1>8, <3>1, <4>1
    <3>2. CASE p \in newPages
      <4>. DEFINE h == k + p - n
      <4>1. h \in newRevs /\ n + h - k = p
        BY <1>2, <3>2, FollowersMatch
      <4>2. pages'[p] = [kind |-> "fused", head |-> h, status |-> "active"]
        BY <1>8, <3>2
      <4>. HIDE DEF h
      <4>3. h \in DOMAIN revs' /\ revs'[h] = [page |-> p, status |-> "active"]
        BY <1>7, <4>1
      <4>. QED  BY <4>2, <4>3 DEF PageKinds, Statuses
    <3>. QED  BY <1>8, <3>1, <3>2
  <2>4. ASSUME NEW r \in DOMAIN revs'
        PROVE  revs'[r] \in [page : DOMAIN pages', status : Statuses]
    <3>1. CASE r \in DOMAIN revs
      BY <1>7, <1>8, <3>1 DEF Numbered
    <3>2. CASE r \in newRevs
      <4>. DEFINE q == n + r - k
      <4>1. q \in newPages
        BY <1>2, <3>2, FollowersMatch
      <4>2. revs'[r] = [page |-> q, status |-> "active"]
        BY <1>7, <3>2
      <4>. HIDE DEF q
      <4>. QED  BY <1>8, <4>1, <4>2 DEF Statuses
    <3>. QED  BY <1>7, <3>1, <3>2
  <2>5. /\ pages' \in [DOMAIN pages' -> [kind : PageKinds, head : DOMAIN revs', status : Statuses]]
        /\ revs' \in [DOMAIN revs' -> [page : DOMAIN pages', status : Statuses]]
    BY <1>7, <1>8, <2>3, <2>4
  <2>. QED  BY <2>1, <2>2, <2>3, <2>5 DEF Numbered
<1>10. Grown
  BY <1>7, <1>8 DEF Grown
<1>11. \A p \in DOMAIN pages' : p \notin DOMAIN pages => pages'[p].head \notin DOMAIN revs
  <2>. SUFFICES ASSUME NEW p \in newPages PROVE pages'[p].head \notin DOMAIN revs
    BY <1>8
  <2>. DEFINE h == k + p - n
  <2>1. h \in newRevs
    BY <1>2, FollowersMatch
  <2>2. pages'[p] = [kind |-> "fused", head |-> h, status |-> "active"]
    BY <1>8
  <2>. HIDE DEF h
  <2>. QED  BY <1>6, <2>1, <2>2
<1>12. DOMAIN revs' = DOMAIN revs \cup (NewRevision .. NewRevision + outputs - 1)
  BY <1>7 DEF k
<1>13. \A p \in DOMAIN pages : pages'[p] = pages[p]
  BY <1>8
<1>. HIDE DEF newPages, newRevs
<1>. QED  BY <1>9, <1>10, <1>11, <1>12, <1>13

LEMMA ConsolidatePagesKeeps ==
    ASSUME ProjectionInv, NEW sources \in SUBSET DOMAIN pages, NEW complete \in SUBSET sources,
           NEW both \in SUBSET complete, NEW automatic,
           ConsolidatePages(sources, complete, both, automatic)
    PROVE  ProjectionInv'
<1>. USE DEF ProjectionInv
<1>. DEFINE outputs == IF both = {} THEN 1 ELSE 2
            new == NewRevision .. NewRevision + outputs - 1
            covers == [r \in HeadsOf(complete) |->
                          IF r \in HeadsOf(both) THEN new ELSE {NewRevision}]
            fusion == [sources |-> HeadsOf(sources), outputs |-> new, covers |-> covers]
<1>1. /\ revs' = Over([r \in new |-> [page |-> NewPage + r - NewRevision, status |-> "active"]], revs)
      /\ pages' = Over([p \in {NewPage + r - NewRevision : r \in new} |->
                          [kind |-> "fused", head |-> NewRevision + p - NewPage,
                           status |-> "active"]], pages)
      /\ fusions' = fusions \cup {fusion}
      /\ UNCHANGED <<summaries, summaryHeads, assessments, validityHeads, members, links, signals,
                     decided>>
  BY DEF ConsolidatePages, projectionTables
<1>2. outputs \in {1, 2}
  OBVIOUS
<1>3. fusion.covers = covers
  OBVIOUS
<1>4. NewRevision \in Nat /\ DOMAIN revs = 1 .. NewRevision - 1
  BY NumbersAreNew
<1>. HIDE DEF outputs, fusion
<1>5. /\ Numbered' /\ Grown
      /\ DOMAIN revs' = DOMAIN revs \cup new
      /\ \A p \in DOMAIN pages : pages'[p] = pages[p]
      /\ \A p \in DOMAIN pages' : p \notin DOMAIN pages => pages'[p].head \notin DOMAIN revs
  BY <1>1, <1>2, OutputsAreNumbered
<1>6. Referring'
  BY <1>1, <1>5, ReferringStays
<1>7. Later'
  <2>1. \A r \in DOMAIN covers : r \in DOMAIN revs /\ \A o \in covers[r] : o \in new
    <3>1. NewRevision \in new
      BY <1>2, <1>4
    <3>2. \A r \in HeadsOf(complete) : r \in DOMAIN revs
      BY DEF HeadsOf, Numbered
    <3>. QED  BY <3>1, <3>2
  <2>2. \A r \in DOMAIN covers : /\ r \in DOMAIN revs'
                                 /\ \A o \in covers[r] : o \in DOMAIN revs' /\ r < o
    <3>1. \A r \in DOMAIN revs, o \in new : r < o
      BY <1>2, <1>4
    <3>. QED  BY <1>5, <2>1, <3>1
  <2>. HIDE DEF covers
  <2>3. ASSUME NEW f \in fusions', NEW r \in DOMAIN f.covers
        PROVE  r \in DOMAIN revs' /\ \A o \in f.covers[r] : o \in DOMAIN revs' /\ r < o
    <3>1. CASE f \in fusions
      BY <1>5, <3>1 DEF Later
    <3>2. CASE f = fusion
      BY <1>3, <2>2, <3>2
    <3>. QED  BY <1>1, <3>1, <3>2
  <2>4. \A m \in DOMAIN members :
           m \in DOMAIN revs' /\ \A r \in members[m] : r \in DOMAIN revs' /\ r < m
    BY <1>5 DEF Later
  <2>. QED  BY <1>1, <2>3, <2>4 DEF Later
<1>8. Ordered'
  BY <1>1, <1>5, OrderedShrinks
<1>9. AnswersStay
  <2>1. DOMAIN signals' \subseteq DOMAIN revs'
    BY <1>1, <1>5 DEF Decided
  <2>2. \A q \in DOMAIN pages' : pages'[q].head \in DOMAIN signals' => pages'[q].kind = "feedback"
    BY <1>1, <1>5 DEF Decided, HeadOf
  <2>. QED  BY <1>1, <1>5, <2>1, <2>2 DEF AnswersStay, HeadOf
<1>10. Decided'
  BY <1>1, <1>5, <1>9, DecidedStays
<1>. QED  BY <1>5, <1>6, <1>7, <1>8, <1>10

\* A change that was discovered, or the answer to feedback that is open.
LEMMA ApplyReconciliationKeeps ==
    ASSUME ProjectionInv, NEW f, NEW r \in DOMAIN revs, NEW new \in DOMAIN pages,
           NEW disposition \in {"no_source_change", "qualified", "superseded", "retracted"},
           ApplyReconciliation(f, r, disposition, new)
    PROVE  ProjectionInv'
<1>. USE DEF ProjectionInv
<1>. DEFINE none == disposition = "no_source_change"
            p == revs[r].page
            made == (IF none THEN {} ELSE AssessLink(r))
                    \cup (IF disposition = "superseded" THEN {<<new, "supersedes", p>>} ELSE {})
<1>1. /\ f # 0 => Actionable(f, r)
      /\ disposition = "superseded" => Replacement(new, r)
      /\ IF none THEN UNCHANGED <<pages, revs, assessments, validityHeads>>
                 ELSE Assessed(r, disposition)
      /\ links' = links \cup made
      /\ UNCHANGED <<summaries, summaryHeads, members, fusions>>
  BY DEF ApplyReconciliation
<1>2. /\ Numbered' /\ Grown /\ Referring'
      /\ ~none => \A l \in AssessLink(r) : /\ l[2] = "assesses"
                                           /\ l[1] \in DOMAIN pages' /\ l[3] \in DOMAIN pages'
      /\ \A q \in DOMAIN pages : pages[q].kind = "feedback" => pages'[q] = pages[q]
      /\ \A q \in DOMAIN pages' : \/ q \in DOMAIN pages /\ pages'[q] = pages[q]
                                  \/ pages'[q].head \notin DOMAIN revs
  <2>1. CASE none
    <3>1. UNCHANGED <<pages, revs, assessments, validityHeads, summaries, summaryHeads>>
      BY <1>1, <2>1
    <3>2. Numbered' /\ Grown
      BY <3>1 DEF Numbered, Grown
    <3>. QED  BY <2>1, <3>1, <3>2, ReferringStays
  <2>2. CASE ~none
    <3>1. Assessed(r, disposition) /\ UNCHANGED <<summaries, summaryHeads>>
      BY <1>1, <2>2
    <3>. QED  BY <3>1, JudgementsAreNamed
  <2>. QED  BY <2>1, <2>2
<1>3. Later'
  BY <1>1, <1>2, LaterGrows
<1>4. p \in DOMAIN pages
  BY DEF Numbered
<1>5. Ordered'
  <2>1. \A l \in links' : \/ l \in links
                          \/ l[2] = "assesses" /\ l[1] \in DOMAIN pages' /\ l[3] \in DOMAIN pages'
                          \/ disposition = "superseded" /\ l = <<new, "supersedes", p>>
    BY <1>1, <1>2
  <2>2. DOMAIN pages \subseteq DOMAIN pages'
    BY <1>2 DEF Grown
  <2>3. CASE disposition # "superseded"
    <3>1. Supersedes(links') \subseteq Supersedes(links)
      BY <2>1, <2>3 DEF Supersedes
    <3>. QED  BY <1>2, <2>1, <2>3, <3>1, OrderedShrinks
  <2>4. CASE disposition = "superseded"
    <3>1. new # p /\ ~Superseded(new)
      BY <1>1, <2>4 DEF Replacement
    <3>2. \A e \in Supersedes(links) : e[1] \in DOMAIN pages /\ e[2] \in DOMAIN pages /\ e[2] # new
      BY <3>1 DEF Supersedes, Superseded, Ordered
    <3>3. AcyclicGraph(DOMAIN pages', Supersedes(links))
      BY <2>2, <3>2, FewerEdges DEF Ordered
    <3>4. AcyclicGraph(DOMAIN pages', Supersedes(links) \cup {<<new, p>>})
      BY <1>4, <2>2, <3>1, <3>2, <3>3, EdgeFromASource
    <3>5. Supersedes(links') = Supersedes(links) \cup {<<new, p>>}
      <4>1. <<new, "supersedes", p>> \in links' /\ links \subseteq links'
        BY <1>1, <2>4
      <4>2. \A l \in links' : l[2] = "supersedes" => l \in links \/ l = <<new, "supersedes", p>>
        BY <2>1
      <4>. QED  BY <4>1, <4>2 DEF Supersedes
    <3>6. \A l \in links' : l[1] \in DOMAIN pages' /\ l[3] \in DOMAIN pages'
      BY <1>4, <2>1, <2>2 DEF Ordered
    <3>. QED  BY <3>4, <3>5, <3>6 DEF Ordered
  <2>. QED  BY <2>3, <2>4
<1>6. Decided'
  <2>1. CASE f = 0
    <3>1. UNCHANGED <<signals, decided>>
      BY <2>1 DEF ApplyReconciliation
    <3>2. DOMAIN signals' \subseteq DOMAIN revs'
      BY <1>2, <3>1 DEF Grown, Decided
    <3>3. \A q \in DOMAIN pages' : pages'[q].head \in DOMAIN signals' => pages'[q].kind = "feedback"
      BY <1>2, <3>1 DEF Decided, HeadOf
    <3>4. AnswersStay
      BY <1>2, <3>1, <3>2, <3>3 DEF AnswersStay, HeadOf
    <3>. QED  BY <1>2, <3>1, <3>4, DecidedStays
  <2>2. CASE f # 0
    <3>. DEFINE P == revs[f].page
                answer == <<P, r, disposition>>
    <3>1. /\ signals' = [signals EXCEPT ![f] = [signals[f] EXCEPT ![r] = disposition]]
          /\ decided' = decided \cup {answer}
      BY <2>2 DEF ApplyReconciliation
    <3>2. /\ f \in DOMAIN signals /\ f \in DOMAIN revs /\ HeadOf(P) = f /\ pages[P].status = "active"
          /\ r \in DOMAIN signals[f] /\ signals[f][r] = "pending"
      BY <1>1, <2>2 DEF Actionable, IsHead, ActivePage, Decided
    <3>3. P \in DOMAIN pages /\ pages[P].kind = "feedback" /\ pages'[P] = pages[P]
      BY <1>2, <3>2 DEF Numbered, Decided
    <3>4. disposition # "pending" /\ answer[1] = P /\ answer[2] = r /\ answer[3] = disposition
      OBVIOUS
    <3>5. /\ DOMAIN signals' = DOMAIN signals
          /\ DOMAIN signals'[f] = DOMAIN signals[f] /\ signals'[f][r] = disposition
          /\ \A x \in DOMAIN signals[f] : x # r => signals'[f][x] = signals[f][x]
          /\ \A g \in DOMAIN signals : g # f => signals'[g] = signals[g]
      BY <3>1, <3>2
    <3>. HIDE DEF answer, P
    <3>6. DOMAIN signals' \subseteq DOMAIN revs'
      BY <1>2, <3>5 DEF Grown, Decided
    <3>7. \A q \in DOMAIN pages' : HeadOf(q)' \in DOMAIN signals' => pages'[q].kind = "feedback"
      BY <1>2, <3>5 DEF Decided, HeadOf
    <3>8. ASSUME NEW d \in decided PROVE ~(d[1] = P /\ d[2] = r)
      <4>1. CASE d[1] = P
        <5>1. Answered(d)
          BY <3>2, <4>1 DEF Decided
        <5>. QED  BY <3>2, <4>1, <5>1 DEF Answered
      <4>. QED  BY <4>1
    <3>9. ASSUME NEW d \in decided, pages'[d[1]].status # "tombstoned"
          PROVE  Answered(d)'
      <4>1. d[1] \in DOMAIN pages /\ pages[d[1]].status # "tombstoned"
        BY <1>2, <3>9 DEF Decided, Grown
      <4>2. Answered(d)
        BY <4>1 DEF Decided
      <4>3. pages'[d[1]] = pages[d[1]] /\ pages[d[1]].kind = "feedback"
        BY <1>2, <4>1, <4>2 DEF Answered
      <4>4. CASE HeadOf(d[1]) = f
        <5>1. d[1] = P
          BY <4>1, <4>4 DEF Numbered, HeadOf, P
        <5>2. d[2] # r
          BY <3>8, <5>1
        <5>. QED  BY <3>5, <4>2, <4>3, <4>4, <5>2 DEF Answered, HeadOf
      <4>5. CASE HeadOf(d[1]) # f
        BY <3>5, <4>2, <4>3, <4>5 DEF Answered, HeadOf
      <4>. QED  BY <4>4, <4>5
    <3>10. ASSUME NEW d, d = answer PROVE Answered(d)'
      <4>1. d[1] = P /\ d[2] = r /\ d[3] = disposition
        BY <3>4, <3>10
      <4>2. HeadOf(d[1])' = f /\ pages'[d[1]].kind = "feedback"
        BY <3>2, <3>3, <4>1 DEF HeadOf
      <4>. QED  BY <3>2, <3>4, <3>5, <4>1, <4>2 DEF Answered
    <3>11. \A d \in decided' : d[1] \in DOMAIN pages'
      BY <1>2, <3>1, <3>3, <3>4 DEF Decided, Grown
    <3>12. \A d, e \in decided' : e[1] = d[1] /\ e[2] = d[2] => e = d
      <4>1. \A d, e \in decided : e[1] = d[1] /\ e[2] = d[2] => e = d
        BY DEF Decided
      <4>. QED  BY <3>1, <3>4, <3>8, <4>1
    <3>13. \A d \in decided' : pages'[d[1]].status # "tombstoned" => Answered(d)'
      BY <3>1, <3>9, <3>10
    <3>. QED  BY <3>6, <3>7, <3>11, <3>12, <3>13 DEF Decided
  <2>. QED  BY <2>1, <2>2
<1>. QED  BY <1>2, <1>3, <1>5, <1>6

-----------------------------------------------------------------------------
(* The specification                                                       *)

LEMMA ProjectionInitially == ProjectionInit => ProjectionInv
<1>. SUFFICES ASSUME ProjectionInit PROVE ProjectionInv
  OBVIOUS
<1>. USE DEF ProjectionInit
<1>1. Memories \in Nat
  BY ProjectionAssumption
<1>2. DOMAIN pages = 1 .. Memories /\ DOMAIN revs = 1 .. Memories
  OBVIOUS
<1>3. \A p \in DOMAIN pages : /\ pages[p].head = p /\ pages[p].kind = "memory"
                              /\ pages[p] \in [kind : PageKinds, head : DOMAIN revs, status : Statuses]
                              /\ revs[p].page = p
                              /\ revs[p] \in [page : DOMAIN pages, status : Statuses]
  BY <1>2 DEF PageKinds, Statuses
<1>4. Numbered
  BY <1>1, <1>2, <1>3 DEF Numbered
<1>5. Referring
  BY DEF Referring, RowsNamed, NoRows
<1>6. Later
  BY DEF Later, NoRows
<1>7. Ordered
  BY DEF Ordered, Supersedes, AcyclicGraph
<1>8. Decided
  BY DEF Decided, NoRows
<1>. QED  BY <1>4, <1>5, <1>6, <1>7, <1>8 DEF ProjectionInv

LEMMA ProjectionSteps ==
    ASSUME ProjectionInv, ProjectionNext
    PROVE  ProjectionInv'
<1>1. ASSUME NEW p \in DOMAIN pages, Edit(p) \/ Archive(p) \/ Restore(p) \/ Delete(p)
      PROVE  ProjectionInv'
  <2>1. CASE Edit(p)
    BY <2>1, EditKeeps
  <2>2. CASE Archive(p)
    BY <2>2, TransitionKeeps DEF Archive, Statuses
  <2>3. CASE Restore(p)
    BY <2>3, TransitionKeeps DEF Restore, Statuses
  <2>4. CASE Delete(p)
    BY <2>4, DeleteKeeps
  <2>. QED  BY <1>1, <2>1, <2>2, <2>3, <2>4
<1>2. ASSUME NEW sources \in SUBSET {p \in DOMAIN pages : ActivePage(p)},
             NEW complete \in SUBSET sources, NEW both \in SUBSET complete, NEW fuse \in BOOLEAN,
             ConsolidatePages(sources, complete, both, fuse)
      PROVE  ProjectionInv'
  <2>1. sources \in SUBSET DOMAIN pages
    OBVIOUS
  <2>. QED  BY <1>2, <2>1, ConsolidatePagesKeeps
<1>. QED
  BY <1>1, <1>2, WriteSummaryKeeps, AssessPageValidityKeeps, ExtractTopicKeeps,
     SubmitFeedbackKeeps, ApplyReconciliationKeeps DEF ProjectionNext

LEMMA ProjectionStutters ==
    ASSUME ProjectionInv, UNCHANGED projectionVars
    PROVE  ProjectionInv'
<1>. USE DEF ProjectionInv, projectionVars
<1>1. Numbered'
  BY DEF Numbered
<1>2. Referring'
  BY DEF Referring, RowsNamed, SummaryRow, ValidityRow
<1>3. Later'
  BY DEF Later
<1>4. Ordered'
  BY DEF Ordered
<1>5. Decided'
  BY DEF Decided, Answered, HeadOf
<1>. QED  BY <1>1, <1>2, <1>3, <1>4, <1>5

\* The invariant holds whatever the bounds and however many Pages tenants wrote.
THEOREM ProjectionInvariant == ProjectionSpec => []ProjectionInv
<1>1. ProjectionInv /\ [ProjectionNext]_projectionVars => ProjectionInv'
  BY ProjectionSteps, ProjectionStutters
<1>. QED  BY ProjectionInitially, <1>1, PTL DEF ProjectionSpec

\* The tables name Pages and Revisions of the kinds they are about.
THEOREM ProjectionsAreTyped == ProjectionSpec => []ProjectionTypeOK
<1>1. ProjectionInv => ProjectionTypeOK
  BY DEF ProjectionInv, ProjectionTypeOK, Numbered, Referring, RowsNamed, SummaryRow,
         ValidityRow, Ordered, HeadOf
<1>. QED  BY <1>1, ProjectionInvariant, PTL

\* The default retrieval filter hides no effective Page without showing a newer
\* one that carries it, directly or through others, and reconciliation never
\* makes Pages supersede each other in a circle.
THEOREM RecallReachesAlways == ProjectionSpec => []RecallReaches
<1>1. ProjectionInv => SupersessionAcyclic
  BY DEF ProjectionInv, Ordered, Supersedes, SupersessionAcyclic
<1>2. ProjectionInv => ShownReaches
  BY NewestIsRecalled DEF ProjectionInv
<1>3. ProjectionInv => RecallReaches
  BY <1>1, <1>2 DEF RecallReaches
<1>. QED  BY <1>3, ProjectionInvariant, PTL

\* A target of feedback is decided once for its Page, however often the feedback
\* is edited, and its current Revision says how.
THEOREM FeedbackIsDecidedOnce == ProjectionSpec => []FeedbackDecidedOnce
<1>1. ProjectionInv => FeedbackDecidedOnce
  BY DEF ProjectionInv, Decided, Answered, FeedbackDecidedOnce
<1>. QED  BY <1>1, ProjectionInvariant, PTL

-----------------------------------------------------------------------------
(***************************************************************************)
(* Storage, for a stream of any length and any bounds.  A source of the    *)
(* stream is its own Page, a position of its own, or a row of the pack     *)
(* that its row names, and what holds a source says so; whatever refers to *)
(* a Revision by text is rewritten with it or keeps it from collection.    *)
(* Writes, packing and unpacking are all rewrites of one shape.            *)
(***************************************************************************)

-----------------------------------------------------------------------------
(* The inductive invariant                                                 *)

PageStatuses == {"active", "superseded", "tombstoned"}

\* Identifiers: positions of the stream that was ingested, or given out later.
Counted ==
    /\ used \in [page : Nat, rev : Nat] /\ MaxSources <= used.page /\ MaxSources <= used.rev
    /\ \E n \in 0 .. MaxSources : DOMAIN entries = 1 .. n
    /\ \A p \in DOMAIN storedPages : p \in DOMAIN entries \/ p \in MaxSources + 1 .. used.page
    /\ \A r \in DOMAIN storedRevs : r \in DOMAIN entries \/ r \in MaxSources + 1 .. used.rev

\* Each Page has the newest of its Revisions as head; a Revision that a position
\* identifies is its source alone.
Heading ==
    /\ storedPages \in [DOMAIN storedPages -> [head : DOMAIN storedRevs, status : PageStatuses]]
    /\ \A p \in DOMAIN storedPages :
          /\ storedRevs[CurrentOf(p)].page = p
          /\ p \in DOMAIN entries => Span(p) \subseteq {p}
    /\ \A r \in DOMAIN storedRevs :
          /\ storedRevs[r].page \in DOMAIN storedPages
          /\ r <= CurrentOf(storedRevs[r].page)
          /\ storedRevs[r].span \subseteq DOMAIN entries
          /\ r \in DOMAIN entries => storedRevs[r].page = r /\ storedRevs[r].span = {r}

\* The row of a packed source names a deleted Page or the head of a pack that holds
\* it, and a pack holds at least two, whose rows name it.
PackRow(i) ==
    LET p == packs[i].page
    IN  /\ p \in DOMAIN storedPages /\ p \notin DOMAIN entries
        /\ \/ storedPages[p].status = "tombstoned"
           \/ InUse(p) /\ packs[i].rev = CurrentOf(p) /\ i \in Span(p)
PackSpan(p) ==
    /\ \A i \in Span(p) : i \in DOMAIN packs /\ packs[i].page = p
    /\ Span(p) # {} => \E i, j \in Span(p) : i # j
Placed ==
    /\ DOMAIN packs \subseteq DOMAIN entries
    /\ \A i \in DOMAIN entries : i \in DOMAIN storedPages <=> i \notin DOMAIN packs
    /\ \A i \in DOMAIN packs : PackRow(i)
    /\ \A p \in DOMAIN storedPages : InUse(p) /\ p \notin DOMAIN entries => PackSpan(p)

\* What refers to Revisions and Pages, by foreign keys or in text.
Resolved ==
    /\ \A e \in storedInputs : e[1] \in DOMAIN storedRevs /\ e[2] \in DOMAIN storedRevs
    /\ storedRelations \in [DOMAIN storedRelations ->
          [from : DOMAIN storedPages, to : DOMAIN storedPages,
           basis : SUBSET DOMAIN storedRevs, active : BOOLEAN]]
    /\ DOMAIN leases \subseteq DOMAIN storedRevs /\ leases \in [DOMAIN leases -> Nat]
    /\ keys \in [DOMAIN keys -> [rev : DOMAIN storedRevs, at : Nat]]
    /\ \A i \in DOMAIN keys : i \in storedRevs[keys[i].rev].span
    /\ now \in Nat

StorageInv == Counted /\ Heading /\ Placed /\ Resolved

-----------------------------------------------------------------------------
(* Identifiers and spans                                                   *)

\* What was ingested comes first, and what is given out is new.
LEMMA Identifiers ==
    ASSUME Counted
    PROVE  /\ MaxSources \in Nat /\ NextPage \in Nat /\ NextRevision \in Nat
           /\ used.page \in Nat /\ used.rev \in Nat
           /\ MaxSources < NextPage /\ MaxSources < NextRevision
           /\ NextPage \notin DOMAIN storedPages /\ NextPage \notin DOMAIN entries
           /\ NextRevision \notin DOMAIN storedRevs /\ NextRevision \notin DOMAIN entries
           /\ \A i \in DOMAIN entries : i \in Nat /\ i <= MaxSources
           /\ \A r \in DOMAIN storedRevs : r \in Nat /\ r < NextRevision
           /\ \A p \in DOMAIN storedPages :
                 p \in Nat /\ p < NextPage /\ (Sealed(p) <=> p \in DOMAIN entries)
<1>1. MaxSources \in Nat
  BY StorageAssumption
<1>2. /\ used.page \in Nat /\ used.rev \in Nat
      /\ MaxSources <= used.page /\ MaxSources <= used.rev
  BY DEF Counted
<1>3. \A i \in DOMAIN entries : i \in Nat /\ i <= MaxSources
  BY <1>1 DEF Counted
<1>4. \A r \in DOMAIN storedRevs : r \in Nat /\ r <= used.rev
  BY <1>1, <1>2, <1>3 DEF Counted
<1>5. \A p \in DOMAIN storedPages : p \in Nat /\ p <= used.page
  BY <1>1, <1>2, <1>3 DEF Counted
<1>6. \A p \in DOMAIN storedPages : p <= MaxSources <=> p \in DOMAIN entries
  BY <1>1, <1>2, <1>3 DEF Counted
<1>. QED  BY <1>1, <1>2, <1>3, <1>4, <1>5, <1>6 DEF NextPage, NextRevision, Sealed

\* Two members of a finite set make more than one.
LEMMA TwoAreMore ==
    ASSUME NEW S, IsFiniteSet(S), NEW i \in S, NEW j \in S, i # j
    PROVE  Cardinality(S) > 1
<1>1. IsFiniteSet({}) /\ Cardinality({}) = 0
  BY FS_EmptySet
<1>2. IsFiniteSet({i}) /\ Cardinality({i}) = 1
  BY FS_Singleton
<1>3. IsFiniteSet({i} \cup {j}) /\ Cardinality({i} \cup {j}) = Cardinality({i}) + 1
  BY <1>2, FS_AddElement
<1>4. {i} \cup {j} \subseteq S
  OBVIOUS
<1>5. Cardinality({i} \cup {j}) <= Cardinality(S) /\ Cardinality(S) \in Nat
  BY <1>4, FS_Subset, FS_CardinalityType
<1>. QED  BY <1>2, <1>3, <1>5

\* More than one member is at least two.
LEMMA MoreAreTwo ==
    ASSUME NEW S, IsFiniteSet(S), Cardinality(S) > 1
    PROVE  \E i, j \in S : i # j
<1>1. SUFFICES ASSUME ~\E i, j \in S : i # j PROVE FALSE
  OBVIOUS
<1>2. CASE S = {}
  BY <1>2, FS_EmptySet
<1>3. CASE S # {}
  <2>1. PICK i \in S : TRUE
    BY <1>3
  <2>2. S = {i}
    BY <1>1, <2>1
  <2>. QED  BY <2>2, FS_Singleton
<1>. QED  BY <1>2, <1>3

LEMMA SpansAreFinite ==
    ASSUME Counted, NEW S \in SUBSET DOMAIN entries
    PROVE  IsFiniteSet(S)
<1>1. PICK n \in 0 .. MaxSources : DOMAIN entries = 1 .. n
  BY DEF Counted
<1>2. IsFiniteSet(1 .. n)
  BY FS_Interval, StorageAssumption
<1>. QED  BY <1>1, <1>2, FS_Subset

\* Pages that are shown hold different sources.
LEMMA SpansAreDisjoint ==
    ASSUME Heading, Placed, NEW p \in DOMAIN storedPages, NEW q \in DOMAIN storedPages,
           InUse(p), InUse(q), p # q
    PROVE  Span(p) \cap Span(q) = {}
<1>. SUFFICES ASSUME NEW i \in Span(p), i \in Span(q) PROVE FALSE
  OBVIOUS
<1>1. ASSUME NEW a \in DOMAIN storedPages, InUse(a), i \in Span(a)
      PROVE  \/ a \in DOMAIN entries /\ a = i /\ i \notin DOMAIN packs
             \/ a \notin DOMAIN entries /\ i \in DOMAIN packs /\ packs[i].page = a
  <2>1. CASE a \in DOMAIN entries
    <3>1. a = i
      BY <1>1, <2>1 DEF Heading
    <3>. QED  BY <1>1, <2>1, <3>1 DEF Placed
  <2>2. CASE a \notin DOMAIN entries
    BY <1>1, <2>2 DEF Placed, PackSpan
  <2>. QED  BY <2>1, <2>2
<1>. QED  BY <1>1

-----------------------------------------------------------------------------
(* What a rewrite of Pages keeps                                           *)

\* One transaction: Pages of positions go with their only Revisions (packed) or
\* come back (unpacked), and a Page gets the next Revision as head.
Rewritten(gone, back, p, span) ==
    /\ gone \subseteq DOMAIN entries \cap DOMAIN storedPages /\ \A g \in gone : CurrentOf(g) = g
    /\ back \subseteq DOMAIN entries /\ back \cap DOMAIN storedPages = {}
    /\ p \notin gone /\ p \notin back /\ (p \in DOMAIN storedPages \/ p = NextPage)
    /\ span \subseteq DOMAIN entries /\ (p \in DOMAIN entries => span \subseteq {p})
    /\ entries' = entries
    /\ used' \in [page : Nat, rev : Nat] /\ used'.rev = NextRevision
    /\ p <= used'.page /\ used.page <= used'.page
    /\ DOMAIN storedRevs' = (DOMAIN storedRevs \ gone) \cup back \cup {NextRevision}
    /\ \A r \in DOMAIN storedRevs \ gone : storedRevs'[r] = storedRevs[r]
    /\ \A i \in back : storedRevs'[i].page = i /\ storedRevs'[i].span = {i}
    /\ storedRevs'[NextRevision].page = p /\ storedRevs'[NextRevision].span = span
    /\ DOMAIN storedPages' = (DOMAIN storedPages \ gone) \cup back \cup {p}
    /\ storedPages' \in [DOMAIN storedPages' -> [head : Nat, status : PageStatuses]]
    /\ \A q \in DOMAIN storedPages \ gone : q # p => storedPages'[q].head = storedPages[q].head
    /\ \A i \in back : storedPages'[i].head = i
    /\ storedPages'[p].head = NextRevision

LEMMA RewriteKeeps ==
    ASSUME Counted, Heading, NEW gone, NEW back, NEW p, NEW span, Rewritten(gone, back, p, span)
    PROVE  Counted' /\ Heading'
<1>. DEFINE k == NextRevision
<1>1. /\ MaxSources \in Nat /\ k \in Nat /\ used.page \in Nat /\ used.rev \in Nat
      /\ k = used.rev + 1 /\ MaxSources < k
      /\ NextPage = used.page + 1 /\ NextPage \notin DOMAIN entries
      /\ k \notin DOMAIN storedRevs /\ k \notin DOMAIN entries
      /\ \A i \in DOMAIN entries : i \in Nat /\ i <= MaxSources
      /\ \A r \in DOMAIN storedRevs : r \in Nat /\ r < k
  BY Identifiers DEF NextPage, NextRevision
<1>2. /\ gone \subseteq DOMAIN entries \cap DOMAIN storedPages /\ \A g \in gone : CurrentOf(g) = g
      /\ back \subseteq DOMAIN entries /\ back \cap DOMAIN storedPages = {}
      /\ p \notin gone /\ p \notin back /\ (p \in DOMAIN storedPages \/ p = NextPage)
      /\ span \subseteq DOMAIN entries /\ (p \in DOMAIN entries => span \subseteq {p})
      /\ entries' = entries
  BY DEF Rewritten
<1>3. /\ used' \in [page : Nat, rev : Nat] /\ used'.rev = k
      /\ p <= used'.page /\ used.page <= used'.page
  BY DEF Rewritten
<1>4. /\ DOMAIN storedRevs' = (DOMAIN storedRevs \ gone) \cup back \cup {k}
      /\ \A r \in DOMAIN storedRevs \ gone : storedRevs'[r] = storedRevs[r]
      /\ \A i \in back : storedRevs'[i].page = i /\ storedRevs'[i].span = {i}
      /\ storedRevs'[k].page = p /\ storedRevs'[k].span = span
  BY DEF Rewritten
<1>5. /\ DOMAIN storedPages' = (DOMAIN storedPages \ gone) \cup back \cup {p}
      /\ storedPages' \in [DOMAIN storedPages' -> [head : Nat, status : PageStatuses]]
      /\ \A q \in DOMAIN storedPages \ gone : q # p => storedPages'[q].head = storedPages[q].head
      /\ \A i \in back : storedPages'[i].head = i
      /\ storedPages'[p].head = k
  BY DEF Rewritten
<1>. HIDE DEF k
<1>6. Counted'
  <2>1. \A q \in DOMAIN storedPages' : q \in DOMAIN entries' \/ q \in MaxSources + 1 .. used'.page
    <3>1. ASSUME NEW q \in DOMAIN storedPages, q \notin DOMAIN entries
          PROVE  q \in MaxSources + 1 .. used'.page
      <4>1. q \in MaxSources + 1 .. used.page
        BY <3>1 DEF Counted
      <4>. QED  BY <1>1, <1>3, <4>1
    <3>2. p = NextPage => p \in MaxSources + 1 .. used'.page
      <4>1. MaxSources <= used.page
        BY DEF Counted
      <4>. QED  BY <1>1, <1>3, <4>1
    <3>. QED  BY <1>2, <1>5, <3>1, <3>2
  <2>2. \A r \in DOMAIN storedRevs' : r \in DOMAIN entries' \/ r \in MaxSources + 1 .. used'.rev
    <3>1. ASSUME NEW r \in DOMAIN storedRevs, r \notin DOMAIN entries
          PROVE  r \in MaxSources + 1 .. used'.rev
      <4>1. r \in MaxSources + 1 .. used.rev
        BY <3>1 DEF Counted
      <4>. QED  BY <1>1, <1>3, <4>1
    <3>2. k \in MaxSources + 1 .. used'.rev
      BY <1>1, <1>3
    <3>. QED  BY <1>2, <1>4, <3>1, <3>2
  <2>3. MaxSources <= used'.page /\ MaxSources <= used'.rev
    <3>1. MaxSources <= used.page
      BY DEF Counted
    <3>. QED  BY <1>1, <1>3, <3>1
  <2>4. \E n \in 0 .. MaxSources : DOMAIN entries' = 1 .. n
    BY <1>2 DEF Counted
  <2>. QED  BY <1>3, <2>1, <2>2, <2>3, <2>4 DEF Counted
<1>7. /\ \A q \in DOMAIN storedPages : /\ storedPages[q].head \in DOMAIN storedRevs
                                       /\ storedRevs[storedPages[q].head].page = q
                                       /\ q \in DOMAIN entries => storedRevs[storedPages[q].head].span \subseteq {q}
      /\ \A r \in DOMAIN storedRevs :
            /\ storedRevs[r].page \in DOMAIN storedPages
            /\ r <= storedPages[storedRevs[r].page].head
            /\ storedRevs[r].span \subseteq DOMAIN entries
            /\ r \in DOMAIN entries => storedRevs[r].page = r /\ storedRevs[r].span = {r}
      /\ \A g \in gone : storedPages[g].head = g
  BY <1>2 DEF Heading, CurrentOf, Span
<1>8. \A i \in back : i \notin DOMAIN storedRevs
  BY <1>2, <1>7
<1>9. ASSUME NEW q \in DOMAIN storedPages \ gone
      PROVE  storedPages[q].head \notin gone
  BY <1>2, <1>7
<1>10. ASSUME NEW r \in DOMAIN storedRevs \ gone
       PROVE  storedRevs[r].page \notin gone
  <2>1. ASSUME storedRevs[r].page \in gone PROVE FALSE
    <3>1. r <= storedRevs[r].page /\ storedRevs[r].page \in DOMAIN entries
      BY <1>2, <1>7, <2>1
    <3>2. r \in Nat /\ r <= MaxSources
      BY <1>1, <3>1
    <3>3. r \in DOMAIN entries
      BY <1>1, <3>2 DEF Counted
    <3>. QED  BY <1>7, <2>1, <3>3
  <2>. QED  BY <2>1
<1>11. ASSUME NEW q \in DOMAIN storedPages'
       PROVE  /\ storedPages'[q].head \in DOMAIN storedRevs'
              /\ storedRevs'[storedPages'[q].head].page = q
              /\ q \in DOMAIN entries => storedRevs'[storedPages'[q].head].span \subseteq {q}
  <2>1. CASE q = p
    BY <1>2, <1>4, <1>5, <2>1
  <2>2. CASE q \in back
    BY <1>4, <1>5, <2>2
  <2>3. CASE q \in DOMAIN storedPages \ gone /\ q # p
    BY <1>4, <1>5, <1>7, <1>9, <2>3
  <2>. QED  BY <1>5, <2>1, <2>2, <2>3
<1>12. ASSUME NEW r \in DOMAIN storedRevs'
       PROVE  /\ storedRevs'[r].page \in DOMAIN storedPages'
              /\ r <= storedPages'[storedRevs'[r].page].head
              /\ storedRevs'[r].span \subseteq DOMAIN entries
              /\ r \in DOMAIN entries => storedRevs'[r].page = r /\ storedRevs'[r].span = {r}
  <2>1. CASE r = k
    BY <1>1, <1>2, <1>4, <1>5, <2>1
  <2>2. CASE r \in back
    BY <1>1, <1>2, <1>4, <1>5, <2>2
  <2>3. CASE r \in DOMAIN storedRevs \ gone
    <3>1. storedRevs'[r] = storedRevs[r] /\ storedRevs[r].page \in DOMAIN storedPages \ gone
      BY <1>4, <1>7, <1>10, <2>3
    <3>2. CASE storedRevs[r].page = p
      BY <1>1, <1>5, <1>7, <2>3, <3>1, <3>2
    <3>3. CASE storedRevs[r].page # p
      BY <1>5, <1>7, <2>3, <3>1, <3>3
    <3>. QED  BY <3>2, <3>3
  <2>. QED  BY <1>4, <2>1, <2>2, <2>3
<1>13. storedPages' \in [DOMAIN storedPages' -> [head : DOMAIN storedRevs', status : PageStatuses]]
  BY <1>5, <1>11
<1>14. Heading'
  BY <1>2, <1>11, <1>12, <1>13 DEF Heading, CurrentOf, Span
<1>. QED  BY <1>6, <1>14

-----------------------------------------------------------------------------
(* Writers                                                                 *)

\* Nothing that refers to a Revision or a Page loses it.
LEMMA ReferencesStay ==
    ASSUME Resolved,
           \A r \in DOMAIN storedRevs : r \in DOMAIN storedRevs' /\ storedRevs'[r] = storedRevs[r],
           DOMAIN storedPages \subseteq DOMAIN storedPages',
           \A e \in storedInputs' : \/ e \in storedInputs
                                    \/ e[1] \in DOMAIN storedRevs' /\ e[2] \in DOMAIN storedRevs',
           storedRelations' \in [DOMAIN storedRelations' ->
              [from : DOMAIN storedPages', to : DOMAIN storedPages',
               basis : SUBSET DOMAIN storedRevs', active : BOOLEAN]],
           UNCHANGED <<leases, keys, now>>
    PROVE  Resolved'
<1>1. \A e \in storedInputs' : e[1] \in DOMAIN storedRevs' /\ e[2] \in DOMAIN storedRevs'
  BY DEF Resolved
<1>2. DOMAIN leases' \subseteq DOMAIN storedRevs' /\ leases' \in [DOMAIN leases' -> Nat]
  BY DEF Resolved
<1>3. keys' \in [DOMAIN keys' -> [rev : DOMAIN storedRevs', at : Nat]]
  BY DEF Resolved
<1>4. \A i \in DOMAIN keys' : i \in storedRevs'[keys'[i].rev].span
  BY DEF Resolved
<1>. QED  BY <1>1, <1>2, <1>3, <1>4 DEF Resolved

LEMMA RelationsStay ==
    ASSUME Resolved, DOMAIN storedRevs \subseteq DOMAIN storedRevs',
           DOMAIN storedPages \subseteq DOMAIN storedPages'
    PROVE  /\ storedRelations \in [DOMAIN storedRelations ->
                [from : DOMAIN storedPages', to : DOMAIN storedPages',
                 basis : SUBSET DOMAIN storedRevs', active : BOOLEAN]]
           /\ \A p : Retracted(p) \in [DOMAIN Retracted(p) ->
                [from : DOMAIN storedPages', to : DOMAIN storedPages',
                 basis : SUBSET DOMAIN storedRevs', active : BOOLEAN]]
<1>. DEFINE Row == [from : DOMAIN storedPages', to : DOMAIN storedPages',
                    basis : SUBSET DOMAIN storedRevs', active : BOOLEAN]
<1>1. \A l \in DOMAIN storedRelations : storedRelations[l] \in Row
  BY DEF Resolved
<1>2. storedRelations \in [DOMAIN storedRelations -> Row]
  BY <1>1 DEF Resolved
<1>3. \A l \in DOMAIN storedRelations : [storedRelations[l] EXCEPT !.active = FALSE] \in Row
  BY <1>1
<1>. HIDE DEF Row
<1>4. \A p : Retracted(p) \in [DOMAIN Retracted(p) -> Row]
  BY <1>1, <1>3 DEF Retracted
<1>. QED  BY <1>2, <1>4 DEF Row

\* A new head for one Page, whose sources no pack holds or which is deleted.
LEMMA PublicationPlaced ==
    ASSUME Counted, Heading, Placed, NEW p, NEW span, Rewritten({}, {}, p, span), packs' = packs,
           \A q \in DOMAIN storedPages : q # p => storedPages'[q] = storedPages[q],
           \/ storedPages'[p].status = "tombstoned"
           \/ p \in DOMAIN entries
           \/ span = {} /\ \A i \in DOMAIN packs : packs[i].page # p,
           p = NextPage => storedPages'[p].status # "tombstoned"
    PROVE  Placed'
<1>. DEFINE k == NextRevision
<1>1. /\ NextPage \notin DOMAIN entries /\ NextPage \notin DOMAIN storedPages
      /\ k \notin DOMAIN storedRevs
  BY Identifiers
<1>2. /\ p \in DOMAIN storedPages \/ p = NextPage
      /\ entries' = entries
      /\ DOMAIN storedPages' = DOMAIN storedPages \cup {p}
      /\ storedPages'[p].head = k
      /\ \A r \in DOMAIN storedRevs : storedRevs'[r] = storedRevs[r]
      /\ storedRevs'[k].page = p /\ storedRevs'[k].span = span
  BY DEF Rewritten
<1>3. ASSUME NEW q \in DOMAIN storedPages, q # p
      PROVE  /\ CurrentOf(q)' = CurrentOf(q) /\ Span(q)' = Span(q)
             /\ InUse(q)' <=> InUse(q)
             /\ storedPages'[q].status = storedPages[q].status
  <2>1. storedPages'[q] = storedPages[q] /\ storedPages[q].head \in DOMAIN storedRevs
    BY <1>3 DEF Heading
  <2>. QED  BY <1>2, <2>1 DEF CurrentOf, Span, InUse
<1>. HIDE DEF k
<1>4. ASSUME NEW i \in DOMAIN packs PROVE PackRow(i)'
  <2>1. PackRow(i)
    BY DEF Placed
  <2>2. CASE packs[i].page # p
    BY <1>2, <1>3, <2>1, <2>2 DEF PackRow
  <2>3. CASE packs[i].page = p
    <3>1. p \in DOMAIN storedPages /\ p \notin DOMAIN entries
      BY <2>1, <2>3 DEF PackRow
    <3>2. storedPages'[p].status = "tombstoned"
      BY <2>3, <3>1
    <3>. QED  BY <1>2, <2>3, <3>1, <3>2 DEF PackRow
  <2>. QED  BY <2>2, <2>3
<1>5. ASSUME NEW q \in DOMAIN storedPages', InUse(q)', q \notin DOMAIN entries PROVE PackSpan(q)'
  <2>1. CASE q = p
    <3>1. storedPages'[p].status # "tombstoned"
      BY <1>5, <2>1 DEF InUse
    <3>2. Span(q)' = {}
      BY <1>2, <1>5, <2>1, <3>1 DEF Span, CurrentOf
    <3>. QED  BY <3>2 DEF PackSpan
  <2>2. CASE q # p
    <3>1. q \in DOMAIN storedPages /\ PackSpan(q)
      BY <1>2, <1>3, <1>5, <2>2 DEF Placed
    <3>. QED  BY <1>3, <2>2, <3>1 DEF PackSpan
  <2>. QED  BY <2>1, <2>2
<1>6. \A i \in DOMAIN entries : i \in DOMAIN storedPages' <=> i \notin DOMAIN packs
  BY <1>1, <1>2 DEF Placed
<1>. QED  BY <1>2, <1>4, <1>5, <1>6 DEF Placed

\* insert_revision.
LEMMA InsertedRewrites ==
    ASSUME Counted, Heading, NEW p, NEW span, NEW from, Inserted(p, span, from), entries' = entries,
           p \in DOMAIN storedPages \/ p = NextPage,
           span \subseteq DOMAIN entries, p \in DOMAIN entries => span \subseteq {p}
    PROVE  /\ Rewritten({}, {}, p, span)
           /\ storedPages' = Put(storedPages, p, [head |-> NextRevision, status |-> "active"])
           /\ \A r \in DOMAIN storedRevs : r \in DOMAIN storedRevs' /\ storedRevs'[r] = storedRevs[r]
<1>. DEFINE k == NextRevision
            pageRow == [head |-> k, status |-> "active"]
            revRow == [page |-> p, span |-> span, at |-> now]
<1>1. /\ k \in Nat /\ used.page \in Nat /\ k \notin DOMAIN storedRevs
      /\ NextPage = used.page + 1
      /\ \A q \in DOMAIN storedPages : q \in Nat
      /\ \A r \in DOMAIN storedRevs : r \in Nat
  BY Identifiers DEF NextPage
<1>2. /\ storedRevs' = Put(storedRevs, k, revRow) /\ storedPages' = Put(storedPages, p, pageRow)
      /\ used' = [page |-> IF p > used.page THEN p ELSE used.page, rev |-> k]
  BY DEF Inserted
<1>3. /\ pageRow \in [head : Nat, status : PageStatuses] /\ pageRow.head = k
      /\ revRow.page = p /\ revRow.span = span
  BY <1>1 DEF PageStatuses
<1>4. \A q \in DOMAIN storedPages : storedPages[q] \in [head : Nat, status : PageStatuses]
  BY <1>1 DEF Heading
<1>. HIDE DEF k, pageRow, revRow
<1>5. /\ DOMAIN storedRevs' = DOMAIN storedRevs \cup {k} /\ storedRevs'[k] = revRow
      /\ \A r \in DOMAIN storedRevs : storedRevs'[r] = storedRevs[r]
  BY <1>1, <1>2 DEF Put
<1>6. /\ DOMAIN storedPages' = DOMAIN storedPages \cup {p} /\ storedPages'[p] = pageRow
      /\ \A q \in DOMAIN storedPages : q # p => storedPages'[q] = storedPages[q]
      /\ storedPages' = [q \in DOMAIN storedPages' |-> storedPages'[q]]
  BY <1>2 DEF Put
<1>7. storedPages' \in [DOMAIN storedPages' -> [head : Nat, status : PageStatuses]]
  BY <1>3, <1>4, <1>6
<1>8. /\ used' \in [page : Nat, rev : Nat] /\ used'.rev = k
      /\ p <= used'.page /\ used.page <= used'.page
  BY <1>1, <1>2
<1>9. Rewritten({}, {}, p, span)
  BY <1>3, <1>5, <1>6, <1>7, <1>8 DEF Rewritten, k
<1>. QED  BY <1>2, <1>5, <1>9 DEF k, pageRow

LEMMA WriteNoteKeeps ==
    ASSUME StorageInv, NEW from \in SUBSET DOMAIN storedRevs, WriteNote(from)
    PROVE  StorageInv'
<1>. USE DEF StorageInv
<1>. DEFINE p == NextPage
<1>1. /\ Inserted(p, {}, from)
      /\ UNCHANGED <<entries, packs, storedRelations, keys, leases, records, now>>
  BY DEF WriteNote
<1>2. p \notin DOMAIN entries /\ p \notin DOMAIN storedPages
  BY Identifiers
<1>3. /\ Rewritten({}, {}, p, {})
      /\ storedPages' = Put(storedPages, p, [head |-> NextRevision, status |-> "active"])
      /\ \A r \in DOMAIN storedRevs : r \in DOMAIN storedRevs' /\ storedRevs'[r] = storedRevs[r]
  BY <1>1, <1>2, InsertedRewrites
<1>4. storedInputs' = storedInputs \cup {<<NextRevision, r>> : r \in from}
  BY <1>1 DEF Inserted
<1>. HIDE DEF p
<1>5. /\ \A q \in DOMAIN storedPages : q # p => storedPages'[q] = storedPages[q]
      /\ storedPages'[p].status = "active" /\ DOMAIN storedPages \subseteq DOMAIN storedPages'
  BY <1>3 DEF Put
<1>6. \A i \in DOMAIN packs : packs[i].page # p
  BY <1>2 DEF Placed, PackRow
<1>7. Counted' /\ Heading'
  BY <1>3, RewriteKeeps
<1>8. Placed'
  BY <1>1, <1>3, <1>5, <1>6, PublicationPlaced
<1>9. Resolved'
  <2>1. NextRevision \in DOMAIN storedRevs'
    BY <1>3 DEF Rewritten
  <2>2. \A e \in storedInputs' : \/ e \in storedInputs
                                 \/ e[1] \in DOMAIN storedRevs' /\ e[2] \in DOMAIN storedRevs'
    BY <1>3, <1>4, <2>1
  <2>. QED  BY <1>1, <1>3, <1>5, <2>2, ReferencesStay, RelationsStay
<1>. QED  BY <1>7, <1>8, <1>9

\* What is repaired keeps its sources, and a pack is not repaired.
LEMMA RepairKeeps ==
    ASSUME StorageInv, NEW p \in DOMAIN storedPages, Repair(p)
    PROVE  StorageInv'
<1>. USE DEF StorageInv
<1>. DEFINE span == Span(p)
<1>1. /\ InUse(p) /\ ~Packed(p) /\ Inserted(p, span, {CurrentOf(p)})
      /\ UNCHANGED <<entries, packs, storedRelations, keys, leases, records, now>>
  BY DEF Repair
<1>2. /\ CurrentOf(p) \in DOMAIN storedRevs
      /\ span \subseteq DOMAIN entries /\ (p \in DOMAIN entries => span \subseteq {p})
  BY DEF Heading, Span, CurrentOf
<1>3. p \in DOMAIN entries \/ (span = {} /\ \A i \in DOMAIN packs : packs[i].page # p)
  <2>. SUFFICES ASSUME p \notin DOMAIN entries
                PROVE  span = {} /\ \A i \in DOMAIN packs : packs[i].page # p
    OBVIOUS
  <2>1. PackSpan(p)
    BY <1>1 DEF Placed
  <2>2. ASSUME NEW i \in span, NEW j \in span, i # j PROVE FALSE
    BY <1>1, <1>2, <2>2, SpansAreFinite, TwoAreMore DEF Packed
  <2>3. span = {}
    BY <2>1, <2>2 DEF PackSpan
  <2>4. ASSUME NEW i \in DOMAIN packs, packs[i].page = p PROVE FALSE
    BY <1>1, <2>3, <2>4 DEF Placed, PackRow, InUse
  <2>. QED  BY <2>3, <2>4
<1>. HIDE DEF span
<1>4. /\ Rewritten({}, {}, p, span)
      /\ storedPages' = Put(storedPages, p, [head |-> NextRevision, status |-> "active"])
      /\ \A r \in DOMAIN storedRevs : r \in DOMAIN storedRevs' /\ storedRevs'[r] = storedRevs[r]
  BY <1>1, <1>2, InsertedRewrites
<1>5. storedInputs' = storedInputs \cup {<<NextRevision, r>> : r \in {CurrentOf(p)}}
  BY <1>1 DEF Inserted
<1>6. /\ \A q \in DOMAIN storedPages : q # p => storedPages'[q] = storedPages[q]
      /\ DOMAIN storedPages \subseteq DOMAIN storedPages'
  BY <1>4 DEF Put
<1>7. p # NextPage
  BY Identifiers
<1>8. Counted' /\ Heading'
  BY <1>4, RewriteKeeps
<1>9. Placed'
  BY <1>1, <1>3, <1>4, <1>6, <1>7, PublicationPlaced
<1>10. Resolved'
  <2>1. NextRevision \in DOMAIN storedRevs'
    BY <1>4 DEF Rewritten
  <2>2. \A e \in storedInputs' : \/ e \in storedInputs
                                 \/ e[1] \in DOMAIN storedRevs' /\ e[2] \in DOMAIN storedRevs'
    BY <1>2, <1>4, <1>5, <2>1
  <2>. QED  BY <1>1, <1>4, <1>6, <2>2, ReferencesStay, RelationsStay
<1>. QED  BY <1>8, <1>9, <1>10

LEMMA DeletePageKeeps ==
    ASSUME StorageInv, NEW p \in DOMAIN storedPages, DeletePage(p)
    PROVE  StorageInv'
<1>. USE DEF StorageInv
<1>. DEFINE k == NextRevision
            pageRow == [head |-> k, status |-> "tombstoned"]
            revRow == [page |-> p, span |-> {}, at |-> now]
<1>1. /\ storedRevs' = Put(storedRevs, k, revRow)
      /\ storedPages' = [storedPages EXCEPT ![p] = pageRow]
      /\ storedInputs' = storedInputs \cup {<<k, CurrentOf(p)>>}
      /\ storedRelations' = Retracted(p)
      /\ used' = [used EXCEPT !.rev = k]
      /\ UNCHANGED <<entries, packs, keys, leases, records, now>>
  BY DEF DeletePage, Tombstone
<1>2. /\ k \in Nat /\ used.page \in Nat /\ k \notin DOMAIN storedRevs
      /\ p < NextPage /\ NextPage = used.page + 1 /\ p \in Nat
      /\ \A r \in DOMAIN storedRevs : r \in Nat
  BY Identifiers DEF NextPage
<1>3. /\ pageRow \in [head : Nat, status : PageStatuses] /\ pageRow.head = k
      /\ pageRow.status = "tombstoned" /\ revRow.page = p /\ revRow.span = {}
  BY <1>2 DEF PageStatuses
<1>4. \A q \in DOMAIN storedPages : storedPages[q] \in [head : Nat, status : PageStatuses]
  BY <1>2 DEF Heading
<1>5. CurrentOf(p) \in DOMAIN storedRevs
  BY DEF Heading, CurrentOf
<1>. HIDE DEF k, pageRow, revRow
<1>6. /\ DOMAIN storedRevs' = DOMAIN storedRevs \cup {k} /\ storedRevs'[k] = revRow
      /\ \A r \in DOMAIN storedRevs : storedRevs'[r] = storedRevs[r]
  BY <1>1, <1>2 DEF Put
<1>7. /\ DOMAIN storedPages' = DOMAIN storedPages /\ storedPages'[p] = pageRow
      /\ \A q \in DOMAIN storedPages : q # p => storedPages'[q] = storedPages[q]
      /\ storedPages' = [q \in DOMAIN storedPages' |-> storedPages'[q]]
  BY <1>1
<1>8. storedPages' \in [DOMAIN storedPages' -> [head : Nat, status : PageStatuses]]
  BY <1>3, <1>4, <1>7
<1>9. /\ used' \in [page : Nat, rev : Nat] /\ used'.rev = k
      /\ p <= used'.page /\ used.page <= used'.page
  BY <1>1, <1>2 DEF Counted
<1>10. Rewritten({}, {}, p, {})
  <2>1. k = NextRevision
    BY DEF k
  <2>2. entries' = entries /\ DOMAIN storedRevs' = (DOMAIN storedRevs \ {}) \cup {} \cup {k}
    BY <1>1, <1>6
  <2>3. DOMAIN storedPages' = (DOMAIN storedPages \ {}) \cup {} \cup {p}
    BY <1>7
  <2>4. \A q \in DOMAIN storedPages \ {} : q # p => storedPages'[q].head = storedPages[q].head
    BY <1>7
  <2>5. storedPages'[p].head = k /\ storedRevs'[k].page = p /\ storedRevs'[k].span = {}
    BY <1>3, <1>6, <1>7
  <2>. QED  BY <1>6, <1>8, <1>9, <2>1, <2>2, <2>3, <2>4, <2>5 DEF Rewritten
<1>11. Counted' /\ Heading'
  BY <1>10, RewriteKeeps
<1>12. Placed'
  BY <1>1, <1>2, <1>3, <1>7, <1>10, PublicationPlaced
<1>13. Resolved'
  <2>1. \A e \in storedInputs' : \/ e \in storedInputs
                                 \/ e[1] \in DOMAIN storedRevs' /\ e[2] \in DOMAIN storedRevs'
    BY <1>1, <1>5, <1>6
  <2>. QED  BY <1>1, <1>6, <1>7, <2>1, ReferencesStay, RelationsStay
<1>. QED  BY <1>11, <1>12, <1>13

LEMMA ContentStays ==
    ASSUME Counted, Heading, Placed, UNCHANGED <<storedPages, storedRevs, entries, packs, used>>
    PROVE  Counted' /\ Heading' /\ Placed'
<1>1. Counted'
  BY DEF Counted
<1>2. Heading'
  BY DEF Heading, CurrentOf, Span
<1>3. Placed'
  BY DEF Placed, PackRow, PackSpan, InUse, CurrentOf, Span
<1>. QED  BY <1>1, <1>2, <1>3

LEMMA LinkKeeps ==
    ASSUME StorageInv, NEW p \in DOMAIN storedPages, NEW q \in DOMAIN storedPages, Link(p, q)
    PROVE  StorageInv'
<1>. USE DEF StorageInv
<1>. DEFINE id == NextRelation
            row == [from |-> p, to |-> q, basis |-> {CurrentOf(p), CurrentOf(q)}, active |-> TRUE]
            Row == [from : DOMAIN storedPages', to : DOMAIN storedPages',
                    basis : SUBSET DOMAIN storedRevs', active : BOOLEAN]
<1>1. /\ storedRelations' = Put(storedRelations, id, row)
      /\ UNCHANGED <<storedPages, storedRevs, entries, packs, storedInputs, keys, leases, used, now>>
  BY DEF Link
<1>2. CurrentOf(p) \in DOMAIN storedRevs /\ CurrentOf(q) \in DOMAIN storedRevs
  BY DEF Heading, CurrentOf
<1>3. row \in Row
  BY <1>1, <1>2
<1>4. storedRelations \in [DOMAIN storedRelations -> Row]
  BY <1>1 DEF Resolved
<1>. HIDE DEF id, row, Row
<1>5. storedRelations' \in [DOMAIN storedRelations' -> Row]
  BY <1>1, <1>3, <1>4 DEF Put
<1>6. Resolved'
  BY <1>1, <1>5, ReferencesStay DEF Row
<1>. QED  BY <1>1, <1>6, ContentStays

LEMMA ReferKeeps ==
    ASSUME StorageInv, NEW table, NEW p, Refer(table, p)
    PROVE  StorageInv'
<1>1. UNCHANGED <<storedPages, storedRevs, entries, packs, storedInputs, storedRelations, keys,
                  leases, used, now>>
  BY DEF Refer
<1>2. Resolved'
  BY <1>1 DEF StorageInv, Resolved
<1>. QED  BY <1>1, <1>2, ContentStays DEF StorageInv

LEMMA PutLeaseKeeps ==
    ASSUME StorageInv, NEW r \in DOMAIN storedRevs, NEW until \in Nat, PutLease(r, until)
    PROVE  StorageInv'
<1>1. /\ leases' = Put(leases, r, until)
      /\ UNCHANGED <<storedPages, storedRevs, entries, packs, storedInputs, storedRelations, keys,
                     used, now>>
  BY DEF PutLease
<1>2. DOMAIN leases' = DOMAIN leases \cup {r} /\ leases' \in [DOMAIN leases' -> Nat]
  BY <1>1 DEF Put, StorageInv, Resolved
<1>3. Resolved'
  BY <1>1, <1>2 DEF StorageInv, Resolved
<1>. QED  BY <1>1, <1>3, ContentStays DEF StorageInv

LEMMA TimePassesKeeps == ASSUME StorageInv, TimePasses PROVE StorageInv'
<1>1. /\ now' = now + 1
      /\ UNCHANGED <<storedPages, storedRevs, entries, packs, storedInputs, storedRelations, keys,
                     leases, used>>
  BY DEF TimePasses
<1>2. Resolved'
  BY <1>1 DEF StorageInv, Resolved
<1>. QED  BY <1>1, <1>2, ContentStays DEF StorageInv

\* The next source of the stream.
LEMMA IngestKeeps ==
    ASSUME StorageInv, NEW from \in SUBSET DOMAIN storedRevs, Ingest(from)
    PROVE  StorageInv'
<1>. USE DEF StorageInv
<1>1. PICK n \in 0 .. MaxSources : DOMAIN entries = 1 .. n
  BY DEF Counted
<1>2. MaxSources \in Nat /\ n \in Nat /\ Cardinality(DOMAIN entries) = n
  <2>1. \A m \in Nat : Cardinality(1 .. m) = m
    BY FS_Interval
  <2>2. MaxSources \in Nat /\ n \in Nat
    BY StorageAssumption
  <2>. QED  BY <1>1, <2>1, <2>2
<1>. DEFINE i == n + 1
            pageRow == [head |-> i, status |-> "active"]
            revRow == [page |-> i, span |-> {i}, at |-> now]
            entry == [at |-> now, from |-> from]
            key == [rev |-> i, at |-> now]
<1>3. /\ i <= MaxSources
      /\ storedPages' = Put(storedPages, i, pageRow) /\ storedRevs' = Put(storedRevs, i, revRow)
      /\ entries' = Put(entries, i, entry) /\ keys' = Put(keys, i, key)
      /\ storedInputs' = storedInputs \cup {<<i, r>> : r \in from}
      /\ UNCHANGED <<packs, storedRelations, leases, records, used, now>>
  BY <1>2 DEF Ingest
<1>4. /\ i \in Nat /\ DOMAIN entries \cup {i} = 1 .. i /\ i \notin DOMAIN entries
      /\ i \in 0 .. MaxSources
  BY <1>1, <1>2, <1>3
<1>5. i \notin DOMAIN storedPages /\ i \notin DOMAIN storedRevs
  <2>1. /\ i \in DOMAIN storedPages => i \in MaxSources + 1 .. used.page
        /\ i \in DOMAIN storedRevs => i \in MaxSources + 1 .. used.rev
    BY <1>4 DEF Counted
  <2>. QED  BY <1>2, <1>3, <1>4, <2>1, Identifiers
<1>6. /\ \A r \in DOMAIN storedRevs : r \in Nat
      /\ \A q \in DOMAIN storedPages : storedPages[q] \in [head : DOMAIN storedRevs, status : PageStatuses]
  BY Identifiers DEF Heading
<1>7. /\ \A D : i \in D => pageRow \in [head : D, status : PageStatuses]
      /\ pageRow.head = i /\ pageRow.status = "active"
      /\ revRow.page = i /\ revRow.span = {i}
      /\ key.rev = i /\ \A D : i \in D /\ now \in Nat => key \in [rev : D, at : Nat]
  BY DEF PageStatuses
<1>. HIDE DEF i, pageRow, revRow, entry, key
<1>8. /\ DOMAIN storedRevs' = DOMAIN storedRevs \cup {i} /\ storedRevs'[i] = revRow
      /\ \A r \in DOMAIN storedRevs : storedRevs'[r] = storedRevs[r]
  BY <1>3, <1>5 DEF Put
<1>9. /\ DOMAIN storedPages' = DOMAIN storedPages \cup {i} /\ storedPages'[i] = pageRow
      /\ \A q \in DOMAIN storedPages : storedPages'[q] = storedPages[q]
      /\ storedPages' = [q \in DOMAIN storedPages' |-> storedPages'[q]]
  BY <1>3, <1>5 DEF Put
<1>10. DOMAIN entries' = DOMAIN entries \cup {i}
  BY <1>3 DEF Put
<1>11. Counted'
  <2>1. \E m \in 0 .. MaxSources : DOMAIN entries' = 1 .. m
    BY <1>4, <1>10
  <2>. QED  BY <1>3, <1>8, <1>9, <1>10, <2>1 DEF Counted
<1>12. Heading'
  <2>1. \A q \in DOMAIN storedPages' : storedPages'[q] \in [head : DOMAIN storedRevs', status : PageStatuses]
    BY <1>6, <1>7, <1>8, <1>9
  <2>2. ASSUME NEW q \in DOMAIN storedPages'
        PROVE  /\ storedRevs'[storedPages'[q].head].page = q
               /\ q \in DOMAIN entries' => storedRevs'[storedPages'[q].head].span \subseteq {q}
    <3>1. CASE q = i
      BY <1>7, <1>8, <1>9, <3>1
    <3>2. CASE q \in DOMAIN storedPages
      <4>1. /\ storedPages[q].head \in DOMAIN storedRevs
            /\ storedRevs[storedPages[q].head].page = q
            /\ q \in DOMAIN entries => storedRevs[storedPages[q].head].span \subseteq {q}
        BY <3>2 DEF Heading, CurrentOf, Span
      <4>2. q # i
        BY <1>5, <3>2
      <4>. QED  BY <1>8, <1>9, <1>10, <3>2, <4>1, <4>2
    <3>. QED  BY <1>9, <3>1, <3>2
  <2>3. ASSUME NEW r \in DOMAIN storedRevs'
        PROVE  /\ storedRevs'[r].page \in DOMAIN storedPages'
               /\ r <= storedPages'[storedRevs'[r].page].head
               /\ storedRevs'[r].span \subseteq DOMAIN entries'
               /\ r \in DOMAIN entries' => storedRevs'[r].page = r /\ storedRevs'[r].span = {r}
    <3>1. CASE r = i
      BY <1>4, <1>7, <1>8, <1>9, <1>10, <3>1
    <3>2. CASE r \in DOMAIN storedRevs
      <4>1. /\ storedRevs[r].page \in DOMAIN storedPages
            /\ r <= storedPages[storedRevs[r].page].head
            /\ storedRevs[r].span \subseteq DOMAIN entries
            /\ r \in DOMAIN entries => storedRevs[r].page = r /\ storedRevs[r].span = {r}
        BY <3>2 DEF Heading, CurrentOf
      <4>2. r # i
        BY <1>5, <3>2
      <4>. QED  BY <1>8, <1>9, <1>10, <3>2, <4>1, <4>2
    <3>. QED  BY <1>8, <3>1, <3>2
  <2>. QED  BY <1>9, <2>1, <2>2, <2>3 DEF Heading, CurrentOf, Span
<1>13. ASSUME NEW q \in DOMAIN storedPages
       PROVE  /\ CurrentOf(q)' = CurrentOf(q) /\ Span(q)' = Span(q)
              /\ InUse(q)' <=> InUse(q)
  BY <1>6, <1>8, <1>9 DEF CurrentOf, Span, InUse
<1>14. Placed'
  <2>1. \A x \in DOMAIN entries' : x \in DOMAIN storedPages' <=> x \notin DOMAIN packs
    <3>1. i \notin DOMAIN packs
      BY <1>4 DEF Placed
    <3>. QED  BY <1>4, <1>9, <1>10, <3>1 DEF Placed
  <2>2. ASSUME NEW x \in DOMAIN packs PROVE PackRow(x)'
    <3>1. PackRow(x)
      BY DEF Placed
    <3>2. packs[x].page \in DOMAIN storedPages /\ packs[x].page # i
      BY <1>5, <3>1 DEF PackRow
    <3>. QED  BY <1>3, <1>9, <1>10, <1>13, <3>1, <3>2 DEF PackRow
  <2>3. ASSUME NEW q \in DOMAIN storedPages', InUse(q)', q \notin DOMAIN entries' PROVE PackSpan(q)'
    <3>1. q \in DOMAIN storedPages /\ q \notin DOMAIN entries
      BY <1>9, <1>10, <2>3
    <3>2. PackSpan(q)
      BY <1>13, <2>3, <3>1 DEF Placed
    <3>. QED  BY <1>3, <1>13, <3>1, <3>2 DEF PackSpan
  <2>4. DOMAIN packs \subseteq DOMAIN entries'
    BY <1>10 DEF Placed
  <2>. QED  BY <1>3, <2>1, <2>2, <2>3, <2>4 DEF Placed
<1>15. Resolved'
  <2>1. \A e \in storedInputs' : e[1] \in DOMAIN storedRevs' /\ e[2] \in DOMAIN storedRevs'
    BY <1>3, <1>8 DEF Resolved
  <2>2. /\ DOMAIN keys' = DOMAIN keys \cup {i} /\ keys' = [x \in DOMAIN keys' |-> keys'[x]]
        /\ keys'[i] = key /\ \A x \in DOMAIN keys : x # i => keys'[x] = keys[x]
    BY <1>3 DEF Put
  <2>3. ASSUME NEW x \in DOMAIN keys'
        PROVE  /\ keys'[x] \in [rev : DOMAIN storedRevs', at : Nat]
               /\ x \in storedRevs'[keys'[x].rev].span
    <3>1. CASE x = i
      <4>1. now \in Nat
        BY DEF Resolved
      <4>2. key \in [rev : DOMAIN storedRevs', at : Nat]
        BY <1>7, <1>8, <4>1
      <4>. QED  BY <1>7, <1>8, <2>2, <3>1, <4>2
    <3>2. CASE x # i
      <4>1. x \in DOMAIN keys /\ keys'[x] = keys[x]
        BY <2>2, <3>2
      <4>2. keys[x] \in [rev : DOMAIN storedRevs, at : Nat] /\ x \in storedRevs[keys[x].rev].span
        BY <4>1 DEF Resolved
      <4>. QED  BY <1>8, <4>1, <4>2
    <3>. QED  BY <3>1, <3>2
  <2>4. storedRelations' \in [DOMAIN storedRelations' ->
              [from : DOMAIN storedPages', to : DOMAIN storedPages',
               basis : SUBSET DOMAIN storedRevs', active : BOOLEAN]]
    BY <1>3, <1>8, <1>9, RelationsStay
  <2>5. /\ DOMAIN leases' \subseteq DOMAIN storedRevs' /\ leases' \in [DOMAIN leases' -> Nat]
        /\ now' \in Nat
    BY <1>3, <1>8 DEF Resolved
  <2>. QED  BY <2>1, <2>2, <2>3, <2>4, <2>5 DEF Resolved
<1>. QED  BY <1>11, <1>12, <1>14, <1>15

-----------------------------------------------------------------------------
(* Retention                                                               *)

\* What a plan keeps for itself is no candidate.
LEMMA RootsAreKept ==
    ASSUME NEW R \in SUBSET Candidates
    PROVE  R \subseteq DOMAIN storedRevs /\ R \cap Roots = {}
<1>1. \A r \in Roots : r \in Reach(DOMAIN storedRevs, r, Evidence(storedInputs))
  BY DEF Reach, Roots
<1>2. Roots \subseteq Protected
  BY <1>1 DEF Protected
<1>. QED  BY <1>2 DEF Candidates

LEMMA CollectKeeps ==
    ASSUME StorageInv, NEW R \in SUBSET Candidates, Collect(R)
    PROVE  StorageInv'
<1>. USE DEF StorageInv
<1>1. /\ storedRevs' = Drop(storedRevs, R)
      /\ storedInputs' = {e \in storedInputs : e[1] \notin R /\ e[2] \notin R}
      /\ keys' = Drop(keys, {i \in DOMAIN keys : keys[i].rev \in R /\ ~Live(keys[i])})
      /\ leases' = Drop(leases, {r \in R \cap DOMAIN leases : leases[r] <= now})
      /\ UNCHANGED <<storedPages, entries, packs, storedRelations, records, used, now>>
  BY DEF Collect
<1>2. /\ DOMAIN storedRevs' = DOMAIN storedRevs \ R
      /\ \A r \in DOMAIN storedRevs \ R : storedRevs'[r] = storedRevs[r]
  BY <1>1 DEF Drop
<1>3. R \subseteq DOMAIN storedRevs /\ \A r \in R : r \notin Roots
  BY RootsAreKept
<1>4. \A p \in DOMAIN storedPages : CurrentOf(p) \in DOMAIN storedRevs \ R
  <2>1. \A p \in DOMAIN storedPages : CurrentOf(p) \in DOMAIN storedRevs /\ storedRevs[CurrentOf(p)].page = p
    BY DEF Heading, CurrentOf
  <2>2. \A p \in DOMAIN storedPages : CurrentOf(p) \in Roots
    BY <2>1 DEF Roots
  <2>. QED  BY <1>3, <2>1, <2>2
<1>5. \A p \in DOMAIN storedPages :
         CurrentOf(p)' = CurrentOf(p) /\ Span(p)' = Span(p) /\ (InUse(p)' <=> InUse(p))
  BY <1>1, <1>2, <1>4 DEF CurrentOf, Span, InUse
<1>6. Counted'
  BY <1>1, <1>2 DEF Counted
<1>7. Heading'
  <2>1. \A p \in DOMAIN storedPages : storedPages[p] \in [head : DOMAIN storedRevs', status : PageStatuses]
    <3>1. \A p \in DOMAIN storedPages : /\ storedPages[p] \in [head : DOMAIN storedRevs, status : PageStatuses]
                                        /\ storedPages[p].head \in DOMAIN storedRevs'
      BY <1>2, <1>4 DEF Heading, CurrentOf
    <3>. QED  BY <3>1
  <2>2. storedPages' \in [DOMAIN storedPages' -> [head : DOMAIN storedRevs', status : PageStatuses]]
    BY <1>1, <2>1 DEF Heading
  <2>3. \A p \in DOMAIN storedPages :
           /\ storedRevs'[CurrentOf(p)].page = p
           /\ p \in DOMAIN entries => Span(p) \subseteq {p}
    BY <1>2, <1>4 DEF Heading
  <2>4. \A r \in DOMAIN storedRevs' :
           /\ storedRevs'[r].page \in DOMAIN storedPages
           /\ r <= CurrentOf(storedRevs'[r].page)
           /\ storedRevs'[r].span \subseteq DOMAIN entries
           /\ r \in DOMAIN entries => storedRevs'[r].page = r /\ storedRevs'[r].span = {r}
    BY <1>2 DEF Heading
  <2>. QED  BY <1>1, <1>5, <2>2, <2>3, <2>4 DEF Heading
<1>8. Placed'
  BY <1>1, <1>5 DEF Placed, PackRow, PackSpan
<1>9. Resolved'
  <2>1. \A e \in storedInputs' : e[1] \in DOMAIN storedRevs' /\ e[2] \in DOMAIN storedRevs'
    BY <1>1, <1>2 DEF Resolved
  <2>2. ASSUME NEW l \in DOMAIN storedRelations
        PROVE  storedRelations[l] \in [from : DOMAIN storedPages', to : DOMAIN storedPages',
                                       basis : SUBSET DOMAIN storedRevs', active : BOOLEAN]
    <3>1. storedRelations[l] \in [from : DOMAIN storedPages, to : DOMAIN storedPages,
                                  basis : SUBSET DOMAIN storedRevs, active : BOOLEAN]
      BY DEF Resolved
    <3>2. \A r \in storedRelations[l].basis : r \in Roots
      BY <3>1 DEF Roots
    <3>3. storedRelations[l].basis \subseteq DOMAIN storedRevs'
      BY <1>2, <1>3, <3>1, <3>2
    <3>. QED  BY <1>1, <3>1, <3>3
  <2>3. storedRelations' \in [DOMAIN storedRelations' ->
              [from : DOMAIN storedPages', to : DOMAIN storedPages',
               basis : SUBSET DOMAIN storedRevs', active : BOOLEAN]]
    BY <1>1, <2>2 DEF Resolved
  <2>4. DOMAIN leases' \subseteq DOMAIN storedRevs' /\ leases' \in [DOMAIN leases' -> Nat]
    <3>1. /\ DOMAIN leases' = DOMAIN leases \ {r \in R \cap DOMAIN leases : leases[r] <= now}
          /\ leases' = [r \in DOMAIN leases' |-> leases[r]]
      BY <1>1 DEF Drop
    <3>2. \A r \in R \cap DOMAIN leases : ~(leases[r] > now)
      BY <1>3 DEF Roots, Leased
    <3>3. \A r \in DOMAIN leases : leases[r] \in Nat
      BY DEF Resolved
    <3>4. now \in Nat /\ DOMAIN leases \subseteq DOMAIN storedRevs
      BY DEF Resolved
    <3>5. \A r \in R \cap DOMAIN leases : leases[r] <= now
      BY <3>2, <3>3, <3>4
    <3>. QED  BY <1>2, <3>1, <3>3, <3>4, <3>5
  <2>5. /\ DOMAIN keys' = DOMAIN keys \ {i \in DOMAIN keys : keys[i].rev \in R /\ ~Live(keys[i])}
        /\ keys' = [i \in DOMAIN keys' |-> keys'[i]]
        /\ \A i \in DOMAIN keys' : keys'[i] = keys[i]
    BY <1>1 DEF Drop
  <2>6. ASSUME NEW i \in DOMAIN keys'
        PROVE  /\ keys'[i] \in [rev : DOMAIN storedRevs', at : Nat]
               /\ i \in storedRevs'[keys'[i].rev].span
    <3>1. /\ i \in DOMAIN keys /\ keys'[i] = keys[i]
          /\ keys[i].rev \in R => Live(keys[i])
      BY <2>5
    <3>2. keys[i] \in [rev : DOMAIN storedRevs, at : Nat] /\ i \in storedRevs[keys[i].rev].span
      BY <3>1 DEF Resolved
    <3>3. keys[i].rev \notin R
      BY <1>3, <3>1, <3>2 DEF Roots
    <3>. QED  BY <1>2, <3>1, <3>2, <3>3
  <2>7. now' \in Nat
    BY <1>1 DEF Resolved
  <2>. QED  BY <2>1, <2>3, <2>4, <2>5, <2>6, <2>7 DEF Resolved
<1>. QED  BY <1>6, <1>7, <1>8, <1>9

-----------------------------------------------------------------------------
(* Unpacking                                                               *)

\* The rows of a pack that is shown are those of its sources.
LEMMA RowsAreOfTheSpan ==
    ASSUME Placed, NEW p \in DOMAIN storedPages, InUse(p), p \notin DOMAIN entries
    PROVE  \A i : (i \in DOMAIN packs /\ packs[i].page = p) <=> i \in Span(p)
<1>1. PackSpan(p)
  BY DEF Placed
<1>2. ASSUME NEW i \in DOMAIN packs, packs[i].page = p PROVE i \in Span(p)
  <2>1. PackRow(i)
    BY DEF Placed
  <2>. QED  BY <1>2, <2>1 DEF PackRow, InUse
<1>. QED  BY <1>1, <1>2 DEF PackSpan

LEMMA UnpackPageKeeps ==
    ASSUME StorageInv, NEW p \in DOMAIN storedPages, UnpackPage(p)
    PROVE  StorageInv'
<1>. USE DEF StorageInv
<1>. DEFINE k == NextRevision
            span == Span(p)
            pageRow == [head |-> k, status |-> "tombstoned"]
            revRow == [page |-> p, span |-> {}, at |-> now]
            backRow(i) == [page |-> i, span |-> {i}, at |-> entries[i].at]
            leafRow(i) == [head |-> i, status |-> "active"]
            deleted == [storedPages EXCEPT ![p] = pageRow]
<1>1. /\ InUse(p) /\ Packed(p) /\ span \cap DOMAIN storedPages = {}
      /\ storedRevs' = Put(Over([i \in span |-> backRow(i)], storedRevs), k, revRow)
      /\ storedPages' = Over([i \in span |-> leafRow(i)], deleted)
      /\ packs' = Drop(packs, {i \in DOMAIN packs : packs[i].page = p})
      /\ storedInputs' = storedInputs \cup {<<k, CurrentOf(p)>>}
            \cup UNION {{<<i, r>> : r \in entries[i].from \cap (DOMAIN storedRevs \cup span)} : i \in span}
      /\ storedRelations' = Retracted(p)
      /\ used' = [used EXCEPT !.rev = k]
      /\ UNCHANGED <<entries, keys, leases, records, now>>
  BY DEF UnpackPage, Tombstone
<1>2. /\ k \in Nat /\ used.page \in Nat /\ k \notin DOMAIN storedRevs /\ k \notin DOMAIN entries
      /\ p < NextPage /\ NextPage = used.page + 1 /\ p \in Nat
      /\ \A r \in DOMAIN storedRevs : r \in Nat
      /\ \A i \in DOMAIN entries : i \in Nat
  BY Identifiers DEF NextPage
<1>3. /\ CurrentOf(p) \in DOMAIN storedRevs /\ span \subseteq DOMAIN entries
      /\ p \in DOMAIN entries => span \subseteq {p}
  BY DEF Heading, CurrentOf, Span
<1>4. p \notin DOMAIN entries
  <2>1. IsFiniteSet(span) /\ Cardinality(span) > 1
    BY <1>1, <1>3, SpansAreFinite DEF Packed
  <2>2. \E i, j \in span : i # j
    BY <2>1, MoreAreTwo
  <2>. QED  BY <1>3, <2>2
<1>5. \A i : (i \in DOMAIN packs /\ packs[i].page = p) <=> i \in span
  BY <1>1, <1>4, RowsAreOfTheSpan
<1>6. /\ pageRow \in [head : Nat, status : PageStatuses] /\ pageRow.head = k
      /\ pageRow.status = "tombstoned" /\ revRow.page = p /\ revRow.span = {}
      /\ \A i \in DOMAIN entries :
            /\ leafRow(i) \in [head : Nat, status : PageStatuses] /\ leafRow(i).head = i
            /\ leafRow(i).status = "active" /\ backRow(i).page = i /\ backRow(i).span = {i}
  BY <1>2 DEF PageStatuses
<1>7. \A q \in DOMAIN storedPages : storedPages[q] \in [head : Nat, status : PageStatuses]
  BY <1>2 DEF Heading
<1>8. /\ DOMAIN deleted = DOMAIN storedPages /\ deleted[p] = pageRow
      /\ \A q \in DOMAIN storedPages : q # p => deleted[q] = storedPages[q]
  OBVIOUS
<1>. HIDE DEF k, span, pageRow, revRow, backRow, leafRow, deleted
<1>9. ASSUME NEW i \in span, i \in DOMAIN storedRevs PROVE FALSE
  <2>1. storedRevs[i].page = i /\ storedRevs[i].page \in DOMAIN storedPages
    BY <1>3, <1>9 DEF Heading
  <2>. QED  BY <1>1, <2>1
<1>10. /\ DOMAIN storedRevs' = DOMAIN storedRevs \cup span \cup {k} /\ storedRevs'[k] = revRow
       /\ \A r \in DOMAIN storedRevs : storedRevs'[r] = storedRevs[r]
       /\ \A i \in span : storedRevs'[i] = backRow(i)
  BY <1>1, <1>2, <1>3, <1>9 DEF Put, Over
<1>11. /\ DOMAIN storedPages' = DOMAIN storedPages \cup span /\ storedPages'[p] = pageRow
       /\ \A q \in DOMAIN storedPages : q # p => storedPages'[q] = storedPages[q]
       /\ \A i \in span : storedPages'[i] = leafRow(i)
       /\ storedPages' = [q \in DOMAIN storedPages' |-> storedPages'[q]]
  BY <1>1, <1>8 DEF Over
<1>12. storedPages' \in [DOMAIN storedPages' -> [head : Nat, status : PageStatuses]]
  BY <1>3, <1>6, <1>7, <1>11
<1>13. /\ used' \in [page : Nat, rev : Nat] /\ used'.rev = k
       /\ p <= used'.page /\ used.page <= used'.page
  BY <1>1, <1>2 DEF Counted
<1>14. /\ DOMAIN packs' = DOMAIN packs \ span /\ \A i \in DOMAIN packs' : packs'[i] = packs[i]
  BY <1>1, <1>5 DEF Drop
<1>15. Rewritten({}, span, p, {})
  <2>1. /\ DOMAIN storedRevs' = (DOMAIN storedRevs \ {}) \cup span \cup {k}
        /\ DOMAIN storedPages' = (DOMAIN storedPages \ {}) \cup span \cup {p}
    BY <1>10, <1>11
  <2>2. /\ \A i \in span : storedRevs'[i].page = i /\ storedRevs'[i].span = {i}
        /\ \A i \in span : storedPages'[i].head = i
        /\ storedRevs'[k].page = p /\ storedRevs'[k].span = {}
        /\ storedPages'[p].head = k
    BY <1>3, <1>6, <1>10, <1>11
  <2>3. /\ \A r \in DOMAIN storedRevs \ {} : storedRevs'[r] = storedRevs[r]
        /\ \A q \in DOMAIN storedPages \ {} : q # p => storedPages'[q].head = storedPages[q].head
    BY <1>10, <1>11
  <2>4. span \subseteq DOMAIN entries /\ span \cap DOMAIN storedPages = {} /\ p \notin span
    BY <1>1, <1>3
  <2>. QED  BY <1>1, <1>12, <1>13, <2>1, <2>2, <2>3, <2>4 DEF Rewritten, k
<1>16. Counted' /\ Heading'
  BY <1>15, RewriteKeeps
<1>17. ASSUME NEW q \in DOMAIN storedPages, q # p
       PROVE  /\ CurrentOf(q)' = CurrentOf(q) /\ Span(q)' = Span(q) /\ (InUse(q)' <=> InUse(q))
              /\ storedPages'[q].status = storedPages[q].status
  <2>1. storedPages'[q] = storedPages[q] /\ storedPages[q].head \in DOMAIN storedRevs
    BY <1>11, <1>17 DEF Heading
  <2>. QED  BY <1>10, <2>1 DEF CurrentOf, Span, InUse
<1>18. Placed'
  <2>1. \A i \in DOMAIN entries : i \in DOMAIN storedPages' <=> i \notin DOMAIN packs'
    BY <1>11, <1>14 DEF Placed
  <2>2. ASSUME NEW i \in DOMAIN packs' PROVE PackRow(i)'
    <3>1. i \in DOMAIN packs /\ packs'[i] = packs[i] /\ packs[i].page # p
      BY <1>5, <1>14
    <3>2. PackRow(i)
      BY <3>1 DEF Placed
    <3>3. packs[i].page \in DOMAIN storedPages
      BY <3>2 DEF PackRow
    <3>. QED  BY <1>1, <1>11, <1>17, <3>1, <3>2, <3>3 DEF PackRow
  <2>3. ASSUME NEW q \in DOMAIN storedPages', InUse(q)', q \notin DOMAIN entries PROVE PackSpan(q)'
    <3>1. q \in DOMAIN storedPages /\ q # p
      BY <1>3, <1>6, <1>11, <2>3 DEF InUse
    <3>2. PackSpan(q)
      BY <1>17, <2>3, <3>1 DEF Placed
    <3>3. \A i \in Span(q) : i \in DOMAIN packs' /\ packs'[i].page = q
      BY <1>5, <1>14, <3>1, <3>2 DEF PackSpan
    <3>. QED  BY <1>17, <3>1, <3>2, <3>3 DEF PackSpan
  <2>4. DOMAIN packs' \subseteq DOMAIN entries
    BY <1>14 DEF Placed
  <2>. QED  BY <1>1, <2>1, <2>2, <2>3, <2>4 DEF Placed
<1>19. Resolved'
  <2>1. ASSUME NEW e \in storedInputs'
        PROVE  \/ e \in storedInputs
               \/ e[1] \in DOMAIN storedRevs' /\ e[2] \in DOMAIN storedRevs'
    <3>1. CASE e = <<k, CurrentOf(p)>>
      BY <1>3, <1>10, <3>1
    <3>2. CASE \E i \in span : e \in {<<i, r>> : r \in entries[i].from \cap (DOMAIN storedRevs \cup span)}
      <4>1. PICK i \in span, r \in DOMAIN storedRevs \cup span : e = <<i, r>>
        BY <3>2
      <4>. QED  BY <1>10, <4>1
    <3>. QED  BY <1>1, <3>1, <3>2
  <2>. QED  BY <1>1, <1>10, <1>11, <2>1, ReferencesStay, RelationsStay
<1>. QED  BY <1>16, <1>18, <1>19

-----------------------------------------------------------------------------
(* Packing                                                                 *)

\* Some natural numbers have a smallest one.
LEMMA Smallest ==
    ASSUME NEW S \in SUBSET Nat, S # {}
    PROVE  \E m \in S : \A s \in S : m <= s
<1>1. IsWellFoundedOn(OpToRel(<, Nat), Nat)
  BY NatLessThanWellFounded
<1>2. \E x \in S : \A y \in S : ~(<<y, x>> \in OpToRel(<, Nat))
  BY <1>1, WFMin
<1>3. PICK x \in S : \A y \in S : ~(<<y, x>> \in OpToRel(<, Nat))
  BY <1>2
<1>4. \A y \in S : ~(y < x)
  BY <1>3 DEF OpToRel
<1>5. \A y \in S : x <= y
  BY <1>4
<1>. QED  BY <1>5

\* Leaves and packs that are shown become one pack of all their sources.
Packing(leaves, anchors, pack, span) ==
    /\ leaves \subseteq DOMAIN entries /\ leaves \subseteq DOMAIN storedPages
    /\ anchors \subseteq DOMAIN storedPages /\ anchors \cap DOMAIN entries = {}
    /\ \A q \in leaves \cup anchors : InUse(q)
    /\ \A q \in leaves : CurrentOf(q) = q /\ Span(q) = {q} /\ q \notin DOMAIN leases
    /\ span = UNION {Span(q) : q \in leaves \cup anchors}
    /\ \E i, j \in span : i # j
    /\ anchors = {} => pack = NextPage
    /\ anchors # {} => pack \in anchors

PackTables(leaves, anchors, pack, span) ==
    /\ storedRevs' = Put(Drop(storedRevs, leaves), NextRevision,
                         [page |-> pack, span |-> span, at |-> now])
    /\ storedPages' = Put([p \in DOMAIN storedPages \ leaves |->
                             IF p \in anchors \ {pack} THEN [storedPages[p] EXCEPT !.status = "superseded"]
                             ELSE storedPages[p]],
                          pack, [head |-> NextRevision, status |-> "active"])
    /\ packs' = Over([i \in span |-> [page |-> pack, rev |-> NextRevision]], packs)
    /\ keys' = Redirected(leaves, NextRevision)
    /\ RewritePackReferences(leaves, pack, NextRevision)
    /\ used' = [page |-> IF anchors = {} THEN pack ELSE used.page, rev |-> NextRevision]
    /\ UNCHANGED <<entries, leases, records, now>>

LEMMA WhatIsPacked ==
    ASSUME Counted, Heading, Placed, NEW P \in SUBSET DOMAIN storedPages, PackPages(P)
    PROVE  \E leaves, anchors, pack, span :
              Packing(leaves, anchors, pack, span) /\ PackTables(leaves, anchors, pack, span)
<1>. DEFINE anchors == {p \in P : ~Sealed(p)}
            leaves == P \ anchors
            span == UNION {Span(p) : p \in P}
            pack == IF anchors = {} THEN NextPage
                    ELSE CHOOSE a \in anchors : \A b \in anchors : First(Span(a)) <= First(Span(b))
<1>1. /\ Cardinality(P) >= 2
      /\ \A p \in P : InUse(p) /\ Span(p) # {}
      /\ \A p \in leaves : Packable(p)
      /\ PackTables(leaves, anchors, pack, span)
  BY DEF PackPages, PackTables
<1>2. \A p \in DOMAIN storedPages : p \in Nat /\ (Sealed(p) <=> p \in DOMAIN entries)
  BY Identifiers
<1>3. leaves \subseteq DOMAIN entries /\ anchors \cap DOMAIN entries = {} /\ leaves \cup anchors = P
  BY <1>2
<1>4. \A p \in P : Span(p) \subseteq DOMAIN entries /\ Span(p) \subseteq Nat
  <2>1. \A i \in DOMAIN entries : i \in Nat
    BY Identifiers
  <2>. QED  BY <2>1 DEF Heading, Span, CurrentOf
<1>5. anchors # {} => pack \in anchors
  <2>. SUFFICES ASSUME anchors # {} PROVE pack \in anchors
    OBVIOUS
  <2>1. ASSUME NEW a \in anchors PROVE First(Span(a)) \in Nat
    <3>1. Span(a) \in SUBSET Nat /\ Span(a) # {}
      BY <1>1, <1>4
    <3>2. \E i \in Span(a) : \A j \in Span(a) : i <= j
      BY <3>1, Smallest
    <3>3. First(Span(a)) \in Span(a)
      BY <3>2 DEF First
    <3>. QED  BY <3>1, <3>3
  <2>. DEFINE firsts == {First(Span(a)) : a \in anchors}
  <2>2. firsts \in SUBSET Nat /\ firsts # {}
    BY <2>1
  <2>3. PICK m \in firsts : \A s \in firsts : m <= s
    BY <2>2, Smallest
  <2>4. \E a \in anchors : \A b \in anchors : First(Span(a)) <= First(Span(b))
    BY <2>3
  <2>. QED  BY <2>4
<1>6. \A q \in leaves : CurrentOf(q) = q /\ q \notin DOMAIN leases
  BY <1>1 DEF Packable
<1>. HIDE DEF anchors, leaves, pack
<1>7. \A q \in leaves : Span(q) = {q}
  <2>. SUFFICES ASSUME NEW q \in leaves PROVE Span(q) = {q}
    OBVIOUS
  <2>1. q \in DOMAIN storedPages /\ CurrentOf(q) = q /\ q \in DOMAIN entries
    BY <1>3, <1>6
  <2>2. q \in DOMAIN storedRevs
    BY <2>1 DEF Heading, CurrentOf
  <2>. QED  BY <2>1, <2>2 DEF Heading, Span
<1>8. \E i, j \in span : i # j
  <2>1. PICK p \in P, q \in P : p # q
    <3>1. IsFiniteSet(P)
      <4>1. PICK n \in 0 .. MaxSources : DOMAIN entries = 1 .. n
        BY DEF Counted
      <4>2. IsFiniteSet(1 .. used.page)
        <5>1. \A m \in Nat : IsFiniteSet(1 .. m)
          BY FS_Interval
        <5>2. used.page \in Nat
          BY Identifiers
        <5>. QED  BY <5>1, <5>2
      <4>3. P \subseteq 1 .. used.page
        <5>1. MaxSources \in Nat /\ used.page \in Nat /\ MaxSources <= used.page
          BY Identifiers DEF Counted
        <5>2. \A x \in DOMAIN storedPages : x \in 1 .. n \/ x \in MaxSources + 1 .. used.page
          BY <4>1 DEF Counted
        <5>3. n \in Nat /\ n <= used.page
          BY <4>1, <5>1
        <5>4. \A x \in DOMAIN storedPages : x \in 1 .. used.page
          BY <5>1, <5>2, <5>3
        <5>. QED  BY <5>4
      <4>. QED  BY <4>2, <4>3, FS_Subset
    <3>2. Cardinality(P) > 1
      BY <1>1, <3>1, FS_CardinalityType
    <3>. QED  BY <3>1, <3>2, MoreAreTwo
  <2>2. PICK i \in Span(p), j \in Span(q) : TRUE
    BY <1>1
  <2>3. i # j
    BY <1>1, <2>1, <2>2, SpansAreDisjoint
  <2>. QED  BY <2>2, <2>3
<1>9. anchors = {} => pack = NextPage
  BY DEF pack
<1>10. leaves \subseteq DOMAIN storedPages /\ anchors \subseteq DOMAIN storedPages
  BY DEF leaves, anchors
<1>11. span = UNION {Span(q) : q \in leaves \cup anchors}
  BY <1>3
<1>. HIDE DEF span
<1>12. Packing(leaves, anchors, pack, span)
  BY <1>1, <1>3, <1>5, <1>6, <1>7, <1>8, <1>9, <1>10, <1>11 DEF Packing
<1>. QED  BY <1>1, <1>12

LEMMA PackPagesKeeps ==
    ASSUME StorageInv, NEW P \in SUBSET DOMAIN storedPages, PackPages(P)
    PROVE  StorageInv'
<1>. USE DEF StorageInv
<1>1. PICK leaves, anchors, pack, span :
             Packing(leaves, anchors, pack, span) /\ PackTables(leaves, anchors, pack, span)
  BY WhatIsPacked
<1>. DEFINE k == NextRevision
            pageRow == [head |-> k, status |-> "active"]
            revRow == [page |-> pack, span |-> span, at |-> now]
            packRow == [page |-> pack, rev |-> k]
            others == [p \in DOMAIN storedPages \ leaves |->
                         IF p \in anchors \ {pack} THEN [storedPages[p] EXCEPT !.status = "superseded"]
                         ELSE storedPages[p]]
<1>2. /\ leaves \subseteq DOMAIN entries /\ leaves \subseteq DOMAIN storedPages
      /\ anchors \subseteq DOMAIN storedPages /\ anchors \cap DOMAIN entries = {}
      /\ \A q \in leaves \cup anchors : InUse(q)
      /\ \A q \in leaves : CurrentOf(q) = q /\ Span(q) = {q} /\ q \notin DOMAIN leases
      /\ span = UNION {Span(q) : q \in leaves \cup anchors}
      /\ \E i, j \in span : i # j
      /\ anchors = {} => pack = NextPage
      /\ anchors # {} => pack \in anchors
  BY <1>1 DEF Packing
<1>3. /\ storedRevs' = Put(Drop(storedRevs, leaves), k, revRow)
      /\ storedPages' = Put(others, pack, pageRow)
      /\ packs' = Over([i \in span |-> packRow], packs)
      /\ keys' = Redirected(leaves, k)
      /\ RewritePackReferences(leaves, pack, k)
      /\ used' = [page |-> IF anchors = {} THEN pack ELSE used.page, rev |-> k]
      /\ UNCHANGED <<entries, leases, records, now>>
  BY <1>1 DEF PackTables
<1>4. /\ k \in Nat /\ used.page \in Nat /\ k \notin DOMAIN storedRevs /\ k \notin DOMAIN entries
      /\ NextPage = used.page + 1 /\ NextPage \notin DOMAIN entries /\ NextPage \notin DOMAIN storedPages
      /\ \A q \in DOMAIN storedPages : q \in Nat /\ q < NextPage
      /\ \A r \in DOMAIN storedRevs : r \in Nat
  BY Identifiers DEF NextPage
<1>5. \A q \in DOMAIN storedPages : storedPages[q] \in [head : Nat, status : PageStatuses]
  BY <1>4 DEF Heading
<1>6. /\ pageRow \in [head : Nat, status : PageStatuses] /\ pageRow.head = k
      /\ pageRow.status = "active" /\ revRow.page = pack /\ revRow.span = span
      /\ packRow.page = pack /\ packRow.rev = k
  BY <1>4 DEF PageStatuses
<1>7. /\ DOMAIN others = DOMAIN storedPages \ leaves
      /\ \A q \in DOMAIN others : /\ others[q] \in [head : Nat, status : PageStatuses]
                                  /\ others[q].head = storedPages[q].head
      /\ \A q \in DOMAIN others : q \notin anchors => others[q] = storedPages[q]
      /\ \A q \in DOMAIN others : q \in anchors /\ q # pack => others[q].status = "superseded"
  <2>1. ASSUME NEW row \in [head : Nat, status : PageStatuses]
        PROVE  /\ [row EXCEPT !.status = "superseded"] \in [head : Nat, status : PageStatuses]
               /\ [row EXCEPT !.status = "superseded"].head = row.head
               /\ [row EXCEPT !.status = "superseded"].status = "superseded"
    BY DEF PageStatuses
  <2>. QED  BY <1>5, <2>1
<1>8. pack \notin DOMAIN entries /\ pack \notin leaves /\ (pack \in DOMAIN storedPages \/ pack = NextPage)
  BY <1>2, <1>4
<1>9. \A q \in leaves \cup anchors : Span(q) \subseteq DOMAIN entries
  <2>1. \A q \in DOMAIN storedPages : Span(q) \subseteq DOMAIN entries
    BY DEF Heading, Span, CurrentOf
  <2>. QED  BY <1>2, <2>1
<1>10. span \subseteq DOMAIN entries
  BY <1>2, <1>9
<1>. HIDE DEF k, pageRow, revRow, packRow, others
<1>11. /\ DOMAIN storedRevs' = (DOMAIN storedRevs \ leaves) \cup {k} /\ storedRevs'[k] = revRow
       /\ \A r \in DOMAIN storedRevs \ leaves : storedRevs'[r] = storedRevs[r]
  BY <1>3, <1>4 DEF Put, Drop
<1>12. /\ DOMAIN storedPages' = (DOMAIN storedPages \ leaves) \cup {pack} /\ storedPages'[pack] = pageRow
       /\ \A q \in DOMAIN storedPages \ leaves : q # pack => storedPages'[q] = others[q]
       /\ storedPages' = [q \in DOMAIN storedPages' |-> storedPages'[q]]
  BY <1>3, <1>7 DEF Put
<1>13. storedPages' \in [DOMAIN storedPages' -> [head : Nat, status : PageStatuses]]
  BY <1>6, <1>7, <1>12
<1>14. /\ used' \in [page : Nat, rev : Nat] /\ used'.rev = k
       /\ pack <= used'.page /\ used.page <= used'.page
  <2>1. CASE anchors = {}
    BY <1>2, <1>3, <1>4, <2>1
  <2>2. CASE anchors # {}
    BY <1>2, <1>3, <1>4, <2>2
  <2>. QED  BY <2>1, <2>2
<1>15. Rewritten(leaves, {}, pack, span)
  <2>1. /\ DOMAIN storedRevs' = (DOMAIN storedRevs \ leaves) \cup {} \cup {k}
        /\ DOMAIN storedPages' = (DOMAIN storedPages \ leaves) \cup {} \cup {pack}
    BY <1>11, <1>12
  <2>2. /\ storedRevs'[k].page = pack /\ storedRevs'[k].span = span
        /\ storedPages'[pack].head = k
    BY <1>6, <1>11, <1>12
  <2>3. \A q \in DOMAIN storedPages \ leaves : q # pack => storedPages'[q].head = storedPages[q].head
    BY <1>7, <1>12
  <2>4. /\ leaves \subseteq DOMAIN entries \cap DOMAIN storedPages /\ \A g \in leaves : CurrentOf(g) = g
        /\ entries' = entries /\ span \subseteq DOMAIN entries
    BY <1>2, <1>3, <1>10
  <2>. QED  BY <1>8, <1>11, <1>13, <1>14, <2>1, <2>2, <2>3, <2>4 DEF Rewritten, k
<1>16. Counted' /\ Heading'
  BY <1>15, RewriteKeeps
\* A Page that is neither packed nor the pack is as it was.
<1>17. ASSUME NEW q \in DOMAIN storedPages \ leaves, q # pack
       PROVE  /\ CurrentOf(q)' = CurrentOf(q) /\ Span(q)' = Span(q)
              /\ q \notin anchors => storedPages'[q].status = storedPages[q].status
              /\ q \in anchors => storedPages'[q].status = "superseded"
  <2>1. storedPages'[q].head = storedPages[q].head
    BY <1>7, <1>12, <1>17
  <2>2. storedPages[q].head \in DOMAIN storedRevs /\ storedRevs[storedPages[q].head].page = q
    BY DEF Heading, CurrentOf
  <2>3. storedPages[q].head \notin leaves
    <3>1. ASSUME storedPages[q].head \in leaves PROVE FALSE
      <4>1. storedRevs[storedPages[q].head].page = storedPages[q].head
        BY <1>2, <2>2, <3>1 DEF Heading
      <4>. QED  BY <2>2, <3>1, <4>1
    <3>. QED  BY <3>1
  <2>4. storedRevs'[storedPages[q].head] = storedRevs[storedPages[q].head]
    BY <1>11, <2>2, <2>3
  <2>5. CurrentOf(q)' = CurrentOf(q) /\ Span(q)' = Span(q)
    BY <2>1, <2>4 DEF CurrentOf, Span
  <2>. QED  BY <1>7, <1>12, <1>17, <2>5
<1>18. CurrentOf(pack)' = k /\ Span(pack)' = span /\ InUse(pack)'
  BY <1>6, <1>11, <1>12 DEF CurrentOf, Span, InUse
<1>19. /\ DOMAIN packs' = DOMAIN packs \cup span
       /\ \A i \in span : packs'[i] = packRow
       /\ \A i \in DOMAIN packs \ span : packs'[i] = packs[i]
  BY <1>3 DEF Over
<1>20. Placed'
  <2>1. \A i \in DOMAIN entries : i \in DOMAIN storedPages' <=> i \notin DOMAIN packs'
    <3>1. \A q \in anchors : Span(q) \subseteq DOMAIN packs
      BY <1>2 DEF Placed, PackSpan
    <3>2. leaves \subseteq span /\ \A i \in span : i \in leaves \/ i \in DOMAIN packs
      BY <1>2, <3>1
    <3>3. \A i \in DOMAIN entries : i \in DOMAIN storedPages <=> i \notin DOMAIN packs
      BY DEF Placed
    <3>. QED  BY <1>2, <1>8, <1>12, <1>19, <3>2, <3>3
  <2>2. ASSUME NEW i \in DOMAIN packs' PROVE PackRow(i)'
    <3>1. CASE i \in span
      BY <1>3, <1>6, <1>8, <1>12, <1>18, <1>19, <3>1 DEF PackRow
    <3>2. CASE i \notin span
      <4>1. i \in DOMAIN packs /\ packs'[i] = packs[i]
        BY <1>19, <3>2
      <4>2. PackRow(i)
        BY <4>1 DEF Placed
      <4>. DEFINE a == packs[i].page
      <4>3. a \in DOMAIN storedPages \ leaves /\ a \notin DOMAIN entries
        BY <1>2, <4>2 DEF PackRow
      <4>4. a \notin anchors
        BY <1>2, <3>2, <4>2 DEF PackRow, InUse
      <4>5. a # pack
        BY <1>2, <1>4, <4>3, <4>4
      <4>. QED  BY <1>3, <1>12, <1>17, <4>1, <4>2, <4>3, <4>4, <4>5 DEF PackRow, InUse
    <3>. QED  BY <3>1, <3>2
  <2>3. ASSUME NEW q \in DOMAIN storedPages', InUse(q)', q \notin DOMAIN entries PROVE PackSpan(q)'
    <3>1. CASE q = pack
      BY <1>2, <1>6, <1>18, <1>19, <3>1 DEF PackSpan
    <3>2. CASE q # pack
      <4>1. q \in DOMAIN storedPages \ leaves
        BY <1>12, <3>2
      <4>2. q \notin anchors /\ InUse(q)
        BY <1>17, <2>3, <3>2, <4>1 DEF InUse
      <4>3. PackSpan(q)
        BY <2>3, <4>1, <4>2 DEF Placed
      <4>4. \A x \in leaves \cup anchors : Span(x) \cap Span(q) = {}
        BY <1>2, <4>1, <4>2, SpansAreDisjoint
      <4>5. Span(q) \cap span = {}
        BY <1>2, <4>4
      <4>6. \A i \in Span(q) : i \in DOMAIN packs' /\ packs'[i].page = q
        BY <1>19, <4>3, <4>5 DEF PackSpan
      <4>. QED  BY <1>17, <3>2, <4>1, <4>3, <4>6 DEF PackSpan
    <3>. QED  BY <3>1, <3>2
  <2>4. DOMAIN packs' \subseteq DOMAIN entries
    BY <1>10, <1>19 DEF Placed
  <2>. QED  BY <1>3, <2>1, <2>2, <2>3, <2>4 DEF Placed
<1>21. Resolved'
  <2>. DEFINE Page(p) == IF p \in leaves THEN pack ELSE p
              Revision(r) == IF r \in leaves THEN k ELSE r
              rewritten == [l \in DOMAIN storedRelations |->
                  [from |-> Page(storedRelations[l].from), to |-> Page(storedRelations[l].to),
                   basis |-> {Revision(r) : r \in storedRelations[l].basis},
                   active |-> storedRelations[l].active]]
              Row == [from : DOMAIN storedPages', to : DOMAIN storedPages',
                      basis : SUBSET DOMAIN storedRevs', active : BOOLEAN]
  <2>1. /\ storedRelations' = Drop(rewritten, {l \in DOMAIN rewritten : rewritten[l].from = rewritten[l].to})
        /\ storedInputs' = {<<Revision(e[1]), Revision(e[2])>> : e \in storedInputs} \ {<<k, k>>}
    BY <1>3 DEF RewritePackReferences
  <2>2. \A p \in DOMAIN storedPages : Page(p) \in DOMAIN storedPages'
    BY <1>12
  <2>3. \A r \in DOMAIN storedRevs : Revision(r) \in DOMAIN storedRevs'
    BY <1>11
  <2>4. ASSUME NEW l \in DOMAIN storedRelations PROVE rewritten[l] \in Row
    <3>1. storedRelations[l] \in [from : DOMAIN storedPages, to : DOMAIN storedPages,
                                  basis : SUBSET DOMAIN storedRevs, active : BOOLEAN]
      BY DEF Resolved
    <3>. DEFINE from == Page(storedRelations[l].from)
                to == Page(storedRelations[l].to)
                basis == {Revision(r) : r \in storedRelations[l].basis}
    <3>2. from \in DOMAIN storedPages' /\ to \in DOMAIN storedPages'
      BY <2>2, <3>1
    <3>3. basis \in SUBSET DOMAIN storedRevs'
      BY <2>3, <3>1
    <3>4. rewritten[l] = [from |-> from, to |-> to, basis |-> basis,
                          active |-> storedRelations[l].active]
      OBVIOUS
    <3>. HIDE DEF from, to, basis, rewritten
    <3>. QED  BY <3>1, <3>2, <3>3, <3>4
  <2>5. DOMAIN rewritten = DOMAIN storedRelations
    OBVIOUS
  <2>. HIDE DEF rewritten, Row
  <2>6. storedRelations' \in [DOMAIN storedRelations' -> Row]
    BY <2>1, <2>4, <2>5 DEF Drop
  <2>7. \A e \in storedInputs' : e[1] \in DOMAIN storedRevs' /\ e[2] \in DOMAIN storedRevs'
    <3>1. \A e \in storedInputs : e[1] \in DOMAIN storedRevs /\ e[2] \in DOMAIN storedRevs
      BY DEF Resolved
    <3>. HIDE DEF Revision
    <3>. QED  BY <2>1, <2>3, <3>1
  <2>8. DOMAIN leases' \subseteq DOMAIN storedRevs' /\ leases' \in [DOMAIN leases' -> Nat] /\ now' \in Nat
    BY <1>2, <1>3, <1>11 DEF Resolved
  <2>9. ASSUME NEW i \in DOMAIN keys
        PROVE  /\ keys'[i] \in [rev : DOMAIN storedRevs', at : Nat]
               /\ i \in storedRevs'[keys'[i].rev].span
    <3>1. keys[i] \in [rev : DOMAIN storedRevs, at : Nat] /\ i \in storedRevs[keys[i].rev].span
      BY DEF Resolved
    <3>2. keys'[i] = IF keys[i].rev \in leaves THEN [keys[i] EXCEPT !.rev = k] ELSE keys[i]
      BY <1>3 DEF Redirected
    <3>3. CASE keys[i].rev \in leaves
      <4>1. storedRevs[keys[i].rev].span = {keys[i].rev}
        BY <1>2, <3>1, <3>3 DEF Heading
      <4>2. i \in span
        BY <1>2, <3>1, <3>3, <4>1
      <4>3. keys'[i].rev = k /\ keys'[i] \in [rev : DOMAIN storedRevs', at : Nat]
        BY <1>11, <3>1, <3>2, <3>3
      <4>. QED  BY <1>6, <1>11, <4>2, <4>3
    <3>4. CASE keys[i].rev \notin leaves
      BY <1>11, <3>1, <3>2, <3>4
    <3>. QED  BY <3>3, <3>4
  <2>10. DOMAIN keys' = DOMAIN keys /\ keys' = [i \in DOMAIN keys' |-> keys'[i]]
    BY <1>3 DEF Redirected
  <2>. QED  BY <2>6, <2>7, <2>8, <2>9, <2>10 DEF Resolved, Row
<1>. QED  BY <1>16, <1>20, <1>21

-----------------------------------------------------------------------------
(* The specification                                                       *)

LEMMA StorageInitially == ASSUME StorageInit PROVE StorageInv
<1>. USE DEF StorageInit
<1>1. MaxSources \in Nat
  BY StorageAssumption
<1>2. /\ DOMAIN storedPages = {} /\ DOMAIN storedRevs = {} /\ DOMAIN entries = {}
      /\ DOMAIN packs = {} /\ DOMAIN storedRelations = {} /\ DOMAIN keys = {} /\ DOMAIN leases = {}
  BY DEF NoRows
<1>3. Counted
  <2>1. 0 \in 0 .. MaxSources /\ DOMAIN entries = 1 .. 0
    BY <1>1, <1>2
  <2>. QED  BY <1>1, <1>2, <2>1 DEF Counted
<1>4. Heading
  <2>1. storedPages \in [DOMAIN storedPages -> [head : DOMAIN storedRevs, status : PageStatuses]]
    BY DEF NoRows
  <2>. QED  BY <1>2, <2>1 DEF Heading
<1>5. Placed
  BY <1>2 DEF Placed
<1>6. Resolved
  BY <1>2 DEF Resolved, NoRows
<1>. QED  BY <1>3, <1>4, <1>5, <1>6 DEF StorageInv

LEMMA StorageSteps == ASSUME StorageInv, StorageNext PROVE StorageInv'
<1>1. ASSUME NEW from \in {{}} \cup {{r} : r \in DOMAIN storedRevs}, Ingest(from) \/ WriteNote(from)
      PROVE  StorageInv'
  <2>1. from \in SUBSET DOMAIN storedRevs
    OBVIOUS
  <2>. QED  BY <1>1, <2>1, IngestKeeps, WriteNoteKeeps
<1>2. ASSUME NEW p \in DOMAIN storedPages, Repair(p) \/ DeletePage(p) \/ UnpackPage(p)
      PROVE  StorageInv'
  BY <1>2, RepairKeeps, DeletePageKeeps, UnpackPageKeeps
<1>3. ASSUME NEW r \in DOMAIN storedRevs, PutLease(r, now + 1) PROVE StorageInv'
  <2>1. now + 1 \in Nat
    BY DEF StorageInv, Resolved
  <2>. QED  BY <1>3, <2>1, PutLeaseKeeps
<1>4. ASSUME NEW p \in DOMAIN storedPages, NEW q \in DOMAIN storedPages, Link(p, q)
      PROVE  StorageInv'
  BY <1>4, LinkKeeps
<1>5. ASSUME NEW p \in DOMAIN storedPages, NEW table \in {"projection", "member"}, Refer(table, p)
      PROVE  StorageInv'
  BY <1>5, ReferKeeps
<1>. QED
  BY <1>1, <1>2, <1>3, <1>4, <1>5, PackPagesKeeps, CollectKeeps, TimePassesKeeps DEF StorageNext

LEMMA StorageStutters == ASSUME StorageInv, UNCHANGED storageVars PROVE StorageInv'
<1>1. Resolved'
  BY DEF StorageInv, Resolved, storageVars
<1>. QED  BY <1>1, ContentStays DEF StorageInv, storageVars

\* The invariant holds whatever the bounds, policies and the length of the stream.
THEOREM StorageInvariant == StorageSpec => []StorageInv
<1>1. StorageInv /\ [StorageNext]_storageVars => StorageInv'
  BY StorageSteps, StorageStutters
<1>2. StorageInit => StorageInv
  BY StorageInitially
<1>. QED  BY <1>1, <1>2, PTL DEF StorageSpec

\* No row refers to a Revision or a Page that is gone, and each Page has its head,
\* whatever is packed, unpacked or collected.
THEOREM StorageIsTyped == StorageSpec => []StorageTypeOK
<1>1. ASSUME StorageInv PROVE StorageTypeOK
  <2>1. \A p \in DOMAIN storedPages : CurrentOf(p) \in DOMAIN storedRevs /\ storedRevs[CurrentOf(p)].page = p
    BY <1>1 DEF StorageInv, Heading, CurrentOf
  <2>2. \A l \in DOMAIN storedRelations : {storedRelations[l].from, storedRelations[l].to} \subseteq DOMAIN storedPages
    BY <1>1 DEF StorageInv, Resolved
  <2>. QED  BY <1>1, <2>1, <2>2 DEF StorageInv, Resolved, StorageTypeOK
<1>. QED  BY <1>1, StorageInvariant, PTL

\* Each source of the stream is in one place and shown at most once, the basis of
\* every relation can be read, and the retry of an ingest is answered by a Revision
\* that holds the source, through packing, unpacking, repair and collection.
THEOREM SourcesStandAlways == StorageSpec => []SourcesStand
<1>1. ASSUME StorageInv PROVE EachSourceOnce
  <2>1. ASSUME NEW i \in DOMAIN packs
        PROVE  \/ storedPages[packs[i].page].status = "tombstoned"
               \/ packs[i].rev = CurrentOf(packs[i].page) /\ i \in Span(packs[i].page)
    BY <1>1 DEF StorageInv, Placed, PackRow
  <2>2. \A p, q \in DOMAIN storedPages : InUse(p) /\ InUse(q) /\ p # q => Span(p) \cap Span(q) = {}
    BY <1>1, SpansAreDisjoint DEF StorageInv
  <2>3. \A i \in DOMAIN entries : i \in DOMAIN storedPages <=> i \notin DOMAIN packs
    BY <1>1 DEF StorageInv, Placed
  <2>. QED  BY <2>1, <2>2, <2>3 DEF EachSourceOnce
<1>2. ASSUME StorageInv PROVE BasisExists
  BY <1>2 DEF StorageInv, Resolved, BasisExists
<1>3. ASSUME StorageInv PROVE RetryIsAnswered
  BY <1>3 DEF StorageInv, Resolved, RetryIsAnswered
<1>4. StorageInv => SourcesStand
  BY <1>1, <1>2, <1>3 DEF SourcesStand
<1>. QED  BY <1>4, StorageInvariant, PTL

-----------------------------------------------------------------------------
(***************************************************************************)
(* Migration, for any number of processes that open the Store, any of      *)
(* which may die, and any content.  The version that a process read may be *)
(* out of date when it acts; that does no harm, because a migration of the *)
(* oldest Store fails the second time, and the others find what            *)
(* they do done.                                                           *)
(***************************************************************************)

-----------------------------------------------------------------------------
(* The inductive invariant                                                 *)

AllTables == {Tables[n] : n \in DOMAIN Tables}
LegacyVersions == {Legacy[n] : n \in DOMAIN Legacy}

\* The provenance is that of the current version.
CleanContent(cited) ==
    \A r \in Revisions : \A c \in cited[r] :
       c[2] \in Revisions \ {r} /\ ~(r \in Autonomous /\ c[1] = "ingest")

\* No relation repeats a reference.
NothingRedundant ==
    \A l \in Active : l[1] = "related_to" =>
       <<"references", l[2], l[3]>> \notin Active /\ <<"references", l[3], l[2]>> \notin Active

\* What the Store held is there.
InputsKept(before, after) ==
    \A r \in Revisions :
       /\ \A c \in before[r] : \A x \in Resolve(c[2]) \ {r} :
             <<c[1], x>> \in after[r] \/ (r \in Autonomous /\ c[1] = "ingest")
       /\ \A c \in after[r] : \E d \in before[r] : d[1] = c[1] /\ c[2] \in Resolve(d[2])
\* A mention that was followed is a reference, and only images are left in the old form.
MentionKept(r, m) ==
    \/ m \in mentions[r] /\ m[1] = "image"
    \/ m[1] # "image" /\ Targets(m) = {}
    \/ \E p \in Targets(m) \cap pointers[r] : p = PageOf[r] \/ <<"references", PageOf[r], p>> \in Active
MentionsKept ==
    \A r \in Revisions :
       /\ \A m \in mentions[r] : m[1] = "image" /\ (first.version = "draft" => Targets(m) = {})
       /\ \A m \in first.mentions[r] : MentionKept(r, m)
       /\ mentions[r] \subseteq first.mentions[r] /\ pointers[r] \subseteq Found(first.mentions[r])
RelationsKept ==
    /\ \A l \in first.active \ Active :
          <<"references", l[2], l[3]>> \in Active \/ <<"references", l[3], l[2]>> \in Active
    /\ \A l \in Active \ first.active : \E r \in Revisions :
          l[1] = "references" /\ l[2] = PageOf[r] /\ l[3] \in Found(first.mentions[r])

\* A Store that no migration has reached is as it was.
Untouched ==
    /\ inputs = first.inputs /\ mentions = first.mentions
    /\ \A r \in Revisions : pointers[r] = {}
    /\ relations = [all |-> first.active, retracted |-> {}]

ContentInv ==
    /\ version = "draft" => Untouched /\ ~contract
    /\ version = "clean" =>
          /\ Untouched
          /\ \A r \in Revisions :
                /\ \A m \in mentions[r] : m[1] = "image"
                /\ \A c \in inputs[r] : c = <<c[1], c[2]>> /\ c[2] \in Revisions \ {r}
    /\ version \notin {"draft", "clean"} =>
          /\ CleanContent(inputs) /\ NothingRedundant
          /\ InputsKept(first.inputs, inputs) /\ MentionsKept /\ RelationsKept
    /\ version # "draft" => index = Indexed(inputs) /\ ~telemetry
    /\ relations = [all |-> relations.all, retracted |-> relations.retracted]
    /\ relations.retracted \subseteq relations.all

TablesInv ==
    /\ tables \subseteq AllTables
    /\ first.version # "none" => "base" \in tables
    /\ version # "draft" /\ "base" \in tables => contract

VersionInv ==
    /\ version = first.version \/ version \in {"clean.4", Current}
    /\ version \in Stored \cup {"clean.4", Current}

\* An opener acts on a version that the Store had, and is past what it has done.
OpenerInv(o) ==
    \/ opener[o] = Idle
    \/ /\ opener[o] = [read |-> opener[o].read, step |-> opener[o].step]
       /\ opener[o].step \in {"inspect", "insert", "migrate", "consolidate", "tables", "stamp", "open"}
       /\ opener[o].step \in {"inspect", "insert"} => first.version = "none"
       /\ opener[o].step = "migrate" => opener[o].read = first.version /\ first.version \in LegacyVersions
       /\ opener[o].step \in {"consolidate", "tables", "stamp", "open"} =>
             version # "none" /\ version \notin LegacyVersions
       /\ opener[o].step \in {"stamp", "open"} => tables = AllTables
       /\ opener[o].step = "open" => version \in {"clean.4", Current}

OpenersInv == opener = [o \in Openers |-> opener[o]] /\ \A o \in Openers : OpenerInv(o)

IInv == ContentInv /\ TablesInv /\ VersionInv /\ OpenersInv

-----------------------------------------------------------------------------
(* Versions, tables and openers                                            *)

LEMMA Names ==
    /\ DOMAIN Tables = 1 .. 5 /\ AllTables = {"base", "topics", "governance", "feedback", "consolidations"}
    /\ LegacyVersions = {"draft", "clean", "clean.1", "clean.2", "clean.3"} /\ Current = "clean.6"
    /\ \A n \in 1 .. 5 : Tables[n] \in AllTables
<1>1. DOMAIN Tables = 1 .. 5 /\ DOMAIN Legacy = 1 .. 5
  BY DEF Tables, Legacy
<1>2. \A n \in 1 .. 5 : n = 1 \/ n = 2 \/ n = 3 \/ n = 4 \/ n = 5
  OBVIOUS
<1>3. /\ Tables[1] = "base" /\ Tables[2] = "topics" /\ Tables[3] = "governance" /\ Tables[4] = "feedback"
      /\ Tables[5] = "consolidations"
  BY DEF Tables
<1>4. /\ Legacy[1] = "draft" /\ Legacy[2] = "clean" /\ Legacy[3] = "clean.1" /\ Legacy[4] = "clean.2"
      /\ Legacy[5] = "clean.3"
  BY DEF Legacy
<1>5. AllTables = {"base", "topics", "governance", "feedback", "consolidations"}
  <2>1. AllTables = {Tables[n] : n \in 1 .. 5}
    BY <1>1 DEF AllTables
  <2>. HIDE DEF AllTables
  <2>. QED  BY <1>2, <1>3, <2>1
<1>6. LegacyVersions = {"draft", "clean", "clean.1", "clean.2", "clean.3"}
  <2>1. LegacyVersions = {Legacy[n] : n \in 1 .. 5}
    BY <1>1 DEF LegacyVersions
  <2>. QED  BY <1>2, <1>4, <2>1
<1>. QED  BY <1>1, <1>5, <1>6 DEF Current, AllTables

\* What a step of one opener does to the others: tables are added, and a version is kept,
\* or is one of those that the migrations end with.
Onward ==
    /\ first' = first /\ tables \subseteq tables' /\ tables' \subseteq AllTables
    /\ version' = version \/ version' \in {"clean.4", Current}

LEMMA OthersKeep ==
    ASSUME OpenersInv, Onward, NEW o \in Openers, NEW x, opener' = [opener EXCEPT ![o] = x], OpenerInv(o)'
    PROVE  OpenersInv'
<1>1. /\ opener' = [d \in Openers |-> opener'[d]]
      /\ \A d \in Openers : opener'[d] = IF d = o THEN x ELSE opener[d]
  BY DEF OpenersInv
<1>2. "clean.4" \notin LegacyVersions /\ Current \notin LegacyVersions
      /\ "clean.4" # "none" /\ Current # "none"
  BY Names
<1>3. ASSUME NEW d \in Openers, d # o
      PROVE  OpenerInv(d)'
  <2>1. OpenerInv(d) /\ opener'[d] = opener[d]
    BY <1>1, <1>3 DEF OpenersInv
  <2>2. tables = AllTables => tables' = AllTables
    BY DEF Onward
  <2>3. /\ version \in {"clean.4", Current} => version' \in {"clean.4", Current}
        /\ version # "none" /\ version \notin LegacyVersions => version' # "none" /\ version' \notin LegacyVersions
        /\ first' = first
    BY <1>2 DEF Onward
  <2>4. LegacyVersions' = LegacyVersions /\ AllTables' = AllTables /\ Current' = Current /\ Idle' = Idle
    BY DEF LegacyVersions, AllTables, Current, Idle, Legacy, Tables
  <2>. QED  BY <2>1, <2>2, <2>3, <2>4 DEF OpenerInv
<1>4. OpenerInv(o)'
  OBVIOUS
<1>. QED  BY <1>1, <1>3, <1>4 DEF OpenersInv

\* An opener that is at a step, and what it comes to.
LEMMA OpenerAt ==
    ASSUME OpenersInv, NEW o \in Openers, NEW step, At(o, step), step # "idle"
    PROVE  /\ opener[o] # Idle /\ opener[o].step = step /\ OpenerInv(o)
           /\ opener[o] = [read |-> opener[o].read, step |-> step]
           /\ \A next : To(o, next) => opener' = [opener EXCEPT ![o] = [read |-> opener[o].read, step |-> next]]
<1>1. opener[o].step = step /\ opener[o] # Idle /\ OpenerInv(o)
  BY DEF At, Idle, OpenersInv
<1>2. opener[o] = [read |-> opener[o].read, step |-> step]
  BY <1>1 DEF OpenerInv
<1>3. ASSUME NEW next, To(o, next)
      PROVE  opener' = [opener EXCEPT ![o] = [read |-> opener[o].read, step |-> next]]
  <2>1. PICK r : r = opener[o].read
    OBVIOUS
  <2>2. opener[o] = [read |-> r, step |-> step] /\ opener = [d \in Openers |-> opener[d]]
    BY <1>2, <2>1 DEF OpenersInv
  <2>3. opener' = [opener EXCEPT ![o].step = next]
    BY <1>3 DEF To
  <2>4. [opener[o] EXCEPT !.step = next] = [read |-> r, step |-> next]
    BY <2>2
  <2>. QED  BY <2>1, <2>2, <2>3, <2>4
<1>. QED  BY <1>1, <1>2, <1>3

LEMMA IdleIsFine ==
    ASSUME NEW o, opener'[o] = Idle
    PROVE  OpenerInv(o)'
BY DEF OpenerInv, Idle

-----------------------------------------------------------------------------
(* Steps that leave the content alone                                      *)

contentVars == <<inputs, index, mentions, pointers, relations, telemetry, first>>

LEMMA ContentStands ==
    ASSUME ContentInv, UNCHANGED contentVars,
           \/ version' = version
           \/ version \notin {"draft", "clean"} /\ version' \in {"clean.4", Current},
           version = "draft" => contract' = contract
    PROVE  ContentInv'
<1>1. /\ inputs' = inputs /\ index' = index /\ mentions' = mentions /\ pointers' = pointers
      /\ relations' = relations /\ telemetry' = telemetry /\ first' = first
  BY DEF contentVars
<1>2. /\ version' = "draft" => version = "draft"
      /\ version' = "clean" => version = "clean"
      /\ version' \notin {"draft", "clean"} => version \notin {"draft", "clean"}
  BY Names
<1>3. Active' = Active
  BY <1>1 DEF Active
<1>4. Untouched => Untouched'
  BY <1>1 DEF Untouched
<1>5. CleanContent(inputs) => CleanContent(inputs')
  BY <1>1
<1>6. NothingRedundant => NothingRedundant'
  BY <1>3 DEF NothingRedundant
<1>7. MentionsKept => MentionsKept'
  BY <1>1, <1>3 DEF MentionsKept, MentionKept
<1>8. RelationsKept => RelationsKept'
  BY <1>1, <1>3 DEF RelationsKept
<1>9. InputsKept(first.inputs, inputs) => InputsKept(first'.inputs, inputs')
  BY <1>1
<1>10. (version = "draft" => Untouched /\ ~contract)'
  BY <1>1, <1>2, <1>4 DEF ContentInv
<1>11. (version = "clean" =>
          /\ Untouched
          /\ \A r \in Revisions :
                /\ \A m \in mentions[r] : m[1] = "image"
                /\ \A c \in inputs[r] : c = <<c[1], c[2]>> /\ c[2] \in Revisions \ {r})'
  BY <1>1, <1>2, <1>4 DEF ContentInv
<1>12. (version \notin {"draft", "clean"} =>
          /\ CleanContent(inputs) /\ NothingRedundant
          /\ InputsKept(first.inputs, inputs) /\ MentionsKept /\ RelationsKept)'
  BY <1>2, <1>5, <1>6, <1>7, <1>8, <1>9 DEF ContentInv
<1>13. (version # "draft" => index = Indexed(inputs) /\ ~telemetry)'
  BY <1>1, <1>2 DEF ContentInv, Indexed
<1>14. (relations = [all |-> relations.all, retracted |-> relations.retracted]
          /\ relations.retracted \subseteq relations.all)'
  BY <1>1 DEF ContentInv
<1>. QED  BY <1>10, <1>11, <1>12, <1>13, <1>14 DEF ContentInv

LEMMA OpenKeeps ==
    ASSUME IInv, NEW o \in Openers, Open(o)
    PROVE  IInv'
<1>. DEFINE step == CASE version = "none" -> "inspect"
                      [] version \in LegacyVersions -> "migrate"
                      [] version = "clean.4" -> "consolidate"
                      [] OTHER -> "tables"
            x == [read |-> version, step |-> step]
<1>1. /\ version' = version /\ tables' = tables /\ contract' = contract /\ UNCHANGED contentVars
      /\ opener' = [opener EXCEPT ![o] = x]
  BY DEF Open, store, contentVars, LegacyVersions
<1>2. ContentInv'
  BY <1>1, ContentStands DEF IInv
<1>3. TablesInv' /\ VersionInv' /\ Onward
  BY <1>1 DEF IInv, TablesInv, VersionInv, AllTables, Tables, Current, contentVars, Onward
<1>4. /\ version = "none" => step = "inspect"
      /\ version \in LegacyVersions => step = "migrate"
      /\ version # "none" /\ version \notin LegacyVersions => step \in {"consolidate", "tables"}
  BY Names
<1>5. version = "none" => first.version = "none"
  BY Names DEF IInv, VersionInv
<1>6. version \in LegacyVersions => version = first.version
  BY Names DEF IInv, VersionInv
<1>. HIDE DEF step
<1>7. OpenerInv(o)'
  <2>1. opener'[o] = x /\ opener'[o].read = version /\ opener'[o].step = step
    BY <1>1 DEF IInv, OpenersInv
  <2>2. first' = first /\ version' = version /\ LegacyVersions' = LegacyVersions
    BY <1>1 DEF contentVars, LegacyVersions, Legacy
  <2>. HIDE DEF x
  <2>3. opener'[o] = [read |-> opener'[o].read, step |-> opener'[o].step]
    BY <2>1 DEF x
  <2>4. CASE version = "none"
    BY <1>4, <1>5, <2>1, <2>2, <2>3, <2>4 DEF OpenerInv
  <2>5. CASE version \in LegacyVersions
    BY <1>4, <1>6, <2>1, <2>2, <2>3, <2>5 DEF OpenerInv
  <2>6. CASE version # "none" /\ version \notin LegacyVersions
    BY <1>4, <2>1, <2>2, <2>3, <2>6 DEF OpenerInv
  <2>. QED  BY <2>4, <2>5, <2>6
<1>8. OpenersInv'
  BY <1>1, <1>3, <1>7, OthersKeep DEF IInv
<1>. QED  BY <1>2, <1>3, <1>8 DEF IInv

\* A step that leaves the Store alone: an opener fails, dies, or goes on.
LEMMA StoreStands ==
    ASSUME IInv, NEW o \in Openers, NEW x, opener' = [opener EXCEPT ![o] = x],
           UNCHANGED <<version, store, first>>, OpenerInv(o)'
    PROVE  IInv'
<1>1. version' = version /\ tables' = tables /\ contract' = contract /\ UNCHANGED contentVars
  BY DEF store, contentVars
<1>2. ContentInv'
  BY <1>1, ContentStands DEF IInv
<1>3. TablesInv' /\ VersionInv' /\ Onward
  BY <1>1 DEF IInv, TablesInv, VersionInv, AllTables, Tables, Current, contentVars, Onward
<1>. QED  BY <1>2, <1>3, OthersKeep DEF IInv

LEMMA FailKeeps ==
    ASSUME IInv, NEW o \in Openers, Fail(o), UNCHANGED <<version, store, first>>
    PROVE  IInv'
<1>1. opener' = [opener EXCEPT ![o] = Idle] /\ opener'[o] = Idle
  BY DEF Fail, IInv, OpenersInv
<1>. QED  BY <1>1, IdleIsFine, StoreStands

LEMMA InspectKeeps ==
    ASSUME IInv, NEW o \in Openers, Inspect(o)
    PROVE  IInv'
<1>1. UNCHANGED <<version, store, first>> /\ (To(o, "insert") \/ Fail(o))
  BY DEF Inspect
<1>2. CASE To(o, "insert")
  <2>1. OpenerInv(o) /\ opener[o].step = "inspect" /\ opener[o] # Idle
        /\ opener' = [opener EXCEPT ![o] = [read |-> opener[o].read, step |-> "insert"]]
    BY <1>2, OpenerAt DEF Inspect, IInv
  <2>2. opener'[o] = [read |-> opener[o].read, step |-> "insert"] /\ first' = first
    BY <1>1, <2>1 DEF IInv, OpenersInv
  <2>3. OpenerInv(o)'
    BY <2>1, <2>2 DEF OpenerInv
  <2>. QED  BY <1>1, <2>1, <2>3, StoreStands
<1>3. CASE Fail(o)
  BY <1>1, <1>3, FailKeeps
<1>. QED  BY <1>1, <1>2, <1>3

LEMMA InsertVersionKeeps ==
    ASSUME IInv, NEW o \in Openers, InsertVersion(o)
    PROVE  IInv'
<1>1. UNCHANGED <<store, first>>
  BY DEF InsertVersion
<1>2. CASE version = "none" /\ version' = Current /\ To(o, "tables")
  <2>1. /\ tables' = tables /\ contract' = contract /\ UNCHANGED contentVars
        /\ version \notin {"draft", "clean"} /\ version' = Current /\ Current = "clean.6"
    BY <1>1, <1>2, Names DEF store, contentVars
  <2>2. ContentInv'
    BY <2>1, ContentStands DEF IInv
  <2>3. TablesInv' /\ VersionInv' /\ Onward
    BY <2>1, <1>2 DEF IInv, TablesInv, VersionInv, AllTables, Tables, Current, contentVars, Onward
  <2>4. opener' = [opener EXCEPT ![o] = [read |-> opener[o].read, step |-> "tables"]]
    BY <1>2, OpenerAt DEF InsertVersion, IInv
  <2>5. opener'[o] = [read |-> opener[o].read, step |-> "tables"]
    BY <2>4 DEF IInv, OpenersInv
  <2>6. version' # "none" /\ version' \notin LegacyVersions'
    BY <2>1, Names DEF LegacyVersions, Legacy
  <2>7. OpenerInv(o)'
    BY <2>5, <2>6 DEF OpenerInv
  <2>. QED  BY <2>2, <2>3, <2>4, <2>7, OthersKeep DEF IInv
<1>3. CASE UNCHANGED version /\ Fail(o)
  BY <1>1, <1>3, FailKeeps
<1>. QED  BY <1>2, <1>3 DEF InsertVersion

LEMMA ConsolidateKeeps ==
    ASSUME IInv, NEW o \in Openers, Consolidate(o)
    PROVE  IInv'
<1>1. /\ tables' = tables \cup {"consolidations"} /\ version' = Current /\ To(o, "tables")
      /\ contract' = contract /\ UNCHANGED contentVars
  BY DEF Consolidate, contentVars
<1>2. /\ OpenerInv(o) /\ opener[o].step = "consolidate" /\ opener[o] # Idle
      /\ opener' = [opener EXCEPT ![o] = [read |-> opener[o].read, step |-> "tables"]]
  BY <1>1, OpenerAt DEF Consolidate, IInv
<1>3. version # "none" /\ version \notin LegacyVersions
  BY <1>2 DEF OpenerInv
<1>4. version \notin {"draft", "clean"} /\ "consolidations" \in AllTables
  BY <1>3, Names
<1>5. ContentInv'
  BY <1>1, <1>4, ContentStands DEF IInv
<1>6. AllTables' = AllTables /\ LegacyVersions' = LegacyVersions /\ first' = first /\ "base" # "consolidations"
      /\ Current' = Current
  BY <1>1 DEF AllTables, LegacyVersions, Tables, Legacy, contentVars, Current
<1>7. TablesInv' /\ Onward
  BY <1>1, <1>4, <1>6 DEF IInv, TablesInv, Onward
<1>8. VersionInv'
  BY <1>1, <1>6 DEF VersionInv
<1>9. opener'[o] = [read |-> opener[o].read, step |-> "tables"]
  BY <1>2 DEF IInv, OpenersInv
<1>10. version' # "none" /\ version' \notin LegacyVersions'
  BY <1>1, <1>6, Names
<1>11. OpenerInv(o)'
  BY <1>9, <1>10 DEF OpenerInv
<1>. QED  BY <1>2, <1>5, <1>7, <1>8, <1>11, OthersKeep DEF IInv

LEMMA StampKeeps ==
    ASSUME IInv, NEW o \in Openers, Stamp(o)
    PROVE  IInv'
<1>1. /\ tables' = tables /\ version' = Current /\ To(o, "open") /\ contract' = contract
      /\ UNCHANGED contentVars
  BY DEF Stamp, contentVars, store
<1>2. /\ OpenerInv(o) /\ opener[o].step = "stamp" /\ opener[o] # Idle
      /\ opener' = [opener EXCEPT ![o] = [read |-> opener[o].read, step |-> "open"]]
  BY <1>1, OpenerAt DEF Stamp, IInv
<1>3. version # "none" /\ version \notin LegacyVersions /\ tables = AllTables
  BY <1>2 DEF OpenerInv
<1>4. version \notin {"draft", "clean"}
  BY <1>3, Names
<1>5. ContentInv'
  BY <1>1, <1>4, ContentStands DEF IInv
<1>6. AllTables' = AllTables /\ LegacyVersions' = LegacyVersions /\ first' = first /\ Current' = Current
  BY <1>1 DEF AllTables, LegacyVersions, Tables, Legacy, contentVars, Current
<1>7. TablesInv' /\ Onward
  BY <1>1, <1>4, <1>6 DEF IInv, TablesInv, Onward
<1>8. VersionInv'
  BY <1>1, <1>6 DEF VersionInv
<1>9. opener'[o] = [read |-> opener[o].read, step |-> "open"]
  BY <1>2 DEF IInv, OpenersInv
<1>10. version' # "none" /\ version' \notin LegacyVersions' /\ version' \in {"clean.4", Current'}
  BY <1>1, <1>6, Names
<1>11. OpenerInv(o)'
  BY <1>1, <1>3, <1>6, <1>9, <1>10 DEF OpenerInv
<1>. QED  BY <1>2, <1>5, <1>7, <1>8, <1>11, OthersKeep DEF IInv

LEMMA CreateTableKeeps ==
    ASSUME IInv, NEW o \in Openers, CreateTable(o)
    PROVE  IInv'
<1>. DEFINE missing == {n \in DOMAIN Tables : Tables[n] \notin tables}
            new == CHOOSE n \in missing : \A m \in missing : n <= m
<1>1. /\ version' = version /\ contract' = (contract \/ "base" \notin tables) /\ UNCHANGED contentVars
      /\ \/ missing = {} /\ To(o, "stamp") /\ tables' = tables
         \/ missing # {} /\ tables' = tables \cup {Tables[new]} /\ opener' = opener
  BY DEF CreateTable, contentVars
<1>2. OpenerInv(o) /\ opener[o].step = "tables" /\ opener[o] # Idle
  BY OpenerAt DEF CreateTable, IInv
<1>3. version # "none" /\ version \notin LegacyVersions
  BY <1>2 DEF OpenerInv
<1>4. version \notin {"draft", "clean"}
  BY <1>3, Names
<1>5. ContentInv'
  BY <1>1, <1>4, ContentStands DEF IInv
<1>6. AllTables' = AllTables /\ LegacyVersions' = LegacyVersions /\ first' = first /\ Current' = Current
  BY <1>1 DEF AllTables, LegacyVersions, Tables, Legacy, contentVars, Current
<1>7. missing # {} => Tables[new] \in AllTables
  <2>1. missing \subseteq 1 .. 5 /\ \A n \in missing : n = 1 \/ n = 2 \/ n = 3 \/ n = 4 \/ n = 5
    BY Names
  <2>2. ASSUME missing # {}
        PROVE  \E n \in missing : \A m \in missing : n <= m
    <3>. HIDE DEF missing
    <3>1. \A n \in missing : n \in 1 .. 5
      BY <2>1
    <3>2. CASE 1 \in missing
      BY <3>1, <3>2
    <3>3. CASE 1 \notin missing /\ 2 \in missing
      BY <2>1, <3>3
    <3>4. CASE 1 \notin missing /\ 2 \notin missing /\ 3 \in missing
      BY <2>1, <3>4
    <3>5. CASE 1 \notin missing /\ 2 \notin missing /\ 3 \notin missing /\ 4 \in missing
      BY <2>1, <3>5
    <3>6. CASE 1 \notin missing /\ 2 \notin missing /\ 3 \notin missing /\ 4 \notin missing
      <4>1. PICK n \in missing : TRUE
        BY <2>2
      <4>2. \A m \in missing : m = 5
        BY <2>1, <3>6
      <4>. QED  BY <4>1, <4>2
    <3>. QED  BY <3>2, <3>3, <3>4, <3>5, <3>6
  <2>3. missing # {} => new \in missing
    BY <2>2
  <2>. QED  BY <2>1, <2>3, Names
<1>8. VersionInv'
  BY <1>1, <1>6 DEF VersionInv, IInv
<1>9. CASE missing = {} /\ To(o, "stamp") /\ tables' = tables
  <2>1. tables = AllTables
    BY <1>9 DEF AllTables, IInv, TablesInv
  <2>2. TablesInv' /\ Onward
    BY <1>1, <1>4, <1>6, <1>9 DEF IInv, TablesInv, Onward
  <2>3. opener' = [opener EXCEPT ![o] = [read |-> opener[o].read, step |-> "stamp"]]
    BY <1>9, OpenerAt DEF CreateTable, IInv
  <2>4. opener'[o] = [read |-> opener[o].read, step |-> "stamp"]
    BY <2>3 DEF IInv, OpenersInv
  <2>5. OpenerInv(o)'
    BY <1>1, <1>3, <1>6, <1>9, <2>1, <2>4 DEF OpenerInv
  <2>. QED  BY <1>5, <1>8, <2>2, <2>3, <2>5, OthersKeep DEF IInv
<1>10. CASE missing # {} /\ tables' = tables \cup {Tables[new]} /\ opener' = opener
  <2>1. Tables[new] \in AllTables
    BY <1>7, <1>10
  <2>. HIDE DEF new, missing
  <2>2. TablesInv' /\ Onward
    BY <1>1, <1>4, <1>6, <1>10, <2>1 DEF IInv, TablesInv, Onward
  <2>3. opener' = [opener EXCEPT ![o] = opener[o]]
    BY <1>10 DEF IInv, OpenersInv
  <2>4. OpenerInv(o)'
    BY <1>1, <1>2, <1>3, <1>6, <1>10 DEF OpenerInv
  <2>. QED  BY <1>5, <1>8, <2>2, <2>3, <2>4, OthersKeep DEF IInv
<1>. QED  BY <1>1, <1>9, <1>10

-----------------------------------------------------------------------------
(* What the migrations do to the content                                   *)

LEMMA NormalizedInputs ==
    ASSUME NEW cited, NEW r \in Revisions
    PROVE  /\ \A c \in Normalized(cited)[r] :
                 /\ c = <<c[1], c[2]>> /\ c[2] \in Revisions \ {r}
                 /\ \E d \in cited[r] : d[1] = c[1] /\ c[2] \in Resolve(d[2])
           /\ \A d \in cited[r] : \A x \in Resolve(d[2]) \ {r} : <<d[1], x>> \in Normalized(cited)[r]
<1>. DEFINE all == UNION {{d[1]} \X Resolve(d[2]) : d \in cited[r]}
<1>1. Normalized(cited)[r] = {e \in all : e[2] # r}
  BY DEF Normalized
<1>2. \A x : Resolve(x) \subseteq Revisions
  BY MigrationAssumption DEF Resolve
<1>3. ASSUME NEW c \in Normalized(cited)[r]
      PROVE  /\ c = <<c[1], c[2]>> /\ c[2] \in Revisions \ {r}
             /\ \E d \in cited[r] : d[1] = c[1] /\ c[2] \in Resolve(d[2])
  <2>1. c \in all /\ c[2] # r
    BY <1>1
  <2>2. PICK d \in cited[r] : c \in {d[1]} \X Resolve(d[2])
    BY <2>1
  <2>3. c = <<c[1], c[2]>> /\ c[1] = d[1] /\ c[2] \in Resolve(d[2])
    BY <2>2
  <2>. QED  BY <1>2, <2>1, <2>3
<1>4. ASSUME NEW d \in cited[r], NEW x \in Resolve(d[2]) \ {r}
      PROVE  <<d[1], x>> \in Normalized(cited)[r]
  <2>1. <<d[1], x>> \in {d[1]} \X Resolve(d[2]) /\ <<d[1], x>>[2] # r
    OBVIOUS
  <2>2. <<d[1], x>> \in all
    BY <2>1
  <2>. QED  BY <1>1, <2>1, <2>2
<1>. QED  BY <1>3, <1>4

LEMMA UnexposedInputs ==
    ASSUME NEW cited, NEW r \in Revisions
    PROVE  \A c : c \in Unexposed(cited)[r] <=> c \in cited[r] /\ ~(r \in Autonomous /\ c[1] = "ingest")
<1>1. Unexposed(cited)[r] = IF r \in Autonomous THEN {c \in cited[r] : c[1] # "ingest"} ELSE cited[r]
  BY DEF Unexposed
<1>2. CASE r \in Autonomous
  <2>1. Unexposed(cited)[r] = {c \in cited[r] : c[1] # "ingest"}
    BY <1>1, <1>2
  <2>. QED  BY <1>2, <2>1
<1>3. CASE r \notin Autonomous
  <2>1. Unexposed(cited)[r] = cited[r]
    BY <1>1, <1>3
  <2>. QED  BY <1>3, <2>1
<1>. QED  BY <1>2, <1>3

\* Only relations that repeat a reference are retracted, and the references stay.
Left(rels) == rels.all \ rels.retracted

LEMMA PrunedLinks ==
    ASSUME NEW all, NEW gone \in SUBSET all, NEW rels, rels = Pruned([all |-> all, retracted |-> gone])
    PROVE  /\ rels = [all |-> rels.all, retracted |-> rels.retracted]
           /\ rels.retracted \subseteq rels.all
           /\ \A l \in Left(rels) : l[1] = "related_to" =>
                 <<"references", l[2], l[3]>> \notin Left(rels) /\ <<"references", l[3], l[2]>> \notin Left(rels)
           /\ Left(rels) \subseteq all \ gone
           /\ \A l \in all \ gone : l[1] # "related_to" => l \in Left(rels)
           /\ \A l \in (all \ gone) \ Left(rels) :
                 <<"references", l[2], l[3]>> \in Left(rels) \/ <<"references", l[3], l[2]>> \in Left(rels)
<1>. DEFINE active == all \ gone
            Repeats(l) == l[1] = "related_to"
                          /\ (<<"references", l[2], l[3]>> \in active \/ <<"references", l[3], l[2]>> \in active)
            redundant == {l \in active : Repeats(l)}
            left == active \ redundant
<1>1. rels = [all |-> all, retracted |-> gone \cup redundant]
  BY DEF Pruned
<1>2. redundant \subseteq all /\ left = {l \in active : ~Repeats(l)}
  OBVIOUS
<1>3. \A x, y : <<"references", x, y>>[1] = "references"
  OBVIOUS
<1>4. \A l \in active : l[1] # "related_to" => l \in left
  BY <1>2
<1>5. \A x, y : <<"references", x, y>> \in active => <<"references", x, y>> \in left
  BY <1>3, <1>4
<1>6. left \subseteq active /\ \A l \in active \ left : Repeats(l)
  BY <1>2
<1>7. \A l \in left : ~Repeats(l)
  BY <1>2
<1>8. /\ \A l \in left : l[1] = "related_to" =>
            <<"references", l[2], l[3]>> \notin left /\ <<"references", l[3], l[2]>> \notin left
      /\ \A l \in active \ left :
            <<"references", l[2], l[3]>> \in left \/ <<"references", l[3], l[2]>> \in left
  BY <1>5, <1>6, <1>7
<1>9. rels.all = all /\ rels.retracted = gone \cup redundant /\ Left(rels) = left
  <2>. HIDE DEF redundant
  <2>. QED  BY <1>1 DEF Left
<1>10. /\ rels = [all |-> rels.all, retracted |-> rels.retracted]
       /\ rels.retracted \subseteq rels.all
  <2>. HIDE DEF redundant
  <2>. QED  BY <1>1, <1>2, <1>9
<1>. HIDE DEF left
<1>. QED  BY <1>4, <1>6, <1>8, <1>9, <1>10

LEMMA FirstPruned ==
    ASSUME NEW all, NEW rels, rels = Pruned([all |-> all, retracted |-> {}])
    PROVE  /\ rels = [all |-> rels.all, retracted |-> rels.retracted]
           /\ rels.retracted \subseteq rels.all
           /\ \A l \in Left(rels) : l[1] = "related_to" =>
                 <<"references", l[2], l[3]>> \notin Left(rels) /\ <<"references", l[3], l[2]>> \notin Left(rels)
<1>. DEFINE Pure(l) == /\ l = [all |-> l.all, retracted |-> l.retracted]
                       /\ l.retracted \subseteq l.all
                       /\ \A x \in Left(l) : x[1] = "related_to" =>
                             <<"references", x[2], x[3]>> \notin Left(l) /\ <<"references", x[3], x[2]>> \notin Left(l)
<1>1. ASSUME NEW gone \in SUBSET all, NEW ls, ls = Pruned([all |-> all, retracted |-> gone])
      PROVE  Pure(ls)
  <2>1. /\ ls = [all |-> ls.all, retracted |-> ls.retracted]
        /\ ls.retracted \subseteq ls.all
    BY <1>1, PrunedLinks
  <2>2. \A l \in Left(ls) : l[1] = "related_to" =>
           <<"references", l[2], l[3]>> \notin Left(ls) /\ <<"references", l[3], l[2]>> \notin Left(ls)
    BY <1>1, PrunedLinks
  <2>. QED  BY <2>1, <2>2
<1>2. {} \in SUBSET all
  OBVIOUS
<1>3. Pure(rels)
  <2>. HIDE DEF Pure
  <2>. QED  BY <1>1, <1>2
<1>. QED  BY <1>3

LEMMA PrunedRelations ==
    ASSUME NEW all, NEW gone \in SUBSET all, relations' = Pruned([all |-> all, retracted |-> gone])
    PROVE  /\ relations' = [all |-> relations'.all, retracted |-> relations'.retracted]
           /\ relations'.retracted \subseteq relations'.all
           /\ NothingRedundant'
           /\ Active' \subseteq all \ gone
           /\ \A l \in all \ gone : l[1] # "related_to" => l \in Active'
           /\ \A l \in (all \ gone) \ Active' :
                 <<"references", l[2], l[3]>> \in Active' \/ <<"references", l[3], l[2]>> \in Active'
<1>1. Active' = Left(relations')
  BY DEF Active, Left
<1>. QED  BY <1>1, PrunedLinks DEF NothingRedundant

\* The content of a Store of any later version is clean and all there.
LEMMA CleanIsKept ==
    ASSUME NEW before,
           \A r \in Revisions : \A c \in before[r] :
              c = <<c[1], c[2]>> /\ c[2] \in Revisions \ {r}
    PROVE  /\ InputsKept(before, Unexposed(before))
           /\ \A r \in Revisions : \A c \in Unexposed(before)[r] :
                 c[2] \in Revisions \ {r} /\ ~(r \in Autonomous /\ c[1] = "ingest")
<1>1. \A x \in Revisions : Resolve(x) = {x}
  BY DEF Resolve
<1>2. ASSUME NEW r \in Revisions, NEW c \in before[r], NEW x \in Resolve(c[2]) \ {r}
      PROVE  <<c[1], x>> \in Unexposed(before)[r] \/ (r \in Autonomous /\ c[1] = "ingest")
  <2>1. x = c[2] /\ <<c[1], x>> = c
    BY <1>1
  <2>. QED  BY <2>1, UnexposedInputs
<1>3. ASSUME NEW r \in Revisions, NEW c \in Unexposed(before)[r]
      PROVE  /\ \E d \in before[r] : d[1] = c[1] /\ c[2] \in Resolve(d[2])
             /\ c[2] \in Revisions \ {r} /\ ~(r \in Autonomous /\ c[1] = "ingest")
  <2>1. c \in before[r] /\ ~(r \in Autonomous /\ c[1] = "ingest")
    BY UnexposedInputs
  <2>. QED  BY <1>1, <2>1
<1>. QED  BY <1>2, <1>3 DEF InputsKept

LEMMA DraftIsKept ==
    ASSUME NEW before
    PROVE  /\ InputsKept(before, Unexposed(Normalized(before)))
           /\ \A r \in Revisions : \A c \in Unexposed(Normalized(before))[r] :
                 c[2] \in Revisions \ {r} /\ ~(r \in Autonomous /\ c[1] = "ingest")
<1>1. ASSUME NEW r \in Revisions, NEW c \in before[r], NEW x \in Resolve(c[2]) \ {r}
      PROVE  <<c[1], x>> \in Unexposed(Normalized(before))[r] \/ (r \in Autonomous /\ c[1] = "ingest")
  <2>1. <<c[1], x>> \in Normalized(before)[r] /\ <<c[1], x>>[1] = c[1]
    BY NormalizedInputs
  <2>. QED  BY <2>1, UnexposedInputs
<1>2. ASSUME NEW r \in Revisions, NEW c \in Unexposed(Normalized(before))[r]
      PROVE  /\ \E d \in before[r] : d[1] = c[1] /\ c[2] \in Resolve(d[2])
             /\ c[2] \in Revisions \ {r} /\ ~(r \in Autonomous /\ c[1] = "ingest")
  <2>1. c \in Normalized(before)[r] /\ ~(r \in Autonomous /\ c[1] = "ingest")
    BY UnexposedInputs
  <2>. QED  BY <2>1, NormalizedInputs
<1>. QED  BY <1>1, <1>2 DEF InputsKept

-----------------------------------------------------------------------------
(* The migrations                                                          *)

\* A migration ends with a Store of clean.4, on whose content it says what holds.
LEMMA Migrated ==
    ASSUME IInv, NEW o \in Openers, OpenerInv(o), opener[o] # Idle,
           opener' = [opener EXCEPT ![o] = [read |-> opener[o].read, step |-> "consolidate"]],
           version' = "clean.4", first' = first, ContentInv',
           tables \subseteq tables', tables' \subseteq AllTables,
           "base" \in tables' => contract'
    PROVE  IInv'
<1>1. AllTables' = AllTables /\ LegacyVersions' = LegacyVersions /\ Current' = Current
  BY DEF AllTables, LegacyVersions, Tables, Legacy, Current
<1>2. TablesInv' /\ Onward
  BY <1>1 DEF IInv, TablesInv, Onward
<1>3. VersionInv'
  BY <1>1 DEF VersionInv
<1>4. opener'[o] = [read |-> opener[o].read, step |-> "consolidate"]
  BY DEF IInv, OpenersInv
<1>5. version' # "none" /\ version' \notin LegacyVersions'
  BY <1>1, Names
<1>6. OpenerInv(o)'
  BY <1>4, <1>5 DEF OpenerInv
<1>. QED  BY <1>2, <1>3, <1>6, OthersKeep DEF IInv

LEMMA AddTablesKeeps ==
    ASSUME IInv, NEW o \in Openers, AddTables(o)
    PROVE  IInv'
<1>1. /\ tables' = tables \cup {Added(opener[o].read)} /\ version' = "clean.4" /\ To(o, "consolidate")
      /\ contract' = contract /\ UNCHANGED contentVars /\ opener[o].read \in {"clean.1", "clean.2", "clean.3"}
  BY DEF AddTables, contentVars
<1>2. /\ OpenerInv(o) /\ opener[o].step = "migrate" /\ opener[o] # Idle
      /\ opener' = [opener EXCEPT ![o] = [read |-> opener[o].read, step |-> "consolidate"]]
  BY <1>1, OpenerAt DEF AddTables, IInv
<1>3. first.version \in {"clean.1", "clean.2", "clean.3"}
  BY <1>1, <1>2 DEF OpenerInv
<1>4. version \notin {"draft", "clean"}
  BY <1>3, Names DEF IInv, VersionInv
<1>5. ContentInv'
  BY <1>1, <1>4, ContentStands DEF IInv
<1>6. Added(opener[o].read) \in AllTables /\ Added(opener[o].read) # "base"
  <2>1. Added(opener[o].read) \in {"topics", "governance", "feedback"}
    BY <1>1 DEF Added
  <2>. QED  BY <2>1, Names
<1>7. tables \subseteq tables' /\ tables' \subseteq AllTables /\ ("base" \in tables' => contract')
  BY <1>1, <1>4, <1>6 DEF IInv, TablesInv
<1>. QED  BY <1>1, <1>2, <1>5, <1>7, Migrated DEF contentVars

LEMMA MigrateAssociationsKeeps ==
    ASSUME IInv, NEW o \in Openers, MigrateAssociations(o)
    PROVE  IInv'
<1>1. /\ version' = "clean.4" /\ To(o, "consolidate") /\ opener[o].read = "clean"
      /\ inputs' = Unexposed(inputs) /\ index' = Indexed(inputs') /\ relations' = Pruned(relations)
      /\ tables' = tables /\ contract' = contract /\ mentions' = mentions /\ pointers' = pointers
      /\ telemetry' = telemetry /\ first' = first
  BY DEF MigrateAssociations
<1>2. /\ OpenerInv(o) /\ opener[o].step = "migrate" /\ opener[o] # Idle
      /\ opener' = [opener EXCEPT ![o] = [read |-> opener[o].read, step |-> "consolidate"]]
  BY <1>1, OpenerAt DEF MigrateAssociations, IInv
<1>3. first.version = "clean"
  BY <1>1, <1>2 DEF OpenerInv
<1>4. version # "draft"
  BY <1>3, Names DEF IInv, VersionInv
<1>5. /\ relations = [all |-> relations.all, retracted |-> relations.retracted]
      /\ relations.retracted \subseteq relations.all /\ Active = relations.all \ relations.retracted
  BY DEF IInv, ContentInv, Active
<1>6. /\ relations' = [all |-> relations'.all, retracted |-> relations'.retracted]
      /\ relations'.retracted \subseteq relations'.all
      /\ NothingRedundant'
      /\ Active' \subseteq Active
      /\ \A l \in Active : l[1] # "related_to" => l \in Active'
      /\ \A l \in Active \ Active' :
            <<"references", l[2], l[3]>> \in Active' \/ <<"references", l[3], l[2]>> \in Active'
  <2>1. PICK all, gone : all = relations.all /\ gone = relations.retracted
    OBVIOUS
  <2>2. gone \in SUBSET all /\ relations' = Pruned([all |-> all, retracted |-> gone]) /\ Active = all \ gone
    BY <1>1, <1>5, <2>1
  <2>. QED  BY <2>2, PrunedRelations
<1>7. /\ CleanContent(inputs') /\ InputsKept(first'.inputs, inputs')
      /\ MentionsKept' /\ RelationsKept'
  <2>1. CASE version = "clean"
    <3>1. /\ inputs = first.inputs /\ mentions = first.mentions /\ Active = first.active
          /\ \A r \in Revisions : pointers[r] = {} /\ \A m \in mentions[r] : m[1] = "image"
          /\ \A r \in Revisions : \A c \in inputs[r] : c = <<c[1], c[2]>> /\ c[2] \in Revisions \ {r}
      BY <2>1 DEF IInv, ContentInv, Untouched, Active
    <3>2. CleanContent(inputs') /\ InputsKept(first'.inputs, inputs')
      BY <1>1, <3>1, CleanIsKept DEF CleanContent
    <3>3. MentionsKept'
      BY <1>1, <1>3, <3>1 DEF MentionsKept, MentionKept
    <3>4. RelationsKept'
      BY <1>1, <1>6, <3>1 DEF RelationsKept
    <3>. QED  BY <3>2, <3>3, <3>4
  <2>2. CASE version # "clean"
    <3>1. /\ CleanContent(inputs) /\ NothingRedundant
          /\ InputsKept(first.inputs, inputs) /\ MentionsKept /\ RelationsKept
      BY <1>4, <2>2 DEF IInv, ContentInv
    <3>2. \A r \in Revisions : \A c : c \in inputs'[r] <=> c \in inputs[r]
      BY <1>1, <3>1, UnexposedInputs DEF CleanContent
    <3>3. CleanContent(inputs')
      BY <1>1, <3>1, <3>2 DEF CleanContent
    <3>4. InputsKept(first'.inputs, inputs')
      BY <1>1, <3>1, <3>2 DEF InputsKept
    <3>5. Active' = Active
      BY <1>6, <3>1 DEF NothingRedundant
    <3>6. MentionsKept'
      BY <1>1, <3>1, <3>5 DEF MentionsKept, MentionKept
    <3>7. RelationsKept'
      BY <1>1, <3>1, <3>5 DEF RelationsKept
    <3>. QED  BY <3>3, <3>4, <3>6, <3>7
  <2>. QED  BY <2>1, <2>2
<1>8. index' = Indexed(inputs') /\ ~telemetry'
  BY <1>1, <1>4 DEF IInv, ContentInv
<1>9. ContentInv'
  BY <1>1, <1>6, <1>7, <1>8 DEF ContentInv, Indexed
<1>10. tables \subseteq tables' /\ tables' \subseteq AllTables /\ ("base" \in tables' => contract')
  BY <1>1, <1>4 DEF IInv, TablesInv
<1>. QED  BY <1>1, <1>2, <1>9, <1>10, Migrated

LEMMA MigrateDraftKeeps ==
    ASSUME IInv, NEW o \in Openers, MigrateDraft(o)
    PROVE  IInv'
<1>1. first' = first /\ opener[o].read = "draft"
  BY DEF MigrateDraft
<1>2. CASE contract
  BY <1>2, FailKeeps DEF MigrateDraft
<1>3. CASE ~contract
  <2>1. /\ version' = "clean.4" /\ To(o, "consolidate") /\ contract' = TRUE
        /\ inputs' = Unexposed(Normalized(inputs)) /\ index' = Indexed(inputs')
        /\ relations' = Pruned(Referenced(relations))
        /\ pointers' = [r \in Revisions |-> pointers[r] \cup Found(mentions[r])]
        /\ mentions' = [r \in Revisions |-> {m \in mentions[r] : m[1] = "image" /\ Targets(m) = {}}]
        /\ telemetry' = FALSE /\ tables' = tables
    BY <1>3 DEF MigrateDraft, RebuildContractTables, NormalizeRevisionContent
  <2>2. /\ OpenerInv(o) /\ opener[o].step = "migrate" /\ opener[o] # Idle
        /\ opener' = [opener EXCEPT ![o] = [read |-> opener[o].read, step |-> "consolidate"]]
    BY <2>1, OpenerAt DEF MigrateDraft, IInv
  <2>3. first.version = "draft"
    BY <1>1, <2>2 DEF OpenerInv
  <2>4. version = "draft"
    BY <1>3, <2>3, Names DEF IInv, TablesInv
  <2>5. /\ inputs = first.inputs /\ mentions = first.mentions
        /\ relations = [all |-> first.active, retracted |-> {}]
        /\ \A r \in Revisions : pointers[r] = {}
    BY <2>4 DEF IInv, ContentInv, Untouched
  <2>. DEFINE named == {w \in {<<"references", PageOf[r], p>> : r \in Revisions, p \in Pages} :
                           w[2] # w[3] /\ \E r \in Revisions : PageOf[r] = w[2] /\ w[3] \in Found(mentions[r])}
  <2>6. Referenced(relations) = [all |-> first.active \cup named, retracted |-> {}]
    BY <2>5 DEF Referenced
  <2>7. \A l \in named : /\ l[1] = "references"
                         /\ \E r \in Revisions : l[2] = PageOf[r] /\ l[3] \in Found(first.mentions[r])
    BY <2>5
  <2>8. ASSUME NEW r \in Revisions, NEW p \in Found(first.mentions[r]), p # PageOf[r]
        PROVE  <<"references", PageOf[r], p>> \in named
    <3>1. p \in Pages /\ p \in Found(mentions[r])
      BY <2>5 DEF Found, Targets
    <3>2. <<"references", PageOf[r], p>> \in {<<"references", PageOf[x], q>> : x \in Revisions, q \in Pages}
      BY <3>1
    <3>3. <<"references", PageOf[r], p>>[2] = PageOf[r] /\ <<"references", PageOf[r], p>>[3] = p
      OBVIOUS
    <3>. QED  BY <2>8, <3>1, <3>2, <3>3
  <2>. HIDE DEF named
  <2>9. /\ relations' = [all |-> relations'.all, retracted |-> relations'.retracted]
        /\ relations'.retracted \subseteq relations'.all
        /\ NothingRedundant'
        /\ Active' \subseteq first.active \cup named
        /\ \A l \in first.active \cup named : l[1] # "related_to" => l \in Active'
        /\ \A l \in (first.active \cup named) \ Active' :
              <<"references", l[2], l[3]>> \in Active' \/ <<"references", l[3], l[2]>> \in Active'
    <3>1. PICK all, gone : all = first.active \cup named /\ gone = {}
      OBVIOUS
    <3>2. gone \in SUBSET all /\ relations' = Pruned([all |-> all, retracted |-> gone])
          /\ all \ gone = first.active \cup named
      BY <2>1, <2>6, <3>1
    <3>. QED  BY <3>2, PrunedRelations
  <2>10. RelationsKept'
    BY <1>1, <2>7, <2>9 DEF RelationsKept
  <2>11. MentionsKept'
    <3>1. \A x, y : <<"references", x, y>>[1] # "related_to"
      OBVIOUS
    <3>2. \A r \in Revisions :
             /\ pointers'[r] = Found(first.mentions[r])
             /\ mentions'[r] = {m \in first.mentions[r] : m[1] = "image" /\ Targets(m) = {}}
      BY <2>1, <2>5
    <3>3. ASSUME NEW r \in Revisions, NEW m \in first.mentions[r]
          PROVE  MentionKept(r, m)'
      <4>1. CASE Targets(m) = {}
        BY <1>1, <3>2, <3>3, <4>1 DEF MentionKept
      <4>2. CASE Targets(m) # {}
        <5>1. PICK p \in Targets(m) : TRUE
          BY <4>2
        <5>2. p \in Found(first.mentions[r])
          BY <3>3, <5>1 DEF Found
        <5>3. p = PageOf[r] \/ <<"references", PageOf[r], p>> \in Active'
          BY <2>8, <2>9, <3>1, <5>2
        <5>. QED  BY <3>2, <5>1, <5>2, <5>3 DEF MentionKept
      <4>. QED  BY <4>1, <4>2
    <3>. QED  BY <1>1, <3>2, <3>3 DEF MentionsKept
  <2>12. InputsKept(first'.inputs, inputs') /\ CleanContent(inputs')
    BY <1>1, <2>1, <2>5, DraftIsKept DEF CleanContent
  <2>13. ContentInv'
    BY <2>1, <2>9, <2>10, <2>11, <2>12 DEF ContentInv, Indexed
  <2>14. tables \subseteq tables' /\ tables' \subseteq AllTables /\ ("base" \in tables' => contract')
    BY <2>1 DEF IInv, TablesInv
  <2>. QED  BY <1>1, <2>1, <2>2, <2>13, <2>14, Migrated
<1>. QED  BY <1>2, <1>3

LEMMA OpenerDiesKeeps ==
    ASSUME IInv, NEW o \in Openers, OpenerDies(o)
    PROVE  IInv'
BY FailKeeps DEF OpenerDies

LEMMA MigrationStutters ==
    ASSUME IInv, UNCHANGED migrationVars
    PROVE  IInv'
<1>1. /\ version' = version /\ tables' = tables /\ contract' = contract /\ UNCHANGED contentVars
      /\ opener' = opener
  BY DEF migrationVars, store, contentVars
<1>2. ContentInv'
  BY <1>1, ContentStands DEF IInv
<1>3. TablesInv' /\ VersionInv' /\ first' = first
  BY <1>1 DEF IInv, TablesInv, VersionInv, AllTables, Tables, Current, contentVars
<1>4. OpenersInv'
  BY <1>1, <1>3 DEF IInv, OpenersInv, OpenerInv, AllTables, Tables, Current, LegacyVersions, Legacy, Idle
<1>. QED  BY <1>2, <1>3, <1>4 DEF IInv

-----------------------------------------------------------------------------
(* The beginning, and the theorems                                         *)

\* What an older Store holds is what a Store of its version may hold.
LEMMA MigrationBegins ==
    ASSUME MigrationInit
    PROVE  IInv
<1>1. PICK cited \in Citations, mentioned \in Mentions, rels \in Links :
         /\ inputs = IF version = "draft" THEN cited
                     ELSE IF version = "clean" THEN Normalized(cited)
                     ELSE IF version = "none" THEN NothingCited ELSE Unexposed(Normalized(cited))
         /\ mentions = CASE version = "draft" -> mentioned
                         [] version = "none" -> NothingCited
                         [] OTHER -> [r \in Revisions |-> {m \in mentioned[r] : m[1] = "image"}]
         /\ relations = CASE version = "none" -> [all |-> {}, retracted |-> {}]
                          [] version \in {"draft", "clean"} -> [all |-> rels, retracted |-> {}]
                          [] OTHER -> Pruned([all |-> rels, retracted |-> {}])
  BY DEF MigrationInit
<1>2. /\ index = Indexed(inputs) /\ (version # "draft" => ~telemetry)
      /\ version \in Stored /\ contract = (version \notin {"none", "draft"})
      /\ pointers = NothingCited
      /\ first.version = version /\ first.inputs = inputs /\ first.mentions = mentions /\ first.active = Active
  BY DEF MigrationInit, Active
<1>3. opener = [o \in Openers |-> Idle]
  BY DEF MigrationInit
<1>4. OpenersInv
  BY <1>3 DEF OpenersInv, OpenerInv
<1>5. VersionInv
  BY <1>2 DEF VersionInv
<1>6. TablesInv
  <2>. DEFINE more == {Tables[n] : n \in {m \in 2..5 :
                         IF IsLegacy(version) THEN m + 1 < Before(version) ELSE m < 5 \/ version # "clean.4"}}
  <2>1. tables = IF version = "none" THEN {} ELSE {"base"} \cup more
    BY DEF MigrationInit
  <2>2. more \subseteq AllTables
    BY Names
  <2>. HIDE DEF more
  <2>. QED  BY <1>2, <2>1, <2>2, Names DEF TablesInv
<1>7. /\ relations = [all |-> relations.all, retracted |-> relations.retracted]
      /\ relations.retracted \subseteq relations.all
      /\ version \in {"draft", "clean"} => relations = [all |-> Active, retracted |-> {}]
      /\ version \notin {"draft", "clean"} => NothingRedundant
  <2>1. CASE version = "none"
    <3>1. relations = [all |-> {}, retracted |-> {}]
      BY <1>1, <2>1
    <3>. QED  BY <2>1, <3>1 DEF Active, NothingRedundant
  <2>2. CASE version \in {"draft", "clean"}
    <3>1. relations = [all |-> rels, retracted |-> {}]
      BY <1>1, <2>2
    <3>. QED  BY <2>2, <3>1 DEF Active
  <2>3. CASE version \notin {"none", "draft", "clean"}
    <3>1. relations = Pruned([all |-> rels, retracted |-> {}])
      BY <1>1, <2>3
    <3>2. /\ relations = [all |-> relations.all, retracted |-> relations.retracted]
          /\ relations.retracted \subseteq relations.all
          /\ \A l \in Left(relations) : l[1] = "related_to" =>
                <<"references", l[2], l[3]>> \notin Left(relations)
                /\ <<"references", l[3], l[2]>> \notin Left(relations)
      BY <3>1, FirstPruned
    <3>3. NothingRedundant
      BY <3>2 DEF NothingRedundant, Active, Left
    <3>. QED  BY <2>3, <3>2, <3>3
  <2>. QED  BY <2>1, <2>2, <2>3
<1>8. /\ \A r \in Revisions : pointers[r] = {}
      /\ version = "draft" => Untouched /\ ~contract
  BY <1>2, <1>7 DEF Untouched, NothingCited
<1>9. version # "draft" => \A r \in Revisions : \A m \in mentions[r] : m[1] = "image"
  BY <1>1 DEF NothingCited
<1>10. version = "clean" =>
          /\ Untouched
          /\ \A r \in Revisions :
                /\ \A m \in mentions[r] : m[1] = "image"
                /\ \A c \in inputs[r] : c = <<c[1], c[2]>> /\ c[2] \in Revisions \ {r}
  BY <1>1, <1>2, <1>7, <1>8, <1>9, NormalizedInputs DEF Untouched
<1>11. ASSUME version \notin {"draft", "clean"}
       PROVE  CleanContent(inputs) /\ InputsKept(inputs, inputs)
  <2>1. ASSUME NEW r \in Revisions, NEW c \in inputs[r]
        PROVE  c = <<c[1], c[2]>> /\ c[2] \in Revisions \ {r} /\ ~(r \in Autonomous /\ c[1] = "ingest")
    <3>1. CASE version = "none"
      BY <1>1, <2>1, <3>1 DEF NothingCited
    <3>2. CASE version # "none"
      <4>1. inputs = Unexposed(Normalized(cited))
        BY <1>1, <1>11, <3>2
      <4>2. c \in Normalized(cited)[r] /\ ~(r \in Autonomous /\ c[1] = "ingest")
        BY <2>1, <4>1, UnexposedInputs
      <4>. QED  BY <4>2, NormalizedInputs
    <3>. QED  BY <3>1, <3>2
  <2>2. \A x \in Revisions : Resolve(x) = {x}
    BY DEF Resolve
  <2>3. InputsKept(inputs, inputs)
    BY <2>1, <2>2 DEF InputsKept
  <2>4. CleanContent(inputs)
    BY <2>1 DEF CleanContent
  <2>. QED  BY <2>3, <2>4
<1>12. version \notin {"draft", "clean"} => MentionsKept
  BY <1>2, <1>8, <1>9 DEF MentionsKept, MentionKept
<1>13. RelationsKept
  BY <1>2 DEF RelationsKept
<1>14. ContentInv
  BY <1>2, <1>7, <1>8, <1>10, <1>11, <1>12, <1>13 DEF ContentInv
<1>. QED  BY <1>4, <1>5, <1>6, <1>14 DEF IInv

(* However many processes open a Store at once, whatever version each of   *)
(* them read and wherever any of them died, the Store keeps its content as *)
(* the version it is of says, and no opener is past what has been done     *)
(* (initialize and the migrations of schema.rs).                           *)
THEOREM MigrationInvariant == MigrationSpec => []IInv
<1>1. MigrationInit => IInv
  BY MigrationBegins
<1>2. ASSUME IInv, [MigrationNext]_migrationVars
      PROVE  IInv'
  <2>1. CASE UNCHANGED migrationVars
    BY <1>2, <2>1, MigrationStutters
  <2>2. CASE MigrationNext
    <3>1. CASE \E o \in Openers : Open(o)
      BY <1>2, <3>1, OpenKeeps
    <3>2. CASE \E o \in Openers : Inspect(o)
      BY <1>2, <3>2, InspectKeeps
    <3>3. CASE \E o \in Openers : InsertVersion(o)
      BY <1>2, <3>3, InsertVersionKeeps
    <3>4. CASE \E o \in Openers : MigrateDraft(o)
      BY <1>2, <3>4, MigrateDraftKeeps
    <3>5. CASE \E o \in Openers : MigrateAssociations(o)
      BY <1>2, <3>5, MigrateAssociationsKeeps
    <3>6. CASE \E o \in Openers : AddTables(o)
      BY <1>2, <3>6, AddTablesKeeps
    <3>7. CASE \E o \in Openers : Consolidate(o)
      BY <1>2, <3>7, ConsolidateKeeps
    <3>8. CASE \E o \in Openers : CreateTable(o)
      BY <1>2, <3>8, CreateTableKeeps
    <3>9. CASE \E o \in Openers : Stamp(o)
      BY <1>2, <3>9, StampKeeps
    <3>10. CASE \E o \in Openers : OpenerDies(o)
      BY <1>2, <3>10, OpenerDiesKeeps
    <3>. QED  BY <2>2, <3>1, <3>2, <3>3, <3>4, <3>5, <3>6, <3>7, <3>8, <3>9, <3>10 DEF MigrationNext
  <2>. QED  BY <1>2, <2>1, <2>2
<1>. QED  BY <1>1, <1>2, PTL DEF MigrationSpec

LEMMA WhatOpenersFind ==
    ASSUME IInv
    PROVE  OpenStoreIsWhole
<1>1. SUFFICES ASSUME NEW o \in Openers, IsOpen(o)
               PROVE  OpenStoreIsWhole
  BY DEF OpenStoreIsWhole, FoundWhole, NothingIsLost
<1>2. OpenerInv(o) /\ opener[o].step = "open" /\ opener[o] # Idle
  BY <1>1, OpenerAt DEF IsOpen, IInv
<1>3. tables = AllTables /\ version \in {"clean.4", Current}
  BY <1>2 DEF OpenerInv
<1>4. version \notin {"draft", "clean"}
  BY <1>3, Names
<1>5. /\ CleanContent(inputs) /\ NothingRedundant
      /\ InputsKept(first.inputs, inputs) /\ MentionsKept /\ RelationsKept
  BY <1>4 DEF IInv, ContentInv
<1>6. contract
  BY <1>3, <1>4, Names DEF IInv, TablesInv
<1>7. FoundWhole
  BY <1>3, <1>5, <1>6 DEF FoundWhole, CleanContent, MentionsKept, NothingRedundant, AllTables
<1>8. NothingIsLost
  BY <1>5 DEF NothingIsLost, InputsKept, MentionsKept, MentionKept, RelationsKept
<1>. QED  BY <1>7, <1>8 DEF OpenStoreIsWhole

(* Whoever has opened a Store finds every table, in the shape of the       *)
(* contract, nothing left of the old content but images that are not in    *)
(* the Store, and all that was in it: what a Revision cited, a reference   *)
(* to each Page its text mentioned, and every relation but those that      *)
(* repeat a reference (initialize, migrate_draft_to_clean and the later    *)
(* migrations of schema.rs).  An input whose Page is gone loses its name.  *)
THEOREM OpenedStoreIsWhole == MigrationSpec => []OpenStoreIsWhole
<1>1. IInv => OpenStoreIsWhole
  BY WhatOpenersFind
<1>. QED  BY <1>1, MigrationInvariant, PTL

(* The steps of an opener are those of the version it read, the index of   *)
(* the inputs is the one of the provenance, and nothing is retracted that  *)
(* was not there.                                                          *)
THEOREM MigrationTypeCorrect == MigrationSpec => []MigrationTypeOK
<1>1. ASSUME IInv
      PROVE  MigrationTypeOK
  <2>1. /\ version \in Stored \cup {"clean.4", Current} /\ relations.retracted \subseteq relations.all
        /\ tables \subseteq AllTables /\ (version # "draft" => index = Indexed(inputs) /\ ~telemetry)
    BY <1>1 DEF IInv, ContentInv, TablesInv, VersionInv
  <2>2. ASSUME NEW o \in Openers, opener[o] # Idle
        PROVE  /\ opener[o].step \in {"inspect", "insert", "migrate", "consolidate", "tables", "stamp", "open"}
               /\ opener[o].step = "migrate" => IsLegacy(opener[o].read)
    BY <1>1, <2>2 DEF IInv, OpenersInv, OpenerInv, IsLegacy, LegacyVersions
  <2>. QED  BY <2>1, <2>2 DEF MigrationTypeOK, AllTables
<1>. QED  BY <1>1, MigrationInvariant, PTL

=============================================================================
