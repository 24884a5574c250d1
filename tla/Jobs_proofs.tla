---------------------------- MODULE Jobs_proofs ----------------------------
(***************************************************************************)
(* Proofs about the jobs of a maintenance cycle.                           *)
(*                                                                         *)
(* MaintenanceJobs, for any stream, kinds of jobs and bounds: a call that  *)
(* was paid for is over. It is on record, an operator undid what came of   *)
(* it, or the store moved on, so that neither the store nor the inventory  *)
(* that a cycle read of it offers the window again. This stays so because  *)
(* heads only grow, and because a Page that was packed away is only shown  *)
(* again where an operator splits the pack.                                *)
(*                                                                         *)
(* TopicDiscovery, for any routing, limits and bounds: the evidence of a   *)
(* draft identifies its item, and a draft that refreshes a Topic as it is  *)
(* has all of its sources, because a Topic that was refreshed in between   *)
(* has another Revision.                                                   *)
(***************************************************************************)
EXTENDS MaintenanceJobs, TopicDiscovery, FiniteSetTheorems, TLAPS

-----------------------------------------------------------------------------
(* The invariant                                                           *)

Revs(p) == {pages[p].head} \cup pages[p].past

\* A Page's Revisions are its own, the head is the last.
PagesFit ==
    /\ used.page \in Nat /\ used.rev \in Nat /\ DOMAIN used = {"page", "rev"}
    /\ DOMAIN pages = 1 .. used.page /\ Sources \in 0 .. used.page
    /\ pages = [p \in DOMAIN pages |-> pages[p]]
    /\ \A p \in DOMAIN pages :
          /\ DOMAIN pages[p] = {"head", "past", "shown", "span"}
          /\ pages[p].head \in 1 .. used.rev
          /\ \A r \in pages[p].past : r \in Nat /\ 0 < r /\ r < pages[p].head
          /\ pages[p].shown \in BOOLEAN /\ pages[p].span \subseteq 1 .. Sources
    /\ \A p, q \in DOMAIN pages : p # q => Revs(p) \cap Revs(q) = {}

\* A source's own Page has it, packed or not, and what is shown has it once.
SpansFit ==
    /\ \A s \in 1 .. Sources : pages[s].span = {s}
    /\ \A p, q \in Shown : p # q => pages[p].span \cap pages[q].span = {}

SummaryOf(p) == IF p \in DOMAIN summaries THEN summaries[p] ELSE 0
TablesFit ==
    /\ DOMAIN summaries \subseteq DOMAIN pages
    /\ \A p \in DOMAIN summaries : summaries[p] \in Revs(p)
    /\ \A r \in leases : \E p \in DOMAIN pages : r \in pages[p].past

\* What was read of a Page is as it is, or a Revision that it had.
InventoryFits ==
    /\ DOMAIN inventory \subseteq DOMAIN pages
    /\ \A p \in DOMAIN inventory :
          /\ inventory[p].head \in Revs(p) /\ inventory[p].head <= pages[p].head
          /\ p \in paid.undone \/ inventory[p].summary = SummaryOf(p)

\* A call is of a kind, for Pages with the Revisions read, and says whether the
\* operator has the pack to approve.
KeyOf(c) == <<c[1], IF c[1] \in {"packing", "retention"} THEN DOMAIN c[2]
                    ELSE {c[2][p] : p \in DOMAIN c[2]}>>
JobCall == <<job.kind, job.of, job.kind = "packing" /\ <<"pack", DOMAIN job.of>> \in ledger>>
CallFits(c) ==
    /\ c = <<c[1], c[2], c[3]>> /\ c[3] \in BOOLEAN
    /\ c[1] \in {"packing", "summary", "relation", "archive", "retention"}
    /\ c[1] # "packing" => c[3] = FALSE
    /\ c[2] = [p \in DOMAIN c[2] |-> c[2][p]]
    /\ c[1] # "retention" =>
          \A p \in DOMAIN c[2] :
             /\ p \in DOMAIN pages /\ c[2][p] \in Revs(p)
             /\ p \in DOMAIN inventory => c[2][p] <= inventory[p].head
    /\ c[1] = "packing" => \E p, q \in DOMAIN c[2] : p # q /\ DOMAIN c[2] = {p, q}
    /\ c[1] = "summary" => \E p \in DOMAIN c[2] : DOMAIN c[2] = {p}
CallsFit == \A c \in paid.once : CallFits(c)

JobFits ==
    job # NoJob =>
        /\ cycle.phase # "idle" /\ JobCall \in paid.once
        /\ job.kind # "retention" =>
              \A p \in DOMAIN job.of : p \in DOMAIN inventory /\ job.of[p] = inventory[p].head
        /\ job.kind = "summary" => \A p \in DOMAIN job.of : job.with = inventory[p].summary
        /\ job.kind = "retention" => \A r \in DOMAIN job.of : \E p \in DOMAIN pages : r \in pages[p].past

\* What was undone may be paid for again; what is on record is not, nor what is no
\* more as it was: in the store, and in the inventory.
Undoable == {"packing", "summary", "relation"}
Excused(c) ==
    /\ c[1] \in Undoable
    /\ \E p \in DOMAIN c[2] : p \in paid.undone \/ (c[1] = "summary" /\ c[2][p] \in assessed)
OnRecord(c) ==
    \/ KeyOf(c) \in ledger
    \/ c[1] = "packing" /\ c[3] = FALSE /\ <<"pack", DOMAIN c[2]>> \in ledger
MovedOn(c) ==
    /\ c[1] \in Undoable
    /\ \E p \in DOMAIN c[2] : \/ p \notin Shown
                              \/ pages[p].head # c[2][p]
                              \/ c[1] = "summary" /\ SummaryOf(p) = c[2][p]
NotOffered(c) ==
    /\ c[1] \in Undoable
    /\ \E p \in DOMAIN c[2] : \/ p \notin DOMAIN inventory
                              \/ inventory[p].head # c[2][p]
                              \/ c[1] = "summary" /\ inventory[p].summary = c[2][p]
Ended(c) == Excused(c) \/ OnRecord(c) \/ MovedOn(c)
Passed(c) == Excused(c) \/ OnRecord(c) \/ NotOffered(c)

Between == job = NoJob /\ cycle.phase # "idle"
PaidFor ==
    /\ \A c \in paid.once : (job # NoJob /\ c = JobCall) \/ Ended(c)
    /\ Between => \A c \in paid.once : Passed(c)

\* The Pages that a key was used for are not all shown together, unless undone.
Packs(w) == \E p \in w : p \in paid.undone \/ p \notin Shown
NotTogether(w) == \E p \in w : p \in paid.undone \/ p \notin DOMAIN inventory
KeysFit ==
    /\ \A k \in keys : k = <<k[1], k[2]>> /\ k[1] \in {"packing", "summary"}
    /\ \A k \in keys : k[1] = "summary" => \E c \in paid.once : c[1] = "summary" /\ KeyOf(c) = k
    /\ \A k \in keys : k[1] = "packing" =>
          k[2] \subseteq DOMAIN pages /\ Packs(k[2]) /\ (Between => NotTogether(k[2]))
    /\ job # NoJob /\ JobKey \in keys => Excused(JobCall)

CycleFits ==
    /\ DOMAIN cycle = {"phase", "jobs", "at", "turns", "scheduled", "turn", "count"}
    /\ cycle.phase \in {"idle", "packing", "semantic", "archive", "retention"}
    /\ cycle.jobs \in 0 .. MaxJobs /\ (cycle.phase # "idle" => cycle.jobs > 0)
    /\ cycle.turns \in 0 .. 4
    /\ cycle.phase = "packing" => cycle.turns = 0
    /\ cycle.phase = "semantic" => cycle.turns < 4

AgainExcused == DOMAIN paid = {"once", "again", "undone"} /\ \A c \in paid.again : Excused(c)

StoreFits == PagesFit /\ SpansFit
JobsInv ==
    /\ StoreFits /\ TablesFit /\ InventoryFits /\ CallsFit /\ JobFits /\ PaidFor /\ KeysFit
    /\ CycleFits /\ AgainExcused

LEMMA JobsStart ==
    ASSUME JobsAssumption, JobsInit
    PROVE  JobsInv
<1>1. Sources \in Nat /\ Notes \in Nat /\ MaxJobs \in Nat \ {0} BY DEF JobsAssumption
<1>2. /\ pages = [p \in 1 .. Sources + Notes |->
              [head |-> p, past |-> {}, shown |-> TRUE, span |-> IF p <= Sources THEN {p} ELSE {}]]
      /\ used = [page |-> Sources + Notes, rev |-> Sources + Notes]
      /\ summaries = NoRows /\ leases = {} /\ keys = {} /\ inventory = NoRows /\ job = NoJob
      /\ cycle = [phase |-> "idle", jobs |-> 0, at |-> 0, turns |-> 0, scheduled |-> TRUE,
                  turn |-> 0, count |-> 0]
      /\ paid = [once |-> {}, again |-> {}, undone |-> {}]
  BY DEF JobsInit
<1>3. PagesFit
  <2>1. \A p \in DOMAIN pages :
          /\ DOMAIN pages[p] = {"head", "past", "shown", "span"}
          /\ pages[p].head = p /\ pages[p].past = {} /\ pages[p].shown = TRUE
          /\ pages[p].span \subseteq 1 .. Sources
    BY <1>1, <1>2
  <2>2. \A p, q \in DOMAIN pages : p # q => Revs(p) \cap Revs(q) = {} BY <2>1 DEF Revs
  <2>3. pages = [p \in DOMAIN pages |-> pages[p]] BY <1>2
  <2>4. /\ DOMAIN pages = 1 .. used.page /\ Sources \in 0 .. used.page /\ used.rev = used.page
        /\ used.page \in Nat /\ DOMAIN used = {"page", "rev"}
    BY <1>1, <1>2
  <2> QED BY <2>1, <2>2, <2>3, <2>4 DEF PagesFit
<1>4. SpansFit BY <1>1, <1>2 DEF SpansFit, Shown
<1>5. DOMAIN NoRows = {} BY DEF NoRows
<1>6. TablesFit /\ InventoryFits BY <1>2, <1>5 DEF TablesFit, InventoryFits
<1>7. CallsFit /\ JobFits /\ PaidFor /\ KeysFit /\ AgainExcused
  BY <1>2 DEF CallsFit, JobFits, PaidFor, KeysFit, AgainExcused, Between
<1>8. CycleFits BY <1>1, <1>2 DEF CycleFits
<1> QED BY <1>3, <1>4, <1>6, <1>7, <1>8 DEF JobsInv, StoreFits

-----------------------------------------------------------------------------
(* The Pages                                                               *)

\* Heads only move on, to new Revisions, and a Page is shown again where it was undone.
StoreGrows ==
    /\ used.rev \in Nat
    /\ \A p \in DOMAIN pages :
          /\ p \in DOMAIN pages' /\ pages[p].past \subseteq pages'[p].past
          /\ \/ pages'[p].head = pages[p].head
             \/ pages'[p].head > used.rev /\ pages[p].head \in pages'[p].past
          /\ pages'[p].shown => pages[p].shown \/ p \in paid'.undone
    /\ paid.undone \subseteq paid'.undone /\ assessed \subseteq assessed'

LEMMA RevsTyped ==
    ASSUME PagesFit, NEW p \in DOMAIN pages, NEW r \in Revs(p)
    PROVE  r \in Nat /\ 0 < r /\ r <= pages[p].head /\ r <= used.rev /\ pages[p].head \in Nat /\ used.rev \in Nat
<1>1. pages[p].head \in 1 .. used.rev /\ used.rev \in Nat BY DEF PagesFit
<1>2. CASE r = pages[p].head BY <1>1, <1>2
<1>3. CASE r \in pages[p].past
  <2>1. r \in Nat /\ 0 < r /\ r < pages[p].head BY <1>3 DEF PagesFit
  <2> QED BY <1>1, <2>1
<1> QED BY <1>2, <1>3 DEF Revs

LEMMA HeadMoves ==
    ASSUME StoreFits, NEW p \in Shown, used' = [used EXCEPT !.rev = @ + 1],
           pages' = [pages EXCEPT ![p].head = used.rev + 1, ![p].past = pages[p].past \cup {pages[p].head}],
           UNCHANGED <<paid, assessed>>
    PROVE  StoreFits' /\ StoreGrows
<1>1. /\ used.rev \in Nat /\ used.page \in Nat /\ used'.rev = used.rev + 1 /\ used'.page = used.page
      /\ DOMAIN used' = {"page", "rev"}
  BY DEF StoreFits, PagesFit
<1>2. p \in DOMAIN pages /\ DOMAIN pages[p] = {"head", "past", "shown", "span"} BY DEF StoreFits, PagesFit, Shown
<1>3. /\ DOMAIN pages' = DOMAIN pages
      /\ pages'[p].head = used.rev + 1 /\ pages'[p].past = Revs(p) /\ pages'[p].shown = pages[p].shown
      /\ pages'[p].span = pages[p].span /\ DOMAIN pages'[p] = {"head", "past", "shown", "span"}
  BY <1>2 DEF StoreFits, PagesFit, Revs
<1>4. \A q \in DOMAIN pages : q # p => pages'[q] = pages[q] BY DEF StoreFits, PagesFit
<1>5. \A q \in DOMAIN pages : q # p => Revs(q)' = Revs(q) BY <1>4 DEF Revs
<1>6. Revs(p)' = Revs(p) \cup {used.rev + 1} BY <1>3 DEF Revs
<1>7. \A q \in DOMAIN pages : used.rev + 1 \notin Revs(q) BY <1>1, RevsTyped DEF StoreFits
<1>8. \A q, r \in DOMAIN pages : q # r => (Revs(q) \cap Revs(r))' = {}
  <2>1. SUFFICES ASSUME NEW q \in DOMAIN pages, NEW r \in DOMAIN pages, q # r
                 PROVE  Revs(q)' \cap Revs(r)' = {}
    OBVIOUS
  <2>2. Revs(q) \cap Revs(r) = {} BY <2>1 DEF StoreFits, PagesFit
  <2>3. CASE q = p BY <2>1, <2>2, <2>3, <1>5, <1>6, <1>7
  <2>4. CASE r = p BY <2>1, <2>2, <2>4, <1>5, <1>6, <1>7
  <2>5. CASE q # p /\ r # p BY <2>1, <2>2, <2>5, <1>5
  <2> QED BY <2>3, <2>4, <2>5
<1>9. PagesFit'
  <2>1. \A q \in DOMAIN pages :
          /\ DOMAIN pages'[q] = {"head", "past", "shown", "span"}
          /\ pages'[q].head \in 1 .. used'.rev
          /\ \A r \in pages'[q].past : r \in Nat /\ 0 < r /\ r < pages'[q].head
          /\ pages'[q].shown \in BOOLEAN /\ pages'[q].span \subseteq 1 .. Sources
    <3>1. SUFFICES ASSUME NEW q \in DOMAIN pages
                   PROVE  /\ DOMAIN pages'[q] = {"head", "past", "shown", "span"}
                          /\ pages'[q].head \in 1 .. used'.rev
                          /\ \A r \in pages'[q].past : r \in Nat /\ 0 < r /\ r < pages'[q].head
                          /\ pages'[q].shown \in BOOLEAN /\ pages'[q].span \subseteq 1 .. Sources
      OBVIOUS
    <3>2. /\ pages[q].head \in 1 .. used.rev
          /\ \A r \in pages[q].past : r \in Nat /\ 0 < r /\ r < pages[q].head
          /\ pages[q].shown \in BOOLEAN /\ pages[q].span \subseteq 1 .. Sources
          /\ DOMAIN pages[q] = {"head", "past", "shown", "span"}
      BY DEF StoreFits, PagesFit
    <3>3. CASE q # p BY <3>2, <3>3, <1>1, <1>4
    <3>4. CASE q = p
      <4>1. \A r \in Revs(p) : r \in Nat /\ 0 < r /\ r < used.rev + 1 BY <1>1, <1>2, RevsTyped DEF StoreFits
      <4> QED BY <3>2, <3>4, <4>1, <1>1, <1>3
    <3> QED BY <3>3, <3>4
  <2>2. pages' = [q \in DOMAIN pages' |-> pages'[q]] OBVIOUS
  <2> QED BY <1>1, <1>3, <1>8, <2>1, <2>2 DEF StoreFits, PagesFit
<1>10. \A q \in DOMAIN pages : pages'[q].span = pages[q].span /\ pages'[q].shown = pages[q].shown BY <1>3, <1>4
<1>11. Shown' = Shown BY <1>3, <1>10 DEF Shown
<1>12. 1 .. Sources \subseteq DOMAIN pages /\ Shown \subseteq DOMAIN pages BY DEF StoreFits, PagesFit, Shown
<1>13. SpansFit' BY <1>10, <1>11, <1>12 DEF StoreFits, SpansFit
<1>14. StoreGrows
  <2>1. \A q \in DOMAIN pages :
          /\ q \in DOMAIN pages' /\ pages[q].past \subseteq pages'[q].past
          /\ \/ pages'[q].head = pages[q].head
             \/ pages'[q].head > used.rev /\ pages[q].head \in pages'[q].past
          /\ pages'[q].shown = pages[q].shown
    BY <1>1, <1>3, <1>4 DEF Revs
  <2> QED BY <1>1, <2>1 DEF StoreGrows
<1> QED BY <1>9, <1>13, <1>14 DEF StoreFits

\* Only what is shown changes: where a Page is shown again an operator undid a pack.
LEMMA ShownMoves ==
    ASSUME StoreFits, UNCHANGED used, DOMAIN pages' = DOMAIN pages,
           pages' = [p \in DOMAIN pages' |-> pages'[p]],
           \A p \in DOMAIN pages :
              /\ DOMAIN pages'[p] = DOMAIN pages[p]
              /\ pages'[p].head = pages[p].head /\ pages'[p].past = pages[p].past
              /\ pages'[p].span = pages[p].span /\ pages'[p].shown \in BOOLEAN
              /\ pages'[p].shown => pages[p].shown \/ p \in paid'.undone,
           \A p, q \in Shown' : p # q => pages[p].span \cap pages[q].span = {},
           paid.undone \subseteq paid'.undone, assessed' = assessed
    PROVE  StoreFits' /\ StoreGrows
<1>1. \A p \in DOMAIN pages : Revs(p)' = Revs(p) BY DEF Revs
<1>2. PagesFit' BY <1>1 DEF StoreFits, PagesFit
<1>3. 1 .. Sources \subseteq DOMAIN pages BY DEF StoreFits, PagesFit
<1>4. Shown' \subseteq DOMAIN pages BY DEF Shown
<1>5. SpansFit' BY <1>3, <1>4 DEF StoreFits, SpansFit
<1>6. StoreGrows BY DEF StoreFits, PagesFit, StoreGrows
<1> QED BY <1>2, <1>5, <1>6 DEF StoreFits

LEMMA WithdrawalKeeps ==
    ASSUME StoreFits, NEW p, Withdraw(p)
    PROVE  StoreFits' /\ StoreGrows
<1>1. /\ p \in Shown /\ pages' = [pages EXCEPT ![p].shown = FALSE]
      /\ UNCHANGED <<used, paid, assessed>>
  BY DEF Withdraw
<1>2. \A q \in DOMAIN pages : DOMAIN pages[q] = {"head", "past", "shown", "span"} /\ pages[q].shown \in BOOLEAN
  BY DEF StoreFits, PagesFit
<1>3. /\ DOMAIN pages' = DOMAIN pages
      /\ \A q \in DOMAIN pages :
           /\ DOMAIN pages'[q] = DOMAIN pages[q]
           /\ pages'[q].head = pages[q].head /\ pages'[q].past = pages[q].past
           /\ pages'[q].span = pages[q].span /\ pages'[q].shown \in BOOLEAN
           /\ pages'[q].shown => pages[q].shown
  BY <1>1, <1>2 DEF StoreFits, PagesFit
<1>4. Shown' \subseteq Shown BY <1>3 DEF Shown
<1>5. \A q, r \in Shown' : q # r => pages[q].span \cap pages[r].span = {} BY <1>4 DEF StoreFits, SpansFit
<1>6. pages' = [q \in DOMAIN pages' |-> pages'[q]] BY <1>1
<1> QED BY <1>1, <1>3, <1>5, <1>6, ShownMoves

\* The Pages of the sources are shown again; nothing else that is shown has one.
LEMMA SplitKeeps ==
    ASSUME StoreFits, DOMAIN paid = {"once", "again", "undone"}, NEW p, Unpack(p)
    PROVE  StoreFits' /\ StoreGrows
<1>1. /\ p \in Shown /\ UNCHANGED <<used, assessed>>
      /\ pages' = [q \in DOMAIN pages |->
            [pages[q] EXCEPT !.shown = q # p /\ (pages[q].shown \/ q \in pages[p].span)]]
      /\ paid' = [paid EXCEPT !.undone = @ \cup pages[p].span \cup {p}]
  BY DEF Unpack
<1>2. \A q \in DOMAIN pages : DOMAIN pages[q] = {"head", "past", "shown", "span"} /\ pages[q].shown \in BOOLEAN
  BY DEF StoreFits, PagesFit
<1>3. /\ DOMAIN pages' = DOMAIN pages
      /\ \A q \in DOMAIN pages :
           /\ DOMAIN pages'[q] = DOMAIN pages[q]
           /\ pages'[q].head = pages[q].head /\ pages'[q].past = pages[q].past
           /\ pages'[q].span = pages[q].span /\ pages'[q].shown \in BOOLEAN
           /\ pages'[q].shown <=> (q # p /\ (pages[q].shown \/ q \in pages[p].span))
  BY <1>1, <1>2
<1>4. Shown' = {q \in DOMAIN pages : q # p /\ (q \in Shown \/ q \in pages[p].span)} BY <1>3 DEF Shown
<1>5. \A q \in pages[p].span : q \in 1 .. Sources /\ pages[q].span = {q}
  BY <1>1 DEF StoreFits, PagesFit, SpansFit, Shown
<1>6. \A q, r \in Shown' : q # r => pages[q].span \cap pages[r].span = {}
  BY <1>1, <1>4, <1>5 DEF StoreFits, SpansFit
<1>7. pages' = [q \in DOMAIN pages' |-> pages'[q]] BY <1>1, <1>3
<1> HIDE DEF Shown
<1>8. paid.undone \subseteq paid'.undone /\ pages[p].span \subseteq paid'.undone BY <1>1
<1>9. \A q \in DOMAIN pages : pages'[q].shown => pages[q].shown \/ q \in paid'.undone BY <1>3, <1>8
<1> QED BY <1>1, <1>3, <1>6, <1>7, <1>8, <1>9, ShownMoves

\* The Pages that are packed are hidden, apart from the one that is the pack.
LEMMA PackKeeps ==
    ASSUME StoreFits, UNCHANGED <<paid, assessed>>,
           NEW p, NEW q, p # q, JobPages = {p, q}, JobPages \subseteq Shown, NEW pack, NEW past,
           \/ pack = used.page + 1 /\ past = {}
           \/ pack \in JobPages /\ Packed(pack) /\ past = Revs(pack),
           DOMAIN pages' = DOMAIN pages \cup {pack}, pages' = [r \in DOMAIN pages' |-> pages'[r]],
           \A r \in DOMAIN pages : r # pack =>
              /\ DOMAIN pages'[r] = {"head", "past", "shown", "span"}
              /\ pages'[r].head = pages[r].head /\ pages'[r].past = pages[r].past
              /\ pages'[r].span = pages[r].span /\ pages'[r].shown \in BOOLEAN
              /\ pages'[r].shown <=> (pages[r].shown /\ r \notin JobPages),
           pages'[pack].head = used.rev + 1, pages'[pack].past = past, pages'[pack].shown = TRUE,
           pages'[pack].span = UNION {pages[r].span : r \in JobPages},
           DOMAIN pages'[pack] = {"head", "past", "shown", "span"},
           used'.page = IF pack \in JobPages THEN used.page ELSE pack, used'.rev = used.rev + 1,
           DOMAIN used' = {"page", "rev"}
    PROVE  StoreFits' /\ StoreGrows /\ \E r \in JobPages : r \notin Shown'
<1> DEFINE span == UNION {pages[r].span : r \in JobPages}
<1>1. /\ used.rev \in Nat /\ used.page \in Nat /\ DOMAIN pages = 1 .. used.page /\ Sources \in 0 .. used.page
      /\ JobPages \subseteq DOMAIN pages
  BY DEF StoreFits, PagesFit, Shown
<1> HIDE DEF span
<1>2. pack \notin 1 .. Sources /\ pack \in Nat \ {0}
  <2>1. ASSUME NEW s \in 1 .. Sources PROVE ~Packed(s)
    <3>1. pages[s].span = {s} BY DEF StoreFits, SpansFit
    <3>2. Cardinality({s}) = 1 BY FS_Singleton
    <3> QED BY <3>1, <3>2 DEF Packed
  <2> QED BY <1>1, <2>1
<1>3. pages'[pack].span = span BY DEF span
<1>4. span \subseteq 1 .. Sources BY <1>1 DEF span, StoreFits, PagesFit
<1>5. \A r \in DOMAIN pages : r # pack => Revs(r)' = Revs(r) BY DEF Revs
<1>6. Revs(pack)' = {used.rev + 1} \cup past BY <1>3 DEF Revs
<1>7. \A r \in DOMAIN pages : used.rev + 1 \notin Revs(r) BY <1>1, RevsTyped DEF StoreFits
<1>8. \A r \in DOMAIN pages : r # pack => Revs(r) \cap past = {} BY <1>1 DEF StoreFits, PagesFit
<1>9. \A r, s \in DOMAIN pages' : r # s => Revs(r)' \cap Revs(s)' = {}
  <2>1. SUFFICES ASSUME NEW r \in DOMAIN pages', NEW s \in DOMAIN pages', r # s
                 PROVE  Revs(r)' \cap Revs(s)' = {}
    OBVIOUS
  <2>2. CASE r = pack BY <2>1, <2>2, <1>5, <1>6, <1>7, <1>8
  <2>3. CASE s = pack BY <2>1, <2>3, <1>5, <1>6, <1>7, <1>8
  <2>4. CASE r # pack /\ s # pack
    <3>1. Revs(r) \cap Revs(s) = {} BY <2>1, <2>4 DEF StoreFits, PagesFit
    <3> QED BY <2>1, <2>4, <3>1, <1>5
  <2> QED BY <2>2, <2>3, <2>4
<1>10. \A r \in past : r \in Nat /\ 0 < r /\ r < used.rev + 1
  <2>1. CASE past = {} BY <2>1
  <2>2. CASE pack \in JobPages /\ past = Revs(pack) BY <2>2, <1>1, RevsTyped DEF StoreFits
  <2> QED BY <2>1, <2>2
<1>11. PagesFit'
  <2>1. DOMAIN pages' = 1 .. used'.page /\ used'.page \in Nat /\ Sources \in 0 .. used'.page
    BY <1>1
  <2>2. \A r \in DOMAIN pages' :
          /\ DOMAIN pages'[r] = {"head", "past", "shown", "span"}
          /\ pages'[r].head \in 1 .. used'.rev
          /\ \A x \in pages'[r].past : x \in Nat /\ 0 < x /\ x < pages'[r].head
          /\ pages'[r].shown \in BOOLEAN /\ pages'[r].span \subseteq 1 .. Sources
    <3>1. SUFFICES ASSUME NEW r \in DOMAIN pages'
                   PROVE  /\ DOMAIN pages'[r] = {"head", "past", "shown", "span"}
                          /\ pages'[r].head \in 1 .. used'.rev
                          /\ \A x \in pages'[r].past : x \in Nat /\ 0 < x /\ x < pages'[r].head
                          /\ pages'[r].shown \in BOOLEAN /\ pages'[r].span \subseteq 1 .. Sources
      OBVIOUS
    <3>2. CASE r = pack
      <4>1. pages'[pack].head \in 1 .. used'.rev BY <1>1
      <4>2. \A x \in pages'[pack].past : x \in Nat /\ 0 < x /\ x < pages'[pack].head BY <1>1, <1>10
      <4>3. pages'[pack].span \subseteq 1 .. Sources BY <1>3, <1>4
      <4>4. pages'[pack].shown \in BOOLEAN OBVIOUS
      <4> QED BY <3>2, <4>1, <4>2, <4>3, <4>4
    <3>3. CASE r # pack
      <4>1. r \in DOMAIN pages BY <3>3
      <4>2. /\ pages[r].head \in 1 .. used.rev /\ pages[r].span \subseteq 1 .. Sources
            /\ \A x \in pages[r].past : x \in Nat /\ 0 < x /\ x < pages[r].head
        BY <4>1 DEF StoreFits, PagesFit
      <4> QED BY <3>3, <4>1, <4>2, <1>1
    <3> QED BY <3>2, <3>3
  <2> QED BY <1>1, <1>9, <2>1, <2>2 DEF PagesFit
<1>12. \A r \in Shown' : r = pack \/ (r \in Shown /\ r \notin JobPages /\ pages'[r].span = pages[r].span)
  BY DEF Shown
<1>13. \A r \in Shown : r \notin JobPages => pages[r].span \cap span = {}
  <2>1. SUFFICES ASSUME NEW r \in Shown, r \notin JobPages, NEW s \in JobPages
                 PROVE  pages[r].span \cap pages[s].span = {}
    BY DEF span
  <2> QED BY <2>1 DEF StoreFits, SpansFit
<1>14. SpansFit'
  <2>1. \A s \in 1 .. Sources : pages'[s].span = {s}
    <3>1. \A s \in 1 .. Sources : s \in DOMAIN pages /\ s # pack /\ pages[s].span = {s}
      BY <1>1, <1>2 DEF StoreFits, SpansFit
    <3> QED BY <3>1
  <2>2. \A r, s \in Shown' : r # s => pages'[r].span \cap pages'[s].span = {}
    <3>1. SUFFICES ASSUME NEW r \in Shown', NEW s \in Shown', r # s
                   PROVE  pages'[r].span \cap pages'[s].span = {}
      OBVIOUS
    <3>2. CASE r = pack BY <3>1, <3>2, <1>3, <1>12, <1>13
    <3>3. CASE s = pack BY <3>1, <3>3, <1>3, <1>12, <1>13
    <3>4. CASE r # pack /\ s # pack BY <3>1, <3>4, <1>12 DEF StoreFits, SpansFit
    <3> QED BY <3>2, <3>3, <3>4
  <2> QED BY <2>1, <2>2 DEF SpansFit
<1>15. StoreGrows
  <2>1. SUFFICES ASSUME NEW r \in DOMAIN pages
                 PROVE  /\ r \in DOMAIN pages' /\ pages[r].past \subseteq pages'[r].past
                        /\ \/ pages'[r].head = pages[r].head
                           \/ pages'[r].head > used.rev /\ pages[r].head \in pages'[r].past
                        /\ pages'[r].shown => pages[r].shown
    BY <1>1 DEF StoreGrows
  <2>2. CASE r # pack BY <2>2
  <2>3. CASE r = pack
    <3>1. pack \in JobPages /\ past = Revs(pack) BY <2>3, <1>1
    <3>2. pages[r].shown BY <2>3, <3>1 DEF Shown
    <3> QED BY <2>3, <3>1, <3>2, <1>1, <1>3 DEF Revs
  <2> QED BY <2>2, <2>3
<1>16. \E r \in JobPages : r \notin Shown' BY <1>12
<1> QED BY <1>11, <1>14, <1>15, <1>16 DEF StoreFits

-----------------------------------------------------------------------------
(* What was paid for stays over                                            *)

LEMMA RevsGrow ==
    ASSUME StoreFits, StoreFits', StoreGrows, NEW p \in DOMAIN pages
    PROVE  p \in DOMAIN pages' /\ Revs(p) \subseteq Revs(p)' /\ pages[p].head <= pages'[p].head
<1>1. p \in DOMAIN pages' /\ Revs(p) \subseteq Revs(p)' BY DEF StoreGrows, Revs
<1>2. pages[p].head \in Nat /\ pages[p].head <= used.rev BY DEF StoreFits, PagesFit
<1>3. pages'[p].head \in Nat /\ used.rev \in Nat BY <1>1 DEF StoreFits, PagesFit
<1> QED BY <1>1, <1>2, <1>3 DEF StoreGrows

\* A head that is another than the one a call was made with will never be it again.
LEMMA HeadStaysGone ==
    ASSUME StoreFits, StoreFits', StoreGrows, NEW p \in DOMAIN pages, NEW r \in Revs(p), pages[p].head # r
    PROVE  pages'[p].head # r
<1>1. r \in Nat /\ r <= used.rev /\ used.rev \in Nat BY RevsTyped DEF StoreFits
<1>2. p \in DOMAIN pages' /\ pages'[p].head \in Nat BY DEF StoreGrows, StoreFits, PagesFit
<1> QED BY <1>1, <1>2 DEF StoreGrows

LEMMA ExcuseStays ==
    ASSUME StoreGrows, NEW c, Excused(c)
    PROVE  Excused(c)'
BY DEF StoreGrows, Excused

\* A summary that a call asked for stays, is undone, or is of an old Revision.
SummaryStays(c) ==
    c[1] = "summary" => \A p \in DOMAIN c[2] :
        SummaryOf(p) = c[2][p] =>
            SummaryOf(p)' = c[2][p] \/ p \in paid'.undone \/ pages[p].head # c[2][p]

LEMMA EndedStays ==
    ASSUME StoreFits, StoreFits', StoreGrows, ledger \subseteq ledger', NEW c, CallFits(c), SummaryStays(c),
           Ended(c)
    PROVE  Ended(c)'
<1>1. CASE Excused(c) BY <1>1, ExcuseStays DEF Ended
<1>2. CASE OnRecord(c) BY <1>2 DEF OnRecord, Ended, KeyOf
<1>3. CASE MovedOn(c)
  <2>1. PICK p \in DOMAIN c[2] : \/ p \notin Shown
                                 \/ pages[p].head # c[2][p]
                                 \/ c[1] = "summary" /\ SummaryOf(p) = c[2][p]
    BY <1>3 DEF MovedOn
  <2>2. c[1] \in Undoable /\ c[1] # "retention" BY <1>3 DEF MovedOn, Undoable
  <2>3. p \in DOMAIN pages /\ c[2][p] \in Revs(p) BY <2>1, <2>2 DEF CallFits
  <2>4. p \in paid'.undone => Excused(c)' BY <2>1, <2>2 DEF Excused
  <2>5. CASE pages[p].head # c[2][p]
    <3>1. pages'[p].head # c[2][p] BY <2>3, <2>5, HeadStaysGone
    <3> QED BY <2>1, <2>2, <3>1 DEF MovedOn, Ended
  <2>6. CASE p \notin Shown
    <3>1. p \in Shown' => p \in paid'.undone BY <2>3, <2>6 DEF Shown, StoreGrows
    <3> QED BY <2>1, <2>2, <2>4, <3>1 DEF MovedOn, Ended
  <2>7. CASE c[1] = "summary" /\ SummaryOf(p) = c[2][p]
    <3>1. SummaryOf(p)' = c[2][p] \/ p \in paid'.undone \/ pages[p].head # c[2][p]
      BY <2>1, <2>7 DEF SummaryStays
    <3>2. CASE SummaryOf(p)' = c[2][p] BY <2>1, <2>2, <2>7, <3>2 DEF MovedOn, Ended
    <3> QED BY <2>4, <2>5, <3>1, <3>2 DEF Ended
  <2> QED BY <2>1, <2>5, <2>6, <2>7
<1> QED BY <1>1, <1>2, <1>3 DEF Ended

LEMMA CallStays ==
    ASSUME StoreFits, StoreFits', StoreGrows, NEW c, CallFits(c),
           UNCHANGED inventory \/ inventory' = Inventory'
    PROVE  CallFits(c)'
<1>1. c[1] # "retention" =>
          \A p \in DOMAIN c[2] :
             /\ p \in DOMAIN pages' /\ c[2][p] \in Revs(p)'
             /\ p \in DOMAIN inventory' => c[2][p] <= inventory'[p].head
  <2>1. SUFFICES ASSUME c[1] # "retention", NEW p \in DOMAIN c[2]
                 PROVE  /\ p \in DOMAIN pages' /\ c[2][p] \in Revs(p)'
                        /\ p \in DOMAIN inventory' => c[2][p] <= inventory'[p].head
    OBVIOUS
  <2>2. p \in DOMAIN pages /\ c[2][p] \in Revs(p) BY <2>1 DEF CallFits
  <2>3. p \in DOMAIN pages' /\ c[2][p] \in Revs(p)' BY <2>2, RevsGrow
  <2>4. CASE UNCHANGED inventory BY <2>1, <2>3, <2>4 DEF CallFits
  <2>5. CASE inventory' = Inventory'
    <3>1. c[2][p] <= pages'[p].head
      <4>1. pages'[p].head \in Nat /\ \A r \in pages'[p].past : r \in Nat /\ r < pages'[p].head
        BY <2>3 DEF StoreFits, PagesFit
      <4> QED BY <2>3, <4>1 DEF Revs
    <3>2. p \in DOMAIN inventory' => inventory'[p].head = pages'[p].head BY <2>5 DEF Inventory
    <3> QED BY <2>3, <3>1, <3>2
  <2> QED BY <2>4, <2>5
<1> QED BY <1>1 DEF CallFits

LEMMA PacksStay ==
    ASSUME StoreGrows, NEW w, w \subseteq DOMAIN pages, Packs(w)
    PROVE  Packs(w)'
<1>1. PICK p \in w : p \in paid.undone \/ p \notin Shown BY DEF Packs
<1>2. p \in paid'.undone \/ p \notin Shown' BY <1>1 DEF StoreGrows, Shown
<1> QED BY <1>1, <1>2 DEF Packs

LEMMA InventoryStays ==
    ASSUME StoreFits, StoreFits', StoreGrows, InventoryFits, UNCHANGED inventory,
           \A p \in DOMAIN pages : SummaryOf(p)' = SummaryOf(p) \/ p \in paid'.undone
    PROVE  InventoryFits'
<1>1. SUFFICES ASSUME NEW p \in DOMAIN inventory
               PROVE  /\ p \in DOMAIN pages' /\ inventory[p].head \in Revs(p)'
                      /\ inventory[p].head <= pages'[p].head
                      /\ p \in paid'.undone \/ inventory[p].summary = SummaryOf(p)'
  BY DEF InventoryFits
<1>2. /\ p \in DOMAIN pages /\ inventory[p].head \in Revs(p)
      /\ p \in paid.undone \/ inventory[p].summary = SummaryOf(p)
  BY <1>1 DEF InventoryFits
<1>3. p \in DOMAIN pages' /\ inventory[p].head \in Revs(p)' BY <1>2, RevsGrow
<1>4. inventory[p].head <= pages'[p].head
  <2>1. pages'[p].head \in Nat /\ \A r \in pages'[p].past : r \in Nat /\ r < pages'[p].head
    BY <1>3 DEF StoreFits, PagesFit
  <2> QED BY <1>3, <2>1 DEF Revs
<1>5. p \in paid'.undone \/ inventory[p].summary = SummaryOf(p)' BY <1>2 DEF StoreGrows
<1> QED BY <1>3, <1>4, <1>5

\* Beside the cycle: the inventory may be out of date, but where it is an operator
\* undid something or the head moved on.
LEMMA BesideKeeps ==
    ASSUME JobsInv, StoreFits', StoreGrows, TablesFit', UNCHANGED <<maintenance, keys>>,
           paid'.once = paid.once, paid'.again = paid.again, DOMAIN paid' = DOMAIN paid,
           \A p \in DOMAIN pages : SummaryOf(p)' = SummaryOf(p) \/ p \in paid'.undone
    PROVE  JobsInv'
<1>1. StoreFits /\ CallsFit /\ UNCHANGED <<ledger, inventory, cycle, job, keys>> BY DEF JobsInv, maintenance
<1>2. InventoryFits' BY <1>1, InventoryStays DEF JobsInv
<1>3. CallsFit' BY <1>1, CallStays DEF CallsFit
<1>4. JobCall' = JobCall BY <1>1 DEF JobCall
<1>5. JobFits'
  <2>1. SUFFICES ASSUME job # NoJob
                 PROVE  /\ cycle.phase # "idle" /\ JobCall \in paid.once
                        /\ job.kind # "retention" =>
                              \A p \in DOMAIN job.of : p \in DOMAIN inventory /\ job.of[p] = inventory[p].head
                        /\ job.kind = "summary" => \A p \in DOMAIN job.of : job.with = inventory[p].summary
                        /\ job.kind = "retention" =>
                              \A r \in DOMAIN job.of : \E p \in DOMAIN pages' : r \in pages'[p].past
    BY <1>1, <1>4 DEF JobFits
  <2>2. \A r : (\E p \in DOMAIN pages : r \in pages[p].past) => \E p \in DOMAIN pages' : r \in pages'[p].past
    BY DEF StoreGrows
  <2> QED BY <2>1, <2>2 DEF JobsInv, JobFits
<1>6. PaidFor'
  <2>1. \A c \in paid.once : Ended(c) => Ended(c)'
    <3>1. SUFFICES ASSUME NEW c \in paid.once, Ended(c) PROVE Ended(c)' OBVIOUS
    <3>2. CallFits(c) BY <1>1 DEF CallsFit
    <3>3. SummaryStays(c)
      <4>1. c[1] = "summary" => \A p \in DOMAIN c[2] : p \in DOMAIN pages BY <3>2 DEF CallFits
      <4> QED BY <4>1 DEF SummaryStays
    <3> QED BY <1>1, <3>1, <3>2, <3>3, EndedStays
  <2>2. \A c \in paid.once : Passed(c) => Passed(c)' BY <1>1, ExcuseStays DEF Passed, OnRecord, NotOffered, KeyOf
  <2> QED BY <1>1, <1>4, <2>1, <2>2 DEF JobsInv, PaidFor, Between
<1>7. KeysFit'
  <2>1. \A k \in keys : k[1] = "packing" =>
          k[2] \subseteq DOMAIN pages' /\ Packs(k[2])' /\ (Between' => NotTogether(k[2])')
    <3>1. SUFFICES ASSUME NEW k \in keys, k[1] = "packing"
                   PROVE  k[2] \subseteq DOMAIN pages' /\ Packs(k[2])' /\ (Between' => NotTogether(k[2])')
      OBVIOUS
    <3>2. k[2] \subseteq DOMAIN pages /\ Packs(k[2]) /\ (Between => NotTogether(k[2]))
      BY <3>1 DEF JobsInv, KeysFit
    <3>3. Packs(k[2])' BY <3>2, PacksStay
    <3>4. k[2] \subseteq DOMAIN pages' BY <3>2 DEF StoreGrows
    <3>5. Between' => NotTogether(k[2])' BY <1>1, <3>2 DEF Between, NotTogether, StoreGrows
    <3> QED BY <3>3, <3>4, <3>5
  <2>2. JobKey' = JobKey BY <1>1 DEF JobKey, JobPages
  <2>3. job # NoJob /\ JobKey \in keys => Excused(JobCall)'
    <3>1. job # NoJob /\ JobKey \in keys => Excused(JobCall) BY DEF JobsInv, KeysFit
    <3> QED BY <1>4, <3>1, ExcuseStays DEF Excused
  <2>4. \A c : KeyOf(c)' = KeyOf(c) BY DEF KeyOf
  <2> QED BY <1>1, <1>4, <2>1, <2>2, <2>3, <2>4 DEF JobsInv, KeysFit
<1>8. CycleFits' BY <1>1 DEF JobsInv, CycleFits
<1>9. AgainExcused' BY ExcuseStays DEF JobsInv, AgainExcused
<1> QED BY <1>2, <1>3, <1>5, <1>6, <1>7, <1>8, <1>9 DEF JobsInv

LEMMA KeyOfJob == KeyOf(JobCall) = JobKey /\ JobCall[1] = job.kind /\ JobCall[2] = job.of
BY DEF KeyOf, JobCall, JobKey, JobPages

LEMMA CycleMovesOn ==
    ASSUME JobsAssumption, CycleFits, cycle.phase # "idle", NEW ran \in BOOLEAN, cycle' = After(ran)
    PROVE  CycleFits'
<1> DEFINE left == IF ran THEN cycle.jobs - 1 ELSE cycle.jobs
           at == (cycle.at + 1) % 4
           phase == CASE cycle.phase = "packing" -> IF ran THEN "packing" ELSE "semantic"
                      [] cycle.phase = "semantic" -> IF cycle.turns = 3 THEN "archive" ELSE "semantic"
                      [] cycle.phase = "archive" -> "retention"
                      [] OTHER -> "idle"
           moved == [cycle EXCEPT !.jobs = left, !.phase = IF left = 0 THEN "idle" ELSE phase]
<1>1. MaxJobs \in Nat /\ cycle.jobs \in 1 .. MaxJobs BY DEF CycleFits, JobsAssumption
<1>2. left \in 0 .. MaxJobs BY <1>1
<1>3. cycle' = IF cycle.phase # "semantic" THEN moved
               ELSE [moved EXCEPT !.at = at, !.turns = @ + 1, !.turn = IF cycle.scheduled THEN at ELSE @]
  BY DEF After
<1>4. /\ phase \in {"idle", "packing", "semantic", "archive", "retention"}
      /\ phase = "packing" => cycle.phase = "packing"
      /\ phase = "semantic" => cycle.phase = "packing" \/ (cycle.phase = "semantic" /\ cycle.turns # 3)
  BY DEF CycleFits
<1> HIDE DEF left, at, phase
<1>5. /\ DOMAIN moved = {"phase", "jobs", "at", "turns", "scheduled", "turn", "count"}
      /\ moved.jobs = left /\ moved.phase = (IF left = 0 THEN "idle" ELSE phase) /\ moved.turns = cycle.turns
  BY DEF CycleFits
<1> HIDE DEF moved
<1>6. /\ DOMAIN cycle' = {"phase", "jobs", "at", "turns", "scheduled", "turn", "count"}
      /\ cycle'.jobs = left /\ cycle'.phase = (IF left = 0 THEN "idle" ELSE phase)
      /\ cycle'.turns = IF cycle.phase = "semantic" THEN cycle.turns + 1 ELSE cycle.turns
  BY <1>3, <1>5
<1>7. cycle.turns \in 0 .. 4 /\ (cycle.phase = "packing" => cycle.turns = 0) /\ (cycle.phase = "semantic" => cycle.turns < 4)
  BY DEF CycleFits
<1> QED BY <1>2, <1>4, <1>6, <1>7 DEF CycleFits

\* A new inventory offers nothing that was paid for and is over.
LEMMA FreshInventory ==
    ASSUME StoreFits', TablesFit', CallsFit', job' = NoJob, inventory' = Inventory',
           \A c \in paid'.once : Ended(c)',
           \A k \in keys' : k[1] = "packing" => k[2] \subseteq DOMAIN pages' /\ Packs(k[2])'
    PROVE  /\ InventoryFits' /\ PaidFor' /\ JobFits'
           /\ \A k \in keys' : k[1] = "packing" => NotTogether(k[2])'
<1>1. /\ DOMAIN inventory' = Shown'
      /\ \A p \in Shown' : inventory'[p].head = pages'[p].head /\ inventory'[p].summary = SummaryOf(p)'
  BY DEF Inventory, SummaryOf
<1>2. Shown' \subseteq DOMAIN pages' BY DEF Shown
<1>3. InventoryFits'
  <2>1. \A p \in Shown' : pages'[p].head \in Revs(p)' /\ pages'[p].head <= pages'[p].head
    BY <1>2 DEF Revs, StoreFits, PagesFit
  <2> QED BY <1>1, <1>2, <2>1 DEF InventoryFits
<1>4. \A c \in paid'.once : Passed(c)' BY <1>1 DEF Passed, Ended, MovedOn, NotOffered
<1>5. PaidFor' BY <1>4 DEF PaidFor
<1>6. JobFits' BY DEF JobFits
<1>7. \A k \in keys' : k[1] = "packing" => NotTogether(k[2])' BY <1>1 DEF Packs, NotTogether
<1> QED BY <1>3, <1>5, <1>6, <1>7

LEMMA SettledKeeps ==
    ASSUME JobsAssumption, JobsInv, job # NoJob, Settled, StoreFits', StoreGrows, TablesFit', paid' = paid,
           ledger \subseteq ledger', keys' = keys \/ (keys' = keys \cup {JobKey} /\ job.kind \in {"packing", "summary"}),
           NEW call, call = JobCall, Ended(call)', \A c \in paid.once : SummaryStays(c),
           NEW w, w = JobPages, job.kind = "packing" /\ JobKey \in keys' => Packs(w)'
    PROVE  JobsInv'
<1>1. /\ StoreFits /\ CallsFit /\ JobCall \in paid.once /\ cycle.phase # "idle" /\ CycleFits
      /\ job' = NoJob /\ cycle' = After(TRUE) /\ inventory' = Inventory'
  BY DEF JobsInv, JobFits, Settled
<1>2. CycleFits' BY <1>1, CycleMovesOn
<1>3. CallsFit' BY <1>1, CallStays DEF CallsFit
<1>4. \A c \in paid'.once : Ended(c)'
  <2>1. SUFFICES ASSUME NEW c \in paid.once PROVE Ended(c)' OBVIOUS
  <2>2. CASE Ended(c) BY <2>2, <1>1, EndedStays DEF CallsFit
  <2>3. CASE c = call BY <2>3
  <2> QED BY <2>2, <2>3 DEF JobsInv, PaidFor
<1>5. \A k \in keys' : k = <<k[1], k[2]>> /\ k[1] \in {"packing", "summary"}
  BY DEF JobsInv, KeysFit, JobKey
<1>6. \A k \in keys' : k[1] = "summary" => \E c \in paid.once : c[1] = "summary" /\ KeyOf(c) = k
  <2>1. SUFFICES ASSUME NEW k \in keys', k[1] = "summary"
                 PROVE  \E c \in paid.once : c[1] = "summary" /\ KeyOf(c) = k
    OBVIOUS
  <2>2. CASE k \in keys BY <2>1, <2>2 DEF JobsInv, KeysFit
  <2>3. CASE k = JobKey
    <3>1. JobKey[1] = job.kind BY DEF JobKey
    <3> QED BY <2>1, <2>3, <3>1, <1>1, KeyOfJob
  <2> QED BY <2>2, <2>3
<1>7. \A k \in keys' : k[1] = "packing" => k[2] \subseteq DOMAIN pages' /\ Packs(k[2])'
  <2>1. SUFFICES ASSUME NEW k \in keys', k[1] = "packing"
                 PROVE  k[2] \subseteq DOMAIN pages' /\ Packs(k[2])'
    OBVIOUS
  <2>2. CASE k \in keys
    <3>1. k[2] \subseteq DOMAIN pages /\ Packs(k[2]) BY <2>1, <2>2 DEF JobsInv, KeysFit
    <3> QED BY <3>1, PacksStay DEF StoreGrows
  <2>3. CASE k = JobKey
    <3>1. job.kind = "packing" /\ k[2] = w BY <2>1, <2>3 DEF JobKey
    <3>2. w \subseteq DOMAIN pages BY <3>1, <1>1, KeyOfJob DEF CallsFit, CallFits, JobPages
    <3> QED BY <2>1, <2>3, <3>1, <3>2 DEF StoreGrows
  <2> QED BY <2>2, <2>3
<1>8. /\ InventoryFits' /\ PaidFor' /\ JobFits'
      /\ \A k \in keys' : k[1] = "packing" => NotTogether(k[2])'
  BY <1>1, <1>3, <1>4, <1>7, FreshInventory
<1>9. KeysFit'
  <2>1. \A c : KeyOf(c)' = KeyOf(c) BY DEF KeyOf
  <2> QED BY <1>1, <1>5, <1>6, <1>7, <1>8, <2>1 DEF KeysFit
<1>10. AgainExcused' BY ExcuseStays DEF JobsInv, AgainExcused
<1> QED BY <1>2, <1>3, <1>8, <1>9, <1>10 DEF JobsInv

-----------------------------------------------------------------------------
(* Beside the cycle                                                        *)

LEMMA TablesStay ==
    ASSUME StoreFits, StoreFits', StoreGrows, TablesFit, UNCHANGED <<summaries, leases>>
    PROVE  TablesFit' /\ \A p : SummaryOf(p)' = SummaryOf(p)
<1>1. \A p \in DOMAIN summaries : p \in DOMAIN pages' /\ summaries[p] \in Revs(p)' BY RevsGrow DEF TablesFit
<1>2. \A r \in leases : \E p \in DOMAIN pages' : r \in pages'[p].past BY DEF TablesFit, StoreGrows
<1> QED BY <1>1, <1>2 DEF TablesFit, SummaryOf

LEMMA NothingMoves ==
    ASSUME StoreFits, UNCHANGED <<pages, used>>, paid.undone \subseteq paid'.undone, assessed \subseteq assessed'
    PROVE  StoreFits' /\ StoreGrows
<1>1. StoreFits' BY DEF StoreFits, PagesFit, SpansFit, Shown, Revs
<1> QED BY <1>1 DEF StoreFits, PagesFit, StoreGrows

LEMMA ReviseKeeps ==
    ASSUME JobsInv, NEW p, Revise(p)
    PROVE  JobsInv'
<1>1. StoreFits /\ TablesFit BY DEF JobsInv
<1>2. /\ p \in Shown /\ used' = [used EXCEPT !.rev = @ + 1]
      /\ pages' = [pages EXCEPT ![p].head = used.rev + 1, ![p].past = pages[p].past \cup {pages[p].head}]
      /\ UNCHANGED <<paid, assessed, summaries, leases, maintenance, keys>>
  BY DEF Revise
<1>3. StoreFits' /\ StoreGrows BY <1>1, <1>2, HeadMoves
<1>4. TablesFit' /\ \A q : SummaryOf(q)' = SummaryOf(q) BY <1>1, <1>2, <1>3, TablesStay
<1> QED BY <1>2, <1>3, <1>4, BesideKeeps

LEMMA WithdrawKeeps ==
    ASSUME JobsInv, NEW p, Withdraw(p)
    PROVE  JobsInv'
<1>1. StoreFits /\ TablesFit BY DEF JobsInv
<1>2. UNCHANGED <<paid, assessed, summaries, leases, maintenance, keys>> BY DEF Withdraw
<1>3. StoreFits' /\ StoreGrows BY <1>1, WithdrawalKeeps
<1>4. TablesFit' /\ \A q : SummaryOf(q)' = SummaryOf(q) BY <1>1, <1>2, <1>3, TablesStay
<1> QED BY <1>2, <1>3, <1>4, BesideKeeps

LEMMA UnpackKeeps ==
    ASSUME JobsInv, NEW p, Unpack(p)
    PROVE  JobsInv'
<1>1. StoreFits /\ TablesFit /\ DOMAIN paid = {"once", "again", "undone"} BY DEF JobsInv, AgainExcused
<1>2. /\ UNCHANGED <<assessed, summaries, leases, maintenance, keys>>
      /\ paid' = [paid EXCEPT !.undone = @ \cup pages[p].span \cup {p}]
  BY DEF Unpack
<1>3. StoreFits' /\ StoreGrows BY <1>1, SplitKeeps
<1>4. TablesFit' /\ \A q : SummaryOf(q)' = SummaryOf(q) BY <1>1, <1>2, <1>3, TablesStay
<1>5. paid'.once = paid.once /\ paid'.again = paid.again /\ DOMAIN paid' = DOMAIN paid BY <1>1, <1>2
<1> QED BY <1>2, <1>3, <1>4, <1>5, BesideKeeps

LEMMA DeleteSummaryKeeps ==
    ASSUME JobsInv, NEW p, DeleteSummary(p)
    PROVE  JobsInv'
<1>1. StoreFits /\ TablesFit /\ DOMAIN paid = {"once", "again", "undone"} BY DEF JobsInv, AgainExcused
<1>2. /\ UNCHANGED <<pages, used, assessed, leases, maintenance, keys>>
      /\ summaries' = Drop(summaries, {p}) /\ paid' = [paid EXCEPT !.undone = @ \cup {p}]
  BY DEF DeleteSummary
<1>3. /\ paid'.once = paid.once /\ paid'.again = paid.again /\ DOMAIN paid' = DOMAIN paid
      /\ paid'.undone = paid.undone \cup {p}
  BY <1>1, <1>2
<1>4. StoreFits' /\ StoreGrows BY <1>1, <1>2, <1>3, NothingMoves
<1>5. /\ DOMAIN summaries' = DOMAIN summaries \ {p}
      /\ \A q \in DOMAIN summaries : q # p => summaries'[q] = summaries[q]
  BY <1>2 DEF Drop
<1>6. TablesFit' BY <1>1, <1>2, <1>5 DEF TablesFit, Revs
<1>7. \A q \in DOMAIN pages : SummaryOf(q)' = SummaryOf(q) \/ q \in paid'.undone
  BY <1>3, <1>5 DEF SummaryOf
<1> QED BY <1>2, <1>3, <1>4, <1>6, <1>7, BesideKeeps

-----------------------------------------------------------------------------
(* The cycle                                                               *)

\* The store stays, the cycle goes on with the inventory it has or a new one.
LEMMA TurnKeeps ==
    ASSUME JobsInv, UNCHANGED <<store, paid>>, ledger \subseteq ledger', job = NoJob, job' = NoJob, CycleFits',
           \/ inventory' = Inventory
           \/ UNCHANGED inventory /\ (cycle'.phase # "idle" => cycle.phase # "idle")
    PROVE  JobsInv'
<1>1. /\ StoreFits /\ TablesFit /\ CallsFit /\ InventoryFits
      /\ UNCHANGED <<pages, summaries, assessed, leases, keys, used>>
  BY DEF JobsInv, store
<1>2. StoreFits' /\ StoreGrows BY <1>1, NothingMoves
<1>3. TablesFit' /\ \A p : SummaryOf(p)' = SummaryOf(p) BY <1>1, <1>2, TablesStay
<1>4. inventory' = Inventory => inventory' = Inventory' BY <1>1 DEF Inventory, Shown
<1>5. CallsFit' BY <1>1, <1>2, <1>4, CallStays DEF CallsFit
<1>6. \A c \in paid.once : Ended(c)'
  <2>1. SUFFICES ASSUME NEW c \in paid.once PROVE Ended(c)' OBVIOUS
  <2>2. Ended(c) /\ CallFits(c) BY DEF JobsInv, PaidFor, CallsFit
  <2>3. SummaryStays(c) BY <1>3 DEF SummaryStays
  <2> QED BY <1>1, <1>2, <2>2, <2>3, EndedStays
<1>7. /\ \A k \in keys : k = <<k[1], k[2]>> /\ k[1] \in {"packing", "summary"}
      /\ \A k \in keys : k[1] = "summary" => \E c \in paid.once : c[1] = "summary" /\ KeyOf(c) = k
      /\ \A k \in keys : k[1] = "packing" => k[2] \subseteq DOMAIN pages' /\ Packs(k[2])'
  <2>1. \A k \in keys : k[1] = "packing" => k[2] \subseteq DOMAIN pages' /\ Packs(k[2])'
    <3>1. SUFFICES ASSUME NEW k \in keys, k[1] = "packing" PROVE k[2] \subseteq DOMAIN pages' /\ Packs(k[2])'
      OBVIOUS
    <3>2. k[2] \subseteq DOMAIN pages /\ Packs(k[2]) BY <3>1 DEF JobsInv, KeysFit
    <3> QED BY <1>1, <1>2, <3>2, PacksStay
  <2> QED BY <2>1 DEF JobsInv, KeysFit
<1>8. /\ InventoryFits' /\ PaidFor' /\ JobFits'
      /\ \A k \in keys : k[1] = "packing" => (Between' => NotTogether(k[2])')
  <2>1. CASE inventory' = Inventory
    BY <2>1, <1>1, <1>2, <1>3, <1>4, <1>5, <1>6, <1>7, FreshInventory
  <2>2. CASE UNCHANGED inventory /\ (cycle'.phase # "idle" => cycle.phase # "idle")
    <3>1. InventoryFits' BY <2>2, <1>1, <1>2, <1>3, InventoryStays
    <3>2. Between' => Between BY <2>2 DEF Between
    <3>3. \A c \in paid.once : Passed(c) => Passed(c)'
      BY <1>1, <2>2 DEF Passed, Excused, OnRecord, NotOffered, KeyOf
    <3>4. PaidFor' BY <3>2, <3>3, <1>6 DEF JobsInv, PaidFor
    <3>5. \A k \in keys : k[1] = "packing" => (Between' => NotTogether(k[2])')
      BY <2>2, <3>2 DEF JobsInv, KeysFit, NotTogether
    <3>6. JobFits' BY DEF JobFits
    <3> QED BY <3>1, <3>4, <3>5, <3>6
  <2> QED BY <2>1, <2>2
<1>9. KeysFit'
  <2>1. \A c : KeyOf(c)' = KeyOf(c) BY DEF KeyOf
  <2> QED BY <1>1, <1>7, <1>8, <2>1 DEF KeysFit
<1>10. AgainExcused' BY <1>2, ExcuseStays DEF JobsInv, AgainExcused
<1> QED BY <1>2, <1>3, <1>5, <1>8, <1>9, <1>10 DEF JobsInv

LEMMA StartCycleKeeps ==
    ASSUME JobsAssumption, JobsInv, cycle.phase = "idle", StartCycle
    PROVE  JobsInv'
<1>1. job = NoJob BY DEF JobsInv, JobFits
<1>2. /\ inventory' = Inventory /\ UNCHANGED <<store, ledger, job, paid>>
  BY DEF StartCycle
<1>3. PICK scheduled \in BOOLEAN :
         cycle' = [cycle EXCEPT !.phase = "packing", !.jobs = MaxJobs, !.turns = 0,
                       !.scheduled = scheduled, !.at = IF scheduled THEN cycle.turn ELSE 3,
                       !.count = @ + 1]
  BY DEF StartCycle
<1>4. CycleFits /\ MaxJobs \in Nat \ {0} BY DEF JobsInv, JobsAssumption
<1>5. /\ DOMAIN cycle' = {"phase", "jobs", "at", "turns", "scheduled", "turn", "count"}
      /\ cycle'.phase = "packing" /\ cycle'.jobs = MaxJobs /\ cycle'.turns = 0
  BY <1>3, <1>4 DEF CycleFits
<1>6. CycleFits' BY <1>4, <1>5 DEF CycleFits
<1> QED BY <1>1, <1>2, <1>6, TurnKeeps

LEMMA PassKeeps ==
    ASSUME JobsAssumption, JobsInv, Pass
    PROVE  JobsInv'
<1>1. /\ job = NoJob /\ cycle.phase # "idle" /\ cycle' = After(FALSE)
      /\ UNCHANGED <<store, ledger, inventory, job, paid>>
  BY DEF Pass
<1>2. CycleFits' BY <1>1, CycleMovesOn DEF JobsInv
<1> QED BY <1>1, <1>2, TurnKeeps

LEMMA AllPairsExcludedKeeps ==
    ASSUME JobsAssumption, JobsInv, NEW w, AllPairsExcluded(w)
    PROVE  JobsInv'
<1>1. /\ job = NoJob /\ cycle.phase # "idle" /\ cycle' = After(TRUE) /\ ledger \subseteq ledger'
      /\ UNCHANGED <<store, job, paid>> /\ inventory' = Inventory
  BY DEF AllPairsExcluded
<1>2. CycleFits' BY <1>1, CycleMovesOn DEF JobsInv
<1> QED BY <1>1, <1>2, TurnKeeps

-----------------------------------------------------------------------------
(* What is paid for                                                        *)

LEMMA PairsAre ==
    ASSUME NEW w, IsFiniteSet(w), Cardinality(w) = 2, NEW p \in w, NEW q \in w, p # q
    PROVE  w = {p, q}
<1>1. IsFiniteSet(w \ {p}) /\ Cardinality(w \ {p}) = 1 BY FS_RemoveElement
<1>2. PICK x : w \ {p} = {x} BY <1>1, FS_Singleton
<1> QED BY <1>2

CallOf(w) ==
    <<Kind, IF Kind = "retention" THEN [r \in w |-> r] ELSE [p \in w |-> inventory[p].head],
      Kind = "packing" /\ <<"pack", w>> \in ledger>>

LEMMA SelectedKinds ==
    ASSUME JobsAssumption, NEW w \in Selectable(Kind)
    PROVE  /\ Kind \in {"packing", "summary", "relation", "archive", "retention"}
           /\ w \in Windows(Kind) /\ Key(Kind, w) \notin ledger
BY DEF Selectable, JobsAssumption

LEMMA WindowFits ==
    ASSUME JobsAssumption, StoreFits, InventoryFits, NEW w \in Selectable(Kind)
    PROVE  /\ Kind # "retention" => w \subseteq DOMAIN inventory
           /\ Kind = "packing" => \E p, q \in w : p # q /\ w = {p, q}
           /\ Kind = "summary" => \E p \in DOMAIN inventory : w = {p} /\
                 (inventory[p].summary = 0 \/ inventory[p].summary # inventory[p].head)
           /\ Kind = "retention" => \A r \in w : \E p \in DOMAIN pages : r \in pages[p].past
<1>1. w \in Windows(Kind) /\ Kind \in {"packing", "summary", "relation", "archive", "retention"}
  BY SelectedKinds
<1>2. IsFiniteSet(DOMAIN inventory)
  <2>1. 1 \in Int /\ used.page \in Int BY DEF StoreFits, PagesFit
  <2>2. IsFiniteSet(1 .. used.page) BY <2>1, FS_Interval
  <2> QED BY <2>2, FS_Subset DEF StoreFits, PagesFit, InventoryFits
<1>3. CASE Kind = "packing"
  <2>1. w \in PackingWindows BY <1>1, <1>3 DEF Windows
  <2>2. w \subseteq DOMAIN inventory /\ Cardinality(w) = 2 BY <2>1 DEF PackingWindows
  <2>3. PICK p \in w, q \in w : p # q BY <2>1 DEF PackingWindows
  <2>4. IsFiniteSet(w) BY <2>2, <1>2, FS_Subset
  <2>5. w = {p, q} BY <2>2, <2>3, <2>4, PairsAre
  <2> QED BY <1>3, <2>2, <2>3, <2>5
<1>4. CASE Kind = "summary"
  <2>1. w \in SummaryWindows BY <1>1, <1>4 DEF Windows
  <2>2. PICK p \in DOMAIN inventory : w = {p} /\ (inventory[p].summary = 0 \/ inventory[p].summary # inventory[p].head)
    BY <2>1 DEF SummaryWindows
  <2> QED BY <1>4, <2>2
<1>5. CASE Kind = "relation"
  <2>1. w \in RelationWindows BY <1>1, <1>5 DEF Windows
  <2> QED BY <1>5, <2>1 DEF RelationWindows
<1>6. CASE Kind = "archive"
  <2>1. w \in ArchiveWindows BY <1>1, <1>6 DEF Windows
  <2> QED BY <1>6, <2>1 DEF ArchiveWindows
<1>7. CASE Kind = "retention"
  <2>1. w \in RetentionWindows BY <1>1, <1>7 DEF Windows
  <2>2. \A r \in w : \E p \in Shown : r \in pages[p].past BY <2>1 DEF RetentionWindows
  <2> QED BY <1>7, <2>2 DEF Shown
<1> QED BY <1>1, <1>3, <1>4, <1>5, <1>6, <1>7

LEMMA CallOfFits ==
    ASSUME JobsAssumption, StoreFits, InventoryFits, NEW w \in Selectable(Kind)
    PROVE  /\ CallFits(CallOf(w)) /\ KeyOf(CallOf(w)) = Key(Kind, w)
           /\ CallOf(w)[1] = Kind /\ DOMAIN CallOf(w)[2] = w
           /\ Kind # "retention" => \A p \in w : CallOf(w)[2][p] = inventory[p].head
           /\ CallOf(w)[3] = (Kind = "packing" /\ <<"pack", w>> \in ledger)
<1> DEFINE of == IF Kind = "retention" THEN [r \in w |-> r] ELSE [p \in w |-> inventory[p].head]
           c == <<Kind, of, Kind = "packing" /\ <<"pack", w>> \in ledger>>
<1>1. c = CallOf(w) BY DEF CallOf
<1>2. /\ Kind # "retention" => w \subseteq DOMAIN inventory
      /\ Kind = "packing" => \E p, q \in w : p # q /\ w = {p, q}
      /\ Kind = "summary" => \E p \in w : w = {p}
  BY WindowFits
<1>3. Kind \in {"packing", "summary", "relation", "archive", "retention"} BY SelectedKinds
<1>4. DOMAIN of = w /\ of = [p \in w |-> of[p]] OBVIOUS
<1>5. Kind # "retention" => \A p \in w : of[p] = inventory[p].head OBVIOUS
<1>6. /\ c[1] = Kind /\ c[2] = of /\ c[3] = (Kind = "packing" /\ <<"pack", w>> \in ledger)
      /\ c = <<c[1], c[2], c[3]>>
  OBVIOUS
<1> HIDE DEF of, c, Kind
<1>7. c[3] \in BOOLEAN /\ (Kind # "packing" => c[3] = FALSE) BY <1>6
<1>8. Kind # "retention" => \A p \in w : /\ p \in DOMAIN pages /\ of[p] \in Revs(p)
                                         /\ of[p] <= inventory[p].head
  <2>1. SUFFICES ASSUME Kind # "retention", NEW p \in w
                 PROVE  p \in DOMAIN pages /\ of[p] \in Revs(p) /\ of[p] <= inventory[p].head
    OBVIOUS
  <2>2. p \in DOMAIN inventory /\ of[p] = inventory[p].head BY <2>1, <1>2, <1>5
  <2>3. p \in DOMAIN pages /\ inventory[p].head \in Revs(p) BY <2>2 DEF InventoryFits
  <2>4. inventory[p].head \in Nat BY <2>3, RevsTyped DEF StoreFits
  <2> QED BY <2>2, <2>3, <2>4
<1>9. CallFits(c) BY <1>2, <1>3, <1>4, <1>6, <1>7, <1>8 DEF CallFits
<1>10. KeyOf(c) = Key(Kind, w)
  <2>1. Kind \notin {"packing", "retention"} => {of[p] : p \in w} = Heads(w) BY <1>5 DEF Heads
  <2> QED BY <1>4, <1>6, <2>1 DEF KeyOf, Key
<1> QED BY <1>1, <1>4, <1>5, <1>6, <1>9, <1>10

\* A call that was made before is only made again where its answer was undone.
LEMMA SecondCall ==
    ASSUME JobsAssumption, JobsInv, Between, NEW w \in Selectable(Kind), CallOf(w) \in paid.once
    PROVE  Excused(CallOf(w))
<1> DEFINE c == CallOf(w)
<1>1. StoreFits /\ InventoryFits /\ Passed(c) BY DEF JobsInv, PaidFor
<1>2. /\ KeyOf(c) = Key(Kind, w) /\ c[1] = Kind /\ DOMAIN c[2] = w
      /\ Kind # "retention" => \A p \in w : c[2][p] = inventory[p].head
      /\ c[3] = (Kind = "packing" /\ <<"pack", w>> \in ledger)
  BY <1>1, CallOfFits
<1>3. /\ Kind # "retention" => w \subseteq DOMAIN inventory
      /\ Kind = "summary" => \E p \in DOMAIN inventory : w = {p} /\
            (inventory[p].summary = 0 \/ inventory[p].summary # inventory[p].head)
  BY <1>1, WindowFits
<1>4. Key(Kind, w) \notin ledger BY SelectedKinds
<1>5. \A p \in DOMAIN inventory : inventory[p].head \in Nat /\ inventory[p].head # 0
  <2>1. SUFFICES ASSUME NEW p \in DOMAIN inventory
                 PROVE  inventory[p].head \in Nat /\ inventory[p].head # 0
    OBVIOUS
  <2>2. p \in DOMAIN pages /\ inventory[p].head \in Revs(p) BY <1>1, <2>1 DEF InventoryFits
  <2> QED BY <1>1, <2>2, RevsTyped DEF StoreFits
<1> HIDE DEF c, Kind
<1>6. ~OnRecord(c)
  <2>1. ~(c[1] = "packing" /\ c[3] = FALSE /\ <<"pack", DOMAIN c[2]>> \in ledger) BY <1>2
  <2> QED BY <2>1, <1>2, <1>4 DEF OnRecord
<1>7. ~NotOffered(c)
  <2>1. SUFFICES ASSUME c[1] \in Undoable, NEW p \in DOMAIN c[2],
                        \/ p \notin DOMAIN inventory
                        \/ inventory[p].head # c[2][p]
                        \/ c[1] = "summary" /\ inventory[p].summary = c[2][p]
                 PROVE  FALSE
    BY DEF NotOffered
  <2>2. Kind # "retention" BY <2>1, <1>2 DEF Undoable
  <2>3. p \in DOMAIN inventory /\ inventory[p].head = c[2][p] BY <2>1, <2>2, <1>2, <1>3
  <2>4. Kind = "summary" /\ inventory[p].summary = inventory[p].head BY <2>1, <2>3, <1>2
  <2>5. w = {p} BY <2>1, <2>4, <1>2, <1>3
  <2> QED BY <2>3, <2>4, <2>5, <1>3, <1>5
<1>8. Excused(c) BY <1>1, <1>6, <1>7 DEF Passed
<1> QED BY <1>8 DEF c

\* A used key was that of a call of its window, or of the same Pages.
LEMMA UsedKey ==
    ASSUME JobsAssumption, JobsInv, Between, NEW w \in Selectable(Kind), KeyOf(CallOf(w)) \in keys
    PROVE  Excused(CallOf(w))
<1> DEFINE c == CallOf(w)
<1>1. StoreFits /\ InventoryFits /\ CallsFit /\ KeysFit BY DEF JobsInv
<1>2. /\ CallFits(c) /\ KeyOf(c) = Key(Kind, w) /\ c[1] = Kind /\ DOMAIN c[2] = w
      /\ Kind # "retention" => w \subseteq DOMAIN inventory
  BY <1>1, CallOfFits, WindowFits
<1>3. c \in paid.once => Excused(c) BY SecondCall
<1> HIDE DEF c, Kind
<1>4. KeyOf(c)[1] = c[1] /\ c[1] \in {"packing", "summary"} BY <1>1 DEF KeyOf, KeysFit, c
<1>5. CASE c[1] = "packing"
  <2>1. KeyOf(c)[2] = w BY <1>2, <1>5 DEF KeyOf
  <2>2. NotTogether(w) BY <1>1, <1>4, <1>5, <2>1 DEF KeysFit, c
  <2>3. PICK p \in w : p \in paid.undone BY <1>2, <1>5, <2>2 DEF NotTogether
  <2> QED BY <1>2, <1>5, <2>3 DEF Excused, Undoable, c
<1>6. CASE c[1] = "summary"
  <2>1. PICK d \in paid.once : d[1] = "summary" /\ KeyOf(d) = KeyOf(c)
    BY <1>1, <1>4, <1>6 DEF KeysFit, c
  <2>2. CallFits(d) BY <1>1 DEF CallsFit
  <2>3. PICK p \in DOMAIN c[2] : DOMAIN c[2] = {p} BY <1>2, <1>6 DEF CallFits
  <2>4. PICK q \in DOMAIN d[2] : DOMAIN d[2] = {q} BY <2>1, <2>2 DEF CallFits
  <2>5. {c[2][x] : x \in DOMAIN c[2]} = {d[2][x] : x \in DOMAIN d[2]} BY <2>1, <1>6 DEF KeyOf
  <2>6. c[2][p] = d[2][q] BY <2>3, <2>4, <2>5
  <2>7. p \in DOMAIN pages /\ c[2][p] \in Revs(p) BY <1>2, <1>6 DEF CallFits
  <2>8. q \in DOMAIN pages /\ d[2][q] \in Revs(q) BY <2>1, <2>2 DEF CallFits
  <2>9. p = q BY <1>1, <2>6, <2>7, <2>8 DEF StoreFits, PagesFit
  <2>10. c[2] = [x \in {p} |-> c[2][x]] /\ d[2] = [x \in {p} |-> d[2][x]]
    BY <1>2, <2>2, <2>3, <2>4, <2>9 DEF CallFits
  <2>11. c[2] = d[2] BY <2>6, <2>9, <2>10
  <2>12. /\ c = <<c[1], c[2], c[3]>> /\ d = <<d[1], d[2], d[3]>> /\ c[3] = FALSE /\ d[3] = FALSE
    BY <1>2, <1>6, <2>1, <2>2 DEF CallFits
  <2>13. c = d BY <1>6, <2>1, <2>11, <2>12
  <2> QED BY <1>3, <2>1, <2>13 DEF c
<1> QED BY <1>4, <1>5, <1>6

LEMMA SelectKeeps ==
    ASSUME JobsAssumption, JobsInv, NEW w \in Selectable(Kind), Select(w)
    PROVE  JobsInv'
<1> DEFINE of == IF Kind = "retention" THEN [r \in w |-> r] ELSE [p \in w |-> inventory[p].head]
           with == IF Kind = "summary" THEN inventory[CHOOSE p \in w : TRUE].summary ELSE 0
           call == <<Kind, of, Kind = "packing" /\ <<"pack", w>> \in ledger>>
<1>1. /\ cycle.phase # "idle" /\ job = NoJob
      /\ UNCHANGED <<store, ledger, inventory, cycle>>
      /\ job' = [kind |-> Kind, of |-> of, with |-> with]
      /\ paid' = [paid EXCEPT !.once = @ \cup {call},
                          !.again = IF call \in paid.once THEN @ \cup {call} ELSE @]
  BY DEF Select
<1>2. Between BY <1>1 DEF Between
<1>3. /\ StoreFits /\ TablesFit /\ InventoryFits /\ CallsFit /\ PaidFor /\ KeysFit /\ CycleFits /\ AgainExcused
      /\ UNCHANGED <<pages, summaries, assessed, leases, keys, used>>
  BY <1>1 DEF JobsInv, store
<1>4. call = CallOf(w) BY DEF CallOf
<1>5. /\ CallFits(call) /\ KeyOf(call) = Key(Kind, w) /\ call[1] = Kind /\ DOMAIN call[2] = w
      /\ Kind # "retention" => \A p \in w : call[2][p] = inventory[p].head
  BY <1>3, <1>4, CallOfFits
<1>6. /\ Kind # "retention" => w \subseteq DOMAIN inventory
      /\ Kind = "summary" => \E p \in w : w = {p}
      /\ Kind = "retention" => \A r \in w : \E p \in DOMAIN pages : r \in pages[p].past
  BY <1>3, WindowFits
<1>7. Kind \in {"packing", "summary", "relation", "archive", "retention"} BY SelectedKinds
<1>8. Kind = "summary" => \A p \in w : with = inventory[p].summary
  <2>1. SUFFICES ASSUME Kind = "summary", NEW p \in w, w = {p} PROVE with = inventory[p].summary
    BY <1>6
  <2>2. (CHOOSE x \in w : TRUE) = p BY <2>1
  <2> QED BY <2>1, <2>2
<1>9. /\ DOMAIN of = w /\ call[2] = of /\ call[3] = (Kind = "packing" /\ <<"pack", w>> \in ledger)
      /\ call = <<Kind, of, Kind = "packing" /\ <<"pack", w>> \in ledger>>
  OBVIOUS
<1>10. call \in paid.once => Excused(call) BY <1>2, <1>4, SecondCall
<1>11. KeyOf(call) \in keys => Excused(call) BY <1>2, <1>4, UsedKey
<1>12. /\ job'.kind = Kind /\ job'.of = of /\ job'.with = with /\ job' # NoJob
       /\ DOMAIN paid' = DOMAIN paid /\ paid'.undone = paid.undone
       /\ paid'.once = paid.once \cup {call}
       /\ \A c \in paid'.again : c \in paid.again \/ (c = call /\ call \in paid.once)
  <2>1. NoJob.kind = "none" BY DEF NoJob
  <2>2. job'.kind = Kind /\ job'.of = of /\ job'.with = with BY <1>1
  <2>3. job'.kind # "none" BY <2>2, <1>7
  <2> HIDE DEF call, of, with, Kind
  <2>4. /\ DOMAIN paid' = DOMAIN paid /\ paid'.undone = paid.undone
        /\ paid'.once = paid.once \cup {call}
        /\ \A c \in paid'.again : c \in paid.again \/ (c = call /\ call \in paid.once)
    BY <1>1, <1>3 DEF AgainExcused
  <2> QED BY <2>1, <2>2, <2>3, <2>4
<1> DEFINE kind == Kind
<1>13. kind = Kind OBVIOUS
<1> HIDE DEF call, of, with, kind
<1>14. JobCall' = call BY <1>1, <1>9, <1>12 DEF JobCall
<1>15. JobKey' = KeyOf(call)
  <2>1. KeyOf(call) = <<call[1], IF call[1] \in {"packing", "retention"} THEN DOMAIN call[2]
                                 ELSE {call[2][p] : p \in DOMAIN call[2]}>>
    BY DEF KeyOf
  <2> QED BY <2>1, <1>5, <1>9, <1>12 DEF JobKey, JobPages
<1>16. StoreFits' /\ StoreGrows BY <1>3, <1>12, NothingMoves
<1>17. TablesFit' /\ \A p : SummaryOf(p)' = SummaryOf(p) BY <1>3, <1>16, TablesStay
<1>18. InventoryFits' BY <1>1, <1>3, <1>16, <1>17, InventoryStays
<1>19. CallsFit'
  <2>1. SUFFICES ASSUME NEW c \in paid'.once PROVE CallFits(c)' BY DEF CallsFit
  <2>2. CallFits(c) BY <2>1, <1>3, <1>5, <1>12 DEF CallsFit
  <2> QED BY <2>2, <1>1, <1>3, <1>16, CallStays
<1>20. JobFits'
  <2>1. /\ job'.kind # "retention" =>
              \A p \in DOMAIN job'.of : p \in DOMAIN inventory /\ job'.of[p] = inventory[p].head
        /\ job'.kind = "summary" => \A p \in DOMAIN job'.of : job'.with = inventory[p].summary
        /\ job'.kind = "retention" => \A r \in DOMAIN job'.of : \E p \in DOMAIN pages : r \in pages[p].past
    BY <1>5, <1>6, <1>8, <1>9, <1>12
  <2> QED BY <2>1, <1>1, <1>3, <1>12, <1>14 DEF JobFits
<1>21. PaidFor'
  <2>1. \A c \in paid.once : Ended(c)'
    <3>1. SUFFICES ASSUME NEW c \in paid.once PROVE Ended(c)' OBVIOUS
    <3>2. Ended(c) /\ CallFits(c) BY <1>1, <1>3 DEF PaidFor, CallsFit
    <3>3. SummaryStays(c) BY <1>17 DEF SummaryStays
    <3> QED BY <1>1, <1>3, <1>16, <3>2, <3>3, EndedStays
  <2> QED BY <2>1, <1>12, <1>14 DEF PaidFor, Between
<1>22. KeysFit'
  <2>1. \A c : KeyOf(c)' = KeyOf(c) BY DEF KeyOf
  <2>2. \A k \in keys : k[1] = "packing" => k[2] \subseteq DOMAIN pages' /\ Packs(k[2])'
    BY <1>3, <1>12 DEF KeysFit, Packs, Shown
  <2>3. PICK made : made = call OBVIOUS
  <2>4. JobKey' \in keys' => Excused(JobCall)'
    <3>1. KeyOf(call) \in keys => Excused(made)' BY <2>3, <1>11, <1>16, ExcuseStays
    <3>2. Excused(made)' => Excused(JobCall)' BY <2>3, <1>14 DEF Excused
    <3> QED BY <3>1, <3>2, <1>3, <1>15
  <2>5. \A k \in keys' : k[1] = "summary" => \E c \in paid'.once : c[1] = "summary" /\ KeyOf(c)' = k
    BY <2>1, <1>3, <1>12 DEF KeysFit
  <2> QED BY <2>2, <2>4, <2>5, <1>3, <1>12 DEF KeysFit, Between
<1>23. CycleFits' BY <1>1, <1>3 DEF CycleFits
<1>24. AgainExcused'
  <2>1. \A c \in paid'.again : Excused(c) BY <1>3, <1>10, <1>12 DEF AgainExcused
  <2> QED BY <2>1, <1>3, <1>12, <1>16, ExcuseStays DEF AgainExcused
<1> QED BY <1>16, <1>17, <1>18, <1>19, <1>20, <1>21, <1>22, <1>23, <1>24 DEF JobsInv

-----------------------------------------------------------------------------
(* What comes of it                                                        *)

LEMMA JobIsFit ==
    ASSUME JobsInv, job # NoJob
    PROVE  /\ StoreFits /\ TablesFit /\ InventoryFits /\ JobCall \in paid.once /\ CallFits(JobCall)
           /\ KeyOf(JobCall) = JobKey /\ JobCall[1] = job.kind /\ JobCall[2] = job.of
           /\ JobPages = DOMAIN job.of
           /\ job.kind # "retention" => \A p \in JobPages :
                /\ p \in DOMAIN inventory /\ p \in DOMAIN pages
                /\ job.of[p] = inventory[p].head /\ job.of[p] \in Revs(p)
           /\ job.kind = "summary" => \E p \in JobPages :
                JobPages = {p} /\ job.with = inventory[p].summary /\ JobKey = <<"summary", {job.of[p]}>>
<1>1. /\ StoreFits /\ TablesFit /\ InventoryFits /\ JobCall \in paid.once /\ CallFits(JobCall)
  BY DEF JobsInv, JobFits, CallsFit
<1>2. JobPages = DOMAIN job.of BY DEF JobPages
<1>3. job.kind # "retention" => \A p \in JobPages :
         /\ p \in DOMAIN inventory /\ p \in DOMAIN pages
         /\ job.of[p] = inventory[p].head /\ job.of[p] \in Revs(p)
  BY <1>1, <1>2, KeyOfJob DEF JobsInv, JobFits, CallFits
<1>4. job.kind = "summary" => \E p \in JobPages :
         JobPages = {p} /\ job.with = inventory[p].summary /\ JobKey = <<"summary", {job.of[p]}>>
  <2>1. SUFFICES ASSUME job.kind = "summary"
                 PROVE  \E p \in JobPages : JobPages = {p} /\ job.with = inventory[p].summary
                                            /\ JobKey = <<"summary", {job.of[p]}>>
    OBVIOUS
  <2>2. PICK p \in JobPages : JobPages = {p} BY <1>1, <1>2, <2>1, KeyOfJob DEF CallFits
  <2>3. job.with = inventory[p].summary BY <1>2, <2>1, <2>2 DEF JobsInv, JobFits
  <2>4. JobKey = <<"summary", {job.of[p]}>> BY <2>1, <2>2 DEF JobKey
  <2> QED BY <2>2, <2>3, <2>4
<1> QED BY <1>1, <1>2, <1>3, <1>4, KeyOfJob

LEMMA RecordedEnds ==
    ASSUME NEW call, call = JobCall, JobKey \in ledger'
    PROVE  Ended(call)'
<1>1. KeyOf(call)' = JobKey BY KeyOfJob DEF KeyOf
<1> QED BY <1>1 DEF Ended, OnRecord

LEMMA SummariesStay ==
    ASSUME UNCHANGED summaries
    PROVE  \A c : SummaryStays(c)
BY DEF SummaryStays, SummaryOf

LEMMA RecordKeeps ==
    ASSUME JobsAssumption, JobsInv, Record
    PROVE  JobsInv'
<1>1. /\ job # NoJob /\ ledger' = ledger \cup {JobKey} /\ UNCHANGED <<store, paid>> /\ Settled
  BY DEF Record
<1>2. UNCHANGED <<pages, summaries, assessed, leases, keys, used>> BY <1>1 DEF store
<1>3. StoreFits /\ TablesFit BY <1>1, JobIsFit
<1>4. StoreFits' /\ StoreGrows BY <1>1, <1>2, <1>3, NothingMoves
<1>5. TablesFit' BY <1>2, <1>3, <1>4, TablesStay
<1>6. PICK call : call = JobCall OBVIOUS
<1>7. Ended(call)' BY <1>1, <1>6, RecordedEnds
<1>8. PICK w : w = JobPages OBVIOUS
<1>9. job.kind = "packing" /\ JobKey \in keys' => Packs(w)'
  <2>1. job.kind = "packing" /\ JobKey \in keys => w \subseteq DOMAIN pages /\ Packs(w)
    BY <1>8 DEF JobsInv, KeysFit, JobKey
  <2> QED BY <2>1, <1>2, <1>4, PacksStay
<1> QED BY <1>1, <1>2, <1>4, <1>5, <1>6, <1>7, <1>8, <1>9, SummariesStay, SettledKeeps

LEMMA MarkAssessedKeeps ==
    ASSUME JobsAssumption, JobsInv, job # NoJob, MarkAssessed
    PROVE  JobsInv'
<1>1. /\ job.kind = "summary" /\ assessed' = assessed \cup {job.of[p] : p \in JobPages}
      /\ UNCHANGED <<pages, summaries, leases, keys, used, ledger, paid>> /\ Settled
  BY DEF MarkAssessed
<1>2. StoreFits /\ TablesFit BY JobIsFit
<1>3. StoreFits' /\ StoreGrows BY <1>1, <1>2, NothingMoves
<1>4. TablesFit' BY <1>1, <1>2, <1>3, TablesStay
<1>5. PICK call : call = JobCall OBVIOUS
<1>6. Ended(call)'
  <2>1. PICK p \in JobPages : JobPages = {p} BY <1>1, JobIsFit
  <2>2. call[1] = "summary" /\ p \in DOMAIN call[2] /\ call[2][p] \in assessed'
    BY <1>1, <1>5, <2>1, KeyOfJob DEF JobPages
  <2> QED BY <2>2 DEF Ended, Excused, Undoable
<1>7. PICK w : w = JobPages OBVIOUS
<1> QED BY <1>1, <1>3, <1>4, <1>5, <1>6, <1>7, SummariesStay, SettledKeeps

LEMMA ProposeKeeps ==
    ASSUME JobsAssumption, JobsInv, Propose
    PROVE  JobsInv'
<1>1. /\ job # NoJob /\ UNCHANGED <<store, paid>> /\ Settled /\ job.kind # "retention"
      /\ ledger' = ledger \cup (CASE job.kind = "packing" -> {<<"pack", JobPages>>}
                                  [] job.kind = "relation" -> {<<"pair", JobPages>>, JobKey}
                                  [] OTHER -> {JobKey})
      /\ job.kind = "packing" => <<"pack", JobPages>> \notin ledger
  BY DEF Propose
<1>2. UNCHANGED <<pages, summaries, assessed, leases, keys, used>> BY <1>1 DEF store
<1>3. StoreFits /\ TablesFit BY <1>1, JobIsFit
<1>4. StoreFits' /\ StoreGrows BY <1>1, <1>2, <1>3, NothingMoves
<1>5. TablesFit' BY <1>2, <1>3, <1>4, TablesStay
<1>6. PICK call : call = JobCall OBVIOUS
<1>7. Ended(call)'
  <2>1. CASE job.kind = "packing"
    <3>1. call[1] = "packing" /\ DOMAIN call[2] = JobPages BY <1>6, <2>1, KeyOfJob DEF JobPages
    <3>2. call[3] = FALSE BY <1>1, <1>6, <2>1 DEF JobCall, JobPages
    <3>3. <<"pack", JobPages>> \in ledger' BY <1>1, <2>1
    <3> QED BY <3>1, <3>2, <3>3 DEF Ended, OnRecord
  <2>2. CASE job.kind # "packing"
    <3>1. JobKey \in ledger' BY <1>1, <2>2
    <3> QED BY <1>6, <3>1, RecordedEnds
  <2> QED BY <2>1, <2>2
<1>8. PICK w : w = JobPages OBVIOUS
<1>9. job.kind = "packing" /\ JobKey \in keys' => Packs(w)'
  <2>1. job.kind = "packing" /\ JobKey \in keys => w \subseteq DOMAIN pages /\ Packs(w)
    BY <1>8 DEF JobsInv, KeysFit, JobKey
  <2> QED BY <2>1, <1>2, <1>4, PacksStay
<1>10. ledger \subseteq ledger' BY <1>1
<1> QED BY <1>1, <1>2, <1>4, <1>5, <1>6, <1>7, <1>8, <1>9, <1>10, SummariesStay, SettledKeeps

\* A summary is of a Revision that no earlier call has outrun.
LEMMA WriteSummaryKeeps ==
    ASSUME JobsAssumption, JobsInv, job # NoJob, WriteSummary
    PROVE  JobsInv'
<1>1. /\ job.kind = "summary" /\ keys' = keys \cup {JobKey} /\ Settled
      /\ UNCHANGED <<pages, assessed, leases, used, ledger, paid>>
  BY DEF WriteSummary
<1>2. PICK p \in JobPages : summaries' = IF JobKey \in keys THEN summaries ELSE Put(summaries, p, job.of[p])
  BY DEF WriteSummary
<1>3. /\ StoreFits /\ TablesFit /\ InventoryFits /\ JobPages = {p} /\ p \in DOMAIN inventory /\ p \in DOMAIN pages
      /\ job.of[p] = inventory[p].head /\ job.of[p] \in Revs(p)
  BY <1>1, <1>2, JobIsFit
<1>4. StoreFits' /\ StoreGrows BY <1>1, <1>3, NothingMoves
<1>5. PICK call : call = JobCall OBVIOUS
<1>6. call[1] = "summary" /\ p \in DOMAIN call[2] /\ call[2][p] = job.of[p]
  BY <1>1, <1>2, <1>5, KeyOfJob DEF JobPages
<1>7. PICK w : w = JobPages OBVIOUS
<1>8. CASE JobKey \in keys
  <2>1. summaries' = summaries BY <1>2, <1>8
  <2>2. TablesFit' BY <1>1, <1>3, <1>4, <2>1, TablesStay
  <2>3. Excused(call) BY <1>5, <1>8 DEF JobsInv, KeysFit
  <2>4. Ended(call)' BY <1>4, <2>3, ExcuseStays DEF Ended
  <2> QED BY <1>1, <1>4, <1>5, <1>7, <2>1, <2>2, <2>4, SummariesStay, SettledKeeps
<1>9. CASE JobKey \notin keys
  <2>1. /\ DOMAIN summaries' = DOMAIN summaries \cup {p} /\ summaries'[p] = job.of[p]
        /\ \A q \in DOMAIN summaries : q # p => summaries'[q] = summaries[q]
    BY <1>2, <1>9 DEF Put
  <2>2. TablesFit' BY <1>1, <1>3, <2>1 DEF TablesFit, Revs
  <2>3. SummaryOf(p)' = job.of[p] /\ \A q : q # p => SummaryOf(q)' = SummaryOf(q) BY <2>1 DEF SummaryOf
  <2>4. Ended(call)' BY <1>6, <2>3 DEF Ended, MovedOn, Undoable
  <2>5. \A c \in paid.once : SummaryStays(c)
    <3>1. SUFFICES ASSUME NEW c \in paid.once, c[1] = "summary", NEW q \in DOMAIN c[2], SummaryOf(q) = c[2][q]
                   PROVE  SummaryOf(q)' = c[2][q] \/ pages[q].head # c[2][q]
      BY DEF SummaryStays
    <3>2. CASE q # p BY <3>1, <3>2, <2>3
    <3>3. CASE q = p
      <4>1. CallFits(c) BY <3>1 DEF JobsInv, CallsFit
      <4>2. c[2][p] \in Revs(p) /\ c[2][p] <= inventory[p].head BY <3>1, <3>3, <4>1, <1>3 DEF CallFits
      <4>3. inventory[p].head <= pages[p].head BY <1>3 DEF InventoryFits
      <4>4. c[2][p] \in Nat /\ inventory[p].head \in Nat /\ pages[p].head \in Nat
        BY <1>3, <4>2, RevsTyped DEF StoreFits
      <4> QED BY <3>3, <4>2, <4>3, <4>4, <2>3, <1>3
    <3> QED BY <3>2, <3>3
  <2> QED BY <1>1, <1>4, <1>5, <1>7, <2>2, <2>4, <2>5, SettledKeeps
<1> QED BY <1>8, <1>9

LEMMA PackPagesKeeps ==
    ASSUME JobsAssumption, JobsInv, job # NoJob, PackPages
    PROVE  JobsInv'
<1>1. /\ job.kind = "packing" /\ keys' = keys \cup {JobKey} /\ Settled
      /\ UNCHANGED <<summaries, assessed, leases, ledger, paid>>
  BY DEF PackPages
<1>2. StoreFits /\ TablesFit BY JobIsFit
<1>3. PICK call : call = JobCall OBVIOUS
<1>4. PICK w : w = JobPages OBVIOUS
<1>5. /\ call[1] = "packing" /\ DOMAIN call[2] = w /\ CallFits(call)
      /\ w \subseteq DOMAIN pages
  BY <1>1, <1>3, <1>4, KeyOfJob, JobIsFit DEF JobPages
<1>6. CASE JobKey \in keys
  <2>1. UNCHANGED <<pages, used>> BY <1>6 DEF PackPages
  <2>2. StoreFits' /\ StoreGrows BY <1>1, <1>2, <2>1, NothingMoves
  <2>3. TablesFit' BY <1>1, <1>2, <2>2, TablesStay
  <2>4. Excused(call) BY <1>3, <1>6 DEF JobsInv, KeysFit
  <2>5. Ended(call)' BY <2>2, <2>4, ExcuseStays DEF Ended
  <2>6. Packs(w)
    <3>1. JobKey[1] = "packing" /\ JobKey[2] = w BY <1>1, <1>4 DEF JobKey
    <3> QED BY <3>1, <1>6 DEF JobsInv, KeysFit
  <2>7. Packs(w)' BY <2>2, <2>6, <1>5, PacksStay
  <2> QED BY <1>1, <1>3, <1>4, <2>2, <2>3, <2>5, <2>7, SummariesStay, SettledKeeps
<1>7. CASE JobKey \notin keys
  <2> DEFINE packs == {p \in JobPages : Packed(p)}
             pack == IF packs = {} THEN used.page + 1 ELSE CHOOSE p \in packs : \A q \in packs : p <= q
             past == IF packs = {} THEN {} ELSE pages[pack].past \cup {pages[pack].head}
             content == [head |-> used.rev + 1, past |-> past,
                         shown |-> TRUE, span |-> UNION {pages[p].span : p \in JobPages}]
  <2>1. /\ StillCurrent
        /\ pages' = Put([p \in DOMAIN pages |->
                             [pages[p] EXCEPT !.shown = pages[p].shown /\ p \notin JobPages]],
                        pack, content)
        /\ used' = [page |-> IF packs = {} THEN pack ELSE used.page, rev |-> used.rev + 1]
    BY <1>7 DEF PackPages
  <2>2. PICK p \in w, q \in w : p # q /\ w = {p, q} BY <1>5 DEF CallFits
  <2>3. /\ p \in Nat /\ q \in Nat /\ used.page \in Nat /\ DOMAIN pages = 1 .. used.page
        /\ w \subseteq DOMAIN pages
    BY <2>2, <1>2, <1>5 DEF StoreFits, PagesFit
  <2>4. packs # {} => pack \in packs
    <3>1. SUFFICES ASSUME packs # {} PROVE pack \in packs OBVIOUS
    <3>2. packs \subseteq {p, q} BY <1>4, <2>2
    <3> HIDE DEF packs
    <3>3. \E x \in packs : \A y \in packs : x <= y
      <4>1. CASE p \in packs /\ q \in packs /\ p <= q BY <4>1, <3>2, <2>3
      <4>2. CASE p \in packs /\ q \in packs /\ q <= p BY <4>2, <3>2, <2>3
      <4>3. CASE p \notin packs
        <5>1. packs = {q} BY <4>3, <3>1, <3>2
        <5> QED BY <5>1, <2>3
      <4>4. CASE q \notin packs
        <5>1. packs = {p} BY <4>4, <3>1, <3>2
        <5> QED BY <5>1, <2>3
      <4> QED BY <4>1, <4>2, <4>3, <4>4, <2>3
    <3> QED BY <3>1, <3>3
  <2>5. content = [head |-> used.rev + 1, past |-> past, shown |-> TRUE,
                   span |-> UNION {pages[r].span : r \in JobPages}]
    OBVIOUS
  <2>6. packs \subseteq JobPages /\ \A r \in packs : Packed(r) OBVIOUS
  <2>7. packs = {} => pack = used.page + 1 /\ past = {} OBVIOUS
  <2>8. packs # {} => past = Revs(pack) BY DEF Revs
  <2> HIDE DEF packs, pack, past, content
  <2>9. \/ packs = {} /\ pack = used.page + 1 /\ past = {} /\ pack \notin JobPages
        \/ pack \in JobPages /\ Packed(pack) /\ past = Revs(pack) /\ packs # {}
    <3>1. CASE packs = {}
      <4>1. used.page + 1 \notin DOMAIN pages BY <2>3
      <4>2. w = JobPages BY <1>4
      <4> HIDE DEF JobPages
      <4> QED BY <3>1, <4>1, <4>2, <2>3, <2>7
    <3>2. CASE packs # {} BY <3>2, <2>4, <2>6, <2>8
    <3> QED BY <3>1, <3>2
  <2>10. JobPages \subseteq Shown BY <2>1, <2>3, <1>4 DEF StillCurrent, Shown
  <2>11. /\ DOMAIN pages' = DOMAIN pages \cup {pack} /\ pages' = [r \in DOMAIN pages' |-> pages'[r]]
         /\ pages'[pack] = content
         /\ \A r \in DOMAIN pages : r # pack =>
              pages'[r] = [pages[r] EXCEPT !.shown = pages[r].shown /\ r \notin JobPages]
    BY <2>1 DEF Put
  <2>12. \A r \in DOMAIN pages : r # pack =>
              /\ DOMAIN pages'[r] = {"head", "past", "shown", "span"}
              /\ pages'[r].head = pages[r].head /\ pages'[r].past = pages[r].past
              /\ pages'[r].span = pages[r].span /\ pages'[r].shown \in BOOLEAN
              /\ pages'[r].shown <=> (pages[r].shown /\ r \notin JobPages)
    <3>1. SUFFICES ASSUME NEW r \in DOMAIN pages, r # pack
                   PROVE  /\ DOMAIN pages'[r] = {"head", "past", "shown", "span"}
                          /\ pages'[r].head = pages[r].head /\ pages'[r].past = pages[r].past
                          /\ pages'[r].span = pages[r].span /\ pages'[r].shown \in BOOLEAN
                          /\ pages'[r].shown <=> (pages[r].shown /\ r \notin JobPages)
      OBVIOUS
    <3>2. DOMAIN pages[r] = {"head", "past", "shown", "span"} /\ pages[r].shown \in BOOLEAN
      BY <1>2 DEF StoreFits, PagesFit
    <3>3. pages'[r] = [pages[r] EXCEPT !.shown = pages[r].shown /\ r \notin JobPages] BY <3>1, <2>11
    <3> HIDE DEF JobPages
    <3> QED BY <3>2, <3>3
  <2>13. /\ pages'[pack].head = used.rev + 1 /\ pages'[pack].past = past /\ pages'[pack].shown = TRUE
         /\ pages'[pack].span = UNION {pages[r].span : r \in JobPages}
         /\ DOMAIN pages'[pack] = {"head", "past", "shown", "span"}
    BY <2>5, <2>11
  <2>14. /\ used'.page = IF pack \in JobPages THEN used.page ELSE pack
         /\ used'.rev = used.rev + 1 /\ DOMAIN used' = {"page", "rev"}
    BY <2>1, <2>9
  <2>15. StoreFits' /\ StoreGrows /\ \E r \in JobPages : r \notin Shown'
    <3>1. StoreFits /\ UNCHANGED <<paid, assessed>> /\ p # q /\ JobPages = {p, q} /\ JobPages \subseteq Shown
      BY <1>1, <1>2, <1>4, <2>2, <2>10
    <3>2. \/ pack = used.page + 1 /\ past = {}
          \/ pack \in JobPages /\ Packed(pack) /\ past = Revs(pack)
      BY <2>9
    <3>3. DOMAIN pages' = DOMAIN pages \cup {pack} /\ pages' = [r \in DOMAIN pages' |-> pages'[r]]
      BY <2>11
    <3> QED BY <3>1, <3>2, <3>3, <2>12, <2>13, <2>14, PackKeeps, Zenon
  <2>16. TablesFit' BY <1>1, <1>2, <2>15, TablesStay
  <2>17. Packs(w)' /\ Ended(call)' BY <1>4, <1>5, <2>15 DEF Packs, Ended, MovedOn, Undoable
  <2> QED BY <1>1, <1>3, <1>4, <2>15, <2>16, <2>17, SummariesStay, SettledKeeps
<1> QED BY <1>6, <1>7

LEMMA CommitRelationKeeps ==
    ASSUME JobsAssumption, JobsInv, job # NoJob, CommitRelation
    PROVE  JobsInv'
<1>1. /\ job.kind = "relation" /\ ledger' = ledger \cup {<<"pair", JobPages>>, JobKey} /\ Settled
      /\ UNCHANGED <<pages, summaries, assessed, leases, keys, used, paid>>
  BY DEF CommitRelation
<1>2. StoreFits /\ TablesFit BY JobIsFit
<1>3. StoreFits' /\ StoreGrows BY <1>1, <1>2, NothingMoves
<1>4. TablesFit' BY <1>1, <1>2, <1>3, TablesStay
<1>5. PICK call : call = JobCall OBVIOUS
<1>6. JobKey \in ledger' /\ ledger \subseteq ledger' BY <1>1
<1>7. Ended(call)' BY <1>5, <1>6, RecordedEnds
<1>8. PICK w : w = JobPages OBVIOUS
<1> QED BY <1>1, <1>3, <1>4, <1>5, <1>6, <1>7, <1>8, SummariesStay, SettledKeeps

\* A lease is of a Revision that the plan found in the past of a Page.
LEMMA PutLeasesKeeps ==
    ASSUME JobsAssumption, JobsInv, job # NoJob, PutLeases
    PROVE  JobsInv'
<1>1. /\ job.kind = "retention" /\ ledger' = ledger \cup {JobKey} /\ Settled
      /\ UNCHANGED <<pages, summaries, assessed, keys, used, paid>>
  BY DEF PutLeases
<1>2. leases' \subseteq leases \cup JobPages BY DEF PutLeases
<1>3. StoreFits /\ TablesFit BY JobIsFit
<1>4. StoreFits' /\ StoreGrows BY <1>1, <1>3, NothingMoves
<1>5. \A r \in JobPages : \E p \in DOMAIN pages : r \in pages[p].past
  BY <1>1 DEF JobsInv, JobFits, JobPages
<1>6. \A r \in leases' : \E p \in DOMAIN pages : r \in pages[p].past BY <1>2, <1>3, <1>5 DEF TablesFit
<1>7. TablesFit' BY <1>1, <1>3, <1>6 DEF TablesFit, Revs
<1>8. PICK call : call = JobCall OBVIOUS
<1>9. JobKey \in ledger' /\ ledger \subseteq ledger' BY <1>1
<1>10. Ended(call)' BY <1>8, <1>9, RecordedEnds
<1>11. PICK w : w = JobPages OBVIOUS
<1> QED BY <1>1, <1>4, <1>7, <1>8, <1>9, <1>10, <1>11, SummariesStay, SettledKeeps

\* A commit is refused where the store moved on, or an operator undid something.
LEMMA RefusedEnds ==
    ASSUME JobsInv, CycleFails
    PROVE  Ended(JobCall)
<1>1. /\ StoreFits /\ InventoryFits /\ JobCall[1] = job.kind /\ JobCall[2] = job.of /\ JobPages = DOMAIN job.of
  BY JobIsFit DEF CycleFails
<1>2. CASE job.kind \in {"relation", "packing"} /\ ~StillCurrent
  <2>1. PICK p \in JobPages : ~(pages[p].shown /\ pages[p].head = job.of[p]) BY <1>2 DEF StillCurrent
  <2>2. p \notin Shown \/ pages[p].head # job.of[p] BY <2>1 DEF Shown
  <2> QED BY <1>1, <1>2, <2>1, <2>2 DEF Ended, MovedOn, Undoable
<1>3. CASE /\ job.kind = "summary"
           /\ \E p \in JobPages : \/ ~pages[p].shown
                                  \/ job.with # (IF p \in DOMAIN summaries THEN summaries[p] ELSE 0)
  <2>1. PICK p \in JobPages : ~pages[p].shown \/ job.with # SummaryOf(p) BY <1>3 DEF SummaryOf
  <2>2. CASE ~pages[p].shown
    <3>1. p \notin Shown BY <2>2 DEF Shown
    <3> QED BY <1>1, <1>3, <2>1, <3>1 DEF Ended, MovedOn, Undoable
  <2>3. CASE job.with # SummaryOf(p)
    <3>1. p \in DOMAIN inventory /\ job.with = inventory[p].summary
      BY <1>1, <1>3, <2>1 DEF JobsInv, JobFits, CycleFails
    <3>2. p \in paid.undone BY <1>1, <2>3, <3>1 DEF InventoryFits
    <3> QED BY <1>1, <1>3, <2>1, <3>2 DEF Ended, Excused, Undoable
  <2> QED BY <2>1, <2>2, <2>3
<1> QED BY <1>2, <1>3 DEF CycleFails

LEMMA CycleFailsKeeps ==
    ASSUME JobsAssumption, JobsInv, CycleFails
    PROVE  JobsInv'
<1>1. /\ job # NoJob /\ job' = NoJob /\ cycle' = [cycle EXCEPT !.phase = "idle"]
      /\ UNCHANGED <<store, ledger, inventory, paid>>
  BY DEF CycleFails
<1>2. /\ StoreFits /\ TablesFit /\ CallsFit /\ InventoryFits /\ CycleFits
      /\ UNCHANGED <<pages, summaries, assessed, leases, keys, used, ledger, inventory, paid>>
  BY <1>1 DEF JobsInv, store
<1>3. StoreFits' /\ StoreGrows BY <1>2, NothingMoves
<1>4. TablesFit' /\ \A p : SummaryOf(p)' = SummaryOf(p) BY <1>2, <1>3, TablesStay
<1>5. CallsFit' BY <1>2, <1>3, CallStays DEF CallsFit
<1>6. InventoryFits' BY <1>2, <1>3, <1>4, InventoryStays
<1>7. /\ DOMAIN cycle' = DOMAIN cycle /\ cycle'.phase = "idle" /\ cycle'.jobs = cycle.jobs
      /\ cycle'.turns = cycle.turns
  BY <1>1, <1>2 DEF CycleFits
<1>8. CycleFits' BY <1>2, <1>7 DEF CycleFits
<1>9. JobFits' /\ ~Between' BY <1>1, <1>7 DEF JobFits, Between
<1>10. \A c \in paid.once : Ended(c)'
  <2>1. SUFFICES ASSUME NEW c \in paid.once PROVE Ended(c)' OBVIOUS
  <2>2. Ended(c) BY RefusedEnds DEF JobsInv, PaidFor
  <2>3. CallFits(c) /\ SummaryStays(c) BY <1>2, SummariesStay DEF CallsFit
  <2> QED BY <1>2, <1>3, <2>2, <2>3, EndedStays
<1>11. PaidFor' BY <1>2, <1>9, <1>10 DEF PaidFor
<1>12. \A k \in keys : k[1] = "packing" => k[2] \subseteq DOMAIN pages' /\ Packs(k[2])'
  <2>1. SUFFICES ASSUME NEW k \in keys, k[1] = "packing" PROVE k[2] \subseteq DOMAIN pages' /\ Packs(k[2])'
    OBVIOUS
  <2>2. k[2] \subseteq DOMAIN pages /\ Packs(k[2]) BY <2>1 DEF JobsInv, KeysFit
  <2> QED BY <1>2, <1>3, <2>2, PacksStay
<1>13. KeysFit'
  <2>1. \A c : KeyOf(c)' = KeyOf(c) BY DEF KeyOf
  <2> QED BY <1>1, <1>2, <1>9, <1>12, <2>1 DEF JobsInv, KeysFit
<1>14. AgainExcused' BY <1>2, <1>3, ExcuseStays DEF JobsInv, AgainExcused
<1> QED BY <1>3, <1>4, <1>5, <1>6, <1>8, <1>9, <1>11, <1>13, <1>14 DEF JobsInv

-----------------------------------------------------------------------------
(* Every step                                                              *)

LEMMA StutterKeeps ==
    ASSUME JobsInv, UNCHANGED jobVars
    PROVE  JobsInv'
<1>1. UNCHANGED <<pages, summaries, assessed, leases, keys, used, maintenance, paid>>
  BY DEF jobVars, maintenance
<1>2. StoreFits /\ TablesFit BY DEF JobsInv
<1>3. StoreFits' /\ StoreGrows BY <1>1, <1>2, NothingMoves
<1>4. TablesFit' /\ \A p : SummaryOf(p)' = SummaryOf(p) BY <1>1, <1>2, <1>3, TablesStay
<1> QED BY <1>1, <1>3, <1>4, BesideKeeps

\* Answers are only given to a job: "none" is no kind of one.
LEMMA AnswersAreOfJobs ==
    ASSUME MarkAssessed \/ WriteSummary \/ PackPages \/ CommitRelation \/ PutLeases
    PROVE  job # NoJob
<1>1. job.kind \in {"summary", "packing", "relation", "retention"}
  BY DEF MarkAssessed, WriteSummary, PackPages, CommitRelation, PutLeases
<1> QED BY <1>1 DEF NoJob

LEMMA NextKeeps ==
    ASSUME JobsAssumption, JobsInv, [JobsNext]_jobVars
    PROVE  JobsInv'
<1>1. ASSUME NEW p \in DOMAIN pages, Revise(p) \/ Withdraw(p) \/ Unpack(p) \/ DeleteSummary(p)
      PROVE  JobsInv'
  BY <1>1, ReviseKeeps, WithdrawKeeps, UnpackKeeps, DeleteSummaryKeeps
<1>2. CASE StartCycle
  <2>1. cycle.phase = "idle" BY <1>2 DEF StartCycle
  <2> QED BY <1>2, <2>1, StartCycleKeeps
<1>3. ASSUME NEW w \in Selectable(Kind), Select(w) \/ AllPairsExcluded(w)
      PROVE  JobsInv'
  BY <1>3, SelectKeeps, AllPairsExcludedKeeps
<1>4. CASE Pass BY <1>4, PassKeeps
<1>5. CASE Record BY <1>5, RecordKeeps
<1>6. CASE MarkAssessed BY <1>6, MarkAssessedKeeps, AnswersAreOfJobs
<1>7. CASE Propose BY <1>7, ProposeKeeps
<1>8. CASE WriteSummary BY <1>8, WriteSummaryKeeps, AnswersAreOfJobs
<1>9. CASE PackPages BY <1>9, PackPagesKeeps, AnswersAreOfJobs
<1>10. CASE CommitRelation BY <1>10, CommitRelationKeeps, AnswersAreOfJobs
<1>11. CASE PutLeases BY <1>11, PutLeasesKeeps, AnswersAreOfJobs
<1>12. CASE CycleFails BY <1>12, CycleFailsKeeps
<1>13. CASE UNCHANGED jobVars BY <1>13, StutterKeeps
<1> QED BY <1>1, <1>2, <1>3, <1>4, <1>5, <1>6, <1>7, <1>8, <1>9, <1>10, <1>11, <1>12, <1>13 DEF JobsNext

\* Every call that was paid for is over, and the inventory of a cycle offers no window
\* of one, whatever tenants and operators do between its jobs (maintenance/coordinator.rs).
THEOREM JobsInvariant ==
    ASSUME JobsAssumption
    PROVE  JobsSpec => []JobsInv
<1>1. JobsInit => JobsInv BY JobsStart
<1>2. JobsInv /\ [JobsNext]_jobVars => JobsInv' BY NextKeeps
<1> QED BY <1>1, <1>2, PTL DEF JobsSpec

\* Whatever the cycle packs while tenants write and operators unpack, the shown Pages
\* of the stream hold each source once, and summaries and leases are of Revisions that
\* exist (pack_pages, unpack_page, write_summary and put_lease).
THEOREM JobsAreTyped ==
    ASSUME JobsAssumption
    PROVE  JobsSpec => []JobsTypeOK
<1>1. JobsInv => JobsTypeOK
  <2> SUFFICES ASSUME JobsInv PROVE JobsTypeOK OBVIOUS
  <2>1. \A p, q \in DOMAIN pages :
           /\ pages[p].head \in 1 .. used.rev /\ pages[p].head \notin pages[p].past
           /\ p # q => ({pages[p].head} \cup pages[p].past) \cap ({pages[q].head} \cup pages[q].past) = {}
           /\ p # q /\ {p, q} \subseteq Shown => pages[p].span \cap pages[q].span = {}
    <3>1. SUFFICES ASSUME NEW p \in DOMAIN pages, NEW q \in DOMAIN pages
                   PROVE  /\ pages[p].head \in 1 .. used.rev /\ pages[p].head \notin pages[p].past
                          /\ p # q => Revs(p) \cap Revs(q) = {}
                          /\ p # q /\ {p, q} \subseteq Shown => pages[p].span \cap pages[q].span = {}
      BY DEF Revs
    <3>2. /\ pages[p].head \in 1 .. used.rev /\ used.rev \in Nat
          /\ \A r \in pages[p].past : r \in Nat /\ r < pages[p].head
          /\ p # q => Revs(p) \cap Revs(q) = {}
      BY DEF JobsInv, StoreFits, PagesFit
    <3>3. pages[p].head \notin pages[p].past BY <3>2
    <3>4. p # q /\ {p, q} \subseteq Shown => pages[p].span \cap pages[q].span = {}
      BY DEF JobsInv, StoreFits, SpansFit
    <3> QED BY <3>2, <3>3, <3>4
  <2>2. /\ DOMAIN pages = 1 .. used.page /\ DOMAIN summaries \subseteq DOMAIN pages
        /\ \A p \in DOMAIN summaries : summaries[p] \in {pages[p].head} \cup pages[p].past
        /\ leases \subseteq UNION {pages[p].past : p \in DOMAIN pages}
    BY DEF JobsInv, StoreFits, PagesFit, TablesFit, Revs
  <2>3. cycle.jobs \in 0 .. MaxJobs /\ cycle.turns \in 0 .. 4 /\ (job # NoJob => cycle.jobs > 0)
    BY DEF JobsInv, CycleFits, JobFits
  <2> QED BY <2>1, <2>2, <2>3 DEF JobsTypeOK
<1> QED BY <1>1, JobsInvariant, PTL

\* No window is paid for twice with the same Revisions, except where an operator undid
\* what came of it or the Page was not worth a summary: the records of the ledger, the
\* heads and the summaries of the store end every other call (the select_ and commit
\* paths of maintenance/coordinator.rs).
THEOREM PaidTwiceOnlyWhenExcused ==
    ASSUME JobsAssumption
    PROVE  JobsSpec => []PaidTwiceWhenExcused
<1>1. JobsInv => PaidTwiceWhenExcused
  BY DEF JobsInv, AgainExcused, Excused, Undoable, PaidTwiceWhenExcused
<1> QED BY <1>1, JobsInvariant, PTL

-----------------------------------------------------------------------------
(* TopicDiscovery: evidence and the editions it is about                   *)

Cited == SourcePages \X Nat
SourceScopes == {Scope[p] : p \in SourcePages}
Drafts == [from : SUBSET Cited, scope : SourceScopes, target : Nat, at : Nat]
Editions == [rev : Nat, from : SUBSET SourcePages, scope : SourceScopes]
Proposals == [evidence : Drafts, status : {"pending", "accepted", "rejected", "stale"},
              approved : BOOLEAN]
Queue == Seq(Proposals)

\* A draft stays within the Scope it goes to, unless it may cross Scopes.
InScope(e) == CrossScope \/ \A p \in PagesOf(e.from) : Scope[p] = e.scope

\* A draft that refreshes the Topic as it is has all of its sources.
Covers(e) ==
    e.target # None =>
        /\ e.target \in DOMAIN topics /\ e.at <= topics[e.target].rev
        /\ e.at = topics[e.target].rev => topics[e.target].from \subseteq PagesOf(e.from)
Fitting == {e \in Drafts : InScope(e) /\ Covers(e)}

\* Topics as they were read some time before.
Offers ==
    {o \in Seq(Editions) :
        /\ DOMAIN o \subseteq DOMAIN topics
        /\ \A t \in DOMAIN o :
              /\ o[t].rev <= topics[t].rev
              /\ o[t].rev = topics[t].rev => o[t] = topics[t]}

\* Topics are not taken away, and an edition is not written again.
TopicsGrow ==
    \A t \in DOMAIN topics :
        t \in DOMAIN topics' /\ (topics'[t] = topics[t] \/ topics'[t].rev > topics[t].rev)

LEMMA CitedPages ==
    ASSUME NEW S \in SUBSET Cited
    PROVE  PagesOf(S) \in SUBSET SourcePages
BY DEF Cited, PagesOf

LEMMA EditionTyped ==
    ASSUME NEW o \in Seq(Editions), NEW t \in DOMAIN o
    PROVE  /\ o[t] \in Editions /\ t \in Nat \ {0}
           /\ o[t].rev \in Nat /\ o[t].from \in SUBSET SourcePages /\ o[t].scope \in SourceScopes
<1>1. o[t] \in Editions /\ t \in Nat \ {0} OBVIOUS
<1> QED BY <1>1 DEF Editions

LEMMA DraftStays ==
    ASSUME topics \in Seq(Editions), topics' \in Seq(Editions), TopicsGrow,
           NEW e, e \in Fitting
    PROVE  e \in Fitting'
<1>1. e \in Drafts /\ InScope(e) BY DEF Fitting
<1>2. Covers(e)'
  <2>1. SUFFICES ASSUME e.target # None
                 PROVE  /\ e.target \in DOMAIN topics' /\ e.at <= topics'[e.target].rev
                        /\ e.at = topics'[e.target].rev =>
                              topics'[e.target].from \subseteq PagesOf(e.from)
    BY DEF Covers
  <2> DEFINE t == e.target
  <2>2. /\ t \in DOMAIN topics /\ e.at <= topics[t].rev
        /\ e.at = topics[t].rev => topics[t].from \subseteq PagesOf(e.from)
    BY <2>1 DEF Fitting, Covers
  <2>3. t \in DOMAIN topics' /\ (topics'[t] = topics[t] \/ topics'[t].rev > topics[t].rev)
    BY <2>2 DEF TopicsGrow
  <2>4. topics[t].rev \in Nat /\ topics'[t].rev \in Nat /\ e.at \in Nat
    BY <1>1, <2>2, <2>3, EditionTyped DEF Drafts
  <2>5. CASE topics'[t] = topics[t] BY <2>2, <2>3, <2>5
  <2>6. CASE topics'[t].rev > topics[t].rev
    <3>1. e.at <= topics'[t].rev /\ e.at # topics'[t].rev BY <2>2, <2>4, <2>6
    <3> QED BY <2>3, <3>1
  <2> QED BY <2>3, <2>5, <2>6
<1> QED BY <1>1, <1>2 DEF Fitting, InScope, PagesOf

LEMMA OfferStays ==
    ASSUME topics \in Seq(Editions), topics' \in Seq(Editions), TopicsGrow,
           NEW o, o \in Offers
    PROVE  o \in Offers'
<1>1. o \in Seq(Editions) /\ DOMAIN o \subseteq DOMAIN topics' BY DEF Offers, TopicsGrow
<1>2. ASSUME NEW t \in DOMAIN o
      PROVE  o[t].rev <= topics'[t].rev /\ (o[t].rev = topics'[t].rev => o[t] = topics'[t])
  <2>1. t \in DOMAIN topics /\ o[t].rev <= topics[t].rev /\ (o[t].rev = topics[t].rev => o[t] = topics[t])
    BY DEF Offers
  <2>2. t \in DOMAIN topics' /\ (topics'[t] = topics[t] \/ topics'[t].rev > topics[t].rev)
    BY <2>1 DEF TopicsGrow
  <2>3. o[t].rev \in Nat /\ topics[t].rev \in Nat /\ topics'[t].rev \in Nat
    BY <1>1, <2>1, <2>2, EditionTyped
  <2>4. CASE topics'[t] = topics[t] BY <2>1, <2>4
  <2>5. CASE topics'[t].rev > topics[t].rev
    <3>1. o[t].rev <= topics'[t].rev /\ o[t].rev # topics'[t].rev BY <2>1, <2>3, <2>5
    <3> QED BY <3>1
  <2> QED BY <2>2, <2>4, <2>5
<1> QED BY <1>1, <1>2 DEF Offers

\* What a model may draft of Pages it was shown and Topics it was offered.
LEMMA DraftedFits ==
    ASSUME TopicAssumption, NEW S \in SUBSET Cited, NEW present \in SUBSET Cited,
           NEW o, o \in Offers, NEW named \in {None} \cup DOMAIN o,
           NEW e \in Drafted(S, o, present, named)
    PROVE  e \in Fitting
<1>1. PICK t \in Target(PagesOf(S), o, named) :
        LET old == IF t = None THEN {} ELSE o[t].from
            from == S \cup {x \in present : x[1] \in old \ PagesOf(S)}
            scopes == {Scope[p] : p \in PagesOf(from)}
            into == IF t = None THEN scopes ELSE {o[t].scope}
        IN  e \in (IF old \subseteq PagesOf(from) /\ Cardinality(into) = 1
                      /\ (scopes = into \/ CrossScope)
                   THEN {[from |-> from, scope |-> CHOOSE s \in into : TRUE,
                          target |-> t, at |-> IF t = None THEN 0 ELSE o[t].rev]}
                   ELSE {})
  BY DEF Drafted
<1> DEFINE old == IF t = None THEN {} ELSE o[t].from
           from == S \cup {x \in present : x[1] \in old \ PagesOf(S)}
           scopes == {Scope[p] : p \in PagesOf(from)}
           into == IF t = None THEN scopes ELSE {o[t].scope}
<1>2. /\ old \subseteq PagesOf(from) /\ Cardinality(into) = 1 /\ (scopes = into \/ CrossScope)
      /\ e = [from |-> from, scope |-> CHOOSE s \in into : TRUE,
              target |-> t, at |-> IF t = None THEN 0 ELSE o[t].rev]
  BY <1>1
<1>3. t = None \/ t \in DOMAIN o BY <1>1 DEF Target
<1>4. o \in Seq(Editions) BY DEF Offers
<1>5. t # None => o[t] \in Editions /\ t \in Nat BY <1>3, <1>4
<1>6. from \in SUBSET Cited OBVIOUS
<1>7. PagesOf(from) \in SUBSET SourcePages BY <1>6, CitedPages
<1>8. scopes \subseteq SourceScopes BY <1>7 DEF SourceScopes
<1>9. IsFiniteSet(into)
  <2>1. IsFiniteSet(PagesOf(from)) BY <1>7, FS_Subset DEF TopicAssumption
  <2>2. IsFiniteSet(scopes)
    <3> DEFINE f == [p \in PagesOf(from) |-> Scope[p]]
    <3>1. f \in Surjection(PagesOf(from), scopes) BY DEF Surjection
    <3> QED BY <2>1, <3>1, FS_Surjection
  <2> QED BY <2>2, FS_Singleton
<1>10. PICK x : into = {x} BY <1>2, <1>9, FS_Singleton
<1>11. x \in SourceScopes
  <2>1. CASE t = None BY <2>1, <1>8, <1>10
  <2>2. CASE t # None BY <2>2, <1>5, <1>10 DEF Editions
  <2> QED BY <2>1, <2>2
<1>12. e.scope = x /\ e.from = from /\ e.target = t /\ e.at = (IF t = None THEN 0 ELSE o[t].rev)
  BY <1>2, <1>10
<1>13. e \in Drafts
  <2>1. t \in Nat /\ (IF t = None THEN 0 ELSE o[t].rev) \in Nat
    BY <1>3, <1>5 DEF Editions, None
  <2> QED BY <1>2, <1>6, <1>11, <1>12, <2>1 DEF Drafts
<1>14. InScope(e)
  <2>1. CASE CrossScope BY <2>1 DEF InScope
  <2>2. CASE scopes = into
    <3>1. \A p \in PagesOf(from) : Scope[p] = x BY <2>2, <1>10
    <3> QED BY <3>1, <1>12 DEF InScope
  <2> QED BY <1>2, <2>1, <2>2
<1>15. Covers(e)
  <2>1. CASE t = None BY <2>1, <1>12 DEF Covers
  <2>2. CASE t # None
    <3>1. t \in DOMAIN o BY <2>2, <1>3
    <3>2. t \in DOMAIN topics /\ o[t].rev <= topics[t].rev /\ (o[t].rev = topics[t].rev => o[t] = topics[t])
      BY <3>1 DEF Offers
    <3>3. o[t].from \subseteq PagesOf(from) BY <1>2, <2>2
    <3> QED BY <3>2, <3>3, <2>2, <1>12 DEF Covers
  <2> QED BY <2>1, <2>2
<1> QED BY <1>13, <1>14, <1>15 DEF Fitting
-----------------------------------------------------------------------------
(* The invariant                                                           *)

TopicJobFits ==
    /\ topicJob.step \in {"idle", "extract", "verify", "enqueue", "apply", "wait"}
    /\ topicJob.step = "extract" =>
          topicJob.window \subseteq Cited /\ topicJob.present \subseteq Cited /\ topicJob.offered \in Offers
    /\ topicJob.step \in {"verify", "enqueue", "apply", "wait"} => topicJob.evidence \in Fitting
    /\ topicJob.step \in {"enqueue", "apply", "wait"} => DOMAIN topicJob = {"step", "evidence", "verdict"}

\* What is being applied is an item that waits.
HandFits ==
    /\ hand = Idle \/ hand \in [step : {"write"}, item : DOMAIN items, by : {"job", "operator"}]
    /\ hand # Idle => items[hand.item].status = "pending"
    /\ topicJob.step = "wait" <=> hand # Idle /\ hand.by = "job"

TopicsFit ==
    /\ topics \in Seq(Editions)
    /\ \A t \in DOMAIN topics : topics[t].from # {} =>
          CrossScope \/ \A p \in topics[t].from : Scope[p] = topics[t].scope

QueueFits ==
    /\ items \in Queue
    /\ \A i \in DOMAIN items : items[i].evidence \in Fitting
    /\ draft \subseteq Fitting

SourcesFit == sources \in [SourcePages -> [rev : Nat, shown : BOOLEAN]]

TopicInv ==
    /\ SourcesFit /\ TopicsFit /\ QueueFits /\ TopicJobFits /\ HandFits /\ EvidenceOnce

LEMMA IdleHand == Idle.step = "idle" /\ Idle \notin [step : {"write"}, item : DOMAIN items, by : {"job", "operator"}]
BY DEF Idle

LEMMA TopicStart ==
    ASSUME TopicAssumption, TopicInit
    PROVE  TopicInv
<1>1. SourcesFit BY DEF TopicInit, SourcesFit
<1>2. TopicsFit BY DEF TopicInit, TopicsFit
<1>3. QueueFits BY DEF TopicInit, QueueFits, Queue
<1>4. TopicJobFits /\ HandFits BY DEF TopicInit, TopicJobFits, HandFits, Idle
<1>5. EvidenceOnce BY DEF TopicInit, EvidenceOnce
<1> QED BY <1>1, <1>2, <1>3, <1>4, <1>5 DEF TopicInv

LEMMA CurrentCited ==
    ASSUME SourcesFit
    PROVE  Current \in SUBSET Cited
BY DEF SourcesFit, Current, Cited

LEMMA OffersStand ==
    ASSUME UNCHANGED topics
    PROVE  Fitting' = Fitting /\ Offers' = Offers
BY DEF Fitting, InScope, Covers, Offers, PagesOf

\* Steps that leave the Topics and the queue as they are.
LEMMA WaitingStep ==
    ASSUME TopicInv, UNCHANGED <<topics, items, hand>>, SourcesFit', TopicJobFits',
           draft' \subseteq Fitting,
           topicJob'.step = "wait" <=> topicJob.step = "wait"
    PROVE  TopicInv'
<1>1. TopicsFit' BY DEF TopicInv, TopicsFit
<1>2. Fitting' = Fitting BY OffersStand
<1>3. QueueFits' BY <1>2 DEF TopicInv, QueueFits
<1>4. HandFits' BY DEF TopicInv, HandFits
<1>5. EvidenceOnce' BY DEF TopicInv, EvidenceOnce, Standing
<1> QED BY <1>1, <1>3, <1>4, <1>5 DEF TopicInv

LEMMA JobSteps ==
    ASSUME TopicAssumption, TopicInv,
           \/ \E V \in TopicWindows(FALSE) : StartJob(V)
           \/ NoDraft \/ VerifyFails
           \/ topicJob # Idle /\ topicJob.step = "extract" /\
              \E S \in Drawn(topicJob.window), named \in {None} \cup DOMAIN topicJob.offered : Extract(S, named)
           \/ \E verdict \in {"approve", "needs_review", "no_change"} : Verify(verdict)
    PROVE  TopicInv'
<1>1. /\ UNCHANGED <<sources, topics, items, draft, hand>>
      /\ topicJob.step \in {"idle", "extract", "verify"}
  <2>1. ASSUME NEW W, StartJob(W) PROVE <1>1
    BY <2>1 DEF StartJob, reviewVars, Idle
  <2>2. ASSUME NoDraft \/ VerifyFails PROVE <1>1
    BY <2>2 DEF NoDraft, VerifyFails, reviewVars
  <2>3. ASSUME NEW S, NEW named, Extract(S, named) PROVE <1>1
    BY <2>3 DEF Extract, reviewVars
  <2>4. ASSUME NEW verdict, Verify(verdict) PROVE <1>1
    BY <2>4 DEF Verify, reviewVars
  <2> QED BY <2>1, <2>2, <2>3, <2>4
<1>2. SourcesFit' BY <1>1 DEF TopicInv, SourcesFit
<1>3. draft' \subseteq Fitting BY <1>1 DEF TopicInv, QueueFits
<1>4. topicJob.step # "wait" BY <1>1
<1>5. topics \in Seq(Editions) BY DEF TopicInv, TopicsFit
<1>6. TopicJobFits' /\ topicJob'.step # "wait"
  <2>1. CASE \E W \in TopicWindows(FALSE) : StartJob(W)
    <3>1. PICK W \in TopicWindows(FALSE) : StartJob(W) BY <2>1
    <3>2. Current \in SUBSET Cited BY CurrentCited DEF TopicInv
    <3>3. W \subseteq Current BY <3>1 DEF TopicWindows
    <3>4. topics \in Offers
      <4>1. \A t \in DOMAIN topics : topics[t].rev <= topics[t].rev BY <1>5, EditionTyped
      <4> QED BY <1>5, <4>1 DEF Offers
    <3>5. topicJob' = [step |-> "extract", window |-> W, present |-> Current, offered |-> topics]
      BY <3>1 DEF StartJob
    <3>6. topics \in Offers' BY <3>4, <1>1, OffersStand
    <3> QED BY <1>1, <3>2, <3>3, <3>5, <3>6 DEF TopicJobFits
  <2>2. CASE NoDraft \/ VerifyFails
    BY <2>2 DEF NoDraft, VerifyFails, EndJob, TopicJobFits, Idle
  <2>3. CASE topicJob.step = "extract" /\
             \E S \in Drawn(topicJob.window), named \in {None} \cup DOMAIN topicJob.offered : Extract(S, named)
    <3>1. PICK S \in Drawn(topicJob.window), named \in {None} \cup DOMAIN topicJob.offered : Extract(S, named)
      BY <2>3
    <3>2. PICK e \in Drafted(S, topicJob.offered, topicJob.present, named) :
            IF e \in known \/ ~Accumulated(e.from) THEN EndJob
            ELSE topicJob' = [step |-> "verify", offered |-> topicJob.offered, evidence |-> e]
      BY <3>1 DEF Extract
    <3>3. topicJob.window \subseteq Cited /\ topicJob.present \subseteq Cited /\ topicJob.offered \in Offers
      BY <2>3 DEF TopicInv, TopicJobFits
    <3>4. S \in SUBSET Cited BY <3>3 DEF Drawn
    <3>5. e \in Fitting BY <3>3, <3>4, DraftedFits
    <3>6. e \in Fitting' BY <3>5, <1>1, OffersStand
    <3>7. CASE topicJob' = Idle BY <3>7 DEF TopicJobFits, Idle
    <3>8. CASE topicJob' = [step |-> "verify", offered |-> topicJob.offered, evidence |-> e]
      BY <3>6, <3>8 DEF TopicJobFits
    <3> QED BY <3>2, <3>7, <3>8 DEF EndJob
  <2>4. CASE \E verdict \in {"approve", "needs_review", "no_change"} : Verify(verdict)
    <3>1. PICK verdict \in {"approve", "needs_review", "no_change"} : Verify(verdict) BY <2>4
    <3>2. topicJob.step = "verify" /\ topicJob' = [step |-> "enqueue", evidence |-> topicJob.evidence, verdict |-> verdict]
      BY <3>1 DEF Verify
    <3>3. topicJob.evidence \in Fitting BY <3>2 DEF TopicInv, TopicJobFits
    <3>5. Fitting' = Fitting BY <1>1, OffersStand
    <3> QED BY <3>2, <3>3, <3>5 DEF TopicJobFits
  <2> QED BY <2>1, <2>2, <2>3, <2>4
<1> QED BY <1>1, <1>2, <1>3, <1>4, <1>6, WaitingStep
-----------------------------------------------------------------------------
(* The queue                                                               *)

LEMMA ItemTyped ==
    ASSUME items \in Queue, NEW i \in DOMAIN items
    PROVE  /\ items[i].evidence \in Drafts /\ items[i].approved \in BOOLEAN
           /\ items[i].status \in {"pending", "accepted", "rejected", "stale"}
           /\ i \in Nat \ {0}
<1>1. items[i] \in Proposals /\ i \in Nat \ {0} BY DEF Queue
<1> QED BY <1>1 DEF Proposals

\* A draft that is not in the queue yet.
LEMMA QueuedOnce ==
    ASSUME items \in Queue, EvidenceOnce, \A i \in DOMAIN items : items[i].evidence \in Fitting,
           NEW e, e \in Fitting, e \notin Reviewed,
           NEW status \in {"pending", "rejected"}, NEW approved \in BOOLEAN,
           items' = Queued(e, status, approved), UNCHANGED topics
    PROVE  /\ items' \in Queue /\ EvidenceOnce'
           /\ DOMAIN items' = 1 .. (Len(items) + 1)
           /\ \A i \in DOMAIN items' : items'[i].evidence \in Fitting'
           /\ items'[Len(items) + 1] = [evidence |-> e, status |-> status, approved |-> approved]
           /\ \A i \in DOMAIN items : i \in DOMAIN items' /\ items'[i] = items[i]
<1> DEFINE new == [evidence |-> e, status |-> status, approved |-> approved]
<1>1. new \in Proposals BY DEF Fitting, Proposals
<1>2. items' = Append(items, new) BY DEF Queued
<1>3. /\ items' \in Queue /\ DOMAIN items = 1 .. Len(items) /\ Len(items) \in Nat
      /\ DOMAIN items' = 1 .. (Len(items) + 1) /\ items'[Len(items) + 1] = new
      /\ \A i \in DOMAIN items : i \in DOMAIN items' /\ items'[i] = items[i]
  BY <1>1, <1>2 DEF Queue
<1>4. \A i \in DOMAIN items' : i = Len(items) + 1 \/ i \in DOMAIN items BY <1>3
<1>5. Fitting' = Fitting BY OffersStand
<1>6. \A i \in DOMAIN items' : items'[i].evidence \in Fitting' BY <1>3, <1>4, <1>5
<1>7. \A i \in DOMAIN items : Standing(i) => items[i].evidence # e
  <2>1. ASSUME NEW i \in DOMAIN items, Standing(i) PROVE items[i].evidence \in Reviewed
    BY <2>1 DEF Reviewed
  <2> QED BY <2>1
<1>8. \A i \in DOMAIN items : Standing(i)' <=> Standing(i) BY <1>3 DEF Standing
<1>9. EvidenceOnce'
  <2>1. SUFFICES ASSUME NEW i \in DOMAIN items', NEW j \in DOMAIN items', Standing(i)', Standing(j)', i # j
                 PROVE  items'[i].evidence # items'[j].evidence
    BY DEF EvidenceOnce
  <2>2. CASE i \in DOMAIN items /\ j \in DOMAIN items BY <2>1, <2>2, <1>3, <1>8 DEF EvidenceOnce
  <2>3. CASE i = Len(items) + 1 /\ j \in DOMAIN items BY <2>1, <2>3, <1>3, <1>7, <1>8
  <2>4. CASE j = Len(items) + 1 /\ i \in DOMAIN items BY <2>1, <2>4, <1>3, <1>7, <1>8
  <2> QED BY <2>1, <2>2, <2>3, <2>4, <1>4
<1> QED BY <1>3, <1>6, <1>9

\* Statuses change, and nothing that was stale stands again.
Restated ==
    /\ items' \in Queue /\ DOMAIN items' = DOMAIN items
    /\ \A i \in DOMAIN items :
          items'[i].evidence = items[i].evidence /\ (items'[i].status # "stale" => items[i].status # "stale")

LEMMA RestatedOnce ==
    ASSUME Restated, EvidenceOnce
    PROVE  EvidenceOnce'
BY DEF Restated, EvidenceOnce, Standing

LEMMA StatusRestated ==
    ASSUME items \in Queue, NEW i \in DOMAIN items, items[i].status # "stale",
           NEW status \in {"accepted", "rejected"}, items' = [items EXCEPT ![i].status = status]
    PROVE  /\ Restated
           /\ \A j \in DOMAIN items : j # i => items'[j] = items[j]
<1>1. items[i] \in Proposals BY DEF Queue
<1>2. [items[i] EXCEPT !.status = status] \in Proposals BY <1>1 DEF Proposals
<1>3. items' = [items EXCEPT ![i] = [items[i] EXCEPT !.status = status]] OBVIOUS
<1>4. items' \in Seq(Proposals) /\ DOMAIN items' = DOMAIN items BY <1>2, <1>3 DEF Queue
<1>5. [items[i] EXCEPT !.status = status].evidence = items[i].evidence BY <1>1 DEF Proposals
<1>6. \A j \in DOMAIN items : items'[j] = IF j = i THEN [items[i] EXCEPT !.status = status] ELSE items[j]
  BY <1>3 DEF Queue
<1> QED BY <1>4, <1>5, <1>6 DEF Restated, Queue

LEMMA RefreshRestates ==
    ASSUME items \in Queue, RefreshReviews
    PROVE  Restated
<1>1. PICK R \in SUBSET DOMAIN items :
        items' = [i \in DOMAIN items |-> IF i \in R THEN [items[i] EXCEPT !.status = "stale"] ELSE items[i]]
  <2> DEFINE Pending(i) == items[i].status = "pending"
             Retired(i) == Pending(i) /\ (\/ ~Fresh(items[i].evidence)
                                          \/ \E j \in 1 .. i - 1 :
                                                Pending(j) /\ items[j].evidence = items[i].evidence)
             R == {i \in DOMAIN items : Retired(i)}
  <2>1. items' = [i \in DOMAIN items |-> IF Retired(i) THEN [items[i] EXCEPT !.status = "stale"] ELSE items[i]]
    BY DEF RefreshReviews
  <2> HIDE DEF Retired
  <2>2. items' = [i \in DOMAIN items |-> IF i \in R THEN [items[i] EXCEPT !.status = "stale"] ELSE items[i]]
    BY <2>1
  <2> QED BY <2>2
<1>2. \A i \in DOMAIN items : items[i] \in Proposals BY DEF Queue
<1>3. \A i \in DOMAIN items :
        /\ [items[i] EXCEPT !.status = "stale"] \in Proposals
        /\ [items[i] EXCEPT !.status = "stale"].evidence = items[i].evidence
        /\ [items[i] EXCEPT !.status = "stale"].status = "stale"
  BY <1>2 DEF Proposals
<1>4. \A i \in DOMAIN items :
        items'[i] \in Proposals /\ items'[i].evidence = items[i].evidence
        /\ (items'[i].status # "stale" => items[i].status # "stale")
  BY <1>1, <1>2, <1>3
<1>5. DOMAIN items' = DOMAIN items /\ DOMAIN items = 1 .. Len(items) /\ Len(items) \in Nat
  BY <1>1 DEF Queue
<1>6. items' \in Seq(Proposals)
  <2>1. items' \in [1 .. Len(items) -> Proposals] BY <1>1, <1>4, <1>5
  <2> QED BY <2>1, <1>5
<1> QED BY <1>4, <1>5, <1>6 DEF Restated, Queue
-----------------------------------------------------------------------------
(* The steps                                                               *)

\* A step that leaves the Topics alone.
LEMMA QueueStep ==
    ASSUME TopicInv, UNCHANGED <<sources, topics>>,
           items' \in Queue, \A i \in DOMAIN items' : items'[i].evidence \in Fitting',
           draft' \subseteq Fitting',
           TopicJobFits', HandFits', EvidenceOnce'
    PROVE  TopicInv'
<1>1. TopicsFit' /\ SourcesFit' BY DEF TopicInv, TopicsFit, SourcesFit
<1> QED BY <1>1 DEF TopicInv, QueueFits

\* The drafts of the queue, when only their statuses change.
LEMMA RestatedFits ==
    ASSUME TopicInv, Restated, UNCHANGED <<topics, draft>>
    PROVE  /\ items' \in Queue /\ \A i \in DOMAIN items' : items'[i].evidence \in Fitting'
           /\ draft' \subseteq Fitting'
           /\ EvidenceOnce'
<1>1. EvidenceOnce' BY RestatedOnce DEF TopicInv
<1>2. Fitting' = Fitting BY OffersStand
<1>3. draft' \subseteq Fitting' BY <1>2 DEF TopicInv, QueueFits
<1>4. \A i \in DOMAIN items' : items'[i].evidence \in Fitting' BY <1>2 DEF TopicInv, QueueFits, Restated
<1> QED BY <1>1, <1>3, <1>4 DEF Restated

\* A job, or none, where the Topics stay.
LEMMA JobStays ==
    ASSUME TopicJobFits, UNCHANGED <<topics, topicJob>>
    PROVE  TopicJobFits'
<1>1. Offers' = Offers BY OffersStand
<1>2. Fitting' = Fitting BY OffersStand
<1> QED BY <1>1, <1>2 DEF TopicJobFits

LEMMA JobEnds ==
    ASSUME topicJob' = Idle
    PROVE  TopicJobFits' /\ topicJob'.step # "wait"
BY DEF TopicJobFits, Idle

LEMMA EnqueueStep ==
    ASSUME TopicInv, Enqueue
    PROVE  TopicInv'
<1> DEFINE e == topicJob.evidence
           approved == topicJob.verdict = "approve"
<1>1. topicJob.step = "enqueue" /\ hand = Idle /\ UNCHANGED <<sources, topics, draft, hand>>
  BY DEF Enqueue, LockFree
<1>2. e \in Fitting /\ DOMAIN topicJob = {"step", "evidence", "verdict"}
  BY <1>1 DEF TopicInv, TopicJobFits
<1>3. Fitting' = Fitting BY <1>1, OffersStand
<1>4. draft' \subseteq Fitting' BY <1>1, <1>3 DEF TopicInv, QueueFits
<1>5. ASSUME topicJob' = Idle \/ topicJob' = [topicJob EXCEPT !.step = "apply"]
      PROVE  TopicJobFits' /\ HandFits'
  <2>1. TopicJobFits' /\ topicJob'.step # "wait"
    <3>1. CASE topicJob' = Idle BY <3>1, JobEnds
    <3>2. CASE topicJob' = [topicJob EXCEPT !.step = "apply"]
      <4>1. topicJob'.step = "apply" /\ topicJob'.evidence = e /\ DOMAIN topicJob' = {"step", "evidence", "verdict"}
        BY <1>2, <3>2
      <4>2. topicJob'.evidence \in Fitting' BY <1>2, <1>3, <4>1
      <4> QED BY <4>1, <4>2 DEF TopicJobFits
    <3> QED BY <1>5, <3>1, <3>2
  <2>2. HandFits' BY <1>1, <2>1 DEF HandFits
  <2> QED BY <2>1, <2>2
<1>6. CASE e \in Reviewed
  <2>1. topicJob' = Idle /\ UNCHANGED items BY <1>6 DEF Enqueue, EndJob
  <2>2. EvidenceOnce' BY <2>1 DEF TopicInv, EvidenceOnce, Standing
  <2>3. items' \in Queue /\ \A i \in DOMAIN items' : items'[i].evidence \in Fitting'
    BY <2>1, <1>3 DEF TopicInv, QueueFits
  <2> QED BY <1>1, <1>4, <1>5, <2>1, <2>2, <2>3, QueueStep
<1>7. CASE e \notin Reviewed
  <2>1. PICK status \in {"pending", "rejected"} : items' = Queued(e, status, approved)
    BY <1>7 DEF Enqueue
  <2>2. topicJob' = Idle \/ topicJob' = [topicJob EXCEPT !.step = "apply"] BY <1>7 DEF Enqueue, EndJob
  <2>3. items \in Queue /\ EvidenceOnce /\ \A i \in DOMAIN items : items[i].evidence \in Fitting
    BY DEF TopicInv, QueueFits
  <2>4. approved \in BOOLEAN OBVIOUS
  <2>5. /\ items' \in Queue /\ EvidenceOnce'
        /\ \A i \in DOMAIN items' : items'[i].evidence \in Fitting'
    <3> HIDE DEF approved, e
    <3> QED BY <1>1, <1>2, <1>7, <2>1, <2>3, <2>4, QueuedOnce
  <2> QED BY <1>1, <1>4, <1>5, <2>2, <2>5, QueueStep
<1> QED BY <1>6, <1>7

\* What was reviewed has an item that stands.
LEMMA ReviewedItem ==
    ASSUME NEW e \in Reviewed
    PROVE  ItemOf(e) \in DOMAIN items /\ items[ItemOf(e)].evidence = e
<1>1. \E i \in DOMAIN items : items[i].evidence = e /\ Standing(i) BY DEF Reviewed
<1> QED BY <1>1 DEF ItemOf

LEMMA ApplySteps ==
    ASSUME TopicInv, ApplyJob \/ \E i \in DOMAIN items : ApplyItem(i)
    PROVE  TopicInv'
<1>1. UNCHANGED <<sources, topics, items, draft>> /\ hand = Idle
  BY DEF ApplyJob, ApplyItem, LockFree, reviewVars
<1>2. Fitting' = Fitting BY <1>1, OffersStand
<1>3. /\ items' \in Queue /\ \A i \in DOMAIN items' : items'[i].evidence \in Fitting'
      /\ draft' \subseteq Fitting' /\ EvidenceOnce'
  BY <1>1, <1>2 DEF TopicInv, QueueFits, EvidenceOnce, Standing
<1>4. items \in Queue BY DEF TopicInv, QueueFits
<1>5. topicJob.step # "wait" BY <1>1 DEF TopicInv, HandFits, Idle
<1>6. CASE ApplyJob
  <2>1. topicJob.step = "apply" BY <1>6 DEF ApplyJob
  <2>2. CASE topicJob.evidence \in Reviewed /\ Applicable(topicJob.evidence, ItemOf(topicJob.evidence))
    <3> DEFINE i == ItemOf(topicJob.evidence)
    <3>1. i \in DOMAIN items BY <2>2, ReviewedItem
    <3>2. i \in Nat \ {0} BY <1>4, <3>1, ItemTyped
    <3>3. items[i].status = "pending" BY <2>2, <3>2 DEF Applicable, None
    <3>4. hand' = [step |-> "write", item |-> i, by |-> "job"] /\ topicJob' = [topicJob EXCEPT !.step = "wait"]
      BY <1>6, <2>2 DEF ApplyJob
    <3>5. topicJob.evidence \in Fitting /\ DOMAIN topicJob = {"step", "evidence", "verdict"}
      BY <2>1 DEF TopicInv, TopicJobFits
    <3>6. topicJob'.step = "wait" /\ topicJob'.evidence = topicJob.evidence /\ DOMAIN topicJob' = {"step", "evidence", "verdict"}
      BY <3>4, <3>5
    <3>7. topicJob'.evidence \in Fitting' BY <1>2, <3>5, <3>6
    <3>8. TopicJobFits' BY <3>6, <3>7 DEF TopicJobFits
    <3>9. hand' # Idle BY <3>4 DEF Idle
    <3>10. HandFits' BY <1>1, <3>1, <3>3, <3>4, <3>6, <3>9 DEF HandFits
    <3> QED BY <1>1, <1>3, <3>8, <3>10, QueueStep
  <2>3. CASE ~(topicJob.evidence \in Reviewed /\ Applicable(topicJob.evidence, ItemOf(topicJob.evidence)))
    <3>1. topicJob' = Idle /\ UNCHANGED hand BY <1>6, <2>3 DEF ApplyJob
    <3>2. TopicJobFits' /\ topicJob'.step # "wait" BY <3>1, JobEnds
    <3>3. HandFits' BY <1>1, <3>1, <3>2 DEF HandFits
    <3> QED BY <1>1, <1>3, <3>2, <3>3, QueueStep
  <2> QED BY <2>2, <2>3
<1>7. CASE \E i \in DOMAIN items : ApplyItem(i)
  <2>1. PICK i \in DOMAIN items : ApplyItem(i) BY <1>7
  <2>2. i \in Nat \ {0} BY <1>4, ItemTyped
  <2>3. items[i].status = "pending" BY <2>1, <2>2 DEF ApplyItem, Applicable, None
  <2>4. hand' = [step |-> "write", item |-> i, by |-> "operator"] /\ UNCHANGED topicJob
    BY <2>1 DEF ApplyItem
  <2>5. TopicJobFits' BY <1>1, <2>4, JobStays DEF TopicInv
  <2>6. HandFits' BY <1>1, <1>5, <2>3, <2>4 DEF HandFits
  <2> QED BY <1>1, <1>3, <2>5, <2>6, QueueStep
<1> QED BY <1>6, <1>7

LEMMA DraftSteps ==
    ASSUME TopicAssumption, TopicInv,
           \/ \E S \in UNION {Drawn(W) : W \in TopicWindows(CrossScope)}, named \in {None} \cup DOMAIN topics :
                 Analyze(S, named)
           \/ \E e \in draft : ApplyDraft(e)
    PROVE  TopicInv'
<1>1. topics \in Seq(Editions) BY DEF TopicInv, TopicsFit
<1>2. CASE \E S \in UNION {Drawn(W) : W \in TopicWindows(CrossScope)}, named \in {None} \cup DOMAIN topics :
             Analyze(S, named)
  <2>1. PICK S \in UNION {Drawn(W) : W \in TopicWindows(CrossScope)}, named \in {None} \cup DOMAIN topics :
          Analyze(S, named)
    BY <1>2
  <2>2. S \subseteq Current BY <2>1 DEF Drawn, TopicWindows
  <2>3. S \in SUBSET Cited /\ Current \in SUBSET Cited BY <2>2, CurrentCited DEF TopicInv
  <2>4. \A t \in DOMAIN topics : topics[t].rev <= topics[t].rev BY <1>1, EditionTyped
  <2>5. topics \in Offers BY <1>1, <2>4 DEF Offers
  <2>6. PICK e \in Drafted(S, topics, Current, named) : draft' = {e} BY <2>1 DEF Analyze
  <2>7. e \in Fitting BY <2>3, <2>5, DraftedFits
  <2>8. UNCHANGED <<sources, topics, items, topicJob, hand>> BY <2>1 DEF Analyze, reviewVars
  <2>9. SourcesFit' /\ TopicJobFits' BY <2>8, JobStays DEF TopicInv, SourcesFit
  <2> QED BY <2>6, <2>7, <2>8, <2>9, WaitingStep
<1>3. CASE \E e \in draft : ApplyDraft(e)
  <2>1. PICK e \in draft : ApplyDraft(e) BY <1>3
  <2>2. /\ items' = Queued(e, "pending", TRUE) /\ hand = Idle /\ e \notin Reviewed
        /\ hand' = [step |-> "write", item |-> Len(items) + 1, by |-> "operator"]
        /\ UNCHANGED <<sources, topics, topicJob, draft>>
    BY <2>1 DEF ApplyDraft, LockFree, Applicable
  <2>3. /\ items \in Queue /\ EvidenceOnce /\ \A i \in DOMAIN items : items[i].evidence \in Fitting
        /\ e \in Fitting
    BY DEF TopicInv, QueueFits
  <2>4. /\ items' \in Queue /\ EvidenceOnce'
        /\ DOMAIN items' = 1 .. (Len(items) + 1)
        /\ \A i \in DOMAIN items' : items'[i].evidence \in Fitting'
        /\ items'[Len(items) + 1] = [evidence |-> e, status |-> "pending", approved |-> TRUE]
    BY <2>2, <2>3, QueuedOnce
  <2>5. draft' \subseteq Fitting' BY <2>2, OffersStand DEF TopicInv, QueueFits
  <2>6. TopicJobFits' BY <2>2, JobStays DEF TopicInv
  <2>7. topicJob.step # "wait" BY <2>2 DEF TopicInv, HandFits, Idle
  <2>8. Len(items) \in Nat BY <2>3 DEF Queue
  <2>9. Len(items) + 1 \in DOMAIN items' BY <2>4, <2>8
  <2>10. /\ hand'.item = Len(items) + 1 /\ hand'.by = "operator" /\ topicJob'.step # "wait"
         /\ hand' \in [step : {"write"}, item : DOMAIN items', by : {"job", "operator"}]
    BY <2>2, <2>7, <2>9
  <2>11. items'[hand'.item].status = "pending" BY <2>4, <2>10
  <2>12. HandFits' BY <2>10, <2>11 DEF HandFits
  <2> QED BY <2>2, <2>4, <2>5, <2>6, <2>12, QueueStep
<1> QED BY <1>2, <1>3

LEMMA DecisionSteps ==
    ASSUME TopicInv, RefreshReviews \/ \E i \in DOMAIN items : Reject(i)
    PROVE  TopicInv'
<1>1. UNCHANGED <<sources, topics, draft, topicJob, hand>> /\ hand = Idle
  BY DEF RefreshReviews, Reject, LockFree
<1>2. items \in Queue BY DEF TopicInv, QueueFits
<1>3. Restated
  <2>1. CASE RefreshReviews BY <2>1, <1>2, RefreshRestates
  <2>2. CASE \E i \in DOMAIN items : Reject(i)
    <3>1. PICK i \in DOMAIN items : Reject(i) BY <2>2
    <3>2. items[i].status = "pending" /\ items' = [items EXCEPT ![i].status = "rejected"] BY <3>1 DEF Reject
    <3>3. items[i].status # "stale" BY <3>2
    <3> QED BY <1>2, <3>2, <3>3, StatusRestated
  <2> QED BY <2>1, <2>2
<1>4. HandFits' BY <1>1 DEF TopicInv, HandFits
<1>5. TopicJobFits' BY <1>1, JobStays DEF TopicInv
<1> QED BY <1>1, <1>3, <1>4, <1>5, RestatedFits, QueueStep

\* What is under way when Topics change: drafts and offers stay what they are.
LEMMA TopicsStep ==
    ASSUME TopicInv, TopicsGrow, TopicsFit', UNCHANGED <<sources, draft>>,
           items' \in Queue, DOMAIN items' = DOMAIN items,
           \A i \in DOMAIN items : items'[i].evidence = items[i].evidence,
           UNCHANGED topicJob \/ topicJob' = Idle, HandFits', EvidenceOnce'
    PROVE  TopicInv'
<1>1. topics \in Seq(Editions) /\ topics' \in Seq(Editions) BY DEF TopicInv, TopicsFit
<1>2. Fitting \subseteq Fitting' BY <1>1, DraftStays
<1>3. Offers \subseteq Offers' BY <1>1, OfferStays
<1>4. QueueFits' BY <1>2 DEF TopicInv, QueueFits
<1>5. TopicJobFits'
  <2>1. CASE UNCHANGED topicJob BY <2>1, <1>2, <1>3 DEF TopicInv, TopicJobFits
  <2>2. CASE topicJob' = Idle BY <2>2, JobEnds
  <2> QED BY <2>1, <2>2
<1>6. SourcesFit' BY DEF TopicInv, SourcesFit
<1> QED BY <1>4, <1>5, <1>6 DEF TopicInv

LEMMA Editioned ==
    ASSUME TopicsFit, NEW t \in DOMAIN topics, NEW new \in Editions,
           topics' = [topics EXCEPT ![t] = new], new.rev > topics[t].rev,
           new.from # {} => CrossScope \/ \A p \in new.from : Scope[p] = new.scope
    PROVE  TopicsFit' /\ TopicsGrow
<1>1. topics \in Seq(Editions) BY DEF TopicsFit
<1>2. topics' \in Seq(Editions) /\ DOMAIN topics' = DOMAIN topics BY <1>1
<1>3. \A u \in DOMAIN topics : topics'[u] = IF u = t THEN new ELSE topics[u] BY <1>1
<1> QED BY <1>2, <1>3 DEF TopicsFit, TopicsGrow

LEMMA NewTopic ==
    ASSUME TopicsFit, NEW new \in Editions, topics' = Append(topics, new),
           new.from # {} => CrossScope \/ \A p \in new.from : Scope[p] = new.scope
    PROVE  TopicsFit' /\ TopicsGrow
<1>1. topics \in Seq(Editions) BY DEF TopicsFit
<1>2. /\ topics' \in Seq(Editions) /\ DOMAIN topics = 1 .. Len(topics) /\ Len(topics) \in Nat
      /\ DOMAIN topics' = 1 .. (Len(topics) + 1)
      /\ topics'[Len(topics) + 1] = new
      /\ \A u \in DOMAIN topics : u \in DOMAIN topics' /\ topics'[u] = topics[u]
  BY <1>1
<1>3. \A u \in DOMAIN topics' : u = Len(topics) + 1 \/ u \in DOMAIN topics BY <1>2
<1> QED BY <1>2, <1>3 DEF TopicsFit, TopicsGrow

\* The item that is applied.
Applied == items[hand.item].evidence
Edition(e) == [rev |-> e.at + 1, from |-> PagesOf(e.from), scope |-> e.scope]

LEMMA EditionFits ==
    ASSUME NEW e \in Fitting
    PROVE  /\ Edition(e) \in Editions
           /\ CrossScope \/ \A p \in Edition(e).from : Scope[p] = Edition(e).scope
<1>1. e \in Drafts /\ InScope(e) BY DEF Fitting
<1>2. PagesOf(e.from) \in SUBSET SourcePages BY <1>1, CitedPages DEF Drafts
<1> QED BY <1>1, <1>2 DEF Edition, Editions, Drafts, InScope

LEMMA AppliedItem ==
    ASSUME TopicInv, hand.step = "write"
    PROVE  /\ hand # Idle /\ hand.item \in DOMAIN items /\ items[hand.item].status = "pending"
           /\ Applied \in Fitting
<1>1. hand # Idle BY DEF Idle
<1>2. hand.item \in DOMAIN items /\ items[hand.item].status = "pending" BY <1>1 DEF TopicInv, HandFits
<1> QED BY <1>1, <1>2 DEF TopicInv, QueueFits, Applied

LEMMA ReleasedFits ==
    ASSUME HandFits, hand # Idle, Released
    PROVE  HandFits' /\ (UNCHANGED topicJob \/ topicJob' = Idle)
<1>1. hand' = Idle /\ topicJob' = IF hand.by = "job" THEN Idle ELSE topicJob BY DEF Released
<1>2. topicJob'.step # "wait"
  <2>1. CASE hand.by = "job" BY <1>1, <2>1 DEF Idle
  <2>2. CASE hand.by # "job" BY <1>1, <2>2 DEF HandFits
  <2> QED BY <2>1, <2>2
<1> QED BY <1>1, <1>2 DEF HandFits

LEMMA WriteStep ==
    ASSUME TopicInv, WriteTopic
    PROVE  TopicInv'
<1> DEFINE e == Applied
<1>1. hand.step = "write" /\ Writable(e) /\ Released /\ UNCHANGED <<sources, known, draft>>
  BY DEF WriteTopic, Applied
<1>2. /\ hand # Idle /\ hand.item \in DOMAIN items /\ items[hand.item].status = "pending"
      /\ e \in Fitting
  BY <1>1, AppliedItem
<1>3. HandFits' /\ (UNCHANGED topicJob \/ topicJob' = Idle) BY <1>1, <1>2, ReleasedFits DEF TopicInv
<1>4. items' = [items EXCEPT ![hand.item].status = "accepted"] BY DEF WriteTopic
<1>5. items \in Queue /\ items[hand.item].status # "stale" BY <1>2 DEF TopicInv, QueueFits
<1>6. Restated BY <1>2, <1>4, <1>5, StatusRestated
<1>7. EvidenceOnce' BY <1>6, RestatedOnce DEF TopicInv
<1>8. /\ Edition(e) \in Editions
      /\ CrossScope \/ \A p \in Edition(e).from : Scope[p] = Edition(e).scope
  BY <1>2, EditionFits
<1>9. TopicsFit BY DEF TopicInv
<1>10. TopicsFit' /\ TopicsGrow
  <2>1. CASE e.target = None
    <3>1. topics' = Append(topics, Edition(e)) BY <2>1 DEF WriteTopic, Applied, Edition
    <3> QED BY <3>1, <1>8, <1>9, NewTopic
  <2>2. CASE e.target # None
    <3>1. topics' = [topics EXCEPT ![e.target] = Edition(e)] BY <2>2 DEF WriteTopic, Applied, Edition
    <3>2. e.target \in DOMAIN topics /\ topics[e.target].rev = e.at
      BY <1>1, <2>2 DEF Writable, Topic
    <3>3. e.at \in Nat BY <1>2 DEF Fitting, Drafts
    <3>4. Edition(e).rev > topics[e.target].rev BY <3>2, <3>3 DEF Edition
    <3> HIDE DEF e
    <3> QED BY <3>1, <3>2, <3>4, <1>8, <1>9, Editioned
  <2> QED BY <2>1, <2>2
<1> QED BY <1>1, <1>3, <1>6, <1>7, <1>10, TopicsStep DEF Restated

LEMMA FailStep ==
    ASSUME TopicInv, WriteFails
    PROVE  TopicInv'
<1>1. /\ hand.step = "write" /\ Released /\ UNCHANGED <<sources, topics, items, draft>>
  BY DEF WriteFails, reviewVars
<1>2. hand # Idle BY <1>1, AppliedItem
<1>3. HandFits' /\ (UNCHANGED topicJob \/ topicJob' = Idle) BY <1>1, <1>2, ReleasedFits DEF TopicInv
<1>4. TopicsFit' /\ TopicsGrow BY <1>1 DEF TopicInv, TopicsFit, TopicsGrow
<1>5. items' \in Queue /\ EvidenceOnce'
  BY <1>1 DEF TopicInv, QueueFits, EvidenceOnce, Standing
<1> QED BY <1>1, <1>3, <1>4, <1>5, TopicsStep

LEMMA TenantSteps ==
    ASSUME TopicInv,
           \/ \E p \in SourcePages : ReviseSource(p) \/ WithdrawSource(p)
           \/ \E t \in DOMAIN topics : ReviseTopic(t)
    PROVE  TopicInv'
<1>1. CASE \E p \in SourcePages : ReviseSource(p) \/ WithdrawSource(p)
  <2>1. PICK p \in SourcePages : ReviseSource(p) \/ WithdrawSource(p) BY <1>1
  <2>2. UNCHANGED <<topics, items, topicJob, draft, hand>>
    BY <2>1 DEF ReviseSource, WithdrawSource, reviewVars
  <2>3. \/ sources' = [sources EXCEPT ![p].rev = @ + 1]
        \/ sources' = [sources EXCEPT ![p].shown = FALSE]
    BY <2>1 DEF ReviseSource, WithdrawSource
  <2>4. sources \in [SourcePages -> [rev : Nat, shown : BOOLEAN]] BY DEF TopicInv, SourcesFit
  <2> DEFINE old == sources[p]
  <2>5. old \in [rev : Nat, shown : BOOLEAN] /\ old.rev + 1 \in Nat BY <2>4
  <2>6. /\ [old EXCEPT !.rev = old.rev + 1] \in [rev : Nat, shown : BOOLEAN]
        /\ [old EXCEPT !.shown = FALSE] \in [rev : Nat, shown : BOOLEAN]
    <3>1. [old EXCEPT !.rev = old.rev + 1] \in [rev : Nat, shown : BOOLEAN] BY <2>5
    <3>2. [old EXCEPT !.shown = FALSE] \in [rev : Nat, shown : BOOLEAN] BY <2>5
    <3> QED BY <3>1, <3>2
  <2>7. SourcesFit'
    <3>1. \/ sources' = [sources EXCEPT ![p] = [sources[p] EXCEPT !.rev = @ + 1]]
          \/ sources' = [sources EXCEPT ![p] = [sources[p] EXCEPT !.shown = FALSE]]
      BY <2>3
    <3> QED BY <2>4, <2>6, <3>1 DEF SourcesFit
  <2>8. TopicJobFits' BY <2>2, JobStays DEF TopicInv
  <2>9. draft' \subseteq Fitting BY <2>2 DEF TopicInv, QueueFits
  <2> QED BY <2>2, <2>7, <2>8, <2>9, WaitingStep
<1>2. CASE \E t \in DOMAIN topics : ReviseTopic(t)
  <2>1. PICK t \in DOMAIN topics : ReviseTopic(t) BY <1>2
  <2>2. UNCHANGED <<sources, items, topicJob, draft, hand>> BY <2>1 DEF ReviseTopic, reviewVars
  <2>3. topics \in Seq(Editions) BY DEF TopicInv, TopicsFit
  <2>4. topics[t] \in Editions /\ topics[t].rev \in Nat BY <2>3, EditionTyped
  <2> DEFINE new == [rev |-> topics[t].rev + 1, from |-> {}, scope |-> topics[t].scope]
  <2>5. new \in Editions /\ new.rev > topics[t].rev /\ new.from = {} BY <2>4 DEF Editions
  <2>6. topics' = [topics EXCEPT ![t] = new]
    <3>1. topics' = [topics EXCEPT ![t] = [topics[t] EXCEPT !.rev = topics[t].rev + 1, !.from = {}]]
      BY <2>1 DEF ReviseTopic
    <3> DEFINE old == topics[t]
               next == [rev |-> old.rev + 1, from |-> old.from, scope |-> old.scope]
    <3>2. [old EXCEPT !.rev = old.rev + 1] = next BY <2>4 DEF Editions
    <3>3. [next EXCEPT !.from = {}] = new OBVIOUS
    <3> QED BY <3>1, <3>2, <3>3
  <2>7. TopicsFit' /\ TopicsGrow
    <3> HIDE DEF new
    <3> QED BY <2>5, <2>6, Editioned DEF TopicInv
  <2>8. HandFits' BY <2>2 DEF TopicInv, HandFits
  <2>9. items' \in Queue /\ EvidenceOnce'
    BY <2>2 DEF TopicInv, QueueFits, EvidenceOnce, Standing
  <2> QED BY <2>2, <2>7, <2>8, <2>9, TopicsStep
<1> QED BY <1>1, <1>2

LEMMA TopicStep ==
    ASSUME TopicAssumption, TopicInv, [TopicNext]_topicVars
    PROVE  TopicInv'
<1>1. CASE UNCHANGED topicVars
  <2>1. UNCHANGED <<sources, topics, items, topicJob, draft, hand>> BY <1>1 DEF topicVars
  <2>2. SourcesFit' /\ TopicJobFits' BY <2>1, JobStays DEF TopicInv, SourcesFit
  <2>3. draft' \subseteq Fitting BY <2>1 DEF TopicInv, QueueFits
  <2> QED BY <2>1, <2>2, <2>3, WaitingStep
<1>2. CASE \/ \E W \in TopicWindows(FALSE) : StartJob(W)
           \/ NoDraft \/ VerifyFails
           \/ topicJob # Idle /\ topicJob.step = "extract" /\
              \E S \in Drawn(topicJob.window), named \in {None} \cup DOMAIN topicJob.offered : Extract(S, named)
           \/ \E verdict \in {"approve", "needs_review", "no_change"} : Verify(verdict)
  BY <1>2, JobSteps
<1>3. CASE Enqueue BY <1>3, EnqueueStep
<1>4. CASE ApplyJob \/ \E i \in DOMAIN items : ApplyItem(i) BY <1>4, ApplySteps
<1>5. CASE \/ \E S \in UNION {Drawn(W) : W \in TopicWindows(CrossScope)}, named \in {None} \cup DOMAIN topics :
                 Analyze(S, named)
           \/ \E e \in draft : ApplyDraft(e)
  BY <1>5, DraftSteps
<1>6. CASE RefreshReviews \/ \E i \in DOMAIN items : Reject(i) BY <1>6, DecisionSteps
<1>7. CASE WriteTopic BY <1>7, WriteStep
<1>8. CASE WriteFails BY <1>8, FailStep
<1>9. CASE \/ \E p \in SourcePages : ReviseSource(p) \/ WithdrawSource(p)
           \/ \E t \in DOMAIN topics : ReviseTopic(t)
  BY <1>9, TenantSteps
<1> QED BY <1>1, <1>2, <1>3, <1>4, <1>5, <1>6, <1>7, <1>8, <1>9 DEF TopicNext

-----------------------------------------------------------------------------
(* The results                                                             *)

\* The queue, the job and the application that is under way fit together, whatever the
\* job and operators draft, review and apply at the same time.
THEOREM TopicInvariant ==
    ASSUME TopicAssumption
    PROVE  TopicSpec => []TopicInv
<1>1. TopicInit => TopicInv BY TopicStart
<1>2. TopicInv /\ [TopicNext]_topicVars => TopicInv' BY TopicStep
<1> QED BY <1>1, <1>2, PTL DEF TopicSpec

\* The application that holds the lock is of an item that still waits, the job waits for
\* exactly its own, and a Topic has sources of its Scope alone unless Scopes may be
\* crossed (apply_topic_candidate, extract_topic).
THEOREM TopicsAreTyped ==
    ASSUME TopicAssumption
    PROVE  TopicSpec => []TopicTypeOK
<1>1. TopicInv => TopicTypeOK BY DEF TopicInv, HandFits, TopicsFit, TopicTypeOK
<1> QED BY <1>1, TopicInvariant, PTL

\* The same evidence is queued once: neither the job nor an operator asks again for a
\* decision that is pending or was made (Enqueue, apply_topic_candidate).
THEOREM DraftsAreQueuedOnce ==
    ASSUME TopicAssumption
    PROVE  TopicSpec => []EvidenceOnce
<1>1. TopicInv => EvidenceOnce BY DEF TopicInv
<1> QED BY <1>1, TopicInvariant, PTL

\* What was rejected is not written by an application that was on its way: the item
\* that is applied still waits, and it is the only one of its evidence.
THEOREM NoTopicIsWrittenAgainst ==
    ASSUME TopicAssumption
    PROVE  TopicSpec => NoTopicAgainstDecision
<1>1. TopicInv /\ [TopicNext]_topicVars =>
        [WriteTopic => \A i \in DOMAIN items :
            items[i].status = "rejected" => items[i].evidence # items[hand.item].evidence]_topicVars
  <2>1. SUFFICES ASSUME TopicInv, WriteTopic, NEW i \in DOMAIN items, items[i].status = "rejected"
                 PROVE  items[i].evidence # items[hand.item].evidence
    OBVIOUS
  <2>2. hand.item \in DOMAIN items /\ items[hand.item].status = "pending"
    BY <2>1, AppliedItem DEF WriteTopic
  <2> QED BY <2>1, <2>2 DEF TopicInv, EvidenceOnce, Standing
<1> QED BY <1>1, TopicInvariant, PTL DEF TopicSpec, NoTopicAgainstDecision

\* A refresh keeps the sources the Topic has: the draft was made of an edition, and
\* it is written only onto that edition.
THEOREM RefreshKeepsSources ==
    ASSUME TopicAssumption
    PROVE  TopicSpec => TopicKeepsSources
<1>1. TopicInv /\ [TopicNext]_topicVars =>
        [WriteTopic => \A t \in DOMAIN topics : topics[t].from \subseteq topics'[t].from]_topicVars
  <2>1. SUFFICES ASSUME TopicInv, WriteTopic, NEW t \in DOMAIN topics
                 PROVE  topics[t].from \subseteq topics'[t].from
    OBVIOUS
  <2> DEFINE e == Applied
  <2>2. e \in Fitting BY <2>1, AppliedItem DEF WriteTopic
  <2>3. topics \in Seq(Editions) BY <2>1 DEF TopicInv, TopicsFit
  <2>4. CASE e.target = None
    <3>1. topics' = Append(topics, Edition(e)) BY <2>1, <2>4 DEF WriteTopic, Applied, Edition
    <3>2. Edition(e) \in Editions BY <2>2, EditionFits
    <3>3. topics'[t] = topics[t]
      <4> HIDE DEF e
      <4> QED BY <2>3, <3>1, <3>2
    <3> QED BY <3>3
  <2>5. CASE e.target # None
    <3>1. topics' = [topics EXCEPT ![e.target] = Edition(e)] BY <2>1, <2>5 DEF WriteTopic, Applied, Edition
    <3>2. e.target \in DOMAIN topics /\ topics[e.target].rev = e.at
      BY <2>1, <2>5 DEF WriteTopic, Writable, Topic, Applied
    <3>3. topics[e.target].from \subseteq PagesOf(e.from) BY <2>2, <2>5, <3>2 DEF Fitting, Covers
    <3>4. topics'[t] = IF t = e.target THEN Edition(e) ELSE topics[t]
      <4> HIDE DEF e
      <4> QED BY <2>3, <3>1
    <3> QED BY <3>3, <3>4 DEF Edition
  <2> QED BY <2>4, <2>5
<1> QED BY <1>1, TopicInvariant, PTL DEF TopicSpec, TopicKeepsSources
=============================================================================
