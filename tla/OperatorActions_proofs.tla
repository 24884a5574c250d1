------------------------ MODULE OperatorActions_proofs ------------------------
(***************************************************************************)
(* Proofs about OperatorActions, for any number of sources, notes and      *)
(* consoles. Whatever packs are split, repacked and applied at once, each  *)
(* source is held by one Page that is not gone: a pack is made of Pages    *)
(* that are active in the same transaction, and a split gives each source  *)
(* back to the Page it was packed from. No relation is written against a   *)
(* decision, because the console that applies one keeps the decision lock  *)
(* from its look at the decisions to the write, and what a decision        *)
(* rejects are heads of that time or earlier ones.                         *)
(***************************************************************************)
EXTENDS OperatorActions, FiniteSetTheorems, TLAPS

-----------------------------------------------------------------------------
(* The invariant                                                           *)

Counted == used.page \in Nat /\ used.rev \in Nat /\ DOMAIN used = {"page", "rev"}

PagesFit ==
    /\ DOMAIN pages = 1 .. used.page /\ Sources \in 0 .. used.page
    /\ pages = [p \in DOMAIN pages |-> pages[p]]
    /\ \A p \in DOMAIN pages :
          /\ DOMAIN pages[p] = {"head", "span", "status"}
          /\ pages[p].head \in 1 .. used.rev
          /\ pages[p].status \in {"active", "archived", "gone"}
          /\ pages[p].span \subseteq 1 .. Sources
    /\ \A p, q \in DOMAIN pages : pages[p].head = pages[q].head => p = q

\* A source's own Page has it, packed or not.
OwnPages == \A s \in 1 .. Sources : pages[s].span = {s}

Holds(p, s) == p \in DOMAIN pages /\ pages[p].status # "gone" /\ s \in pages[p].span
HeldOnce ==
    \A s \in 1 .. Sources : \E p : Holds(p, s) /\ \A q : Holds(q, s) => q = p

\* Candidates are functions from Pages to Revisions.
Shaped(c) == c.of = [p \in DOMAIN c.of |-> c.of[p]]
RequestFits(h) == DOMAIN h = {"step", "of", "item", "groups"} /\ Shaped(h.of)
CandidatesFit ==
    /\ \A c \in drafts \cup DOMAIN items : Shaped(c)
    /\ hand = [o \in Operators |-> hand[o]]
    /\ \A o \in Operators : RequestFits(hand[o])

\* What tables name of Pages exists.
TablesFit == DOMAIN summaries \subseteq DOMAIN pages /\ UNION links \subseteq DOMAIN pages

\* What was rejected are heads of that time.
Rejected(f) == <<"rejected", f>> \in pairs
PairsFit ==
    \A f : Rejected(f) => \A p \in DOMAIN f : p \in DOMAIN pages /\ f[p] \in Nat /\ f[p] <= pages[p].head

\* A relation that is being applied: the lock is its console's, and the decisions are
\* those it looked at.
Undecided(c) ==
    /\ ~SuppressedPair(DOMAIN c.of) /\ ~RejectedPair(c)
    /\ \A p \in DOMAIN c.of : p \in DOMAIN pages /\ c.of[p] \in Nat /\ c.of[p] <= pages[p].head
    /\ \A f : Rejected(f) /\ DOMAIN f = DOMAIN c.of => \A p \in DOMAIN f : f[p] <= c.of[p]
LockFits ==
    /\ \A o \in Operators : Applying(o, "relation") => Undecided(hand[o].of)
    /\ \A o, x \in Operators : Applying(o, "relation") /\ Applying(x, "relation") => o = x

OperatorInv ==
    /\ Counted /\ PagesFit /\ OwnPages /\ HeldOnce /\ CandidatesFit /\ TablesFit
    /\ PairsFit /\ LockFits

LEMMA OperatorStart ==
    ASSUME OperatorAssumption, OperatorInit
    PROVE  OperatorInv
<1>1. Sources \in Nat /\ Notes \in Nat BY DEF OperatorAssumption
<1>2. /\ pages = [p \in 1 .. Sources + Notes |->
                   [head |-> p, status |-> "active", span |-> IF p <= Sources THEN {p} ELSE {}]]
      /\ used = [page |-> Sources + Notes, rev |-> Sources + Notes]
      /\ summaries = NoRows /\ links = {} /\ drafts = {} /\ items = NoRows /\ pairs = {}
      /\ hand = [o \in Operators |-> Idle]
  BY DEF OperatorInit
<1>3. Counted BY <1>1, <1>2 DEF Counted
<1>4. PagesFit BY <1>1, <1>2 DEF PagesFit
<1>5. OwnPages BY <1>1, <1>2 DEF OwnPages
<1>6. HeldOnce
  <2>1. SUFFICES ASSUME NEW s \in 1 .. Sources
                 PROVE  Holds(s, s) /\ \A q : Holds(q, s) => q = s
    BY DEF HeldOnce
  <2>2. \A q : Holds(q, s) => q = s BY <1>1, <1>2 DEF Holds
  <2>3. Holds(s, s) BY <1>1, <1>2 DEF Holds
  <2> QED BY <2>2, <2>3
<1>7. DOMAIN NoRows = {} /\ Shaped(NoCandidate) BY DEF NoRows, Shaped, NoCandidate
<1>8. CandidatesFit BY <1>2, <1>7 DEF CandidatesFit, RequestFits, Idle
<1>9. TablesFit BY <1>2, <1>7 DEF TablesFit
<1>10. PairsFit BY <1>2 DEF PairsFit, Rejected
<1>11. LockFits BY <1>2 DEF LockFits, Applying, Idle
<1> QED BY <1>3, <1>4, <1>5, <1>6, <1>8, <1>9, <1>10, <1>11 DEF OperatorInv

-----------------------------------------------------------------------------
(* The Pages                                                               *)

\* Pages stay, and their heads only move on.
PagesGrow ==
    \A p \in DOMAIN pages : p \in DOMAIN pages' /\ pages[p].head <= pages'[p].head
StoreFits == Counted /\ PagesFit /\ OwnPages /\ HeldOnce

LEMMA HeadsTyped ==
    ASSUME StoreFits, NEW p \in DOMAIN pages
    PROVE  pages[p].head \in Nat /\ used.rev \in Nat /\ pages[p].head <= used.rev
BY DEF StoreFits, Counted, PagesFit

\* A source's Page is no pack.
LEMMA OwnPageIsLeaf ==
    ASSUME StoreFits, NEW s \in 1 .. Sources
    PROVE  ~Packed(s) /\ s \in DOMAIN pages
<1>1. pages[s].span = {s} BY DEF StoreFits, OwnPages
<1>2. Cardinality({s}) = 1 BY FS_Singleton
<1>3. s \in DOMAIN pages BY DEF StoreFits, PagesFit, Counted
<1> QED BY <1>1, <1>2, <1>3 DEF Packed

\* One Page's head, or the statuses of Pages that are not gone, change.
LEMMA HeadMoves ==
    ASSUME StoreFits, NEW p \in DOMAIN pages, used' = [used EXCEPT !.rev = @ + 1],
           pages' = [pages EXCEPT ![p].head = used.rev + 1]
    PROVE  StoreFits' /\ PagesGrow
<1>1. /\ used.rev \in Nat /\ used.page \in Nat /\ used'.rev = used.rev + 1 /\ used'.page = used.page
      /\ DOMAIN used' = {"page", "rev"}
  BY DEF StoreFits, Counted
<1>2. Counted' BY <1>1 DEF Counted
<1>3. DOMAIN pages' = DOMAIN pages /\ \A q \in DOMAIN pages : q # p => pages'[q] = pages[q]
  BY DEF StoreFits, PagesFit
<1>4. DOMAIN pages[p] = {"head", "span", "status"} BY DEF StoreFits, PagesFit
<1>5. /\ pages'[p].head = used.rev + 1 /\ pages'[p].status = pages[p].status
      /\ pages'[p].span = pages[p].span /\ DOMAIN pages'[p] = {"head", "span", "status"}
  BY <1>4 DEF StoreFits, PagesFit
<1>6. \A q \in DOMAIN pages :
        /\ pages'[q].status = pages[q].status /\ pages'[q].span = pages[q].span
        /\ DOMAIN pages'[q] = {"head", "span", "status"}
        /\ pages'[q].head = IF q = p THEN used.rev + 1 ELSE pages[q].head
        /\ pages[q].head \in 1 .. used.rev
  BY <1>3, <1>5 DEF StoreFits, PagesFit
<1>7. pages' = [q \in DOMAIN pages' |-> pages'[q]] OBVIOUS
<1>8. \A q, r \in DOMAIN pages' : pages'[q].head = pages'[r].head => q = r
  BY <1>1, <1>3, <1>6 DEF StoreFits, PagesFit
<1>9. PagesFit'
  <2>1. \A q \in DOMAIN pages' :
          /\ DOMAIN pages'[q] = {"head", "span", "status"}
          /\ pages'[q].head \in 1 .. used'.rev
          /\ pages'[q].status \in {"active", "archived", "gone"}
          /\ pages'[q].span \subseteq 1 .. Sources
    BY <1>1, <1>3, <1>6 DEF StoreFits, PagesFit
  <2>2. DOMAIN pages' = 1 .. used'.page /\ Sources \in 0 .. used'.page
    BY <1>1, <1>3 DEF StoreFits, PagesFit
  <2> QED BY <1>7, <1>8, <2>1, <2>2 DEF PagesFit
<1>10. OwnPages' BY <1>6, OwnPageIsLeaf DEF StoreFits, OwnPages
<1>11. \A q, s : Holds(q, s)' <=> Holds(q, s) BY <1>3, <1>6 DEF Holds
<1>12. HeldOnce' BY <1>11 DEF StoreFits, HeldOnce
<1>13. PagesGrow BY <1>1, <1>3, <1>6 DEF PagesGrow
<1> QED BY <1>2, <1>9, <1>10, <1>12, <1>13 DEF StoreFits

\* Only statuses change: what each source is held by is all there is to see to.
LEMMA StatusesMove ==
    ASSUME StoreFits, UNCHANGED used, DOMAIN pages' = DOMAIN pages,
           pages' = [p \in DOMAIN pages' |-> pages'[p]],
           \A p \in DOMAIN pages :
              /\ DOMAIN pages'[p] = DOMAIN pages[p]
              /\ pages'[p].head = pages[p].head /\ pages'[p].span = pages[p].span
              /\ pages'[p].status \in {"active", "archived", "gone"},
           HeldOnce'
    PROVE  StoreFits' /\ PagesGrow
<1>1. Counted' BY DEF StoreFits, Counted
<1>2. PagesFit' BY DEF StoreFits, PagesFit
<1>3. OwnPages' BY OwnPageIsLeaf DEF StoreFits, OwnPages
<1>4. PagesGrow
  <2>1. \A p \in DOMAIN pages : pages[p].head <= pages[p].head BY HeadsTyped
  <2> QED BY <2>1 DEF PagesGrow
<1> QED BY <1>1, <1>2, <1>3, <1>4 DEF StoreFits

\* No Page is gone that was not, nor comes back.
LEMMA StillHeld ==
    ASSUME StoreFits, DOMAIN pages' = DOMAIN pages,
           \A p \in DOMAIN pages :
              pages'[p].span = pages[p].span /\ (pages'[p].status = "gone" <=> pages[p].status = "gone")
    PROVE  HeldOnce'
<1>1. \A q, s : Holds(q, s)' <=> Holds(q, s) BY DEF Holds
<1> QED BY <1>1 DEF StoreFits, HeldOnce

LEMMA SplitGivesBack ==
    ASSUME StoreFits, NEW o, NEW p, Unpack(o, p)
    PROVE  StoreFits' /\ PagesGrow
<1>1. /\ p \in DOMAIN pages /\ pages[p].status = "active" /\ Packed(p) /\ UNCHANGED used
      /\ pages' = [q \in DOMAIN pages |->
            IF q = p THEN [pages[p] EXCEPT !.status = "gone"]
            ELSE IF q \in pages[p].span THEN [pages[q] EXCEPT !.status = "active"] ELSE pages[q]]
  BY DEF Unpack, Active
<1>2. \A q \in DOMAIN pages :
        /\ DOMAIN pages[q] = {"head", "span", "status"}
        /\ pages[q].status \in {"active", "archived", "gone"}
        /\ pages[q].span \subseteq 1 .. Sources
  BY DEF StoreFits, PagesFit
<1>3. /\ DOMAIN pages' = DOMAIN pages
      /\ \A q \in DOMAIN pages :
           /\ DOMAIN pages'[q] = DOMAIN pages[q] /\ pages'[q].head = pages[q].head
           /\ pages'[q].span = pages[q].span
           /\ pages'[q].status = IF q = p THEN "gone"
                                 ELSE IF q \in pages[p].span THEN "active" ELSE pages[q].status
  BY <1>1, <1>2
<1>4. pages[p].span \subseteq 1 .. Sources /\ p \notin 1 .. Sources
  BY <1>1, <1>2, OwnPageIsLeaf
<1>5. \A q \in pages[p].span : q \in DOMAIN pages /\ pages[q].span = {q}
  BY <1>4, OwnPageIsLeaf DEF StoreFits, OwnPages
<1>6. HeldOnce'
  <2>1. SUFFICES ASSUME NEW s \in 1 .. Sources
                 PROVE  \E h : Holds(h, s)' /\ \A q : Holds(q, s)' => q = h
    BY DEF HeldOnce
  <2>2. PICK h : Holds(h, s) /\ \A q : Holds(q, s) => q = h BY DEF StoreFits, HeldOnce
  <2>3. CASE s \in pages[p].span
    <3>1. h = p BY <1>1, <2>2, <2>3 DEF Holds
    <3>2. Holds(s, s)' BY <1>3, <1>4, <1>5, <2>3 DEF Holds
    <3>3. ASSUME NEW q, Holds(q, s)' PROVE q = s
      <4>1. q \in DOMAIN pages /\ q # p /\ s \in pages[q].span BY <1>3, <3>3 DEF Holds
      <4>2. CASE q \in pages[p].span BY <1>5, <4>1, <4>2
      <4>3. CASE q \notin pages[p].span
        <5>1. Holds(q, s) BY <1>3, <3>3, <4>1, <4>3 DEF Holds
        <5> QED BY <5>1, <2>2, <3>1, <4>1
      <4> QED BY <4>2, <4>3
    <3> QED BY <3>2, <3>3
  <2>4. CASE s \notin pages[p].span
    <3>1. h # p /\ h \in DOMAIN pages /\ s \in pages[h].span BY <2>2, <2>4 DEF Holds
    <3>2. h \notin pages[p].span BY <1>5, <2>4, <3>1
    <3>3. Holds(h, s)' BY <1>3, <2>2, <3>1, <3>2 DEF Holds
    <3>4. ASSUME NEW q, Holds(q, s)' PROVE q = h
      <4>1. q \in DOMAIN pages /\ q # p /\ s \in pages[q].span BY <1>3, <3>4 DEF Holds
      <4>2. q \notin pages[p].span BY <1>5, <2>4, <4>1
      <4>3. Holds(q, s) BY <1>3, <3>4, <4>1, <4>2 DEF Holds
      <4> QED BY <2>2, <4>3
    <3> QED BY <3>3, <3>4
  <2> QED BY <2>3, <2>4
<1>7. pages' = [q \in DOMAIN pages' |-> pages'[q]] BY <1>1
<1>8. \A q \in DOMAIN pages : pages'[q].status \in {"active", "archived", "gone"} BY <1>2, <1>3
<1> QED BY <1>1, <1>3, <1>6, <1>7, <1>8, StatusesMove

\* A pack of active Pages has their sources, and they are gone.
LEMMA PackTakesOver ==
    ASSUME OperatorAssumption, StoreFits, NEW P, P \subseteq Active, Pack(P)
    PROVE  StoreFits' /\ PagesGrow
<1> DEFINE packs == {p \in P : Packed(p)}
           pack == IF packs = {} THEN used.page + 1 ELSE CHOOSE p \in packs : TRUE
           span == UNION {pages[p].span : p \in P}
           left == [p \in DOMAIN pages |->
                       IF p \in P THEN [pages[p] EXCEPT !.status = "gone"] ELSE pages[p]]
<1>1. /\ pages' = Put(left, pack, [head |-> used.rev + 1, status |-> "active", span |-> span])
      /\ used' = [page |-> IF packs = {} THEN pack ELSE used.page, rev |-> used.rev + 1]
  BY DEF Pack
<1>2. used.rev \in Nat /\ used.page \in Nat /\ Sources \in Nat
  BY DEF StoreFits, Counted, OperatorAssumption
<1>3. /\ P \subseteq DOMAIN pages /\ \A p \in P : pages[p].status = "active"
      /\ DOMAIN pages = 1 .. used.page /\ Sources <= used.page
  BY DEF Active, StoreFits, PagesFit
<1>4. pack \in 1 .. used'.page /\ pack \notin 1 .. Sources /\ used'.page \in Nat
      /\ DOMAIN pages \cup {pack} = 1 .. used'.page /\ (pack \in DOMAIN pages => pack \in P)
      /\ used.page <= used'.page
  <2>1. CASE packs = {}
    <3>1. pack = used.page + 1 /\ used'.page = used.page + 1 BY <1>1, <2>1
    <3> QED BY <1>2, <1>3, <3>1
  <2>2. CASE packs # {}
    <3>1. pack \in packs /\ used'.page = used.page BY <1>1, <2>2
    <3>2. pack \notin 1 .. Sources BY <3>1, OwnPageIsLeaf
    <3> QED BY <1>2, <1>3, <3>1, <3>2
  <2> QED BY <2>1, <2>2
<1>5. \A p \in DOMAIN pages :
        /\ DOMAIN pages[p] = {"head", "span", "status"} /\ pages[p].head \in 1 .. used.rev
        /\ pages[p].status \in {"active", "archived", "gone"}
        /\ pages[p].span \subseteq 1 .. Sources
  BY DEF StoreFits, PagesFit
<1>6. /\ DOMAIN pages' = 1 .. used'.page
      /\ pages'[pack] = [head |-> used.rev + 1, status |-> "active", span |-> span]
      /\ \A p \in DOMAIN pages : p # pack => pages'[p] = left[p]
      /\ \A p \in DOMAIN pages' : p = pack \/ p \in DOMAIN pages
      /\ pages' = [p \in DOMAIN pages' |-> pages'[p]]
  <2> HIDE DEF pack, left, span
  <2>1. DOMAIN left = DOMAIN pages BY DEF left
  <2> QED BY <1>1, <1>4, <2>1 DEF Put
<1>7. \A p \in DOMAIN pages : p # pack =>
        /\ DOMAIN pages'[p] = DOMAIN pages[p] /\ pages'[p].head = pages[p].head
        /\ pages'[p].span = pages[p].span
        /\ pages'[p].status = IF p \in P THEN "gone" ELSE pages[p].status
  <2> HIDE DEF pack
  <2> QED BY <1>5, <1>6
<1>8. span \subseteq 1 .. Sources BY <1>3, <1>5
<1> HIDE DEF pack, packs, left, span
<1>9. Counted' BY <1>1, <1>2, <1>4 DEF Counted
<1>10. used'.rev = used.rev + 1 BY <1>1
<1>11. PagesFit'
  <2>1. \A p \in DOMAIN pages' :
          /\ DOMAIN pages'[p] = {"head", "span", "status"}
          /\ pages'[p].head \in 1 .. used'.rev
          /\ pages'[p].status \in {"active", "archived", "gone"}
          /\ pages'[p].span \subseteq 1 .. Sources
    <3>1. SUFFICES ASSUME NEW p \in DOMAIN pages'
                   PROVE  /\ DOMAIN pages'[p] = {"head", "span", "status"}
                          /\ pages'[p].head \in 1 .. used'.rev
                          /\ pages'[p].status \in {"active", "archived", "gone"}
                          /\ pages'[p].span \subseteq 1 .. Sources
      OBVIOUS
    <3>2. CASE p = pack BY <1>2, <1>6, <1>8, <1>10, <3>2
    <3>3. CASE p # pack BY <1>2, <1>5, <1>6, <1>7, <1>10, <3>3
    <3> QED BY <3>2, <3>3
  <2>2. ASSUME NEW p \in DOMAIN pages', NEW q \in DOMAIN pages', pages'[p].head = pages'[q].head
        PROVE  p = q
    <3>1. pages'[pack].head = used.rev + 1 BY <1>6
    <3>2. \A r \in DOMAIN pages : r # pack => pages'[r].head = pages[r].head /\ pages[r].head # used.rev + 1
      BY <1>2, <1>5, <1>7
    <3>3. CASE p = pack \/ q = pack BY <1>6, <2>2, <3>1, <3>2, <3>3
    <3>4. CASE p # pack /\ q # pack
      <4>1. p \in DOMAIN pages /\ q \in DOMAIN pages /\ pages[p].head = pages[q].head
        BY <1>6, <2>2, <3>2, <3>4
      <4> QED BY <4>1 DEF StoreFits, PagesFit
    <3> QED BY <3>3, <3>4
  <2>3. Sources \in 0 .. used'.page BY <1>2, <1>3, <1>4
  <2> QED BY <1>6, <2>1, <2>2, <2>3 DEF PagesFit
<1>12. OwnPages'
  <2>1. ASSUME NEW s \in 1 .. Sources PROVE pages'[s].span = {s}
    <3>1. s # pack /\ s \in DOMAIN pages BY <1>4, OwnPageIsLeaf
    <3> QED BY <3>1, <1>7 DEF StoreFits, OwnPages
  <2> QED BY <2>1 DEF OwnPages
<1>13. HeldOnce'
  <2>1. SUFFICES ASSUME NEW s \in 1 .. Sources
                 PROVE  \E h : Holds(h, s)' /\ \A q : Holds(q, s)' => q = h
    BY DEF HeldOnce
  <2>2. PICK h : Holds(h, s) /\ \A q : Holds(q, s) => q = h BY DEF StoreFits, HeldOnce
  <2>3. h \in DOMAIN pages /\ s \in pages[h].span BY <2>2 DEF Holds
  <2>4. \A p \in P : s \in pages[p].span => p = h BY <1>3, <2>2 DEF Holds
  <2>5. PICK k : k = pack OBVIOUS
  <2>6. ASSUME NEW q, Holds(q, s)', q # k PROVE q = h /\ q \notin P
    <3>1. q \in DOMAIN pages /\ pages'[q].status # "gone" /\ s \in pages'[q].span
      BY <1>6, <2>5, <2>6 DEF Holds
    <3>2. q \notin P /\ Holds(q, s) BY <1>7, <2>5, <2>6, <3>1 DEF Holds
    <3> QED BY <2>2, <3>2
  <2>7. CASE h \in P
    <3>1. s \in span BY <2>3, <2>7 DEF span
    <3>2. Holds(k, s)' BY <1>4, <1>6, <2>5, <3>1 DEF Holds
    <3>3. ASSUME NEW q, Holds(q, s)' PROVE q = k BY <2>6, <2>7, <3>3
    <3> QED BY <3>2, <3>3
  <2>8. CASE h \notin P
    <3>1. s \notin span BY <2>4, <2>8 DEF span
    <3>2. h # k BY <1>4, <2>3, <2>5, <2>8
    <3>3. Holds(h, s)' BY <1>6, <1>7, <2>2, <2>3, <2>5, <2>8, <3>2, <1>4, <1>3 DEF Holds
    <3>4. ~Holds(k, s)' BY <1>6, <2>5, <3>1 DEF Holds
    <3>5. ASSUME NEW q, Holds(q, s)' PROVE q = h BY <2>6, <3>4, <3>5
    <3> QED BY <3>3, <3>5
  <2> QED BY <2>7, <2>8
<1>14. PagesGrow
  <2>1. ASSUME NEW p \in DOMAIN pages
        PROVE  p \in DOMAIN pages' /\ pages[p].head <= pages'[p].head
    <3>1. p \in DOMAIN pages' BY <1>2, <1>3, <1>4, <1>6
    <3>2. CASE p = pack BY <1>2, <1>5, <1>6, <3>1, <3>2
    <3>3. CASE p # pack BY <1>2, <1>5, <1>7, <3>1, <3>3
    <3> QED BY <3>1, <3>2, <3>3
  <2> QED BY <2>1 DEF PagesGrow
<1> QED BY <1>9, <1>11, <1>12, <1>13, <1>14 DEF StoreFits

-----------------------------------------------------------------------------
(* Requests and decisions                                                  *)

Locking(h) == h.step = "checked" /\ h.of.kind = "relation"

\* A request goes on, begins or ends, and takes no lock.
HandMoved ==
    \/ UNCHANGED hand
    \/ \E o \in Operators : \E h :
          hand' = [hand EXCEPT ![o] = h] /\ RequestFits(h) /\ ~Locking(h)

LEMMA CandidateShaped ==
    ASSUME NEW kind, NEW c \in Candidates(kind)
    PROVE  Shaped(c)
<1>1. \A P, with : Shaped(Candidate(kind, P, with)) BY DEF Shaped, Candidate
<1> QED BY <1>1 DEF Candidates

LEMMA RequestsFit ==
    /\ RequestFits(Idle) /\ ~Locking(Idle)
    /\ \A step, c, item, groups :
          LET h == [step |-> step, of |-> c, item |-> item, groups |-> groups] IN
          /\ Shaped(c) => RequestFits(h)
          /\ step # "checked" \/ c.kind # "relation" => ~Locking(h)
    /\ Shaped(NoCandidate)
BY DEF RequestFits, Locking, Idle, NoCandidate, Shaped, NoRows

LEMMA MovedFits ==
    ASSUME CandidatesFit, HandMoved, \A c \in drafts' \cup DOMAIN items' : Shaped(c)
    PROVE  /\ CandidatesFit'
           /\ \A o \in Operators : Locking(hand'[o]) => hand'[o] = hand[o]
<1>1. CASE UNCHANGED hand BY <1>1 DEF CandidatesFit
<1>2. CASE \E o \in Operators : \E h :
              hand' = [hand EXCEPT ![o] = h] /\ RequestFits(h) /\ ~Locking(h)
  <2>1. PICK o \in Operators : \E h : hand' = [hand EXCEPT ![o] = h] /\ RequestFits(h) /\ ~Locking(h)
    BY <1>2
  <2>2. PICK h : hand' = [hand EXCEPT ![o] = h] /\ RequestFits(h) /\ ~Locking(h)
    BY <2>1
  <2>3. hand = [x \in Operators |-> hand[x]] BY DEF CandidatesFit
  <2>4. hand' = [x \in Operators |-> IF x = o THEN h ELSE hand[x]] BY <2>2, <2>3
  <2>5. hand' = [x \in Operators |-> hand'[x]] BY <2>4
  <2>6. \A x \in Operators : hand'[x] = IF x = o THEN h ELSE hand[x] BY <2>4
  <2> QED BY <2>2, <2>5, <2>6 DEF CandidatesFit
<1> QED BY <1>1, <1>2 DEF HandMoved

LEMMA UndecidedStays ==
    ASSUME StoreFits, StoreFits', PagesGrow, UNCHANGED pairs, NEW c, Undecided(c)
    PROVE  Undecided(c)'
<1>1. ASSUME NEW p \in DOMAIN c.of
      PROVE  p \in DOMAIN pages' /\ c.of[p] \in Nat /\ c.of[p] <= pages'[p].head
  <2>1. p \in DOMAIN pages /\ c.of[p] \in Nat /\ c.of[p] <= pages[p].head BY DEF Undecided
  <2>2. p \in DOMAIN pages' /\ pages[p].head <= pages'[p].head BY <2>1 DEF PagesGrow
  <2>3. pages[p].head \in Nat /\ pages'[p].head \in Nat
    BY <2>1, <2>2 DEF StoreFits, PagesFit, Counted
  <2> QED BY <2>1, <2>2, <2>3
<1> QED BY <1>1 DEF Undecided, SuppressedPair, RejectedPair, Rejected

LEMMA PairsStay ==
    ASSUME StoreFits, StoreFits', PagesGrow, PairsFit, UNCHANGED pairs
    PROVE  PairsFit'
<1>1. ASSUME NEW f, Rejected(f), NEW p \in DOMAIN f
      PROVE  p \in DOMAIN pages' /\ f[p] \in Nat /\ f[p] <= pages'[p].head
  <2>1. p \in DOMAIN pages /\ f[p] \in Nat /\ f[p] <= pages[p].head BY <1>1 DEF PairsFit
  <2>2. p \in DOMAIN pages' /\ pages[p].head <= pages'[p].head BY <2>1 DEF PagesGrow
  <2>3. pages[p].head \in Nat /\ pages'[p].head \in Nat
    BY <2>1, <2>2 DEF StoreFits, PagesFit, Counted
  <2> QED BY <2>1, <2>2, <2>3
<1> QED BY <1>1 DEF PairsFit, Rejected

\* Every step without a decision, and without a lock that is taken.
LEMMA CalmStep ==
    ASSUME OperatorInv, StoreFits', PagesGrow, TablesFit', UNCHANGED pairs, HandMoved,
           \A c \in drafts' \cup DOMAIN items' : Shaped(c)
    PROVE  OperatorInv'
<1>1. StoreFits /\ CandidatesFit /\ PairsFit /\ LockFits BY DEF OperatorInv, StoreFits
<1>2. CandidatesFit' /\ \A o \in Operators : Locking(hand'[o]) => hand'[o] = hand[o]
  BY <1>1, MovedFits
<1>3. PairsFit' BY <1>1, PairsStay
<1>4. LockFits'
  <2>1. \A o \in Operators : Applying(o, "relation")' => Applying(o, "relation") /\ hand'[o] = hand[o]
    BY <1>2 DEF Applying, Locking
  <2>2. ASSUME NEW o \in Operators, Applying(o, "relation")' PROVE Undecided(hand[o].of)'
    <3>1. PICK c : c = hand[o].of OBVIOUS
    <3>2. Undecided(c) BY <1>1, <2>1, <2>2, <3>1 DEF LockFits
    <3>3. Undecided(c)' BY <1>1, <3>2, UndecidedStays
    <3> QED BY <2>1, <2>2, <3>1, <3>3
  <2>3. \A o, x \in Operators : Applying(o, "relation")' /\ Applying(x, "relation")' => o = x
    BY <1>1, <2>1 DEF LockFits
  <2> QED BY <2>2, <2>3 DEF LockFits
<1> QED BY <1>2, <1>3, <1>4 DEF OperatorInv, StoreFits

LEMMA TablesStay ==
    ASSUME TablesFit, PagesGrow, UNCHANGED <<summaries, links>>
    PROVE  TablesFit'
<1>1. DOMAIN pages \subseteq DOMAIN pages' BY DEF PagesGrow
<1> QED BY <1>1 DEF TablesFit

LEMMA PagesStay ==
    ASSUME StoreFits, UNCHANGED <<pages, used>>
    PROVE  StoreFits' /\ PagesGrow
<1>1. StoreFits' BY DEF StoreFits, Counted, PagesFit, OwnPages, HeldOnce, Holds
<1>2. \A p \in DOMAIN pages : pages[p].head <= pages[p].head BY HeadsTyped
<1> QED BY <1>1, <1>2 DEF PagesGrow

-----------------------------------------------------------------------------
(* The steps                                                               *)

LEMMA InvParts ==
    ASSUME OperatorInv
    PROVE  /\ StoreFits /\ CandidatesFit /\ TablesFit
           /\ \A c \in drafts \cup DOMAIN items : Shaped(c)
           /\ \A o \in Operators : RequestFits(hand[o])
BY DEF OperatorInv, StoreFits, CandidatesFit

LEMMA BeginMoves ==
    ASSUME NEW o \in Operators, NEW step, NEW c, NEW item, NEW groups,
           Begin(o, step, c, item, groups), Shaped(c), step # "checked" \/ c.kind # "relation"
    PROVE  HandMoved
BY RequestsFit DEF Begin, HandMoved

LEMMA DoneMoves ==
    ASSUME NEW o \in Operators, Done(o)
    PROVE  HandMoved
BY RequestsFit DEF Done, HandMoved

\* Tenants.
LEMMA TenantSteps ==
    ASSUME OperatorInv, NEW p, p \in DOMAIN pages, Revise(p) \/ Restore(p) \/ DeleteSummary(p)
    PROVE  OperatorInv'
<1>1. UNCHANGED <<links, keys, drafts, items, pairs, hand>>
  BY DEF Revise, Restore, DeleteSummary, ledger
<1>2. HandMoved /\ \A c \in drafts' \cup DOMAIN items' : Shaped(c) BY <1>1, InvParts DEF HandMoved
<1>3. StoreFits' /\ PagesGrow
  <2>1. CASE Revise(p) BY <2>1, InvParts, HeadMoves DEF Revise
  <2>2. CASE Restore(p)
    <3>1. pages' = [pages EXCEPT ![p].status = "active"] /\ pages[p].status = "archived" /\ UNCHANGED used
      BY <2>2 DEF Restore
    <3>2. /\ DOMAIN pages' = DOMAIN pages /\ pages' = [q \in DOMAIN pages' |-> pages'[q]]
          /\ \A q \in DOMAIN pages : q # p => pages'[q] = pages[q]
      BY <3>1, InvParts DEF StoreFits, PagesFit
    <3>3. \A q \in DOMAIN pages :
            /\ DOMAIN pages[q] = {"head", "span", "status"}
            /\ pages[q].status \in {"active", "archived", "gone"}
      BY InvParts DEF StoreFits, PagesFit
    <3>4. /\ DOMAIN pages'[p] = DOMAIN pages[p] /\ pages'[p].head = pages[p].head
          /\ pages'[p].span = pages[p].span /\ pages'[p].status = "active"
      BY <3>1, <3>3
    <3>5. \A q \in DOMAIN pages :
            /\ DOMAIN pages'[q] = DOMAIN pages[q] /\ pages'[q].head = pages[q].head
            /\ pages'[q].span = pages[q].span
            /\ pages'[q].status \in {"active", "archived", "gone"}
            /\ (pages'[q].status = "gone" <=> pages[q].status = "gone")
      BY <3>1, <3>2, <3>3, <3>4
    <3>6. HeldOnce' BY <3>2, <3>5, InvParts, StillHeld
    <3> QED BY <3>1, <3>2, <3>5, <3>6, InvParts, StatusesMove
  <2>3. CASE DeleteSummary(p) BY <2>3, InvParts, PagesStay DEF DeleteSummary
  <2> QED BY <2>1, <2>2, <2>3
<1>4. TablesFit'
  <2>1. CASE UNCHANGED summaries BY <1>1, <1>3, <2>1, InvParts, TablesStay
  <2>2. CASE DeleteSummary(p)
    <3>1. DOMAIN summaries' \subseteq DOMAIN summaries /\ UNCHANGED <<pages, links>>
      BY <2>2 DEF DeleteSummary, Drop
    <3> QED BY <3>1, InvParts DEF TablesFit
  <2> QED BY <2>1, <2>2 DEF Revise, Restore
<1> QED BY <1>1, <1>2, <1>3, <1>4, CalmStep

\* Steps that leave the store and the decisions alone.
LEMMA PaperStep ==
    ASSUME OperatorInv, UNCHANGED <<pages, summaries, links, used, pairs>>, HandMoved,
           \A c \in drafts' \cup DOMAIN items' : Shaped(c)
    PROVE  OperatorInv'
<1>1. StoreFits' /\ PagesGrow BY InvParts, PagesStay
<1>2. TablesFit' BY <1>1, InvParts, TablesStay
<1> QED BY <1>1, <1>2, CalmStep

LEMMA AnalysisSteps ==
    ASSUME OperatorInv,
           \/ AnalyzeSummary \/ AnalyzeRelation \/ AnalyzeArchive
           \/ \E kind \in Handled : \E c \in Candidates(kind) : Propose(c)
           \/ \E o \in Operators : \/ \E kind \in Handled : Scan(o, kind)
                                   \/ AnalyzePacks(o) \/ AnalyzeSummaries(o)
    PROVE  OperatorInv'
<1>1. ASSUME NEW kind, AnalyzePage(kind) PROVE OperatorInv'
  <2>1. PICK c \in Candidates(kind) : drafts' = drafts \cup {c} BY <1>1 DEF AnalyzePage
  <2>2. UNCHANGED <<pages, summaries, links, used, pairs, items, hand>>
    BY <1>1 DEF AnalyzePage, store, ledger
  <2>3. \A x \in drafts' \cup DOMAIN items' : Shaped(x) BY <2>1, <2>2, CandidateShaped, InvParts
  <2> QED BY <2>2, <2>3, PaperStep DEF HandMoved
<1>2. ASSUME NEW kind, NEW c \in Candidates(kind), Propose(c) PROVE OperatorInv'
  <2>1. items' = Put(items, c, "pending") /\ UNCHANGED <<pages, summaries, links, used, pairs, drafts, hand>>
    BY <1>2 DEF Propose, store
  <2>2. DOMAIN items' = DOMAIN items \cup {c} BY <2>1 DEF Put
  <2>3. \A x \in drafts' \cup DOMAIN items' : Shaped(x) BY <2>1, <2>2, CandidateShaped, InvParts
  <2> QED BY <2>1, <2>3, PaperStep DEF HandMoved
<1>3. ASSUME NEW o \in Operators, NEW kind, Scan(o, kind) PROVE OperatorInv'
  <2>1. /\ kind \in {"pack", "summary"} /\ Begin(o, kind, NoCandidate, FALSE, ScanId(kind))
        /\ UNCHANGED <<pages, summaries, links, used, pairs, drafts, items>>
    BY <1>3 DEF Scan, store, ledger
  <2>2. HandMoved BY <2>1, RequestsFit, BeginMoves
  <2>3. \A x \in drafts' \cup DOMAIN items' : Shaped(x) BY <2>1, InvParts
  <2> QED BY <2>1, <2>2, <2>3, PaperStep
<1>4. ASSUME NEW o \in Operators, NEW kind, NEW S, Analyzed(o, kind, S) PROVE OperatorInv'
  <2>1. /\ S \subseteq Candidates(kind) /\ drafts' = drafts \cup S /\ Done(o)
        /\ UNCHANGED <<pages, summaries, links, used, pairs, items>>
    BY <1>4 DEF Analyzed, ScanId, store, ledger
  <2>2. \A x \in drafts' \cup DOMAIN items' : Shaped(x) BY <2>1, CandidateShaped, InvParts
  <2> QED BY <2>1, <2>2, DoneMoves, PaperStep
<1> QED BY <1>1, <1>2, <1>3, <1>4
  DEF AnalyzeSummary, AnalyzeRelation, AnalyzeArchive, AnalyzePacks, AnalyzeSummaries

\* A relation is looked at when no other holds the lock, and with every decision.
LEMMA CheckStep ==
    ASSUME OperatorInv, NEW o \in Operators, NEW c \in drafts \cup DOMAIN items, NEW item,
           Check(o, c, item)
    PROVE  OperatorInv'
<1>1. /\ Begin(o, "checked", c, item, {}) /\ Applicable(c) /\ (c.kind = "relation" => Unlocked)
      /\ UNCHANGED <<pages, summaries, links, used, pairs, drafts, items>>
  BY DEF Check, store, ledger
<1>2. \A x \in drafts' \cup DOMAIN items' : Shaped(x) BY <1>1, InvParts
<1>3. CASE c.kind # "relation"
  <2>1. HandMoved BY <1>1, <1>3, InvParts, BeginMoves
  <2> QED BY <1>1, <1>2, <2>1, PaperStep
<1>4. CASE c.kind = "relation"
  <2> DEFINE h == [step |-> "checked", of |-> c, item |-> item, groups |-> {}]
  <2>1. \A x \in Operators : ~Locking(hand[x]) BY <1>1, <1>4 DEF Unlocked, Locking
  <2>2. hand = [x \in Operators |-> hand[x]] BY InvParts DEF CandidatesFit
  <2>3. hand' = [x \in Operators |-> IF x = o THEN h ELSE hand[x]] BY <1>1, <2>2 DEF Begin
  <2>4. RequestFits(h) BY InvParts DEF RequestFits
  <2>5. CandidatesFit' BY <1>2, <2>3, <2>4, InvParts DEF CandidatesFit
  <2>6. RelationApplicable(c) BY <1>1, <1>4 DEF Applicable
  <2>7. \A p \in DOMAIN c.of : p \in DOMAIN pages /\ pages[p].head = c.of[p]
    BY <2>6 DEF RelationApplicable, Current, Active
  <2>8. \A p \in DOMAIN c.of : c.of[p] \in Nat /\ c.of[p] <= pages[p].head
    BY <2>7, HeadsTyped, InvParts
  <2>9. ASSUME NEW f, Rejected(f), DOMAIN f = DOMAIN c.of, NEW p \in DOMAIN f PROVE f[p] <= c.of[p]
    BY <2>7, <2>9 DEF OperatorInv, PairsFit
  <2>10. Undecided(c) BY <2>6, <2>7, <2>8, <2>9 DEF Undecided, RelationApplicable
  <2>11. StoreFits' /\ PagesGrow BY <1>1, InvParts, PagesStay
  <2>12. Undecided(c)' BY <1>1, <2>10, <2>11, InvParts, UndecidedStays
  <2>13. \A x \in Operators : hand'[x] = IF x = o THEN h ELSE hand[x] BY <2>3
  <2>14. LockFits'
    <3>1. \A x \in Operators : Applying(x, "relation")' => x = o
      BY <2>1, <2>13 DEF Applying, Locking
    <3>2. hand'[o].of = c BY <2>13
    <3> QED BY <2>12, <3>1, <3>2 DEF LockFits
  <2>15. PairsFit' BY <1>1, <2>11, InvParts, PairsStay DEF OperatorInv
  <2>16. TablesFit' BY <1>1, <2>11, InvParts, TablesStay
  <2> QED BY <2>5, <2>11, <2>14, <2>15, <2>16 DEF OperatorInv, StoreFits
<1> QED BY <1>3, <1>4

LEMMA AppliedMoves ==
    ASSUME OperatorInv, NEW o \in Operators, Applied(o, hand[o].of)
    PROVE  HandMoved /\ UNCHANGED <<drafts, items, pairs>>
<1>1. Shaped(hand[o].of) BY InvParts DEF RequestFits
<1>2. CASE hand[o].item BY <1>1, <1>2, BeginMoves DEF Applied, ledger
<1>3. CASE ~hand[o].item BY <1>3, DoneMoves DEF Applied, ledger
<1> QED BY <1>2, <1>3

LEMMA ApplySteps ==
    ASSUME OperatorAssumption, OperatorInv, NEW o \in Operators,
           ApplyPack(o) \/ ApplySummary(o) \/ ApplyRelation(o) \/ ApplyArchive(o)
    PROVE  OperatorInv'
<1> DEFINE c == hand[o].of
<1>1. Applied(o, c) BY DEF ApplyPack, ApplySummary, ApplyRelation, ApplyArchive
<1>2. HandMoved /\ UNCHANGED <<drafts, items, pairs>> BY <1>1, AppliedMoves
<1>3. \A x \in drafts' \cup DOMAIN items' : Shaped(x) BY <1>2, InvParts
<1> HIDE DEF c
<1>4. StoreFits' /\ PagesGrow
  <2>1. CASE ApplyPack(o)
    <3>1. CASE UNCHANGED <<pages, used>> BY <3>1, InvParts, PagesStay
    <3>2. CASE Current(c) /\ Pack(DOMAIN c.of)
      <4>1. DOMAIN c.of \subseteq Active BY <3>2 DEF Current
      <4> QED BY <3>2, <4>1, InvParts, PackTakesOver
    <3> QED BY <2>1, <3>1, <3>2 DEF ApplyPack, c
  <2>2. CASE ApplySummary(o) \/ ApplyRelation(o)
    <3>1. UNCHANGED <<pages, used>> BY <2>2 DEF ApplySummary, ApplyRelation
    <3> QED BY <3>1, InvParts, PagesStay
  <2>3. CASE ApplyArchive(o)
    <3>1. /\ Current(c) /\ UNCHANGED used
          /\ pages' = [p \in DOMAIN pages |->
                IF p \in DOMAIN c.of THEN [pages[p] EXCEPT !.status = "archived"] ELSE pages[p]]
      BY <2>3 DEF ApplyArchive, c
    <3>2. \A p \in DOMAIN c.of : p \in DOMAIN pages /\ pages[p].status = "active"
      BY <3>1 DEF Current, Active
    <3>3. \A q \in DOMAIN pages :
            /\ DOMAIN pages[q] = {"head", "span", "status"}
            /\ pages[q].status \in {"active", "archived", "gone"}
      BY InvParts DEF StoreFits, PagesFit
    <3>4. /\ DOMAIN pages' = DOMAIN pages
          /\ \A q \in DOMAIN pages :
               /\ DOMAIN pages'[q] = DOMAIN pages[q] /\ pages'[q].head = pages[q].head
               /\ pages'[q].span = pages[q].span
               /\ pages'[q].status \in {"active", "archived", "gone"}
               /\ (pages'[q].status = "gone" <=> pages[q].status = "gone")
      BY <3>1, <3>2, <3>3
    <3>5. HeldOnce' BY <3>4, InvParts, StillHeld
    <3>6. pages' = [q \in DOMAIN pages' |-> pages'[q]] BY <3>1
    <3> QED BY <3>1, <3>4, <3>5, <3>6, InvParts, StatusesMove
  <2> QED BY <2>1, <2>2, <2>3
<1>5. TablesFit'
  <2>1. CASE UNCHANGED <<summaries, links>> BY <1>4, <2>1, InvParts, TablesStay
  <2>2. CASE ApplySummary(o)
    <3>1. UNCHANGED <<pages, links>> BY <2>2 DEF ApplySummary
    <3>2. CASE UNCHANGED summaries BY <3>1, <3>2, InvParts DEF TablesFit
    <3>3. CASE (\A p \in DOMAIN c.of : p \in Active) /\ summaries' = Over(c.of, summaries)
      <4>1. DOMAIN summaries' = DOMAIN c.of \cup DOMAIN summaries BY <3>3 DEF Over
      <4> QED BY <3>1, <3>3, <4>1, InvParts DEF TablesFit, Active
    <3> QED BY <2>2, <3>2, <3>3 DEF ApplySummary, c
  <2>3. CASE ApplyRelation(o)
    <3>1. DOMAIN c.of \subseteq Active /\ links' = links \cup {DOMAIN c.of} /\ UNCHANGED <<pages, summaries>>
      BY <2>3 DEF ApplyRelation, c
    <3> QED BY <3>1, InvParts DEF TablesFit, Active
  <2> QED BY <2>1, <2>2, <2>3 DEF ApplyPack, ApplyArchive, Pack
<1> QED BY <1>2, <1>3, <1>4, <1>5, CalmStep

LEMMA ResolveSteps ==
    ASSUME OperatorInv, NEW o \in Operators,
           Resolve(o) \/ Ends(o) \/ \E c \in DOMAIN items : Reject(o, c)
    PROVE  OperatorInv'
<1>1. UNCHANGED <<pages, summaries, links, used, pairs, drafts>> /\ DOMAIN items' = DOMAIN items
  BY DEF Resolve, Ends, Reject, store, ledger
<1>2. HandMoved
  <2>1. CASE UNCHANGED hand BY <2>1 DEF HandMoved
  <2>2. CASE Done(o) BY <2>2, DoneMoves
  <2> QED BY <2>1, <2>2 DEF Resolve, Ends, Reject
<1>3. \A x \in drafts' \cup DOMAIN items' : Shaped(x) BY <1>1, InvParts
<1> QED BY <1>1, <1>2, <1>3, PaperStep

\* A decision is made of the heads as they are, and only where no relation is applied.
LEMMA DecideStep ==
    ASSUME OperatorInv, NEW o \in Operators, NEW c \in drafts \cup DOMAIN items, NEW how,
           how \in {"rejected", "suppressed"}, DecidePair(o, c, how)
    PROVE  OperatorInv'
<1>1. /\ Unlocked /\ UNCHANGED <<pages, summaries, links, used, drafts, items>>
      /\ pairs' = pairs \cup {IF how = "rejected" THEN <<how, c.of>> ELSE <<how, DOMAIN c.of>>}
      /\ how = "rejected" => Current(c)
  BY DEF DecidePair, store
<1>2. Shaped(c) BY InvParts
<1>3. HandMoved
  <2>1. CASE UNCHANGED hand BY <2>1 DEF HandMoved
  <2>2. CASE Begin(o, "decided", c, TRUE, {}) BY <1>2, <2>2, BeginMoves
  <2> QED BY <2>1, <2>2 DEF DecidePair
<1>4. \A x \in drafts' \cup DOMAIN items' : Shaped(x) BY <1>1, InvParts
<1>5. CandidatesFit' /\ \A x \in Operators : Locking(hand'[x]) => hand'[x] = hand[x]
  BY <1>3, <1>4, InvParts, MovedFits
<1>6. LockFits'
  <2>1. \A x \in Operators : ~Locking(hand[x]) BY <1>1 DEF Unlocked, Locking
  <2>2. \A x \in Operators : ~Applying(x, "relation")' BY <1>5, <2>1 DEF Applying, Locking
  <2> QED BY <2>2 DEF LockFits
<1>7. StoreFits' /\ PagesGrow BY <1>1, InvParts, PagesStay
<1>8. TablesFit' BY <1>1, <1>7, InvParts, TablesStay
<1>9. PairsFit'
  <2>1. ASSUME NEW f, Rejected(f)', NEW p \in DOMAIN f
        PROVE  p \in DOMAIN pages' /\ f[p] \in Nat /\ f[p] <= pages'[p].head
    <3>1. CASE Rejected(f) BY <1>1, <2>1, <3>1 DEF OperatorInv, PairsFit
    <3>2. CASE ~Rejected(f)
      <4>1. how = "rejected" /\ f = c.of BY <1>1, <2>1, <3>2 DEF Rejected
      <4>2. p \in DOMAIN pages /\ pages[p].head = f[p] BY <1>1, <2>1, <4>1 DEF Current, Active
      <4> QED BY <1>1, <4>2, HeadsTyped, InvParts
    <3> QED BY <3>1, <3>2
  <2> QED BY <2>1 DEF PairsFit
<1> QED BY <1>5, <1>6, <1>7, <1>8, <1>9 DEF OperatorInv, StoreFits

LEMMA SplitSteps ==
    ASSUME OperatorAssumption, OperatorInv, NEW o \in Operators,
           \/ \E p \in DOMAIN pages : Unpack(o, p)
           \/ \E P \in SUBSET (1 .. Sources) : Repack(o, P) \/ PackPart(o, P)
    PROVE  OperatorInv'
<1>1. UNCHANGED <<summaries, links, drafts, items, pairs>>
  BY DEF Unpack, Repack, PackPart, Pack, store, ledger
<1>2. \A x \in drafts' \cup DOMAIN items' : Shaped(x) BY <1>1, InvParts
<1>3. StoreFits' /\ PagesGrow
  <2>1. CASE \E p \in DOMAIN pages : Unpack(o, p) BY <2>1, InvParts, SplitGivesBack
  <2>2. CASE \E P \in SUBSET (1 .. Sources) : Repack(o, P)
    <3>1. UNCHANGED <<pages, used>> BY <2>2 DEF Repack, store
    <3> QED BY <3>1, InvParts, PagesStay
  <2>3. CASE \E P \in SUBSET (1 .. Sources) : PackPart(o, P)
    <3>1. PICK P : P \subseteq Active /\ Pack(P) BY <2>3 DEF PackPart
    <3> QED BY <3>1, InvParts, PackTakesOver
  <2> QED BY <2>1, <2>2, <2>3
<1>4. HandMoved
  <2>1. ASSUME NEW parts, Begin(o, "split", NoCandidate, FALSE, parts) PROVE HandMoved
    BY <2>1, RequestsFit, BeginMoves
  <2>2. CASE \E p \in DOMAIN pages : Unpack(o, p) BY <2>1, <2>2 DEF Unpack
  <2>3. CASE \E P \in SUBSET (1 .. Sources) : Repack(o, P) BY <2>1, <2>3 DEF Repack
  <2>4. CASE \E P \in SUBSET (1 .. Sources) : PackPart(o, P)
    <3>1. PICK P : hand[o].step = "split" /\ hand' = [hand EXCEPT ![o] = Without(@, P)]
      BY <2>4 DEF PackPart
    <3> DEFINE h == Without(hand[o], P)
    <3>2. RequestFits(hand[o]) BY InvParts
    <3>3. RequestFits(h) /\ ~Locking(h)
      <4>1. CASE hand[o].groups = {P}
        <5>1. h = Idle BY <4>1 DEF Without
        <5> QED BY <5>1, RequestsFit
      <4>2. CASE hand[o].groups # {P}
        <5>1. h = [hand[o] EXCEPT !.groups = @ \ {P}] BY <4>2 DEF Without
        <5>2. DOMAIN h = DOMAIN hand[o] /\ h.of = hand[o].of /\ h.step = "split"
          BY <3>1, <3>2, <5>1 DEF RequestFits
        <5> QED BY <3>2, <5>2 DEF RequestFits, Locking
      <4> QED BY <4>1, <4>2
    <3>4. hand' = [hand EXCEPT ![o] = h] BY <3>1
    <3> HIDE DEF h
    <3> QED BY <3>3, <3>4 DEF HandMoved
  <2> QED BY <2>2, <2>3, <2>4
<1>5. TablesFit' BY <1>1, <1>3, InvParts, TablesStay
<1> QED BY <1>1, <1>2, <1>3, <1>4, <1>5, CalmStep

LEMMA OperatorStep ==
    ASSUME OperatorAssumption, OperatorInv, [OperatorNext]_operatorVars
    PROVE  OperatorInv'
<1>1. CASE UNCHANGED operatorVars
  <2>1. UNCHANGED <<pages, summaries, links, used, drafts, items, pairs, hand>>
    BY <1>1 DEF operatorVars
  <2>2. HandMoved /\ \A x \in drafts' \cup DOMAIN items' : Shaped(x) BY <2>1, InvParts DEF HandMoved
  <2> QED BY <2>1, <2>2, PaperStep
<1>2. CASE \E p \in DOMAIN pages : Revise(p) \/ Restore(p) \/ DeleteSummary(p)
  BY <1>2, TenantSteps
<1>3. CASE \/ AnalyzeSummary \/ AnalyzeRelation \/ AnalyzeArchive
           \/ \E kind \in Handled : \E c \in Candidates(kind) : Propose(c)
           \/ \E o \in Operators : \/ \E kind \in Handled : Scan(o, kind)
                                   \/ AnalyzePacks(o) \/ AnalyzeSummaries(o)
  BY <1>3, AnalysisSteps
<1>4. CASE \E o \in Operators : \/ \E c \in drafts : Check(o, c, FALSE)
                                \/ \E c \in DOMAIN items : Check(o, c, TRUE)
  BY <1>4, CheckStep
<1>5. CASE \E o \in Operators : ApplyPack(o) \/ ApplySummary(o) \/ ApplyRelation(o) \/ ApplyArchive(o)
  BY <1>5, ApplySteps
<1>6. CASE \E o \in Operators : Resolve(o) \/ Ends(o) \/ \E c \in DOMAIN items : Reject(o, c)
  BY <1>6, ResolveSteps
<1>7. CASE \E o \in Operators : \E c \in drafts \cup DOMAIN items, how \in {"rejected", "suppressed"} :
              DecidePair(o, c, how)
  BY <1>7, DecideStep
<1>8. CASE \E o \in Operators : \/ \E p \in DOMAIN pages : Unpack(o, p)
                                \/ \E P \in SUBSET (1 .. Sources) : Repack(o, P) \/ PackPart(o, P)
  BY <1>8, SplitSteps
<1> QED BY <1>1, <1>2, <1>3, <1>4, <1>5, <1>6, <1>7, <1>8 DEF OperatorNext

-----------------------------------------------------------------------------
(* The results                                                             *)

\* The store, the candidates, the decisions and the lock fit together, whatever the
\* consoles and tenants do at the same time.
THEOREM OperatorInvariant ==
    ASSUME OperatorAssumption
    PROVE  OperatorSpec => []OperatorInv
<1>1. OperatorInit => OperatorInv BY OperatorStart
<1>2. OperatorInv /\ [OperatorNext]_operatorVars => OperatorInv' BY OperatorStep
<1> QED BY <1>1, <1>2, PTL DEF OperatorSpec

\* The tables are about Pages that exist, and at most one console applies a relation
\* (decision_lock in operator.rs).
THEOREM OperatorsAreTyped ==
    ASSUME OperatorAssumption
    PROVE  OperatorSpec => []OperatorTypeOK
<1>1. ASSUME OperatorInv PROVE OperatorTypeOK
  <2>1. Cardinality({o \in Operators : Applying(o, "relation")}) <= 1
    <3> DEFINE A == {o \in Operators : Applying(o, "relation")}
    <3>1. CASE A = {}
      <4>1. Cardinality({}) = 0 BY FS_EmptySet
      <4> QED BY <3>1, <4>1
    <3>2. CASE A # {}
      <4>1. PICK o : o \in A BY <3>2
      <4>2. A = {o} BY <1>1, <4>1 DEF OperatorInv, LockFits
      <4>3. Cardinality({o}) = 1 BY FS_Singleton
      <4> QED BY <4>2, <4>3
    <3> QED BY <3>1, <3>2
  <2>2. DOMAIN pages = 1 .. used.page
        /\ \A p \in DOMAIN pages : pages[p].head \in 1 .. used.rev
    BY <1>1 DEF OperatorInv, PagesFit
  <2>3. \A p, q \in DOMAIN pages : pages[p].head = pages[q].head => p = q
    BY <1>1 DEF OperatorInv, PagesFit
  <2> QED BY <1>1, <2>1, <2>2, <2>3 DEF OperatorInv, TablesFit, OperatorTypeOK
<1> QED BY <1>1, OperatorInvariant, PTL

\* No source is lost or doubled, whichever step of a split, a repack or an application
\* fails or meets another console: exactly one Page that is not gone has it.
THEOREM SourcesAreKept ==
    ASSUME OperatorAssumption
    PROVE  OperatorSpec => []SourcesKept
<1>1. ASSUME OperatorInv PROVE SourcesKept
  <2>1. SUFFICES ASSUME NEW s \in 1 .. Sources
                 PROVE  Cardinality({p \in DOMAIN pages :
                                        pages[p].status # "gone" /\ s \in pages[p].span}) = 1
    BY DEF SourcesKept
  <2>2. PICK h : Holds(h, s) /\ \A q : Holds(q, s) => q = h BY <1>1 DEF OperatorInv, HeldOnce
  <2>3. {p \in DOMAIN pages : pages[p].status # "gone" /\ s \in pages[p].span} = {h}
    BY <2>2 DEF Holds
  <2> QED BY <2>3, FS_Singleton
<1> QED BY <1>1, OperatorInvariant, PTL

\* No relation appears against a decision, though tenants revise its Pages while it is
\* applied: the decisions cannot change, and one that was made of other Revisions was
\* made before those the console looked at.
THEOREM NoRelationAgainst ==
    ASSUME OperatorAssumption
    PROVE  OperatorSpec => NoEdgeAgainstDecision
<1>1. ASSUME OperatorInv, [OperatorNext]_operatorVars
      PROVE  [\A P \in links' \ links :
                ~SuppressedPair(P) /\ <<"rejected", [p \in P |-> pages[p].head]>> \notin pairs]_operatorVars
  <2>1. SUFFICES ASSUME NEW P \in links' \ links
                 PROVE  ~SuppressedPair(P) /\ <<"rejected", [p \in P |-> pages[p].head]>> \notin pairs
    OBVIOUS
  <2>2. PICK o \in Operators : ApplyRelation(o)
    BY <1>1, <2>1
    DEF OperatorNext, operatorVars, store, Revise, Restore, DeleteSummary, AnalyzeSummary,
        AnalyzeRelation, AnalyzeArchive, AnalyzePage, Propose, Scan, AnalyzePacks,
        AnalyzeSummaries, Analyzed, Check, Reject, ApplyPack, ApplySummary, ApplyArchive, Pack,
        Resolve, Ends, DecidePair, Unpack, Repack, PackPart
  <2> DEFINE c == hand[o].of
             now == [p \in P |-> pages[p].head]
  <2>3. P = DOMAIN c.of /\ P \subseteq Active /\ Applying(o, "relation") BY <2>1, <2>2 DEF ApplyRelation
  <2>4. Undecided(c) BY <1>1, <2>3 DEF OperatorInv, LockFits
  <2>5. ASSUME Rejected(now) PROVE FALSE
    <3>1. \A p \in P : now[p] <= c.of[p] BY <2>3, <2>4, <2>5 DEF Undecided
    <3>2. \A p \in P : c.of[p] \in Nat /\ c.of[p] <= now[p] /\ now[p] \in Nat
      BY <1>1, <2>3, <2>4, HeadsTyped, InvParts DEF Undecided, Active
    <3>3. \A p \in P : now[p] = c.of[p] BY <3>1, <3>2
    <3>4. c.of = [p \in P |-> c.of[p]] BY <1>1, <2>3, InvParts DEF RequestFits, Shaped
    <3>5. now = c.of BY <3>3, <3>4
    <3> QED BY <2>4, <2>5, <3>5 DEF Undecided, RejectedPair, Rejected
  <2> QED BY <2>3, <2>4, <2>5 DEF Undecided, Rejected
<1> QED BY <1>1, OperatorInvariant, PTL DEF OperatorSpec, NoEdgeAgainstDecision
=============================================================================
