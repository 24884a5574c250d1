-------------------------- MODULE Services_proofs ---------------------------
(***************************************************************************)
(* Proofs about AccessGate, Enrollment, HubWithdrawal and HubActivity, the *)
(* four parts that MCServices runs beside each other; none uses another's  *)
(* invariant.                                                              *)
(***************************************************************************)
EXTENDS AccessGate, Enrollment, HubActivity, HubWithdrawal, FiniteSetTheorems, SequenceTheorems,
    TLAPS

-----------------------------------------------------------------------------
(***************************************************************************)
(* AccessGate, for any sessions, grants and Scopes.  A call is            *)
(* looked up in one step and commits in a later one, and an operator may  *)
(* move Pages in between.  It is safe because the transaction compares the *)
(* exact heads: a Revision has one Scope for ever, so a head that is the  *)
(* one that was looked up is in the Scope that was looked up.  What is    *)
(* attached to a Revision follows that Scope, wherever the Page went.     *)
(***************************************************************************)

-----------------------------------------------------------------------------
(* Pages and Revisions                                                     *)

Places == Scopes \cup {None}

\* Every Page is where its head is.
StoreInv ==
    /\ pages \in Seq([scope : Places, rev : Nat])
    /\ revs \in Seq(Places)
    /\ \A p \in Pages : /\ pages[p].rev \in DOMAIN revs
                        /\ pages[p].scope = revs[pages[p].rev]

\* A request names Pages with the heads they had, in Places.
Asked(r) ==
    /\ r.into \in Places
    /\ \E P \in SUBSET Pages : r.heads = Heads(P)
    /\ r.onto \subseteq DOMAIN revs

\* What a call was granted: the Revisions it names exist, and the session has the
\* permissions where they are, if that is one of the Scopes of the grant.
GrantHolds(c, call) ==
    /\ call.req.into \in Places
    /\ IsFiniteSet(call.req.heads)
    /\ \A h \in call.req.heads :
          /\ h[1] \in DOMAIN pages /\ h[2] \in DOMAIN revs
          /\ revs[h[2]] \in call.scopes => \A n \in call.req.needs : Allows(c, n, revs[h[2]])
    /\ \A x \in call.req.onto :
          /\ x \in DOMAIN revs
          /\ revs[x] \in call.scopes => \A n \in call.req.needs : Allows(c, n, revs[x])
GrantsHold == \A c \in Callers : calls[c].step = "granted" => GrantHolds(c, calls[c])

GateInv == StoreInv /\ calls = [c \in Callers |-> calls[c]] /\ GrantsHold

-----------------------------------------------------------------------------
(* What the store adds                                                     *)

\* Pages and Revisions are only added, and no Revision changes its Scope.
StoreGrows ==
    /\ DOMAIN pages \subseteq DOMAIN pages'
    /\ DOMAIN revs \subseteq DOMAIN revs'
    /\ \A r \in DOMAIN revs : revs'[r] = revs[r]

LEMMA FunctionIsSequence ==
    ASSUME NEW S, NEW n \in Nat, NEW f \in [1 .. n -> S]
    PROVE  f \in Seq(S) /\ Len(f) = n
OBVIOUS

LEMMA SequenceIsFunction ==
    ASSUME NEW S, NEW f \in Seq(S)
    PROVE  Len(f) \in Nat /\ DOMAIN f = 1 .. Len(f) /\ \A i \in DOMAIN f : f[i] \in S
OBVIOUS

\* The tables row by row.
LEMMA Rows ==
    ASSUME StoreInv
    PROVE  /\ Len(pages) \in Nat /\ Pages = 1 .. Len(pages) /\ DOMAIN pages = Pages
           /\ Len(revs) \in Nat /\ DOMAIN revs = 1 .. Len(revs)
           /\ \A p \in Pages : /\ pages[p].scope \in Places /\ pages[p].rev \in Nat
                               /\ pages[p] = [scope |-> pages[p].scope, rev |-> pages[p].rev]
                               /\ pages[p].rev \in DOMAIN revs
                               /\ pages[p].scope = revs[pages[p].rev]
<1>1. \A p \in Pages : pages[p] \in [scope : Places, rev : Nat]
  BY SequenceIsFunction DEF StoreInv, Pages
<1>. QED  BY <1>1, SequenceIsFunction DEF StoreInv, Pages

LEMMA GrantsLast ==
    ASSUME StoreGrows, NEW c, NEW call, GrantHolds(c, call)
    PROVE  /\ call.req.into \in Places
           /\ IsFiniteSet(call.req.heads)
           /\ \A h \in call.req.heads :
                 /\ h[1] \in DOMAIN pages' /\ h[2] \in DOMAIN revs'
                 /\ revs'[h[2]] \in call.scopes =>
                       \A n \in call.req.needs : Allows(c, n, revs'[h[2]])
           /\ \A x \in call.req.onto :
                 /\ x \in DOMAIN revs'
                 /\ revs'[x] \in call.scopes => \A n \in call.req.needs : Allows(c, n, revs'[x])
BY DEF StoreGrows, GrantHolds

LEMMA AskedHolds ==
    ASSUME StoreInv, NEW r, Asked(r)
    PROVE  /\ r.into \in Places /\ IsFiniteSet(r.heads)
           /\ \A h \in r.heads : /\ h[1] \in DOMAIN pages /\ h[2] \in DOMAIN revs
                                 /\ revs[h[2]] = pages[h[1]].scope
           /\ r.onto \subseteq DOMAIN revs
<1>1. PICK P \in SUBSET Pages : r.heads = Heads(P)
  BY DEF Asked
<1>2. \A h \in r.heads : h[1] \in P /\ h[2] = pages[h[1]].rev
  BY <1>1 DEF Heads
<1>3. IsFiniteSet(Pages)
  <2>1. Len(pages) \in Nat /\ Pages = 1 .. Len(pages)
    BY DEF StoreInv, Pages
  <2>. QED  BY <2>1, FS_Interval
<1>4. IsFiniteSet(P)
  BY <1>3, FS_Subset
<1>5. IsFiniteSet(r.heads)
  <2>. DEFINE f == [p \in P |-> <<p, pages[p].rev>>]
  <2>1. f \in Surjection(P, r.heads)
    BY <1>1 DEF Heads, Surjection
  <2>. QED  BY <1>4, <2>1, FS_Surjection
<1>. QED  BY <1>1, <1>2, <1>5 DEF StoreInv, Asked, Pages

LEMMA CreateKeeps ==
    ASSUME StoreInv, NEW s \in Places,
           pages' = Append(pages, [scope |-> s, rev |-> NextRev]), revs' = Append(revs, s)
    PROVE  StoreInv' /\ StoreGrows
<1>. DEFINE page == [scope |-> s, rev |-> NextRev]
<1>1. Len(revs) \in Nat /\ DOMAIN revs = 1 .. Len(revs) /\ DOMAIN pages = 1 .. Len(pages)
  BY DEF StoreInv
<1>2. page \in [scope : Places, rev : Nat] /\ page.scope = s /\ page.rev = Len(revs) + 1
  BY <1>1 DEF NextRev
<1>. HIDE DEF page
<1>3. /\ pages' \in Seq([scope : Places, rev : Nat]) /\ revs' \in Seq(Places)
      /\ DOMAIN pages' = 1 .. (Len(pages) + 1) /\ DOMAIN revs' = 1 .. (Len(revs) + 1)
      /\ \A p \in 1 .. Len(pages) : pages'[p] = pages[p]
      /\ \A r \in 1 .. Len(revs) : revs'[r] = revs[r]
      /\ pages'[Len(pages) + 1] = page /\ revs'[Len(revs) + 1] = s
  BY <1>2, AppendProperties DEF StoreInv, page
<1>4. StoreGrows
  BY <1>1, <1>3 DEF StoreGrows
<1>5. ASSUME NEW p \in 1 .. Len(pages) + 1
      PROVE  pages'[p].rev \in DOMAIN revs' /\ pages'[p].scope = revs'[pages'[p].rev]
  <2>1. CASE p = Len(pages) + 1
    BY <1>1, <1>2, <1>3, <2>1
  <2>2. CASE p \in 1 .. Len(pages)
    BY <1>1, <1>3, <2>2 DEF StoreInv, Pages
  <2>3. Len(pages) \in Nat
    BY DEF StoreInv
  <2>. QED  BY <2>1, <2>2, <2>3
<1>. QED  BY <1>3, <1>4, <1>5 DEF StoreInv, Pages

LEMMA MoveKeeps ==
    ASSUME StoreInv, NEW p \in Pages, NEW s \in Scopes, TransferPageScope(p, s)
    PROVE  StoreInv' /\ StoreGrows
<1>. DEFINE page == [scope |-> s, rev |-> NextRev]
<1>1. Len(revs) \in Nat /\ DOMAIN revs = 1 .. Len(revs)
  BY DEF StoreInv
<1>2. page \in [scope : Places, rev : Nat] /\ page.scope = s /\ page.rev = Len(revs) + 1
  BY <1>1 DEF NextRev, Places
<1>3. pages' = [pages EXCEPT ![p] = page] /\ revs' = Append(revs, s)
  BY DEF TransferPageScope
<1>. HIDE DEF page
<1>4. /\ pages' \in Seq([scope : Places, rev : Nat])
      /\ DOMAIN pages' = DOMAIN pages /\ pages'[p] = page
      /\ \A q \in Pages : q # p => pages'[q] = pages[q]
  BY <1>2, <1>3 DEF StoreInv, Pages
<1>5. /\ revs' \in Seq(Places) /\ DOMAIN revs' = 1 .. (Len(revs) + 1)
      /\ \A r \in 1 .. Len(revs) : revs'[r] = revs[r]
  BY <1>1, <1>3, AppendProperties DEF StoreInv, Places
<1>6. revs'[Len(revs) + 1] = s
  BY <1>1, <1>3, AppendProperties DEF StoreInv, Places
<1>7. StoreGrows
  BY <1>1, <1>4, <1>5 DEF StoreGrows
<1>8. ASSUME NEW q \in Pages
      PROVE  pages'[q].rev \in DOMAIN revs' /\ pages'[q].scope = revs'[pages'[q].rev]
  <2>1. CASE q = p
    BY <1>1, <1>2, <1>4, <1>5, <1>6, <2>1
  <2>2. CASE q # p
    <3>1. pages'[q] = pages[q] /\ pages[q].rev \in 1 .. Len(revs) /\ pages[q].scope = revs[pages[q].rev]
      BY <1>4, <2>2, Rows
    <3>. QED  BY <1>1, <1>5, <3>1
  <2>. QED  BY <2>1, <2>2
<1>9. DOMAIN pages' = Pages
  BY <1>4 DEF Pages
<1>. QED  BY <1>4, <1>5, <1>7, <1>8, <1>9 DEF StoreInv, Pages

\* The revised heads follow the last Revision, each in the Scope of its Page.
LEMMA RevisePageKeeps ==
    ASSUME StoreInv, NEW r, IsFiniteSet(r.heads), \A h \in r.heads : h[1] \in Pages,
           r.effect = "revise", Effect(r)
    PROVE  StoreInv' /\ StoreGrows
<1>. DEFINE heads == SetToSeq(r.heads)
            new == [i \in DOMAIN heads |-> pages[heads[i][1]].scope]
            At(p) == CHOOSE i \in DOMAIN heads : heads[i][1] = p
            n == Len(revs)
<1>1. /\ pages' = [p \in DOMAIN pages |-> IF \E i \in DOMAIN heads : heads[i][1] = p
                       THEN [pages[p] EXCEPT !.rev = n + At(p)] ELSE pages[p]]
      /\ revs' = revs \o new
  BY DEF Effect
<1>2. PICK m \in Nat : heads \in [1 .. m -> r.heads]
  <2>1. Cardinality(r.heads) \in Nat /\ \E f \in [1 .. Cardinality(r.heads) -> r.heads] : IsInjective(f)
    <3>1. Cardinality(r.heads) \in Nat
      BY FS_CardinalityType
    <3>2. PICK f \in Bijection(1 .. Cardinality(r.heads), r.heads) : TRUE
      BY FS_CardinalityType DEF ExistsBijection
    <3>3. f \in [1 .. Cardinality(r.heads) -> r.heads] /\ IsInjective(f)
      BY <3>2 DEF Bijection, Injection, IsInjective
    <3>. QED  BY <3>1, <3>3
  <2>. QED  BY <2>1 DEF SetToSeq
<1>3. n \in Nat /\ DOMAIN revs = 1 .. n /\ DOMAIN pages = 1 .. Len(pages) /\ Len(pages) \in Nat
  BY DEF StoreInv
<1>. HIDE DEF heads
<1>4. DOMAIN heads = 1 .. m /\ \A i \in 1 .. m : heads[i][1] \in Pages
  BY <1>2
<1>5. /\ new \in [1 .. m -> Places]
      /\ \A i \in 1 .. m : new[i] = pages[heads[i][1]].scope
  BY <1>4, Rows
<1>. HIDE DEF new
<1>6. new \in Seq(Places) /\ Len(new) = m
  <2>1. new \in [1 .. m -> Places]
    BY <1>5
  <2>. QED  BY <1>2, <2>1, FunctionIsSequence
<1>7. /\ revs' \in Seq(Places) /\ DOMAIN revs' = 1 .. (n + m)
      /\ \A i \in 1 .. n : revs'[i] = revs[i]
      /\ \A i \in 1 .. m : revs'[n + i] = new[i]
  <2>1. /\ revs' \in Seq(Places) /\ Len(revs') = n + m
        /\ \A i \in 1 .. n + m : revs'[i] = IF i <= n THEN revs[i] ELSE new[i - n]
    BY <1>1, <1>6, ConcatProperties DEF StoreInv
  <2>2. \A i \in 1 .. m : n + i \in 1 .. n + m /\ ~(n + i <= n) /\ (n + i) - n = i
    BY <1>2, <1>3
  <2>. HIDE DEF n
  <2>. QED  BY <1>2, <1>3, <2>1, <2>2
<1>. HIDE DEF n
<1>8. ASSUME NEW p \in Pages
      PROVE  /\ pages'[p] \in [scope : Places, rev : Nat]
             /\ pages'[p].rev \in DOMAIN revs' /\ pages'[p].scope = revs'[pages'[p].rev]
  <2>1. /\ pages[p] \in [scope : Places, rev : Nat]
        /\ pages[p].rev \in 1 .. n /\ pages[p].scope = revs[pages[p].rev]
    BY <1>3, Rows
  <2>2. CASE \E i \in DOMAIN heads : heads[i][1] = p
    <3>1. At(p) \in 1 .. m /\ heads[At(p)][1] = p
      BY <1>4, <2>2
    <3>. DEFINE k == n + At(p)
    <3>2. pages'[p] = [pages[p] EXCEPT !.rev = k]
      BY <1>1, <2>2 DEF Pages
    <3>3. k \in Nat /\ k \in DOMAIN revs' /\ revs'[k] = pages[p].scope
      BY <1>2, <1>3, <1>5, <1>7, <3>1
    <3>. HIDE DEF k
    <3>. QED  BY <2>1, <3>2, <3>3
  <2>3. CASE ~\E i \in DOMAIN heads : heads[i][1] = p
    <3>1. pages'[p] = pages[p]
      BY <1>1, <2>3 DEF Pages
    <3>. QED  BY <1>2, <1>3, <1>7, <2>1, <3>1
  <2>. QED  BY <2>2, <2>3
<1>9. DOMAIN pages' = DOMAIN pages
  BY <1>1
<1>10. pages' \in Seq([scope : Places, rev : Nat])
  <2>1. pages' \in [1 .. Len(pages) -> [scope : Places, rev : Nat]]
    BY <1>1, <1>3, <1>8 DEF Pages
  <2>. QED  BY <1>3, <2>1, FunctionIsSequence
<1>11. StoreGrows
  BY <1>2, <1>3, <1>7, <1>9 DEF StoreGrows
<1>. QED  BY <1>7, <1>8, <1>9, <1>10, <1>11 DEF StoreInv, Pages

-----------------------------------------------------------------------------
(* What a call is granted                                                  *)

LEMMA GateInvStep ==
    ASSUME GateInv, StoreInv', StoreGrows, calls' = [c \in Callers |-> calls'[c]],
           \A c \in Callers : calls'[c].step = "granted" =>
               calls'[c] = calls[c] \/ GrantHolds(c, calls'[c])
    PROVE  GateInv'
<1>1. ASSUME NEW c \in Callers, calls'[c].step = "granted"
      PROVE  GrantHolds(c, calls[c])'
  <2>. DEFINE call == calls'[c]
  <2>1. CASE call = calls[c]
    <3>1. GrantHolds(c, calls[c])
      BY <1>1, <2>1 DEF GateInv, GrantsHold
    <3>2. GrantHolds(c, call)
      BY ONLY <2>1, <3>1
    <3>. QED  BY <3>2, GrantsLast DEF GrantHolds
  <2>2. CASE GrantHolds(c, call)
    BY <2>2, GrantsLast DEF GrantHolds
  <2>. QED  BY <1>1, <2>1, <2>2
<1>. QED  BY <1>1 DEF GateInv, GrantsHold

\* A step that leaves the store alone and grants nothing.
LEMMA NothingGranted ==
    ASSUME GateInv, UNCHANGED <<pages, revs>>, calls' = [c \in Callers |-> calls'[c]],
           \A c \in Callers : calls'[c].step = "granted" => calls'[c] = calls[c]
    PROVE  GateInv'
<1>1. StoreInv' /\ StoreGrows
  <2>1. StoreInv /\ pages' = pages /\ revs' = revs
    BY DEF GateInv
  <2>. QED  BY <2>1 DEF StoreInv, StoreGrows, Pages
<1>. QED  BY <1>1, GateInvStep

LEMMA OneCallGranted ==
    ASSUME GateInv, UNCHANGED <<pages, revs>>, NEW c \in Callers, NEW x,
           calls' = [calls EXCEPT ![c] = x], x.step = "granted" => GrantHolds(c, x)
    PROVE  GateInv'
<1>1. StoreInv' /\ StoreGrows
  <2>1. StoreInv /\ pages' = pages /\ revs' = revs
    BY DEF GateInv
  <2>. QED  BY <2>1 DEF StoreInv, StoreGrows, Pages
<1>2. calls' = [d \in Callers |-> calls'[d]] /\ \A d \in Callers : calls'[d] = IF d = c THEN x ELSE calls[d]
  BY DEF GateInv
<1>. QED  BY <1>1, <1>2, GateInvStep

\* A call that ends leaves the store and the other calls as they are.
LEMMA CompleteGrantsNothing ==
    ASSUME GateInv, UNCHANGED <<pages, revs>>, NEW c \in Callers, NEW decision, NEW noted,
           Complete(c, decision, noted)
    PROVE  GateInv'
<1>1. ASSUME NEW rec, calls' = [calls EXCEPT ![c] = [step |-> "send", rec |-> rec]]
      PROVE  GateInv'
  <2>1. [step |-> "send", rec |-> rec].step # "granted"
    OBVIOUS
  <2>. QED  BY <1>1, <2>1, OneCallGranted
<1>2. CASE calls' = [calls EXCEPT ![c] = Idle]
  <2>1. Idle.step # "granted"
    BY DEF Idle
  <2>. QED  BY <1>2, <2>1, OneCallGranted
<1>. QED  BY <1>1, <1>2 DEF Complete

\* authorize_exact: the permissions where the Pages are.
LEMMA AskKeeps ==
    ASSUME GateInv, NEW c \in Callers, NEW r, Asked(r), Ask(c, r)
    PROVE  GateInv'
<1>. DEFINE call == [step |-> "granted", req |-> r, scopes |-> On(r) \cup From(r) \cup To(r)]
<1>1. UNCHANGED <<pages, revs>>
  BY DEF Ask, storeVars
<1>2. CASE Authorized(c, r)
  <2>1. calls' = [calls EXCEPT ![c] = call]
    BY <1>2 DEF Ask
  <2>2. call.req = r
    OBVIOUS
  <2>. HIDE DEF call
  <2>3. \A h \in r.heads, n \in r.needs : Allows(c, n, pages[h[1]].scope)
    BY <1>2 DEF Authorized, On
  <2>4. \A x \in r.onto, n \in r.needs : Allows(c, n, revs[x])
    BY <1>2 DEF Authorized, On
  <2>5. GrantHolds(c, call)
    BY <2>2, <2>3, <2>4, AskedHolds DEF GrantHolds, GateInv
  <2>. QED  BY <1>1, <2>1, <2>5, OneCallGranted
<1>3. CASE ~Authorized(c, r)
  BY <1>1, <1>3, CompleteGrantsNothing DEF Ask
<1>. QED  BY <1>2, <1>3

\* authorize_scopes: the permissions in every Scope that the call may use.
LEMMA WithinKeeps ==
    ASSUME GateInv, NEW c \in Callers, NEW needs, NEW asked, NEW r, Asked(r), r.needs \subseteq needs,
           Within(c, needs, asked, r)
    PROVE  GateInv'
<1>. DEFINE S == IF asked = {} THEN Available(c, needs) ELSE asked
            call == [step |-> "granted", req |-> r, scopes |-> S]
<1>1. UNCHANGED <<pages, revs>>
  BY DEF Within, storeVars
<1>2. CASE Complete(c, "denied", TRUE)
  BY <1>1, <1>2, CompleteGrantsNothing
<1>3. CASE calls' = [calls EXCEPT ![c] = call] /\ S \subseteq Available(c, needs)
  <2>1. call.req = r /\ call.scopes = S
    OBVIOUS
  <2>. HIDE DEF call, S
  <2>2. \A s \in S, n \in r.needs : Allows(c, n, s)
    BY <1>3 DEF Available
  <2>3. GrantHolds(c, call)
    BY <2>1, <2>2, AskedHolds DEF GrantHolds, GateInv
  <2>. QED  BY <1>1, <1>3, <2>3, OneCallGranted
<1>4. Complete(c, "denied", TRUE) \/ (calls' = [calls EXCEPT ![c] = call] /\ S \subseteq Available(c, needs))
  BY DEF Within
<1>. QED  BY <1>2, <1>3, <1>4

\* The operations that look up exact Pages and Revisions ask about heads that exist.
LEMMA OperationsAsk ==
    ASSUME StoreInv, NEW c,
           \/ ManagePageLifecycle(c) \/ RevisePage(c) \/ RepairPage(c) \/ UnpackPage(c)
           \/ DeletePage(c) \/ PackPages(c) \/ ConsolidatePages(c) \/ LinkPages(c)
           \/ IngestPage(c) \/ SubmitFeedback(c) \/ WritePage(c) \/ ExtractTopic(c)
           \/ WriteSummary(c) \/ MarkSummaryAssessed(c) \/ AssessPageValidity(c)
           \/ ApplyReconciliation(c) \/ CreateScope(c) \/ PutRevisionRetentionLease(c)
    PROVE  \E r : Asked(r) /\ Ask(c, r)
<1>1. None \in Places /\ {} = Heads({}) /\ Heads({}) = Request.heads /\ Request.into = None
      /\ Request.onto = {}
  BY DEF Places, Heads, Request
<1>2. \A s \in Scopes : s \in Places
  BY DEF Places
<1>3. ASSUME NEW p \in Pages, NEW need, NEW basis, NEW ends, Change(c, p, need, basis, ends)
      PROVE  \E r : Asked(r) /\ Ask(c, r)
  <2>. DEFINE r == [Request EXCEPT !.heads = Heads({p}), !.needs = {need}, !.basis = basis,
                                   !.derives = TRUE, !.ends = ends, !.effect = "revise"]
  <2>1. Ask(c, r)
    BY <1>3 DEF Change
  <2>2. r.into = None /\ r.heads = Heads({p}) /\ r.onto = {}
    BY DEF Request
  <2>. HIDE DEF r
  <2>. QED  BY <1>1, <2>1, <2>2 DEF Asked
<1>4. ASSUME NEW s \in Scopes, NEW need, NEW basis, NEW derives, NEW ends,
             Create(c, s, need, basis, derives, ends)
      PROVE  \E r : Asked(r) /\ Ask(c, r)
  <2>. DEFINE r == [Request EXCEPT !.into = s, !.needs = {need}, !.basis = basis,
                                   !.derives = derives, !.ends = ends, !.effect = "create"]
  <2>1. Ask(c, r)
    BY <1>4 DEF Create
  <2>2. r.into = s /\ r.heads = {} /\ r.onto = {}
    BY DEF Request
  <2>. HIDE DEF r
  <2>. QED  BY <1>1, <1>2, <2>1, <2>2 DEF Asked
<1>5. ASSUME NEW P \in SUBSET Pages, NEW O \in SUBSET DOMAIN revs, NEW needs, NEW basis, NEW derives,
             Attach(c, P, O, needs, basis, derives)
      PROVE  \E r : Asked(r) /\ Ask(c, r)
  <2>. DEFINE r == [Request EXCEPT !.heads = Heads(P), !.onto = O, !.needs = needs, !.basis = basis,
                                   !.derives = derives]
  <2>1. Ask(c, r)
    BY <1>5 DEF Attach
  <2>2. r.into = None /\ r.heads = Heads(P) /\ r.onto = O
    BY DEF Request
  <2>. HIDE DEF r
  <2>. QED  BY <1>1, <2>1, <2>2 DEF Asked
<1>6. CASE \/ ManagePageLifecycle(c) \/ RevisePage(c) \/ RepairPage(c) \/ UnpackPage(c) \/ DeletePage(c)
  BY <1>3, <1>6 DEF ManagePageLifecycle, RevisePage, RepairPage, UnpackPage, DeletePage
<1>7. CASE PackPages(c)
  <2>1. PICK p, q \in Pages : Ask(c, [Request EXCEPT
                !.heads = Heads({p, q}), !.needs = {"Collect"}, !.effect = "revise"])
    BY <1>7 DEF PackPages
  <2>. DEFINE r == [Request EXCEPT !.heads = Heads({p, q}), !.needs = {"Collect"}, !.effect = "revise"]
  <2>2. r.into = None /\ r.heads = Heads({p, q}) /\ r.onto = {}
    BY DEF Request
  <2>. HIDE DEF r
  <2>. QED  BY <1>1, <2>1, <2>2 DEF Asked, r
<1>8. CASE ConsolidatePages(c)
  <2>1. PICK p, q \in Pages : Ask(c, [Request EXCEPT
                !.heads = Heads({p, q}), !.needs = {"ReadDetail", "Ingest", "ManageLifecycle"},
                !.effect = "revise"])
    BY <1>8 DEF ConsolidatePages
  <2>. DEFINE r == [Request EXCEPT !.heads = Heads({p, q}),
                        !.needs = {"ReadDetail", "Ingest", "ManageLifecycle"}, !.effect = "revise"]
  <2>2. r.into = None /\ r.heads = Heads({p, q}) /\ r.onto = {}
    BY DEF Request
  <2>. HIDE DEF r
  <2>. QED  BY <1>1, <2>1, <2>2 DEF Asked, r
<1>9. CASE LinkPages(c)
  <2>1. PICK p, q \in Pages : Ask(c, [Request EXCEPT !.ends = {p, q}])
    BY <1>9 DEF LinkPages
  <2>. DEFINE r == [Request EXCEPT !.ends = {p, q}]
  <2>2. r.into = None /\ r.heads = {} /\ r.onto = {}
    BY DEF Request
  <2>. HIDE DEF r
  <2>. QED  BY <1>1, <2>1, <2>2 DEF Asked, r
<1>10. CASE IngestPage(c) \/ SubmitFeedback(c) \/ WritePage(c)
  BY <1>4, <1>10 DEF IngestPage, SubmitFeedback, WritePage
<1>11. CASE ExtractTopic(c)
  <2>1. PICK s \in Scopes, b \in DOMAIN revs, t \in Optional(Pages) : Ask(c, [Request EXCEPT
        !.into = IF t = {} THEN s ELSE None, !.heads = Heads(t), !.basis = {b},
        !.needs = {"Summarize", "Link"}, !.reads = {"ReadDetail", "Link"}, !.derives = TRUE,
        !.effect = IF t = {} THEN "create" ELSE "revise"])
    BY <1>11 DEF ExtractTopic
  <2>. DEFINE r == [Request EXCEPT
        !.into = IF t = {} THEN s ELSE None, !.heads = Heads(t), !.basis = {b},
        !.needs = {"Summarize", "Link"}, !.reads = {"ReadDetail", "Link"}, !.derives = TRUE,
        !.effect = IF t = {} THEN "create" ELSE "revise"]
  <2>2. r.into = (IF t = {} THEN s ELSE None) /\ r.heads = Heads(t) /\ r.onto = {}
    BY DEF Request
  <2>3. t \in SUBSET Pages
    BY DEF Optional
  <2>. HIDE DEF r
  <2>. QED  BY <1>1, <1>2, <2>1, <2>2, <2>3 DEF Asked, r
<1>12. CASE WriteSummary(c) \/ MarkSummaryAssessed(c) \/ AssessPageValidity(c) \/ ApplyReconciliation(c)
  <2>1. \A x \in DOMAIN revs : {x} \in SUBSET DOMAIN revs /\ {} \in SUBSET Pages
    OBVIOUS
  <2>2. CASE ApplyReconciliation(c)
    <3>1. PICK x \in DOMAIN revs, P \in Optional(Pages), b \in Optional(DOMAIN revs),
               outcome \in {"no_source_change", "assessed", "superseded"} :
                 LET target == {p \in Pages : pages[p].rev = x}
                 IN  Attach(c, P \cup (IF outcome = "no_source_change" THEN {} ELSE target), {x} \cup b,
                            {"Assess", "ReadDetail"}
                                \cup (IF outcome = "superseded" THEN {"Link"} ELSE {}), {}, FALSE)
      BY <2>2 DEF ApplyReconciliation
    <3>. DEFINE Q == P \cup (IF outcome = "no_source_change" THEN {} ELSE {p \in Pages : pages[p].rev = x})
                O == {x} \cup b
    <3>2. Q \in SUBSET Pages /\ O \in SUBSET DOMAIN revs
      BY DEF Optional
    <3>3. \E needs : Attach(c, Q, O, needs, {}, FALSE)
      BY <3>1
    <3>. HIDE DEF Q, O
    <3>. QED  BY <1>5, <3>2, <3>3
  <2>. QED  BY <1>5, <1>12, <2>1, <2>2 DEF WriteSummary, MarkSummaryAssessed, AssessPageValidity
<1>13. CASE CreateScope(c)
  <2>1. PICK s, parent \in Scopes : Ask(c, [Request EXCEPT !.into = s, !.needs = {"ManageScope"},
        !.basis = {r \in DOMAIN revs : revs[r] = parent}, !.reads = {"ManageScope"}])
    BY <1>13 DEF CreateScope
  <2>. DEFINE r == [Request EXCEPT !.into = s, !.needs = {"ManageScope"},
        !.basis = {r \in DOMAIN revs : revs[r] = parent}, !.reads = {"ManageScope"}]
  <2>2. r.into = s /\ r.heads = {} /\ r.onto = {}
    BY DEF Request
  <2>. HIDE DEF r
  <2>. QED  BY <1>1, <1>2, <2>1, <2>2 DEF Asked, r
<1>14. CASE PutRevisionRetentionLease(c)
  <2>1. PICK s \in Scopes : Ask(c, [Request EXCEPT !.into = s, !.needs = {"Write"}])
    BY <1>14 DEF PutRevisionRetentionLease
  <2>. DEFINE r == [Request EXCEPT !.into = s, !.needs = {"Write"}]
  <2>2. r.into = s /\ r.heads = {} /\ r.onto = {}
    BY DEF Request
  <2>. HIDE DEF r
  <2>. QED  BY <1>1, <1>2, <2>1, <2>2 DEF Asked, r
<1>. QED  BY <1>6, <1>7, <1>8, <1>9, <1>10, <1>11, <1>12, <1>13, <1>14

\* The operations on whatever is in scope name no Page, or those that are there.
LEMMA OperationsWithin ==
    ASSUME NEW c,
           \/ TombstoneDerivationCascade(c) \/ CollectRevisionRetention(c) \/ ListScopes(c)
           \/ SearchPages(c) \/ Browse(c) \/ ReadPages(c) \/ CurrentRevisionId(c)
           \/ PageCount(c) \/ ContentCharCount(c) \/ ReadForAudit(c) \/ PendingFeedback(c)
           \/ NextSummaryCandidate(c) \/ DurablePageInventory(c) \/ HealthSnapshot(c)
    PROVE  \E needs, asked, r : Asked(r) /\ r.needs \subseteq needs /\ Within(c, needs, asked, r)
<1>1. None \in Places /\ {} = Heads({}) /\ Request.heads = {} /\ Request.into = None /\ Request.needs = {}
      /\ Request.onto = {}
  BY DEF Places, Heads, Request
<1>2. ASSUME NEW needs, NEW asked, Read(c, needs, asked)
      PROVE  \E n, a, r : Asked(r) /\ r.needs \subseteq n /\ Within(c, n, a, r)
  <2>. DEFINE r == [Request EXCEPT !.recorded = Principal[c] # "service"]
  <2>1. Within(c, needs, asked, r)
    BY <1>2 DEF Read
  <2>2. r.into = None /\ r.heads = {} /\ r.needs = {} /\ r.onto = {}
    BY DEF Request
  <2>. HIDE DEF r
  <2>3. Asked(r) /\ r.needs \subseteq needs
    BY <1>1, <2>2 DEF Asked
  <2>. QED  BY <2>1, <2>3
<1>3. CASE TombstoneDerivationCascade(c)
  <2>1. PICK P \in SUBSET Pages : Within(c, {"Retract"}, {},
               [Request EXCEPT !.heads = Heads(P), !.needs = {"Retract"}, !.effect = "revise"])
    BY <1>3 DEF TombstoneDerivationCascade
  <2>. DEFINE r == [Request EXCEPT !.heads = Heads(P), !.needs = {"Retract"}, !.effect = "revise"]
  <2>2. r.into = None /\ r.heads = Heads(P) /\ r.needs = {"Retract"} /\ r.onto = {}
    BY DEF Request
  <2>. HIDE DEF r
  <2>3. Asked(r) /\ r.needs \subseteq {"Retract"}
    BY <1>1, <2>2 DEF Asked
  <2>. QED  BY <2>1, <2>3 DEF r
<1>4. CASE CollectRevisionRetention(c)
  <2>1. PICK s : Within(c, {"Collect"}, s, Request)
    BY <1>4 DEF CollectRevisionRetention
  <2>2. Asked(Request) /\ Request.needs \subseteq {"Collect"}
    BY <1>1 DEF Asked
  <2>. QED  BY <2>1, <2>2
<1>5. CASE \/ ListScopes(c) \/ SearchPages(c) \/ Browse(c) \/ ReadPages(c) \/ CurrentRevisionId(c)
           \/ PageCount(c) \/ ContentCharCount(c) \/ ReadForAudit(c) \/ PendingFeedback(c)
           \/ NextSummaryCandidate(c) \/ DurablePageInventory(c) \/ HealthSnapshot(c)
  BY <1>2, <1>5 DEF ListScopes, SearchPages, Browse, ReadPages, CurrentRevisionId, PageCount,
     ContentCharCount, ReadForAudit, PendingFeedback, NextSummaryCandidate, DurablePageInventory,
     HealthSnapshot
<1>. QED  BY <1>3, <1>4, <1>5

-----------------------------------------------------------------------------
(* The records: the inductive invariant                                    *)

Records == [stamp : 1 .. stamps, allowed : BOOLEAN, size : Nat \ {0}]

AuditTypeOK ==
    /\ stamps \in Nat /\ open \in BOOLEAN
    /\ queue \in Seq([from : Callers, rec : Records \cup {Idle}])
    /\ pending \in Seq(Records)
    /\ log \subseteq committed /\ committed \subseteq Records /\ IsFiniteSet(committed)
    /\ aged \in [BOOLEAN -> Nat] /\ answered \subseteq Records
    /\ worker.replies \subseteq Callers

\* What a call that is past the gate looks like.
CallsTypeOK ==
    \A c \in Callers :
       /\ calls[c].step \in {"send", "waiting"} =>
             /\ calls[c] = [step |-> calls[c].step, rec |-> calls[c].rec]
             /\ calls[c].rec \in Records
       /\ calls[c].step \in {"flush", "flushing", "read"} =>
             /\ calls[c] = [step |-> calls[c].step, seen |-> calls[c].seen]
             /\ calls[c].seen \subseteq Records
       /\ ~open => calls[c] = Idle

\* A record is written or outgrown, with the worker, or among the first n of the queue.
Kept(e) == e \in log \/ Outgrown(e)
Held(e) == \E i \in DOMAIN pending : pending[i] = e
Arrived(e, n) == Kept(e) \/ Held(e) \/ \E i \in DOMAIN queue : i <= n /\ queue[i].rec = e

\* Every record is in one place: with its call, in the queue, with the worker, or written.
OnePlace ==
    /\ \A i, j \in DOMAIN queue : i # j /\ queue[i].rec # Idle => queue[i].rec # queue[j].rec
    /\ \A i, j \in DOMAIN pending : i # j => pending[i] # pending[j]
    /\ \A i \in DOMAIN queue : queue[i].rec \notin committed /\ ~Held(queue[i].rec)
    /\ \A i \in DOMAIN pending : pending[i] \notin committed
    /\ \A c \in Callers : calls[c].step = "send" =>
          /\ calls[c].rec \notin committed /\ ~Held(calls[c].rec)
          /\ \A i \in DOMAIN queue : queue[i].rec # calls[c].rec
          /\ \A d \in Callers : calls[d].step = "send" /\ c # d => calls[c].rec # calls[d].rec

\* A refusal, or a flush, in the queue is that of a call that waits for it.
QueueFits ==
    \A i \in DOMAIN queue :
       LET c == queue[i].from
       IN  /\ queue[i].rec = Idle =>
                 /\ calls[c].step = "flushing" /\ c \notin worker.replies
                 /\ \A e \in calls[c].seen : Arrived(e, i)
                 /\ \A j \in DOMAIN queue : j # i /\ queue[j].rec = Idle => queue[j].from # c
           /\ queue[i].rec # Idle /\ ~queue[i].rec.allowed =>
                 calls[c].step = "waiting" /\ calls[c].rec = queue[i].rec /\ c \notin worker.replies

\* The worker answers calls whose record, or whose reading, its next batch settles.
RepliesFit ==
    \A c \in worker.replies :
       \/ calls[c].step = "waiting" /\ Held(calls[c].rec)
       \/ calls[c].step = "flushing" /\ \A e \in calls[c].seen : Kept(e) \/ Held(e)

\* A reader finds what was answered: it is on its way in front of the reader's flush.
AnsweredFits ==
    /\ open => \A e \in answered : Arrived(e, Len(queue))
    /\ \A c \in Callers : calls[c].step = "flush" => \A e \in calls[c].seen : Arrived(e, Len(queue))

Limits ==
    /\ Len(queue) <= QueueCapacity /\ Len(pending) <= BatchSize
    /\ \A e \in log : Fits(log, e)

RecordsInv ==
    /\ AuditTypeOK /\ CallsTypeOK /\ OnePlace /\ QueueFits /\ RepliesFit /\ AnsweredFits
    /\ Limits /\ AcknowledgedIsKept /\ ReadersSeeAnswered

-----------------------------------------------------------------------------
(* Grants hold until the call commits                                      *)

\* The store grows with what the call writes; the other calls keep their heads.
LEMMA CommitKeeps ==
    ASSUME GateInv, NEW c \in Callers, Commit(c)
    PROVE  GateInv'
<1>. DEFINE r == calls[c].req
<1>1. GrantHolds(c, calls[c]) /\ StoreInv
  BY DEF Commit, GateInv, GrantsHold
<1>2. r.into \in Places /\ IsFiniteSet(r.heads) /\ \A h \in r.heads : h[1] \in Pages
  BY <1>1 DEF GrantHolds, Pages
<1>3. Effect(r) /\ Complete(c, "allowed", calls[c].req.recorded)
  BY DEF Commit
<1>4. StoreInv' /\ StoreGrows
  <2>. HIDE DEF r
  <2>1. CASE UNCHANGED <<pages, revs>>
    BY <1>1, <2>1 DEF StoreInv, StoreGrows, Pages
  <2>2. CASE /\ pages' = Append(pages, [scope |-> r.into, rev |-> NextRev])
             /\ revs' = Append(revs, r.into)
    BY <1>1, <1>2, <2>2, CreateKeeps
  <2>3. CASE r.effect = "revise"
    BY <1>1, <1>2, <1>3, <2>3, RevisePageKeeps
  <2>. QED  BY <1>3, <2>1, <2>2, <2>3 DEF Effect
<1>5. \E x : calls' = [calls EXCEPT ![c] = x] /\ x.step # "granted"
  <2>1. ASSUME NEW rec
        PROVE  [step |-> "send", rec |-> rec].step # "granted"
    OBVIOUS
  <2>2. Idle.step # "granted"
    BY DEF Idle
  <2>3. (\E rec : calls' = [calls EXCEPT ![c] = [step |-> "send", rec |-> rec]])
        \/ calls' = [calls EXCEPT ![c] = Idle]
    BY <1>3 DEF Complete
  <2>. QED  BY <2>1, <2>2, <2>3
<1>6. PICK x : calls' = [calls EXCEPT ![c] = x] /\ x.step # "granted"
  BY <1>5
<1>7. calls' = [d \in Callers |-> calls'[d]] /\ \A d \in Callers : calls'[d] = IF d = c THEN x ELSE calls[d]
  BY <1>6 DEF GateInv
<1>. QED  BY <1>4, <1>6, <1>7, GateInvStep

\* What goes on between the calls and the worker grants nothing.
LEMMA SendGrantsNothing ==
    ASSUME GateInv, CallsTypeOK, NEW c \in Callers, Send(c)
    PROVE  GateInv'
<1>1. UNCHANGED <<pages, revs>>
  BY DEF Send, storeVars
<1>2. CASE calls[c].step = "flush"
  <2>1. calls[c] = [step |-> "flush", seen |-> calls[c].seen]
    BY <1>2 DEF CallsTypeOK
  <2>2. calls' = [calls EXCEPT ![c] = [step |-> "flushing", seen |-> calls[c].seen]]
    <3>1. calls' = [calls EXCEPT ![c] = [calls[c] EXCEPT !.step = "flushing"]]
      BY <1>2 DEF Send
    <3>2. [calls[c] EXCEPT !.step = "flushing"] = [step |-> "flushing", seen |-> calls[c].seen]
      BY <2>1
    <3>. QED  BY <3>1, <3>2
  <2>. QED  BY <1>1, <2>2, OneCallGranted
<1>3. CASE calls[c].step # "flush" /\ calls' = [calls EXCEPT ![c] = Idle]
  BY <1>1, <1>3, OneCallGranted DEF Idle
<1>4. CASE calls[c].step # "flush" /\ calls' = [calls EXCEPT ![c].step = "waiting"]
  <2>1. calls[c] = [step |-> "send", rec |-> calls[c].rec]
    BY <1>4 DEF CallsTypeOK, Send
  <2>2. calls' = [calls EXCEPT ![c] = [step |-> "waiting", rec |-> calls[c].rec]]
    <3>1. calls' = [calls EXCEPT ![c] = [calls[c] EXCEPT !.step = "waiting"]]
      BY <1>4
    <3>2. [calls[c] EXCEPT !.step = "waiting"] = [step |-> "waiting", rec |-> calls[c].rec]
      BY <2>1
    <3>. QED  BY <3>1, <3>2
  <2>. QED  BY <1>1, <2>2, OneCallGranted
<1>. QED  BY <1>2, <1>3, <1>4 DEF Send

\* A reply ends the calls of the worker, or lets them read.
LEMMA ReplyCalls ==
    ASSUME CallsTypeOK, NEW written, Reply(written)
    PROVE  /\ calls' = [c \in Callers |-> calls'[c]]
           /\ \A c \in Callers :
                 \/ c \notin worker.replies /\ calls'[c] = calls[c]
                 \/ /\ c \in worker.replies /\ calls[c].step = "flushing" /\ written
                    /\ calls'[c] = [step |-> "read", seen |-> calls[c].seen]
                 \/ c \in worker.replies /\ calls'[c] = Idle
<1>1. ASSUME NEW c \in Callers, calls[c].step = "flushing"
      PROVE  [calls[c] EXCEPT !.step = "read"] = [step |-> "read", seen |-> calls[c].seen]
  <2>1. calls[c] = [step |-> "flushing", seen |-> calls[c].seen]
    BY <1>1 DEF CallsTypeOK
  <2>. QED  BY <2>1
<1>2. calls' = [c \in Callers |->
          IF c \notin worker.replies THEN calls[c]
          ELSE IF calls[c].step = "flushing" /\ written THEN [calls[c] EXCEPT !.step = "read"]
          ELSE Idle]
  BY DEF Reply
<1>3. ASSUME NEW c \in Callers
      PROVE  \/ c \notin worker.replies /\ calls'[c] = calls[c]
             \/ /\ c \in worker.replies /\ calls[c].step = "flushing" /\ written
                /\ calls'[c] = [step |-> "read", seen |-> calls[c].seen]
             \/ c \in worker.replies /\ calls'[c] = Idle
  <2>1. CASE c \notin worker.replies
    BY <1>2, <2>1
  <2>2. CASE c \in worker.replies /\ calls[c].step = "flushing" /\ written
    <3>1. calls'[c] = [calls[c] EXCEPT !.step = "read"]
      BY <1>2, <2>2
    <3>. QED  BY <1>1, <2>2, <3>1
  <2>3. CASE c \in worker.replies /\ ~(calls[c].step = "flushing" /\ written)
    BY <1>2, <2>3
  <2>. QED  BY <2>1, <2>2, <2>3
<1>4. calls' = [c \in Callers |-> calls'[c]]
  BY <1>2
<1>. QED  BY ONLY <1>3, <1>4

LEMMA ReplyGrantsNothing ==
    ASSUME GateInv, CallsTypeOK, UNCHANGED <<pages, revs>>, NEW written, Reply(written)
    PROVE  GateInv'
<1>1. ASSUME NEW c \in Callers, calls'[c].step = "granted"
      PROVE  calls'[c] = calls[c]
  <2>1. calls'[c] # Idle /\ calls'[c] # [step |-> "read", seen |-> calls[c].seen]
    BY <1>1 DEF Idle
  <2>. QED  BY <2>1, ReplyCalls
<1>. QED  BY <1>1, ReplyCalls, NothingGranted

LEMMA GrantsKept ==
    ASSUME GateInv, CallsTypeOK, [GateNext]_gateVars
    PROVE  GateInv'
<1>1. ASSUME NEW c \in Callers, NEW r, Asked(r), Ask(c, r)
      PROVE  GateInv'
  BY <1>1, AskKeeps
<1>2. ASSUME NEW c \in Callers,
           \/ ManagePageLifecycle(c) \/ RevisePage(c) \/ RepairPage(c) \/ UnpackPage(c)
           \/ DeletePage(c) \/ PackPages(c) \/ ConsolidatePages(c) \/ LinkPages(c)
           \/ IngestPage(c) \/ SubmitFeedback(c) \/ WritePage(c) \/ ExtractTopic(c)
           \/ WriteSummary(c) \/ MarkSummaryAssessed(c) \/ AssessPageValidity(c)
           \/ ApplyReconciliation(c) \/ CreateScope(c) \/ PutRevisionRetentionLease(c)
      PROVE  GateInv'
  <2>1. \E r : Asked(r) /\ Ask(c, r)
    BY <1>2, OperationsAsk DEF GateInv
  <2>. QED  BY <1>1, <2>1
<1>3. ASSUME NEW c \in Callers,
           \/ TombstoneDerivationCascade(c) \/ CollectRevisionRetention(c) \/ ListScopes(c)
           \/ SearchPages(c) \/ Browse(c) \/ ReadPages(c) \/ CurrentRevisionId(c)
           \/ PageCount(c) \/ ContentCharCount(c) \/ ReadForAudit(c) \/ PendingFeedback(c)
           \/ NextSummaryCandidate(c) \/ DurablePageInventory(c) \/ HealthSnapshot(c)
      PROVE  GateInv'
  <2>1. \E needs, asked, r : Asked(r) /\ r.needs \subseteq needs /\ Within(c, needs, asked, r)
    BY <1>3, OperationsWithin
  <2>. QED  BY <2>1, WithinKeeps
<1>4. ASSUME NEW c \in Callers, AskUnknown(c) \/ RefuseModel(c) \/ Refuse(c)
      PROVE  GateInv'
  BY <1>4, CompleteGrantsNothing DEF AskUnknown, RefuseModel, Refuse, storeVars
<1>5. ASSUME UNCHANGED <<pages, revs, calls>>
      PROVE  GateInv'
  BY <1>5, NothingGranted DEF GateInv
<1>6. ASSUME NEW c \in Callers, Commit(c)
      PROVE  GateInv'
  BY <1>6, CommitKeeps
<1>7. ASSUME NEW c \in Callers, AccessLog(c)
      PROVE  GateInv'
  <2>1. UNCHANGED <<pages, revs>> /\ calls' = [calls EXCEPT ![c] = [step |-> "flush", seen |-> answered]]
    BY <1>7 DEF AccessLog, storeVars
  <2>. QED  BY <2>1, OneCallGranted
<1>8. ASSUME NEW c \in Callers, ReadLog(c)
      PROVE  GateInv'
  <2>1. UNCHANGED <<pages, revs>> /\ calls' = [calls EXCEPT ![c] = Idle] /\ Idle.step # "granted"
    BY <1>8 DEF ReadLog, storeVars, Idle
  <2>. QED  BY <2>1, OneCallGranted
<1>9. ASSUME NEW c \in Callers, Send(c)
      PROVE  GateInv'
  BY <1>9, SendGrantsNothing
<1>10. ASSUME NEW p \in Pages, NEW s \in Scopes, TransferPageScope(p, s)
       PROVE  GateInv'
  <2>1. StoreInv' /\ StoreGrows /\ calls' = calls
    BY <1>10, MoveKeeps DEF TransferPageScope, GateInv
  <2>. QED  BY <2>1, GateInvStep DEF GateInv
<1>11. ASSUME Flush \/ FlushFails
       PROVE  GateInv'
  BY <1>11, ReplyGrantsNothing DEF Flush, FlushFails, storeVars
<1>12. ASSUME Crash
       PROVE  GateInv'
  <2>1. UNCHANGED <<pages, revs>> /\ calls' = [c \in Callers |-> Idle] /\ Idle.step # "granted"
    BY <1>12 DEF Crash, storeVars, Idle
  <2>. QED  BY <2>1, NothingGranted
<1>13. ASSUME \/ Receive \/ Close \/ Disconnected \/ Reopen \/ TimePasses \/ Sweep
              \/ \E c \in Callers : AskUnrecorded(c)
       PROVE  GateInv'
  BY <1>5, <1>13 DEF Receive, Close, Disconnected, Reopen, TimePasses, Sweep, AskUnrecorded, storeVars
<1>14. ASSUME UNCHANGED gateVars
       PROVE  GateInv'
  BY <1>5, <1>14 DEF gateVars, storeVars
<1>. QED  BY <1>2, <1>3, <1>4, <1>6, <1>7, <1>8, <1>9, <1>10, <1>11, <1>12, <1>13, <1>14 DEF GateNext

-----------------------------------------------------------------------------
(* What pruning keeps                                                      *)

\* A record takes the units 1 .. size of its bytes.
LEMMA BytesAreFinite ==
    ASSUME NEW L \in SUBSET Records, IsFiniteSet(L)
    PROVE  IsFiniteSet(UNION {{f} \X (1 .. f.size) : f \in L})
<1>. DEFINE Units(f) == {f} \X (1 .. f.size)
            U == {Units(f) : f \in L}
            m == [f \in L |-> Units(f)]
<1>1. m \in Surjection(L, U)
  BY DEF Surjection
<1>. HIDE DEF m, U
<1>2. IsFiniteSet(U)
  BY <1>1, FS_Surjection
<1>3. ASSUME NEW f \in L
      PROVE  IsFiniteSet(Units(f))
  <2>1. 1 \in Int /\ f.size \in Int
    BY DEF Records
  <2>2. IsFiniteSet(1 .. f.size)
    BY <2>1, FS_Interval
  <2>3. IsFiniteSet({f})
    BY FS_Singleton
  <2>. QED  BY <2>2, <2>3, FS_Product
<1>4. \A T \in U : IsFiniteSet(T)
  BY <1>3 DEF U
<1>5. IsFiniteSet(UNION U)
  BY <1>2, <1>4, FS_UNION
<1>. QED  BY <1>5 DEF U

\* What fits among more records fits among fewer.
LEMMA FewerFit ==
    ASSUME NEW G \in SUBSET Records, IsFiniteSet(G), NEW F \in SUBSET G, NEW e, Fits(G, e)
    PROVE  Fits(F, e)
<1>. DEFINE A == DownTo(F, e)
            B == DownTo(G, e)
            UA == UNION {{f} \X (1 .. f.size) : f \in A}
            UB == UNION {{f} \X (1 .. f.size) : f \in B}
<1>1. A \in SUBSET B /\ B \in SUBSET G /\ B \in SUBSET Records
  BY DEF DownTo
<1>2. UA \in SUBSET UB
  BY <1>1
<1>3. Cardinality(B) <= Most(e.allowed) /\ Cardinality(UB) <= MostBytes(e.allowed)
  BY DEF Fits, Bytes
<1>4. Most(e.allowed) \in Nat /\ MostBytes(e.allowed) \in Nat
  BY AccessAssumption DEF Most, MostBytes
<1>5. Fits(F, e) <=> Cardinality(A) <= Most(e.allowed) /\ Cardinality(UA) <= MostBytes(e.allowed)
  BY DEF Fits, Bytes
<1>6. IsFiniteSet(B)
  BY <1>1, FS_Subset
<1>. HIDE DEF A, B
<1>7. IsFiniteSet(UB)
  BY <1>1, <1>6, BytesAreFinite
<1>. HIDE DEF UA, UB
<1>8. /\ IsFiniteSet(A) /\ Cardinality(A) <= Cardinality(B)
      /\ IsFiniteSet(UA) /\ Cardinality(UA) <= Cardinality(UB)
  BY <1>1, <1>2, <1>6, <1>7, FS_Subset
<1>9. {Cardinality(A), Cardinality(B), Cardinality(UA), Cardinality(UB)} \subseteq Nat
  BY <1>6, <1>7, <1>8, FS_CardinalityType
<1>. QED  BY <1>3, <1>4, <1>5, <1>8, <1>9

\* What is outgrown stays so when days pass or more is written.
LEMMA OutgrownStays ==
    ASSUME NEW G \in SUBSET Records, IsFiniteSet(G), committed \subseteq G, committed' = G,
           NEW e \in Records, \A b \in BOOLEAN : aged[b] \in Nat /\ aged'[b] \in Nat /\ aged[b] <= aged'[b],
           Outgrown(e)
    PROVE  Outgrown(e)'
<1>1. CASE Expired(e)
  <2>1. e.allowed \in BOOLEAN /\ e.stamp \in Int /\ e.stamp <= aged[e.allowed]
    BY <1>1 DEF Expired, Records
  <2>2. e.stamp <= aged'[e.allowed]
    BY <2>1
  <2>. QED  BY <2>2 DEF Outgrown, Expired
<1>2. CASE ~Fits(committed, e)
  <2>1. ~Fits(G, e)
    BY <1>2, FewerFit
  <2>2. ~Fits(committed', e)
    BY <2>1
  <2>. QED  BY <2>2 DEF Outgrown
<1>. QED  BY <1>1, <1>2 DEF Outgrown

-----------------------------------------------------------------------------
(* Records on their way                                                    *)

LEMMA IdleIsNoRecord == \A e \in Records : e # Idle
<1>1. ASSUME NEW e \in Records, e = Idle
      PROVE  FALSE
  <2>1. DOMAIN e = {"stamp", "allowed", "size"} /\ DOMAIN Idle = {"step"}
    BY DEF Records, Idle
  <2>2. "stamp" \in {"stamp", "allowed", "size"} /\ "stamp" \notin {"step"}
    OBVIOUS
  <2>. QED  BY ONLY <1>1, <2>1, <2>2
<1>. QED  BY <1>1

\* The queue and the batch row by row.
LEMMA QueueRows ==
    ASSUME AuditTypeOK
    PROVE  /\ Len(queue) \in Nat /\ DOMAIN queue = 1 .. Len(queue)
           /\ \A i \in DOMAIN queue :
                 /\ queue[i].from \in Callers /\ queue[i].rec \in Records \cup {Idle}
                 /\ queue[i] = [from |-> queue[i].from, rec |-> queue[i].rec]
           /\ Len(pending) \in Nat /\ DOMAIN pending = 1 .. Len(pending)
           /\ \A i \in DOMAIN pending : pending[i] \in Records
<1>. DEFINE Q == [from : Callers, rec : Records \cup {Idle}]
<1>1. queue \in Seq(Q) /\ pending \in Seq(Records)
  BY DEF AuditTypeOK
<1>2. \A m \in Q : m.from \in Callers /\ m.rec \in Records \cup {Idle} /\ m = [from |-> m.from, rec |-> m.rec]
  OBVIOUS
<1>. HIDE DEF Q
<1>3. \A i \in DOMAIN queue : queue[i] \in Q
  BY <1>1, SequenceIsFunction
<1>. QED  BY <1>1, <1>2, <1>3, SequenceIsFunction

LEMMA HeldIsPending ==
    ASSUME AuditTypeOK, NEW e
    PROVE  Held(e) <=> e \in ToSet(pending)
BY QueueRows DEF Held, ToSet

\* flush_pending: what was kept stays kept, and what the worker holds becomes so.
LEMMA FlushKeeps ==
    ASSUME AuditTypeOK, aged' = aged, log' = Bounded(log \cup ToSet(pending)),
           committed' = committed \cup ToSet(pending)
    PROVE  /\ \A e \in Records : Kept(e) \/ Held(e) => Kept(e)'
           /\ log' \subseteq committed' /\ committed' \subseteq Records /\ IsFiniteSet(committed')
           /\ \A e \in log' : Fits(log', e)
           /\ \A e : e \notin committed /\ ~Held(e) => e \notin committed'
<1>. DEFINE P == ToSet(pending)
            L == log \cup P
            G == committed \cup P
<1>1. P \subseteq Records /\ IsFiniteSet(P)
  <2>1. DOMAIN pending = 1 .. Len(pending) /\ Len(pending) \in Nat /\ \A i \in DOMAIN pending : pending[i] \in Records
    BY QueueRows
  <2>2. [i \in DOMAIN pending |-> pending[i]] \in Surjection(DOMAIN pending, P)
    BY DEF Surjection, ToSet
  <2>3. IsFiniteSet(DOMAIN pending)
    BY <2>1, FS_Interval
  <2>4. IsFiniteSet(P)
    BY <2>2, <2>3, FS_Surjection
  <2>. QED  BY <2>1, <2>4 DEF ToSet
<1>2. \A e : Held(e) <=> e \in P
  BY HeldIsPending
<1>. HIDE DEF P
<1>3. G \in SUBSET Records /\ L \in SUBSET G /\ L \in SUBSET Records
  BY <1>1 DEF AuditTypeOK
<1>4. IsFiniteSet(G)
  BY <1>1, FS_Union DEF AuditTypeOK
<1>5. committed \subseteq G /\ committed' = G /\ log' = Bounded(L)
  BY DEF P
<1>. HIDE DEF G, L
<1>6. IsFiniteSet(L)
  BY <1>3, <1>4, FS_Subset
<1>7. log' = {e \in L : ~Expired(e) /\ Fits(L, e)}
  BY <1>5 DEF Bounded
<1>8. \A b \in BOOLEAN : aged[b] \in Nat /\ aged'[b] \in Nat /\ aged[b] <= aged'[b]
  BY DEF AuditTypeOK
<1>9. ASSUME NEW e \in Records, Kept(e) \/ Held(e)
      PROVE  e \in log' \/ Outgrown(e)'
  <2>1. CASE Outgrown(e)
    BY <1>3, <1>4, <1>5, <1>8, <2>1, OutgrownStays
  <2>2. CASE e \in L
    <3>1. CASE Expired(e)
      BY <3>1 DEF Outgrown, Expired
    <3>2. CASE ~Fits(L, e)
      <4>1. ~Fits(G, e)
        BY <1>3, <1>4, <3>2, FewerFit
      <4>2. ~Fits(committed', e)
        BY <1>5, <4>1
      <4>. QED  BY <4>2 DEF Outgrown
    <3>. QED  BY <1>7, <2>2, <3>1, <3>2
  <2>. QED  BY <1>2, <1>9, <2>1, <2>2 DEF Kept, L
<1>10. ASSUME NEW e \in log'
       PROVE  Fits(log', e)
  <2>1. Fits(L, e) /\ log' \in SUBSET L
    BY <1>7
  <2>. QED  BY <1>3, <1>6, <2>1, FewerFit
<1>11. log' \subseteq committed'
  BY <1>3, <1>5, <1>7
<1>12. \A e \in Records : Kept(e) \/ Held(e) => Kept(e)'
  BY <1>9 DEF Kept
<1>13. \A e : e \notin committed /\ ~Held(e) => e \notin committed'
  BY <1>2, <1>5 DEF G
<1>. QED  BY <1>3, <1>4, <1>5, <1>10, <1>11, <1>12, <1>13

\* prune takes what does not fit or is too old; days make more of it too old.
LEMMA PruneKeeps ==
    ASSUME AuditTypeOK, Limits, log' \subseteq log, Bounded(log) \subseteq log', committed' = committed,
           \A b \in BOOLEAN : aged[b] \in Nat /\ aged'[b] \in Nat /\ aged[b] <= aged'[b]
    PROVE  /\ \A e \in Records : Kept(e) => Kept(e)'
           /\ \A e \in log' : Fits(log', e)
<1>1. committed \in SUBSET Records /\ IsFiniteSet(committed) /\ log \in SUBSET committed /\ log \in SUBSET Records
  BY DEF AuditTypeOK
<1>2. IsFiniteSet(log)
  BY <1>1, FS_Subset
<1>3. \A e \in log : Fits(log, e) /\ (~Expired(e) => e \in log')
  BY DEF Limits, Bounded
<1>4. ASSUME NEW e \in Records, Kept(e)
      PROVE  e \in log' \/ Outgrown(e)'
  <2>1. CASE Outgrown(e)
    BY <1>1, <2>1, OutgrownStays
  <2>2. CASE e \in log
    BY <1>1, <1>3, <2>1, <2>2 DEF Outgrown
  <2>. QED  BY <1>4, <2>1, <2>2 DEF Kept
<1>5. ASSUME NEW e \in log'
      PROVE  Fits(log', e)
  BY <1>1, <1>2, <1>3, FewerFit
<1>6. \A e \in Records : Kept(e) => Kept(e)'
  BY <1>4 DEF Kept
<1>. QED  BY <1>5, <1>6

LEMMA SameLog ==
    ASSUME log' = log, aged' = aged, committed' = committed
    PROVE  /\ \A e : (Outgrown(e)' <=> Outgrown(e)) /\ (Kept(e)' <=> Kept(e))
           /\ \A e : Fits(log', e) <=> Fits(log, e)
<1>1. \A e : Outgrown(e)' <=> Outgrown(e)
  BY DEF Outgrown, Expired
<1>. QED  BY <1>1 DEF Kept

LEMMA SameRecords ==
    ASSUME log' = log, aged' = aged, committed' = committed, pending' = pending, queue' = queue
    PROVE  \A e : /\ Outgrown(e)' <=> Outgrown(e)
                  /\ Kept(e)' <=> Kept(e)
                  /\ Held(e)' <=> Held(e)
                  /\ \A n : Arrived(e, n)' <=> Arrived(e, n)
BY SameLog DEF Arrived, Held

LEMMA StampsGrow ==
    ASSUME stamps \in Nat, stamps' \in Nat, stamps <= stamps'
    PROVE  Records \subseteq Records'
BY DEF Records

LEMMA NothingMoves ==
    ASSUME RecordsInv, UNCHANGED <<auditVars, calls, answered, stamps>>
    PROVE  RecordsInv'
<1>1. /\ open' = open /\ queue' = queue /\ pending' = pending /\ worker' = worker /\ log' = log
      /\ aged' = aged /\ committed' = committed
      /\ answered' = answered /\ calls' = calls /\ stamps' = stamps
  BY DEF auditVars, logVars
<1>2. /\ Records' = Records /\ Idle' = Idle
      /\ \A e : (Kept(e)' <=> Kept(e)) /\ (Held(e)' <=> Held(e)) /\ (Outgrown(e)' <=> Outgrown(e))
      /\ \A e, n : Arrived(e, n)' <=> Arrived(e, n)
  BY <1>1, SameRecords DEF Records, Idle
<1>3. AuditTypeOK' /\ CallsTypeOK'
  BY <1>1, <1>2 DEF RecordsInv, AuditTypeOK, CallsTypeOK
<1>4. OnePlace'
  BY <1>1, <1>2 DEF RecordsInv, OnePlace
<1>5. QueueFits' /\ RepliesFit' /\ AnsweredFits'
  BY <1>1, <1>2 DEF RecordsInv, QueueFits, RepliesFit, AnsweredFits
<1>6. Limits' /\ AcknowledgedIsKept' /\ ReadersSeeAnswered'
  BY <1>1, <1>2 DEF RecordsInv, Limits, AcknowledgedIsKept, ReadersSeeAnswered
<1>. QED  BY <1>3, <1>4, <1>5, <1>6 DEF RecordsInv

-----------------------------------------------------------------------------
(* A call passes the gate, commits, or ends                                *)

CallTurn(c) ==
    /\ calls[c].step \in {"idle", "granted", "read"} /\ (calls[c].step = "idle" => open)
    /\ UNCHANGED <<auditVars, answered>>
    /\ \E x : /\ calls' = [calls EXCEPT ![c] = x]
              /\ \/ stamps' = stamps /\ (x = Idle \/ x.step = "granted")
                 \/ stamps' = stamps /\ open /\ x = [step |-> "flush", seen |-> answered]
                 \/ \E b \in BOOLEAN, n \in Nat \ {0} :
                       /\ stamps' = stamps + 1
                       /\ x = [step |-> "send", rec |-> [stamp |-> stamps + 1, allowed |-> b, size |-> n]]

LEMMA CallTurnKeeps ==
    ASSUME RecordsInv, calls = [d \in Callers |-> calls[d]], NEW c \in Callers, CallTurn(c)
    PROVE  RecordsInv'
<1>1. PICK x : /\ calls' = [calls EXCEPT ![c] = x]
               /\ \/ stamps' = stamps /\ (x = Idle \/ x.step = "granted")
                  \/ stamps' = stamps /\ open /\ x = [step |-> "flush", seen |-> answered]
                  \/ \E b \in BOOLEAN, n \in Nat \ {0} :
                        /\ stamps' = stamps + 1
                        /\ x = [step |-> "send", rec |-> [stamp |-> stamps + 1, allowed |-> b, size |-> n]]
  BY DEF CallTurn
<1>2. /\ \A d \in Callers : calls'[d] = IF d = c THEN x ELSE calls[d]
      /\ calls[c].step \in {"idle", "granted", "read"} /\ (calls[c].step = "idle" => open)
      /\ open' = open /\ queue' = queue /\ pending' = pending /\ worker' = worker /\ log' = log
      /\ aged' = aged /\ committed' = committed /\ answered' = answered
  BY <1>1 DEF CallTurn, auditVars, logVars
<1>3. AuditTypeOK /\ CallsTypeOK /\ OnePlace /\ QueueFits /\ RepliesFit /\ AnsweredFits
      /\ Limits /\ AcknowledgedIsKept /\ ReadersSeeAnswered
  BY DEF RecordsInv
<1>4. stamps \in Nat /\ stamps' \in Nat /\ Records \subseteq Records'
  <2>1. stamps \in Nat
    BY <1>3 DEF AuditTypeOK
  <2>2. stamps' = stamps \/ stamps' = stamps + 1
    BY <1>1
  <2>. QED  BY <2>1, <2>2, StampsGrow
<1>5. \/ x.step \in {"idle", "granted"}
      \/ x.step = "flush" /\ open /\ x.seen = answered /\ x = [step |-> x.step, seen |-> x.seen]
      \/ /\ x.step = "send" /\ x = [step |-> x.step, rec |-> x.rec]
         /\ x.rec \in Records' /\ x.rec \notin Records
  <2>1. CASE stamps' = stamps /\ (x = Idle \/ x.step = "granted")
    BY <2>1 DEF Idle
  <2>2. CASE stamps' = stamps /\ open /\ x = [step |-> "flush", seen |-> answered]
    BY <2>2
  <2>3. ASSUME NEW b \in BOOLEAN, NEW n \in Nat \ {0}, stamps' = stamps + 1,
               x = [step |-> "send", rec |-> [stamp |-> stamps + 1, allowed |-> b, size |-> n]]
        PROVE  /\ x.step = "send" /\ x = [step |-> x.step, rec |-> x.rec]
               /\ x.rec \in Records' /\ x.rec \notin Records
    <3>1. x.rec = [stamp |-> stamps + 1, allowed |-> b, size |-> n] /\ x.step = "send"
      BY <2>3
    <3>2. x.rec.stamp = stamps + 1 /\ x.rec \in Records'
      BY <1>4, <2>3, <3>1 DEF Records
    <3>3. x.rec \notin Records
      BY <1>4, <3>2 DEF Records
    <3>. QED  BY <2>3, <3>1, <3>2, <3>3
  <2>. QED  BY <1>1, <2>1, <2>2, <2>3
<1>6. /\ Idle.step = "idle"
      /\ \A d \in Callers : calls[d].step \in {"send", "waiting", "flush", "flushing"} => d # c
  BY <1>2 DEF Idle
<1>7. AuditTypeOK'
  <2>1. queue' \in Seq([from : Callers, rec : Records' \cup {Idle}]) /\ pending' \in Seq(Records')
    <3>. DEFINE Q == [from : Callers, rec : Records \cup {Idle}]
                R == [from : Callers, rec : Records' \cup {Idle}]
    <3>1. Q \subseteq R
      BY <1>4
    <3>2. queue \in Seq(Q) /\ pending \in Seq(Records)
      BY <1>3 DEF AuditTypeOK
    <3>. HIDE DEF Q, R
    <3>3. queue \in Seq(R) /\ pending \in Seq(Records')
      BY <1>4, <3>1, <3>2, SeqMonotonic
    <3>. QED  BY <1>2, <3>3 DEF R
  <2>2. Idle' = Idle
    BY DEF Idle
  <2>. QED  BY <1>2, <1>3, <1>4, <2>1, <2>2 DEF AuditTypeOK
<1>8. CallsTypeOK'
  <2>1. ASSUME NEW d \in Callers, d # c
        PROVE  /\ calls'[d].step \in {"send", "waiting"} =>
                     /\ calls'[d] = [step |-> calls'[d].step, rec |-> calls'[d].rec]
                     /\ calls'[d].rec \in Records'
               /\ calls'[d].step \in {"flush", "flushing", "read"} =>
                     /\ calls'[d] = [step |-> calls'[d].step, seen |-> calls'[d].seen]
                     /\ calls'[d].seen \subseteq Records'
               /\ ~open' => calls'[d] = Idle
    <3>1. calls'[d] = calls[d]
      BY <1>2, <2>1
    <3>. QED  BY <1>2, <1>3, <1>4, <3>1 DEF CallsTypeOK
  <2>2. answered \subseteq Records'
    BY <1>3, <1>4 DEF AuditTypeOK
  <2>3. /\ calls'[c].step \in {"send", "waiting"} =>
              /\ calls'[c] = [step |-> calls'[c].step, rec |-> calls'[c].rec]
              /\ calls'[c].rec \in Records'
        /\ calls'[c].step \in {"flush", "flushing", "read"} =>
              /\ calls'[c] = [step |-> calls'[c].step, seen |-> calls'[c].seen]
              /\ calls'[c].seen \subseteq Records'
    <3>1. calls'[c] = x
      BY <1>2
    <3>. QED  BY <1>5, <2>2, <3>1
  <2>4. open
    BY <1>2, <1>3, <1>6 DEF CallsTypeOK
  <2>5. Idle' = Idle
    BY DEF Idle
  <2>. QED  BY <1>2, <2>1, <2>3, <2>4, <2>5 DEF CallsTypeOK
<1>9. OnePlace'
  <2>1. ASSUME NEW d \in Callers, calls'[d].step = "send"
        PROVE  /\ calls'[d].rec \notin committed /\ ~Held(calls'[d].rec)
               /\ \A i \in DOMAIN queue : queue[i].rec # calls'[d].rec
               /\ \A e \in Callers : calls'[e].step = "send" /\ d # e => calls'[d].rec # calls'[e].rec
    <3>1. CASE d = c
      <4>1. calls'[d].rec = x.rec /\ x.rec \notin Records /\ x.rec \in Records'
        BY <1>2, <1>5, <2>1, <3>1
      <4>2. \A e \in Callers : calls'[e].step = "send" /\ d # e => calls'[e].rec \in Records
        BY <1>2, <1>3, <3>1 DEF CallsTypeOK
      <4>3. x.rec \notin committed
        BY <1>3, <4>1 DEF AuditTypeOK
      <4>4. ~Held(x.rec)
        BY <1>3, <4>1, QueueRows DEF Held
      <4>5. x.rec # Idle
        <5>1. DOMAIN x.rec = {"stamp", "allowed", "size"}
          BY <4>1 DEF Records
        <5>2. DOMAIN Idle = {"step"}
          BY DEF Idle
        <5>3. "stamp" \in {"stamp", "allowed", "size"} /\ "stamp" \notin {"step"}
          OBVIOUS
        <5>. QED  BY ONLY <5>1, <5>2, <5>3
      <4>6. \A i \in DOMAIN queue : queue[i].rec # x.rec
        BY <1>3, <4>1, <4>5, QueueRows
      <4>. QED  BY <4>1, <4>2, <4>3, <4>4, <4>6
    <3>2. CASE d # c
      <4>1. calls'[d] = calls[d] /\ calls[d].step = "send" /\ calls[d].rec \in Records
        BY <1>2, <1>3, <2>1, <3>2 DEF CallsTypeOK
      <4>2. calls'[c].step = "send" => calls'[c].rec \notin Records
        BY <1>2, <1>5
      <4>3. \A e \in Callers : calls'[e].step = "send" /\ d # e => calls[d].rec # calls'[e].rec
        BY <1>2, <1>3, <4>1, <4>2 DEF OnePlace
      <4>. QED  BY <1>3, <4>1, <4>3 DEF OnePlace
    <3>. QED  BY <3>1, <3>2
  <2>2. Idle' = Idle /\ \A e : Held(e)' <=> Held(e)
    BY <1>2, SameRecords DEF Idle
  <2>. QED  BY <1>2, <1>3, <2>1, <2>2 DEF OnePlace
<1>10. QueueFits'
  <2>1. ASSUME NEW i \in DOMAIN queue, queue[i].rec = Idle \/ ~queue[i].rec.allowed
        PROVE  calls'[queue[i].from] = calls[queue[i].from]
    <3>1. queue[i].from \in Callers
      BY <1>3, QueueRows
    <3>. QED  BY <1>2, <1>3, <1>6, <2>1, <3>1 DEF QueueFits
  <2>2. Idle' = Idle /\ \A e, n : Arrived(e, n)' <=> Arrived(e, n)
    BY <1>2, SameRecords DEF Idle
  <2>. QED  BY <1>2, <1>3, <2>1, <2>2 DEF QueueFits
<1>11. RepliesFit'
  <2>1. ASSUME NEW d \in worker.replies
        PROVE  calls'[d] = calls[d]
    <3>1. d \in Callers
      BY <1>3 DEF AuditTypeOK
    <3>. QED  BY <1>2, <1>3, <1>6, <3>1 DEF RepliesFit
  <2>. QED  BY <1>2, <1>3, <2>1, SameRecords DEF RepliesFit
<1>12. AnsweredFits'
  <2>1. ASSUME NEW d \in Callers, calls'[d].step = "flush", NEW e \in calls'[d].seen
        PROVE  Arrived(e, Len(queue))
    <3>1. CASE d = c
      BY <1>2, <1>3, <1>5, <2>1, <3>1 DEF AnsweredFits
    <3>2. CASE d # c
      BY <1>2, <1>3, <2>1, <3>2 DEF AnsweredFits
    <3>. QED  BY <3>1, <3>2
  <2>. QED  BY <1>2, <1>3, <2>1, SameRecords DEF AnsweredFits
<1>13. Limits' /\ AcknowledgedIsKept'
  BY <1>2, <1>3, SameLog DEF Limits, AcknowledgedIsKept
<1>14. ReadersSeeAnswered'
  <2>1. ASSUME NEW d \in Callers, calls'[d].step = "read"
        PROVE  calls'[d] = calls[d]
    BY <1>2, <1>5, <2>1
  <2>. QED  BY <1>2, <1>3, <2>1, SameLog DEF ReadersSeeAnswered
<1>. QED  BY <1>7, <1>8, <1>9, <1>10, <1>11, <1>12, <1>13, <1>14 DEF RecordsInv

-----------------------------------------------------------------------------
(* A call sends                                                            *)

\* What is sent comes last, after everything that was answered.
LEMMA SentLast ==
    ASSUME RecordsInv, NEW c \in Callers, NEW e \in Records \cup {Idle},
           queue' = Append(queue, [from |-> c, rec |-> e]),
           log' = log, aged' = aged, committed' = committed, pending' = pending
    PROVE  /\ queue' \in Seq([from : Callers, rec : Records \cup {Idle}])
           /\ Len(queue) \in Nat /\ Len(queue') = Len(queue) + 1
           /\ DOMAIN queue = 1 .. Len(queue) /\ DOMAIN queue' = 1 .. (Len(queue) + 1)
           /\ \A i \in DOMAIN queue : queue'[i] = queue[i]
           /\ queue'[Len(queue) + 1].from = c /\ queue'[Len(queue) + 1].rec = e
           /\ \A f : (Kept(f)' <=> Kept(f)) /\ (Held(f)' <=> Held(f))
           /\ \A f, n : Arrived(f, n) => Arrived(f, n)'
           /\ \A f, k : Arrived(f, Len(queue)) /\ k = Len(queue) + 1 => Arrived(f, k)'
           /\ \A k : k = Len(queue) + 1 => Arrived(e, k)'
<1>. DEFINE Q == [from : Callers, rec : Records \cup {Idle}]
            m == [from |-> c, rec |-> e]
            n == Len(queue)
<1>1. queue \in Seq(Q) /\ m \in Q /\ m.from = c /\ m.rec = e
  BY DEF RecordsInv, AuditTypeOK
<1>2. n \in Nat /\ DOMAIN queue = 1 .. n
  BY <1>1
<1>. HIDE DEF Q, m
<1>3. /\ queue' \in Seq(Q) /\ Len(queue') = n + 1 /\ DOMAIN queue' = 1 .. (n + 1)
      /\ \A i \in 1 .. n : queue'[i] = queue[i]
      /\ queue'[n + 1] = m
  BY <1>1, AppendProperties DEF m
<1>4. \A f : (Kept(f)' <=> Kept(f)) /\ (Held(f)' <=> Held(f))
  BY SameLog DEF Held
<1>. HIDE DEF n
<1>5. \A f, k : Arrived(f, k) => Arrived(f, k)'
  BY <1>2, <1>3, <1>4 DEF Arrived
<1>6. ASSUME NEW f, NEW k, Arrived(f, n), k = n + 1
      PROVE  Arrived(f, k)'
  <2>1. \A i \in DOMAIN queue : i <= n => i \in DOMAIN queue' /\ i <= k /\ queue'[i] = queue[i]
    BY <1>2, <1>3, <1>6
  <2>. QED  BY <1>4, <1>6, <2>1 DEF Arrived
<1>7. ASSUME NEW k, k = n + 1
      PROVE  Arrived(e, k)'
  <2>1. k \in DOMAIN queue' /\ k <= k /\ queue'[k].rec = e
    BY <1>1, <1>2, <1>3, <1>7
  <2>. QED  BY <2>1 DEF Arrived
<1>. QED  BY <1>1, <1>2, <1>3, <1>4, <1>5, <1>6, <1>7 DEF Q, n

LEMMA SendFlushKeeps ==
    ASSUME RecordsInv, calls = [d \in Callers |-> calls[d]], NEW c \in Callers, Send(c),
           calls[c].step = "flush"
    PROVE  RecordsInv'
<1>1. /\ AuditTypeOK /\ CallsTypeOK /\ OnePlace /\ QueueFits /\ RepliesFit /\ AnsweredFits
      /\ Limits /\ AcknowledgedIsKept /\ ReadersSeeAnswered
  BY DEF RecordsInv
<1>2. /\ queue' = Append(queue, [from |-> c, rec |-> Idle]) /\ Len(queue) < QueueCapacity
      /\ open' = open /\ pending' = pending /\ worker' = worker /\ log' = log
      /\ aged' = aged /\ committed' = committed /\ answered' = answered /\ stamps' = stamps
  BY DEF Send, logVars
<1>. DEFINE n == Len(queue)
<1>3. /\ queue' \in Seq([from : Callers, rec : Records \cup {Idle}])
      /\ n \in Nat /\ Len(queue') = n + 1
      /\ DOMAIN queue = 1 .. n /\ DOMAIN queue' = 1 .. (n + 1)
      /\ \A i \in DOMAIN queue : queue'[i] = queue[i]
      /\ queue'[n + 1].from = c /\ queue'[n + 1].rec = Idle
      /\ \A f : (Kept(f)' <=> Kept(f)) /\ (Held(f)' <=> Held(f))
      /\ \A f, k : Arrived(f, k) => Arrived(f, k)'
      /\ \A f, k : Arrived(f, n) /\ k = n + 1 => Arrived(f, k)'
  BY <1>2, SentLast
<1>4. /\ calls[c] = [step |-> "flush", seen |-> calls[c].seen] /\ calls[c].seen \subseteq Records
      /\ \A d \in Callers : calls'[d] = IF d = c THEN [step |-> "flushing", seen |-> calls[c].seen]
                                        ELSE calls[d]
  <2>1. calls[c] = [step |-> "flush", seen |-> calls[c].seen] /\ calls[c].seen \subseteq Records
    BY <1>1 DEF CallsTypeOK
  <2>2. calls' = [calls EXCEPT ![c] = [calls[c] EXCEPT !.step = "flushing"]]
    BY DEF Send
  <2>3. [calls[c] EXCEPT !.step = "flushing"] = [step |-> "flushing", seen |-> calls[c].seen]
    BY <2>1
  <2>4. calls' = [calls EXCEPT ![c] = [step |-> "flushing", seen |-> calls[c].seen]]
    BY <2>2, <2>3
  <2>. QED  BY <2>1, <2>4
<1>5. /\ calls'[c].step = "flushing" /\ calls'[c].seen = calls[c].seen
      /\ \A d \in Callers : d # c => calls'[d] = calls[d]
  BY <1>4
<1>6. Idle' = Idle /\ Records' = Records /\ Idle.step = "idle" /\ (\A e : Outgrown(e)' <=> Outgrown(e))
  BY <1>2, SameLog DEF Idle, Records
<1>. HIDE DEF n
<1>7. AuditTypeOK'
  BY <1>1, <1>2, <1>3, <1>6 DEF AuditTypeOK
<1>8. CallsTypeOK'
  BY <1>1, <1>2, <1>4, <1>5, <1>6 DEF CallsTypeOK
<1>9. OnePlace'
  <2>1. Idle \notin committed /\ ~Held(Idle) /\ \A d \in Callers : calls[d].step = "send" => calls[d].rec # Idle
    BY <1>1, IdleIsNoRecord, QueueRows DEF AuditTypeOK, CallsTypeOK, Held
  <2>2. ASSUME NEW i \in DOMAIN queue', NEW j \in DOMAIN queue', i # j, queue'[i].rec # Idle
        PROVE  queue'[i].rec # queue'[j].rec
    <3>1. i \in DOMAIN queue
      BY <1>3, <2>2
    <3>2. CASE j \in DOMAIN queue
      BY <1>1, <1>3, <2>2, <3>1, <3>2 DEF OnePlace
    <3>3. CASE j = n + 1
      BY <1>3, <2>2, <3>3
    <3>. QED  BY <1>3, <3>2, <3>3
  <2>3. ASSUME NEW i \in DOMAIN queue'
        PROVE  /\ queue'[i].rec \notin committed /\ ~Held(queue'[i].rec)
               /\ \A d \in Callers : calls[d].step = "send" => queue'[i].rec # calls[d].rec
    <3>1. CASE i \in DOMAIN queue
      BY <1>1, <1>3, <3>1 DEF OnePlace
    <3>2. CASE i = n + 1
      BY <1>3, <2>1, <3>2
    <3>. QED  BY <1>3, <3>1, <3>2
  <2>4. \A d \in Callers : calls'[d].step = "send" => calls'[d] = calls[d]
    BY <1>5
  <2>. QED  BY <1>1, <1>2, <1>3, <1>6, <2>2, <2>3, <2>4 DEF OnePlace
<1>10. QueueFits'
  <2>1. \A i \in DOMAIN queue : queue[i].from = c => queue[i].rec # Idle /\ queue[i].rec.allowed
    BY <1>1 DEF QueueFits
  <2>2. c \notin worker.replies
    BY <1>1 DEF RepliesFit
  <2>3. ASSUME NEW i \in DOMAIN queue', queue'[i].rec = Idle
        PROVE  /\ calls'[queue'[i].from].step = "flushing" /\ queue'[i].from \notin worker.replies
               /\ \A e \in calls'[queue'[i].from].seen : Arrived(e, i)'
               /\ \A j \in DOMAIN queue' : j # i /\ queue'[j].rec = Idle => queue'[j].from # queue'[i].from
    <3>1. CASE i \in DOMAIN queue
      <4>1. queue'[i] = queue[i] /\ queue[i].from \in Callers /\ queue[i].from # c
        BY <1>1, <1>3, <2>1, <2>3, <3>1, QueueRows
      <4>2. calls'[queue[i].from] = calls[queue[i].from]
        BY <1>5, <4>1
      <4>3. \A j \in DOMAIN queue' : j # i /\ queue'[j].rec = Idle => queue'[j].from # queue[i].from
        BY <1>1, <1>3, <2>3, <3>1, <4>1 DEF QueueFits
      <4>. QED  BY <1>1, <1>3, <2>3, <3>1, <4>1, <4>2, <4>3 DEF QueueFits
    <3>2. CASE i = n + 1
      <4>1. \A e \in calls[c].seen : Arrived(e, i)'
        <5>1. \A e \in calls[c].seen : Arrived(e, Len(queue))
          BY <1>1 DEF AnsweredFits
        <5>. QED  BY <1>3, <3>2, <5>1 DEF n
      <4>2. \A j \in DOMAIN queue' : j # i /\ queue'[j].rec = Idle => queue'[j].from # c
        BY <1>3, <2>1, <3>2
      <4>. QED  BY <1>3, <1>5, <2>2, <3>2, <4>1, <4>2
    <3>. QED  BY <1>3, <3>1, <3>2
  <2>4. ASSUME NEW i \in DOMAIN queue', queue'[i].rec # Idle, ~queue'[i].rec.allowed
        PROVE  /\ calls'[queue'[i].from].step = "waiting" /\ calls'[queue'[i].from].rec = queue'[i].rec
               /\ queue'[i].from \notin worker.replies
    <3>1. i \in DOMAIN queue /\ queue'[i] = queue[i]
      BY <1>3, <2>4
    <3>2. queue[i].from \in Callers /\ queue[i].from # c
      BY <1>1, <2>1, <2>4, <3>1, QueueRows
    <3>3. calls'[queue[i].from] = calls[queue[i].from]
      BY <1>5, <3>2
    <3>. QED  BY <1>1, <2>4, <3>1, <3>3 DEF QueueFits
  <2>. QED  BY <1>2, <1>6, <2>3, <2>4 DEF QueueFits
<1>11. RepliesFit'
  <2>1. c \notin worker.replies
    BY <1>1 DEF RepliesFit
  <2>2. \A d \in worker.replies : calls'[d] = calls[d]
    BY <1>1, <1>5, <2>1 DEF AuditTypeOK
  <2>. QED  BY <1>1, <1>2, <1>3, <2>2 DEF RepliesFit
<1>12. AnsweredFits'
  <2>1. PICK k : k = n + 1
    OBVIOUS
  <2>2. \A e : Arrived(e, Len(queue)) => Arrived(e, Len(queue))'
    <3>1. \A e : Arrived(e, k)' <=> Arrived(e, Len(queue))'
      BY <1>3, <2>1 DEF Arrived
    <3>. QED  BY <1>3, <2>1, <3>1 DEF n
  <2>3. \A d \in Callers : calls'[d].step = "flush" => calls'[d] = calls[d]
    BY <1>5
  <2>. QED  BY <1>1, <1>2, <2>2, <2>3 DEF AnsweredFits
<1>13. Limits'
  <2>1. Len(queue') <= QueueCapacity
    BY <1>2, <1>3, AccessAssumption DEF n
  <2>. QED  BY <1>1, <1>2, <1>6, <2>1 DEF Limits
<1>14. AcknowledgedIsKept' /\ ReadersSeeAnswered'
  BY <1>1, <1>2, <1>5, <1>6 DEF AcknowledgedIsKept, ReadersSeeAnswered
<1>. QED  BY <1>7, <1>8, <1>9, <1>10, <1>11, <1>12, <1>13, <1>14 DEF RecordsInv

\* A success is answered at once; a refusal waits.
LEMMA SendRecordKeeps ==
    ASSUME RecordsInv, calls = [d \in Callers |-> calls[d]], NEW c \in Callers, Send(c),
           calls[c].step = "send"
    PROVE  RecordsInv'
<1>1. /\ AuditTypeOK /\ CallsTypeOK /\ OnePlace /\ QueueFits /\ RepliesFit /\ AnsweredFits
      /\ Limits /\ AcknowledgedIsKept /\ ReadersSeeAnswered
  BY DEF RecordsInv
<1>2. PICK e : e = calls[c].rec
  OBVIOUS
<1>3. e \in Records /\ calls[c] = [step |-> "send", rec |-> e] /\ e # Idle
  BY <1>1, <1>2, IdleIsNoRecord DEF CallsTypeOK
<1>4. /\ queue' = Append(queue, [from |-> c, rec |-> e]) /\ Len(queue) < QueueCapacity
      /\ open' = open /\ pending' = pending /\ worker' = worker /\ log' = log /\ stamps' = stamps
      /\ aged' = aged /\ committed' = committed
      /\ IF e.allowed
         THEN calls' = [calls EXCEPT ![c] = Idle] /\ answered' = answered \cup {e}
         ELSE calls' = [calls EXCEPT ![c].step = "waiting"] /\ answered' = answered
  BY <1>2 DEF Send, logVars
<1>. DEFINE n == Len(queue)
<1>5. /\ queue' \in Seq([from : Callers, rec : Records \cup {Idle}])
      /\ n \in Nat /\ Len(queue') = n + 1
      /\ DOMAIN queue = 1 .. n /\ DOMAIN queue' = 1 .. (n + 1)
      /\ \A i \in DOMAIN queue : queue'[i] = queue[i]
      /\ queue'[n + 1].from = c /\ queue'[n + 1].rec = e
      /\ \A f : (Kept(f)' <=> Kept(f)) /\ (Held(f)' <=> Held(f))
      /\ \A f, k : Arrived(f, k) => Arrived(f, k)'
      /\ \A f, k : Arrived(f, n) /\ k = n + 1 => Arrived(f, k)'
      /\ \A k : k = n + 1 => Arrived(e, k)'
  BY <1>3, <1>4, SentLast
<1>6. /\ \A d \in Callers : d # c => calls'[d] = calls[d]
      /\ e.allowed => calls'[c] = Idle /\ answered' = answered \cup {e}
      /\ ~e.allowed => calls'[c] = [step |-> "waiting", rec |-> e] /\ answered' = answered
  <2>1. [calls[c] EXCEPT !.step = "waiting"] = [step |-> "waiting", rec |-> e]
    BY <1>3
  <2>2. CASE e.allowed
    BY <1>4, <2>2
  <2>3. CASE ~e.allowed
    <3>1. calls' = [calls EXCEPT ![c] = [calls[c] EXCEPT !.step = "waiting"]]
      BY <1>4, <2>3
    <3>2. calls' = [calls EXCEPT ![c] = [step |-> "waiting", rec |-> e]]
      BY <2>1, <3>1
    <3>. QED  BY <1>4, <2>3, <3>2
  <2>. QED  BY <2>2, <2>3
<1>7. /\ Idle' = Idle /\ Records' = Records /\ Idle.step = "idle"
      /\ \A f : Outgrown(f)' <=> Outgrown(f)
      /\ \A d \in Callers : calls'[d].step \in {"send", "flush", "flushing", "read"} => d # c
  <2>1. Idle.step = "idle" /\ Idle' = Idle
    BY DEF Idle
  <2>2. calls'[c].step \in {"idle", "waiting"}
    BY <1>6, <2>1
  <2>. QED  BY <1>4, <2>1, <2>2, SameLog DEF Records
<1>. HIDE DEF n
<1>8. AuditTypeOK'
  BY <1>1, <1>3, <1>4, <1>5, <1>6, <1>7 DEF AuditTypeOK
<1>9. CallsTypeOK'
  <2>1. open
    BY <1>1, <1>3, <1>7 DEF CallsTypeOK
  <2>2. calls'[c] = Idle \/ calls'[c] = [step |-> "waiting", rec |-> e]
    BY <1>6
  <2>3. /\ calls'[c].step \in {"send", "waiting"} =>
              calls'[c] = [step |-> calls'[c].step, rec |-> calls'[c].rec] /\ calls'[c].rec \in Records
        /\ ~(calls'[c].step \in {"flush", "flushing", "read"})
    BY <1>3, <1>7, <2>2
  <2>. QED  BY <1>1, <1>4, <1>6, <1>7, <2>1, <2>3 DEF CallsTypeOK
<1>10. OnePlace'
  <2>1. /\ e \notin committed /\ ~Held(e) /\ \A i \in DOMAIN queue : queue[i].rec # e
        /\ \A d \in Callers : calls[d].step = "send" /\ d # c => calls[d].rec # e
    BY <1>1, <1>2, <1>3 DEF OnePlace
  <2>2. ASSUME NEW i \in DOMAIN queue', NEW j \in DOMAIN queue', i # j, queue'[i].rec # Idle
        PROVE  queue'[i].rec # queue'[j].rec
    <3>1. CASE i \in DOMAIN queue /\ j \in DOMAIN queue
      BY <1>1, <1>5, <2>2, <3>1 DEF OnePlace
    <3>2. CASE i = n + 1
      BY <1>5, <2>1, <2>2, <3>2
    <3>3. CASE j = n + 1
      BY <1>5, <2>1, <2>2, <3>3
    <3>. QED  BY <1>5, <3>1, <3>2, <3>3
  <2>3. ASSUME NEW i \in DOMAIN queue'
        PROVE  /\ queue'[i].rec \notin committed /\ ~Held(queue'[i].rec)
               /\ \A d \in Callers : calls[d].step = "send" /\ d # c => queue'[i].rec # calls[d].rec
    <3>1. CASE i \in DOMAIN queue
      BY <1>1, <1>5, <3>1 DEF OnePlace
    <3>2. CASE i = n + 1
      BY <1>5, <2>1, <3>2
    <3>. QED  BY <1>5, <3>1, <3>2
  <2>4. \A d \in Callers : calls'[d].step = "send" => calls'[d] = calls[d] /\ d # c
    BY <1>6, <1>7
  <2>. QED  BY <1>1, <1>4, <1>5, <1>7, <2>2, <2>3, <2>4 DEF OnePlace
<1>11. QueueFits'
  <2>1. \A i \in DOMAIN queue : queue[i].from = c => queue[i].rec # Idle /\ queue[i].rec.allowed
    BY <1>1, <1>3 DEF QueueFits
  <2>2. c \notin worker.replies
    BY <1>1, <1>3 DEF RepliesFit
  <2>3. ASSUME NEW i \in DOMAIN queue', queue'[i].rec = Idle
        PROVE  /\ calls'[queue'[i].from].step = "flushing" /\ queue'[i].from \notin worker.replies
               /\ \A f \in calls'[queue'[i].from].seen : Arrived(f, i)'
               /\ \A j \in DOMAIN queue' : j # i /\ queue'[j].rec = Idle => queue'[j].from # queue'[i].from
    <3>1. i \in DOMAIN queue /\ queue'[i] = queue[i]
      BY <1>3, <1>5, <2>3
    <3>2. queue[i].from \in Callers /\ queue[i].from # c
      BY <1>1, <2>1, <2>3, <3>1, QueueRows
    <3>3. calls'[queue[i].from] = calls[queue[i].from]
      BY <1>6, <3>2
    <3>4. \A j \in DOMAIN queue' : j # i /\ queue'[j].rec = Idle => queue'[j].from # queue[i].from
      BY <1>1, <1>3, <1>5, <2>3, <3>1 DEF QueueFits
    <3>. QED  BY <1>1, <1>5, <2>3, <3>1, <3>3, <3>4 DEF QueueFits
  <2>4. ASSUME NEW i \in DOMAIN queue', queue'[i].rec # Idle, ~queue'[i].rec.allowed
        PROVE  /\ calls'[queue'[i].from].step = "waiting" /\ calls'[queue'[i].from].rec = queue'[i].rec
               /\ queue'[i].from \notin worker.replies
    <3>1. CASE i \in DOMAIN queue
      <4>1. queue'[i] = queue[i] /\ queue[i].from \in Callers /\ queue[i].from # c
        BY <1>1, <1>5, <2>1, <2>4, <3>1, QueueRows
      <4>2. calls'[queue[i].from] = calls[queue[i].from]
        BY <1>6, <4>1
      <4>. QED  BY <1>1, <2>4, <3>1, <4>1, <4>2 DEF QueueFits
    <3>2. CASE i = n + 1
      BY <1>5, <1>6, <2>2, <2>4, <3>2
    <3>. QED  BY <1>5, <3>1, <3>2
  <2>. QED  BY <1>4, <1>7, <2>3, <2>4 DEF QueueFits
<1>12. RepliesFit'
  <2>1. c \notin worker.replies
    BY <1>1, <1>3 DEF RepliesFit
  <2>2. \A d \in worker.replies : calls'[d] = calls[d]
    BY <1>1, <1>6, <2>1 DEF AuditTypeOK
  <2>. QED  BY <1>1, <1>4, <1>5, <2>2 DEF RepliesFit
<1>13. AnsweredFits'
  <2>1. PICK k : k = n + 1
    OBVIOUS
  <2>2. \A f : Arrived(f, Len(queue)) \/ f = e => Arrived(f, Len(queue))'
    <3>1. \A f : Arrived(f, k)' <=> Arrived(f, Len(queue))'
      BY <1>5, <2>1 DEF Arrived
    <3>. QED  BY <1>5, <2>1, <3>1 DEF n
  <2>3. \A d \in Callers : calls'[d].step = "flush" => calls'[d] = calls[d]
    BY <1>6, <1>7
  <2>4. \A f \in answered' : f \in answered \/ f = e
    BY <1>6
  <2>. QED  BY <1>1, <1>4, <2>2, <2>3, <2>4 DEF AnsweredFits
<1>14. Limits'
  <2>1. Len(queue') <= QueueCapacity
    BY <1>4, <1>5, AccessAssumption DEF n
  <2>. QED  BY <1>1, <1>4, <1>7, <2>1 DEF Limits
<1>15. AcknowledgedIsKept'
  <2>1. \A f \in answered' : f \in answered \/ f.allowed
    BY <1>6
  <2>. QED  BY <1>1, <1>4, <1>7, <2>1 DEF AcknowledgedIsKept
<1>16. ReadersSeeAnswered'
  <2>1. \A d \in Callers : calls'[d].step = "read" => calls'[d] = calls[d]
    BY <1>6, <1>7
  <2>. QED  BY <1>1, <1>4, <1>7, <2>1 DEF ReadersSeeAnswered
<1>. QED  BY <1>8, <1>9, <1>10, <1>11, <1>12, <1>13, <1>14, <1>15, <1>16 DEF RecordsInv

-----------------------------------------------------------------------------
(* The worker receives                                                     *)

\* What the worker takes was in front of the rest.
LEMMA ReceivedFirst ==
    ASSUME RecordsInv, Receive
    PROVE  /\ Len(queue) \in Nat /\ Len(queue') = Len(queue) - 1 /\ 1 \in DOMAIN queue
           /\ DOMAIN queue = 1 .. Len(queue) /\ DOMAIN queue' = 1 .. (Len(queue) - 1)
           /\ queue' \in Seq([from : Callers, rec : Records \cup {Idle}])
           /\ \A i \in DOMAIN queue' : i + 1 \in DOMAIN queue /\ queue'[i] = queue[i + 1]
           /\ Head(queue) = queue[1]
<1>. DEFINE Q == [from : Callers, rec : Records \cup {Idle}]
<1>1. queue \in Seq(Q) /\ queue # <<>> /\ queue' = Tail(queue)
  BY DEF RecordsInv, AuditTypeOK, Receive
<1>. HIDE DEF Q
<1>2. /\ Len(queue) \in Nat /\ DOMAIN queue = 1 .. Len(queue) /\ Len(queue) # 0
      /\ Head(queue) = queue[1]
  BY <1>1
<1>3. /\ Tail(queue) \in Seq(Q) /\ Len(Tail(queue)) = Len(queue) - 1
      /\ \A i \in 1 .. Len(Tail(queue)) : Tail(queue)[i] = queue[i + 1]
  BY <1>1, HeadTailProperties
<1>4. DOMAIN Tail(queue) = 1 .. Len(Tail(queue))
  BY <1>3
<1>. QED  BY <1>1, <1>2, <1>3, <1>4 DEF Q

\* It takes a record, and holds it, or the flush of a reader.
LEMMA ReceiveKeeps ==
    ASSUME RecordsInv, Receive
    PROVE  RecordsInv'
<1>1. /\ AuditTypeOK /\ CallsTypeOK /\ OnePlace /\ QueueFits /\ RepliesFit /\ AnsweredFits
      /\ Limits /\ AcknowledgedIsKept /\ ReadersSeeAnswered
  BY DEF RecordsInv
<1>2. PICK m : m = queue[1]
  OBVIOUS
<1>3. PICK c : c = m.from
  OBVIOUS
<1>4. PICK r : r = m.rec
  OBVIOUS
<1>5. /\ Len(queue) \in Nat /\ Len(queue') = Len(queue) - 1 /\ 1 \in DOMAIN queue
      /\ DOMAIN queue = 1 .. Len(queue) /\ DOMAIN queue' = 1 .. (Len(queue) - 1)
      /\ queue' \in Seq([from : Callers, rec : Records \cup {Idle}])
      /\ \A i \in DOMAIN queue' : i + 1 \in DOMAIN queue /\ queue'[i] = queue[i + 1] /\ i + 1 # 1
      /\ Head(queue) = m
  BY <1>2, ReceivedFirst
<1>6. c \in Callers /\ r \in Records \cup {Idle} /\ queue[1].from = c /\ queue[1].rec = r
  BY <1>1, <1>2, <1>3, <1>4, <1>5, QueueRows
<1>7. /\ open' = open /\ log' = log /\ answered' = answered /\ calls' = calls /\ stamps' = stamps
      /\ aged' = aged /\ committed' = committed
      /\ Len(pending) < BatchSize
      /\ \/ r = Idle /\ pending' = pending /\ worker'.replies = worker.replies \cup {c}
         \/ r # Idle /\ r.allowed /\ pending' = Append(pending, r) /\ worker' = worker
         \/ r # Idle /\ ~r.allowed /\ pending' = Append(pending, r)
               /\ worker'.replies = worker.replies \cup {c}
  BY <1>3, <1>4, <1>5 DEF Receive, logVars
<1>8. /\ Idle' = Idle /\ Records' = Records /\ Idle.step = "idle"
      /\ \A f : (Outgrown(f)' <=> Outgrown(f)) /\ (Kept(f)' <=> Kept(f))
  BY <1>7, SameLog DEF Idle, Records
\* The batch after it
<1>9. /\ pending' \in Seq(Records) /\ Len(pending') <= BatchSize
      /\ \A f : Held(f)' <=> (Held(f) \/ (r # Idle /\ f = r))
      /\ \A i, j \in DOMAIN pending' : i # j => pending'[i] # pending'[j]
  <2>1. pending \in Seq(Records) /\ Len(pending) \in Nat /\ DOMAIN pending = 1 .. Len(pending) /\ BatchSize \in Nat
    BY <1>1, QueueRows, AccessAssumption DEF AuditTypeOK
  <2>2. CASE r = Idle
    <3>1. pending' = pending
      BY <1>7, <2>2
    <3>. QED  BY <1>1, <1>7, <2>1, <2>2, <3>1 DEF OnePlace, Held
  <2>3. CASE r # Idle
    <3>. DEFINE k == Len(pending)
    <3>1. r \in Records /\ pending' = Append(pending, r)
      BY <1>6, <1>7, <2>3
    <3>2. /\ pending' \in Seq(Records) /\ Len(pending') = k + 1 /\ DOMAIN pending' = 1 .. (k + 1)
          /\ \A i \in 1 .. k : pending'[i] = pending[i]
          /\ pending'[k + 1] = r
      BY <2>1, <3>1, AppendProperties
    <3>3. ~Held(r)
      BY <1>1, <1>5, <1>6 DEF OnePlace
    <3>4. Len(pending') <= BatchSize
      BY <1>7, <2>1, <3>2
    <3>. HIDE DEF k
    <3>5. k \in Nat /\ DOMAIN pending = 1 .. k
      BY <2>1 DEF k
    <3>6. \A f : Held(f)' <=> Held(f) \/ f = r
      BY <3>2, <3>5 DEF Held
    <3>7. \A i, j \in DOMAIN pending' : i # j => pending'[i] # pending'[j]
      BY <1>1, <3>2, <3>3, <3>5 DEF OnePlace, Held
    <3>. QED  BY <2>3, <3>2, <3>4, <3>6, <3>7
  <2>. QED  BY <2>2, <2>3
\* What was before a place is before the place it moves to.
<1>10. ASSUME NEW f \in Records, NEW n \in Nat, NEW k \in Nat, k + 1 = n, Arrived(f, n)
       PROVE  Arrived(f, k)'
  <2>1. CASE Kept(f) \/ Held(f)
    BY <1>8, <1>9, <2>1 DEF Arrived
  <2>2. CASE \E i \in DOMAIN queue : i <= n /\ queue[i].rec = f
    <3>1. PICK i \in DOMAIN queue : i <= n /\ queue[i].rec = f
      BY <2>2
    <3>2. CASE i = 1
      <4>1. f = r /\ f # Idle
        BY <1>6, <3>1, <3>2, IdleIsNoRecord
      <4>. QED  BY <1>9, <4>1 DEF Arrived
    <3>3. CASE i # 1
      <4>1. i - 1 \in DOMAIN queue' /\ i - 1 <= k /\ queue'[i - 1] = queue[i]
        BY <1>5, <1>10, <3>1, <3>3
      <4>. QED  BY <3>1, <4>1 DEF Arrived
    <3>. QED  BY <3>2, <3>3
  <2>. QED  BY <1>10, <2>1, <2>2 DEF Arrived
\* The caller has no other message that it waits for.
<1>11. ASSUME NEW i \in DOMAIN queue', queue'[i].rec = Idle \/ ~queue'[i].rec.allowed,
              r = Idle \/ ~r.allowed
       PROVE  queue'[i].from # c
  <2>. DEFINE j == i + 1
  <2>1. j \in DOMAIN queue /\ queue'[i] = queue[j] /\ j # 1
    BY <1>5
  <2>. HIDE DEF j
  <2>2. CASE queue[j].rec = Idle /\ r = Idle
    BY <1>1, <1>5, <1>6, <2>1, <2>2 DEF QueueFits
  <2>3. CASE queue[j].rec = Idle /\ r # Idle
    <3>1. calls[queue[j].from].step = "flushing" /\ calls[c].step = "waiting"
      BY <1>1, <1>5, <1>6, <1>11, <2>1, <2>3 DEF QueueFits
    <3>. QED  BY <2>1, <3>1
  <2>4. CASE queue[j].rec # Idle /\ r = Idle
    <3>1. calls[queue[j].from].step = "waiting" /\ calls[c].step = "flushing"
      BY <1>1, <1>5, <1>6, <1>11, <2>1, <2>4 DEF QueueFits
    <3>. QED  BY <2>1, <3>1
  <2>5. CASE queue[j].rec # Idle /\ r # Idle
    <3>1. calls[queue[j].from].rec = queue[j].rec /\ calls[c].rec = r
      BY <1>1, <1>5, <1>6, <1>11, <2>1, <2>5 DEF QueueFits
    <3>2. queue[j].rec # r
      BY <1>1, <1>5, <1>6, <2>1, <2>5 DEF OnePlace
    <3>. QED  BY <2>1, <3>1, <3>2
  <2>. QED  BY <2>2, <2>3, <2>4, <2>5
<1>12. AuditTypeOK'
  <2>1. worker'.replies \subseteq Callers
    BY <1>1, <1>6, <1>7 DEF AuditTypeOK
  <2>. QED  BY <1>1, <1>5, <1>7, <1>8, <1>9, <2>1 DEF AuditTypeOK
<1>13. CallsTypeOK'
  BY <1>1, <1>7, <1>8 DEF CallsTypeOK
<1>14. OnePlace'
  <2>1. ASSUME NEW i \in DOMAIN queue', NEW j \in DOMAIN queue', i # j, queue'[i].rec # Idle
        PROVE  queue'[i].rec # queue'[j].rec
    <3>. DEFINE a == i + 1
                b == j + 1
    <3>1. a \in DOMAIN queue /\ b \in DOMAIN queue /\ a # b /\ queue'[i] = queue[a] /\ queue'[j] = queue[b]
      BY <1>5, <2>1
    <3>. HIDE DEF a, b
    <3>. QED  BY <1>1, <2>1, <3>1 DEF OnePlace
  <2>2. ASSUME NEW i \in DOMAIN queue'
        PROVE  queue'[i].rec \notin committed /\ ~Held(queue[i].rec)'
    <3>. DEFINE a == i + 1
    <3>1. a \in DOMAIN queue /\ queue'[i] = queue[a] /\ a # 1
      BY <1>5
    <3>. HIDE DEF a
    <3>2. queue[a].rec \notin committed /\ ~Held(queue[a].rec) /\ (r # Idle => queue[a].rec # r)
      BY <1>1, <1>5, <1>6, <3>1 DEF OnePlace
    <3>3. PICK f : f = queue[a].rec
      OBVIOUS
    <3>4. ~Held(f)' /\ f = queue'[i].rec
      BY <1>9, <3>1, <3>2, <3>3
    <3>. QED  BY <3>1, <3>2, <3>4 DEF Held
  <2>3. r # Idle => r \notin committed
    BY <1>1, <1>5, <1>6 DEF OnePlace
  <2>4. \A i \in DOMAIN pending' : pending'[i] \notin committed
    <3>1. ASSUME NEW i \in DOMAIN pending', NEW f, f = pending'[i]
          PROVE  f \notin committed
      <4>1. Held(f)'
        BY <3>1 DEF Held
      <4>2. Held(f) \/ (r # Idle /\ f = r)
        BY <1>9, <4>1
      <4>. QED  BY <1>1, <2>3, <4>2 DEF OnePlace, Held
    <3>. QED  BY <3>1
  <2>5. ASSUME NEW d \in Callers, calls[d].step = "send"
        PROVE  /\ calls[d].rec \notin committed /\ ~Held(calls[d].rec)'
               /\ \A i \in DOMAIN queue' : queue'[i].rec # calls[d].rec
    <3>1. PICK f : f = calls[d].rec
      OBVIOUS
    <3>2. f \notin committed /\ ~Held(f) /\ r # f /\ \A i \in DOMAIN queue : queue[i].rec # f
      BY <1>1, <1>5, <1>6, <2>5, <3>1 DEF OnePlace
    <3>3. ~Held(f)'
      BY <1>9, <3>2
    <3>4. f = calls'[d].rec
      BY <1>7, <3>1
    <3>. QED  BY <1>5, <3>1, <3>2, <3>3, <3>4 DEF Held
  <2>6. \A d, g \in Callers : calls'[d].step = "send" /\ d # g /\ calls'[g].step = "send" =>
            calls'[d].rec # calls'[g].rec
    BY <1>1, <1>7 DEF OnePlace
  <2>7. \A d \in Callers : calls'[d].step = "send" =>
            /\ calls'[d].rec \notin committed' /\ ~Held(calls[d].rec)'
            /\ \A i \in DOMAIN queue' : queue'[i].rec # calls'[d].rec
    BY <1>7, <2>5
  <2>8. \A i \in DOMAIN queue' : queue'[i].rec \notin committed' /\ ~Held(queue[i].rec)'
    BY <1>7, <2>2
  <2>. QED  BY <1>7, <1>8, <1>9, <2>1, <2>4, <2>6, <2>7, <2>8 DEF OnePlace
<1>15. QueueFits'
  <2>1. ASSUME NEW i \in DOMAIN queue', queue'[i].rec = Idle
        PROVE  /\ calls[queue'[i].from].step = "flushing" /\ queue'[i].from \notin worker'.replies
               /\ \A f \in calls[queue'[i].from].seen : Arrived(f, i)'
               /\ \A j \in DOMAIN queue' : j # i /\ queue'[j].rec = Idle => queue'[j].from # queue'[i].from
    <3>1. PICK a : a = i + 1
      OBVIOUS
    <3>2. a \in DOMAIN queue /\ queue'[i] = queue[a] /\ a # 1 /\ i \in Nat /\ a \in Nat
      BY <1>5, <3>1
    <3>3. /\ calls[queue[a].from].step = "flushing" /\ queue[a].from \notin worker.replies
          /\ \A f \in calls[queue[a].from].seen : Arrived(f, a)
          /\ \A j \in DOMAIN queue : j # a /\ queue[j].rec = Idle => queue[j].from # queue[a].from
      BY <1>1, <2>1, <3>2 DEF QueueFits
    <3>4. queue'[i].from \notin worker'.replies
      BY <1>7, <1>11, <2>1, <3>2, <3>3
    <3>5. queue[a].from \in Callers /\ calls[queue[a].from].seen \subseteq Records
      BY <1>1, <3>2, <3>3, QueueRows DEF CallsTypeOK
    <3>6. \A f \in calls[queue[a].from].seen : Arrived(f, i)'
      BY <1>10, <3>1, <3>2, <3>3, <3>5
    <3>7. ASSUME NEW j \in DOMAIN queue', j # i, queue'[j].rec = Idle
          PROVE  queue'[j].from # queue'[i].from
      <4>. DEFINE b == j + 1
      <4>1. b \in DOMAIN queue /\ queue'[j] = queue[b] /\ b # a
        BY <1>5, <3>1, <3>7
      <4>. HIDE DEF b
      <4>. QED  BY <3>2, <3>3, <3>7, <4>1
    <3>. QED  BY <3>2, <3>3, <3>4, <3>6, <3>7
  <2>2. ASSUME NEW i \in DOMAIN queue', queue'[i].rec # Idle, ~queue'[i].rec.allowed
        PROVE  /\ calls[queue'[i].from].step = "waiting" /\ calls[queue'[i].from].rec = queue'[i].rec
               /\ queue'[i].from \notin worker'.replies
    <3>1. PICK a : a = i + 1
      OBVIOUS
    <3>2. a \in DOMAIN queue /\ queue'[i] = queue[a]
      BY <1>5, <3>1
    <3>3. /\ calls[queue[a].from].step = "waiting" /\ calls[queue[a].from].rec = queue[a].rec
          /\ queue[a].from \notin worker.replies
      BY <1>1, <2>2, <3>2 DEF QueueFits
    <3>4. queue'[i].from \notin worker'.replies
      BY <1>7, <1>11, <2>2, <3>2, <3>3
    <3>. QED  BY <3>2, <3>3, <3>4
  <2>. QED  BY <1>7, <1>8, <2>1, <2>2 DEF QueueFits
<1>16. RepliesFit'
  <2>1. ASSUME NEW d \in worker'.replies
        PROVE  \/ calls[d].step = "waiting" /\ Held(calls[d].rec)'
               \/ calls[d].step = "flushing" /\ \A f \in calls[d].seen : (Kept(f) \/ Held(f))'
    <3>1. CASE d \in worker.replies
      <4>1. CASE calls[d].step = "waiting" /\ Held(calls[d].rec)
        <5>1. PICK f : f = calls[d].rec
          OBVIOUS
        <5>2. Held(f)' /\ f = calls'[d].rec
          BY <1>7, <1>9, <4>1, <5>1
        <5>. QED  BY <4>1, <5>1, <5>2 DEF Held
      <4>2. CASE calls[d].step = "flushing" /\ \A f \in calls[d].seen : Kept(f) \/ Held(f)
        BY <1>8, <1>9, <4>2
      <4>. QED  BY <1>1, <3>1, <4>1, <4>2 DEF RepliesFit
    <3>2. CASE d = c /\ r = Idle
      <4>1. /\ calls[c].step = "flushing" /\ \A f \in calls[c].seen : Arrived(f, 1)
            /\ calls[c].seen \subseteq Records
        BY <1>1, <1>5, <1>6, <3>2 DEF QueueFits, CallsTypeOK
      <4>2. ASSUME NEW f \in calls[c].seen
            PROVE  Kept(f) \/ Held(f)
        <5>1. \A i \in DOMAIN queue : i <= 1 => queue[i].rec # f
          BY <1>5, <1>6, <3>2, <4>1, <4>2, IdleIsNoRecord
        <5>. QED  BY <4>1, <4>2, <5>1 DEF Arrived
      <4>. QED  BY <1>8, <1>9, <3>2, <4>1, <4>2
    <3>3. CASE d = c /\ r # Idle /\ ~r.allowed
      <4>1. calls[c].step = "waiting" /\ calls[c].rec = r /\ calls'[c].rec = r
        BY <1>1, <1>5, <1>6, <1>7, <3>3 DEF QueueFits
      <4>2. Held(r)'
        BY <1>9, <3>3
      <4>. QED  BY <3>3, <4>1, <4>2 DEF Held
    <3>. QED  BY <1>7, <2>1, <3>1, <3>2, <3>3
  <2>. QED  BY <1>7, <2>1 DEF RepliesFit
<1>17. AnsweredFits'
  <2>1. ASSUME NEW f \in Records, Arrived(f, Len(queue))
        PROVE  Arrived(f, Len(queue))'
    <3>1. PICK n : n = Len(queue)
      OBVIOUS
    <3>2. PICK k : k = Len(queue')
      OBVIOUS
    <3>3. n \in Nat /\ k \in Nat /\ k + 1 = n
      BY <1>5, <3>1, <3>2
    <3>4. Arrived(f, k)'
      BY <1>10, <2>1, <3>1, <3>3
    <3>. QED  BY <3>2, <3>4 DEF Arrived
  <2>2. answered \subseteq Records /\ \A d \in Callers : calls[d].step = "flush" => calls[d].seen \subseteq Records
    BY <1>1 DEF AuditTypeOK, CallsTypeOK
  <2>3. open' => \A f \in answered' : Arrived(f, Len(queue))'
    BY <1>1, <1>7, <2>1, <2>2 DEF AnsweredFits
  <2>4. ASSUME NEW d \in Callers, calls'[d].step = "flush", NEW f \in calls'[d].seen
        PROVE  Arrived(f, Len(queue))'
    BY <1>1, <1>7, <2>1, <2>2, <2>4 DEF AnsweredFits
  <2>. QED  BY <2>3, <2>4 DEF AnsweredFits
<1>18. Limits'
  <2>1. Len(queue') <= QueueCapacity
    BY <1>1, <1>5, AccessAssumption DEF Limits
  <2>. QED  BY <1>1, <1>7, <1>8, <1>9, <2>1 DEF Limits
<1>19. AcknowledgedIsKept' /\ ReadersSeeAnswered'
  BY <1>1, <1>7, <1>8 DEF AcknowledgedIsKept, ReadersSeeAnswered
<1>. QED  BY <1>12, <1>13, <1>14, <1>15, <1>16, <1>17, <1>18, <1>19 DEF RecordsInv

-----------------------------------------------------------------------------
(* The worker writes, or fails to                                          *)

\* The batch is written, and whoever waited for it is answered.
LEMMA FlushKeepsRecords ==
    ASSUME RecordsInv, Flush
    PROVE  RecordsInv'
<1>1. /\ AuditTypeOK /\ CallsTypeOK /\ OnePlace /\ QueueFits /\ RepliesFit /\ AnsweredFits
      /\ Limits /\ AcknowledgedIsKept /\ ReadersSeeAnswered
  BY DEF RecordsInv
<1>2. /\ open' = open /\ queue' = queue /\ stamps' = stamps /\ pending' = <<>>
      /\ worker'.replies = {} /\ Reply(TRUE) /\ log' = Bounded(log \cup ToSet(pending))
      /\ aged' = aged /\ committed' = committed \cup ToSet(pending)
      /\ answered' = answered \cup {calls[c].rec : c \in {d \in worker.replies : calls[d].step = "waiting"}}
  BY DEF Flush, Reply, Running
<1>3. /\ \A e \in Records : Kept(e) \/ Held(e) => Kept(e)'
      /\ log' \subseteq committed' /\ committed' \subseteq Records /\ IsFiniteSet(committed')
      /\ \A e \in log' : Fits(log', e)
      /\ \A e : e \notin committed /\ ~Held(e) => e \notin committed'
  BY <1>1, <1>2, FlushKeeps
<1>4. Idle' = Idle /\ Records' = Records /\ Idle.step = "idle" /\ \A e : ~Held(e)'
  <2>1. Idle' = Idle /\ Records' = Records /\ Idle.step = "idle"
    BY <1>2 DEF Idle, Records
  <2>2. \A i \in DOMAIN pending' : FALSE
    BY <1>2
  <2>. QED  BY <2>1, <2>2 DEF Held
<1>5. \A c \in Callers :
         \/ c \notin worker.replies /\ calls'[c] = calls[c]
         \/ /\ c \in worker.replies /\ calls[c].step = "flushing"
            /\ calls'[c] = [step |-> "read", seen |-> calls[c].seen]
         \/ c \in worker.replies /\ calls'[c] = Idle
  BY <1>1, <1>2, ReplyCalls
<1>6. \A c \in Callers :
         /\ calls'[c].step \notin {"idle", "read"} => calls'[c] = calls[c] /\ c \notin worker.replies
         /\ calls'[c].step = "read" =>
               \/ calls'[c] = calls[c] /\ c \notin worker.replies
               \/ /\ c \in worker.replies /\ calls[c].step = "flushing" /\ calls'[c].seen = calls[c].seen
                  /\ calls'[c] = [step |-> "read", seen |-> calls[c].seen]
  <2>1. ASSUME NEW c \in Callers
        PROVE  [step |-> "read", seen |-> calls[c].seen].step = "read"
    OBVIOUS
  <2>. QED  BY <1>4, <1>5, <2>1
<1>8. ASSUME NEW e \in Records, NEW n, Arrived(e, n)
      PROVE  Arrived(e, n)'
  BY <1>2, <1>3, <1>8 DEF Arrived
<1>9. AuditTypeOK'
  <2>1. \A c \in worker.replies : calls[c].step = "waiting" => calls[c].rec \in Records
    BY <1>1 DEF AuditTypeOK, CallsTypeOK
  <2>2. answered' \subseteq Records
    BY <1>1, <1>2, <2>1 DEF AuditTypeOK
  <2>3. pending' \in Seq(Records)
    BY <1>2
  <2>. QED  BY <1>1, <1>2, <1>3, <1>4, <2>2, <2>3 DEF AuditTypeOK
<1>10. CallsTypeOK'
  <2>1. ASSUME NEW c \in Callers
        PROVE  /\ calls'[c].step \in {"send", "waiting"} =>
                     /\ calls'[c] = [step |-> calls'[c].step, rec |-> calls'[c].rec]
                     /\ calls'[c].rec \in Records
               /\ calls'[c].step \in {"flush", "flushing", "read"} =>
                     /\ calls'[c] = [step |-> calls'[c].step, seen |-> calls'[c].seen]
                     /\ calls'[c].seen \subseteq Records
               /\ ~open => calls'[c] = Idle
    <3>1. CASE c \notin worker.replies /\ calls'[c] = calls[c]
      BY <1>1, <3>1 DEF CallsTypeOK
    <3>2. CASE /\ c \in worker.replies /\ calls[c].step = "flushing"
               /\ calls'[c] = [step |-> "read", seen |-> calls[c].seen]
      <4>1. calls[c].seen \subseteq Records /\ open
        BY <1>1, <1>4, <3>2 DEF CallsTypeOK
      <4>2. calls'[c].step = "read" /\ calls'[c].seen = calls[c].seen
        BY <3>2
      <4>. QED  BY <3>2, <4>1, <4>2
    <3>3. CASE calls'[c] = Idle
      BY <1>4, <3>3
    <3>. QED  BY <1>5, <3>1, <3>2, <3>3
  <2>. QED  BY <1>2, <1>4, <2>1 DEF CallsTypeOK
<1>11. OnePlace'
  <2>2. \A i \in DOMAIN queue : queue[i].rec \notin committed'
    BY <1>1, <1>3 DEF OnePlace
  <2>3. \A c \in Callers : calls'[c].step = "send" => calls'[c] = calls[c]
    BY <1>6
  <2>4. \A c \in Callers : calls'[c].step = "send" => calls'[c].rec \notin committed'
    BY <1>1, <1>3, <2>3 DEF OnePlace
  <2>5. \A i \in DOMAIN pending' : FALSE
    BY <1>2
  <2>. QED  BY <1>1, <1>2, <1>4, <2>2, <2>3, <2>4, <2>5 DEF OnePlace
<1>12. QueueFits'
  <2>1. ASSUME NEW i \in DOMAIN queue, queue[i].rec = Idle \/ ~queue[i].rec.allowed
        PROVE  calls'[queue[i].from] = calls[queue[i].from] /\ queue[i].from \in Callers
    <3>1. queue[i].from \in Callers /\ queue[i].from \notin worker.replies
      BY <1>1, <2>1, QueueRows DEF QueueFits
    <3>. QED  BY <1>5, <3>1
  <2>2. ASSUME NEW i \in DOMAIN queue, queue[i].rec = Idle, NEW e \in calls[queue[i].from].seen
        PROVE  Arrived(e, i)'
    <3>1. Arrived(e, i) /\ e \in Records
      BY <1>1, <2>1, <2>2 DEF QueueFits, CallsTypeOK
    <3>. QED  BY <1>8, <3>1
  <2>3. ASSUME NEW i \in DOMAIN queue, queue[i].rec = Idle
        PROVE  /\ calls'[queue[i].from].step = "flushing"
               /\ \A e \in calls'[queue[i].from].seen : Arrived(e, i)'
               /\ \A j \in DOMAIN queue : j # i /\ queue[j].rec = Idle => queue[j].from # queue[i].from
    BY <1>1, <2>1, <2>2, <2>3 DEF QueueFits
  <2>4. ASSUME NEW i \in DOMAIN queue, queue[i].rec # Idle, ~queue[i].rec.allowed
        PROVE  calls'[queue[i].from].step = "waiting" /\ calls'[queue[i].from].rec = queue[i].rec
    BY <1>1, <2>1, <2>4 DEF QueueFits
  <2>. QED  BY <1>2, <1>4, <2>3, <2>4 DEF QueueFits
<1>13. RepliesFit'
  BY <1>2 DEF RepliesFit
<1>14. AnsweredFits'
  <2>1. ASSUME NEW e \in Records, Arrived(e, Len(queue))
        PROVE  Arrived(e, Len(queue))'
    <3>1. PICK n : n = Len(queue)
      OBVIOUS
    <3>2. Arrived(e, n)' /\ n = Len(queue')
      BY <1>2, <1>8, <2>1, <3>1
    <3>. QED  BY <3>2 DEF Arrived
  <2>2. answered \subseteq Records /\ \A d \in Callers : calls[d].step = "flush" => calls[d].seen \subseteq Records
    BY <1>1 DEF AuditTypeOK, CallsTypeOK
  <2>3. ASSUME NEW c \in worker.replies, calls[c].step = "waiting", NEW e, e = calls[c].rec
        PROVE  Kept(e)'
    <3>1. Held(calls[c].rec) /\ calls[c].rec \in Records
      BY <1>1, <2>3 DEF RepliesFit, AuditTypeOK, CallsTypeOK
    <3>2. Held(e) /\ e \in Records
      BY <2>3, <3>1
    <3>. QED  BY <1>3, <3>2
  <2>4. \A e \in answered' : e \in answered \/ Kept(e)'
    BY <1>2, <2>3
  <2>5. open => \A e \in answered' : Arrived(e, Len(queue))'
    <3>1. ASSUME open, NEW e \in answered'
          PROVE  Arrived(e, Len(queue))'
      <4>1. CASE e \in answered
        BY <1>1, <2>1, <2>2, <3>1, <4>1 DEF AnsweredFits
      <4>2. CASE Kept(e)'
        BY <4>2 DEF Arrived
      <4>. QED  BY <2>4, <4>1, <4>2
    <3>. QED  BY <3>1
  <2>6. ASSUME NEW d \in Callers, calls'[d].step = "flush", NEW e \in calls'[d].seen
        PROVE  Arrived(e, Len(queue))'
    <3>1. calls'[d] = calls[d]
      BY <1>6, <2>6
    <3>2. e \in Records /\ Arrived(e, Len(queue))
      BY <1>1, <2>2, <2>6, <3>1 DEF AnsweredFits
    <3>. QED  BY <2>1, <3>2
  <2>. QED  BY <1>2, <2>5, <2>6 DEF AnsweredFits
<1>15. Limits'
  <2>1. Len(pending') <= BatchSize
    <3>1. Len(pending') = 0
      BY <1>2
    <3>. QED  BY <3>1, AccessAssumption
  <2>. QED  BY <1>1, <1>2, <1>3, <2>1 DEF Limits
<1>16. AcknowledgedIsKept'
  <2>1. ASSUME NEW e \in answered'
        PROVE  e.allowed \/ Kept(e)'
    <3>1. CASE e \in answered
      <4>1. e \in Records /\ (e.allowed \/ Kept(e))
        BY <1>1, <3>1 DEF AuditTypeOK, AcknowledgedIsKept, Kept
      <4>. QED  BY <1>3, <4>1
    <3>2. CASE e \notin answered
      <4>1. PICK c \in worker.replies : calls[c].step = "waiting" /\ e = calls[c].rec
        BY <1>2, <3>2
      <4>2. Held(calls[c].rec) /\ calls[c].rec \in Records
        BY <1>1, <4>1 DEF RepliesFit, AuditTypeOK, CallsTypeOK
      <4>3. Held(e) /\ e \in Records
        BY <4>1, <4>2
      <4>. QED  BY <1>3, <4>3
    <3>. QED  BY <3>1, <3>2
  <2>. QED  BY <2>1 DEF AcknowledgedIsKept, Kept
<1>17. ReadersSeeAnswered'
  <2>1. ASSUME NEW c \in Callers, calls'[c].step = "read", NEW e \in calls'[c].seen
        PROVE  Kept(e)'
    <3>1. CASE calls'[c] = calls[c] /\ c \notin worker.replies
      <4>1. e \in Records /\ Kept(e)
        BY <1>1, <2>1, <3>1 DEF CallsTypeOK, ReadersSeeAnswered, Kept
      <4>. QED  BY <1>3, <4>1
    <3>2. CASE c \in worker.replies /\ calls[c].step = "flushing" /\ calls'[c].seen = calls[c].seen
      <4>1. e \in Records /\ (Kept(e) \/ Held(e))
        BY <1>1, <2>1, <3>2 DEF CallsTypeOK, RepliesFit
      <4>. QED  BY <1>3, <4>1
    <3>. QED  BY <1>6, <2>1, <3>1, <3>2
  <2>. QED  BY <2>1 DEF ReadersSeeAnswered, Kept
<1>. QED  BY <1>9, <1>10, <1>11, <1>12, <1>13, <1>14, <1>15, <1>16, <1>17 DEF RecordsInv

\* The batch stays with the worker; whoever waited for it is told that it failed.
LEMMA FlushFailsKeeps ==
    ASSUME RecordsInv, FlushFails
    PROVE  RecordsInv'
<1>1. /\ AuditTypeOK /\ CallsTypeOK /\ OnePlace /\ QueueFits /\ RepliesFit /\ AnsweredFits
      /\ Limits /\ AcknowledgedIsKept /\ ReadersSeeAnswered
  BY DEF RecordsInv
<1>2. /\ open' = open /\ queue' = queue /\ stamps' = stamps /\ pending' = pending /\ log' = log
      /\ aged' = aged /\ committed' = committed
      /\ worker'.replies = {} /\ Reply(FALSE) /\ answered' = answered
  BY DEF FlushFails, Reply, Running, logVars
<1>3. /\ Idle' = Idle /\ Records' = Records /\ Idle.step = "idle"
      /\ \A e : (Kept(e)' <=> Kept(e)) /\ (Held(e)' <=> Held(e)) /\ (Outgrown(e)' <=> Outgrown(e))
      /\ \A e, n : Arrived(e, n)' <=> Arrived(e, n)
  BY <1>2, SameRecords DEF Idle, Records
<1>4. \A c \in Callers :
         \/ c \notin worker.replies /\ calls'[c] = calls[c]
         \/ c \in worker.replies /\ calls'[c] = Idle
  BY <1>1, <1>2, ReplyCalls
<1>5. \A c \in Callers : calls'[c].step # "idle" => calls'[c] = calls[c]
  BY <1>3, <1>4
<1>6. AuditTypeOK' /\ Limits' /\ AcknowledgedIsKept'
  BY <1>1, <1>2, <1>3, SameLog DEF AuditTypeOK, Limits, AcknowledgedIsKept
<1>7. CallsTypeOK'
  BY <1>1, <1>2, <1>3, <1>4 DEF CallsTypeOK
<1>8. OnePlace'
  BY <1>1, <1>2, <1>3, <1>5 DEF OnePlace
<1>9. QueueFits'
  <2>1. ASSUME NEW i \in DOMAIN queue, queue[i].rec = Idle \/ ~queue[i].rec.allowed
        PROVE  calls'[queue[i].from] = calls[queue[i].from]
    <3>1. queue[i].from \in Callers /\ queue[i].from \notin worker.replies
      BY <1>1, <2>1, QueueRows DEF QueueFits
    <3>. QED  BY <1>4, <3>1
  <2>. QED  BY <1>1, <1>2, <1>3, <2>1 DEF QueueFits
<1>10. RepliesFit' /\ AnsweredFits' /\ ReadersSeeAnswered'
  BY <1>1, <1>2, <1>3, <1>5 DEF RepliesFit, AnsweredFits, ReadersSeeAnswered
<1>. QED  BY <1>6, <1>7, <1>8, <1>9, <1>10 DEF RecordsInv

-----------------------------------------------------------------------------
(* The process ends, and starts again                                      *)

LEMMA CloseKeeps ==
    ASSUME RecordsInv, Close
    PROVE  RecordsInv'
<1>1. /\ AuditTypeOK /\ CallsTypeOK /\ OnePlace /\ QueueFits /\ RepliesFit /\ AnsweredFits
      /\ Limits /\ AcknowledgedIsKept /\ ReadersSeeAnswered
  BY DEF RecordsInv
<1>2. /\ open' = FALSE /\ queue' = queue /\ stamps' = stamps /\ pending' = pending /\ log' = log
      /\ aged' = aged /\ committed' = committed
      /\ worker' = worker /\ answered' = answered /\ calls' = calls
      /\ \A c \in Callers : calls[c] = Idle
  BY DEF Close, logVars
<1>3. /\ Idle' = Idle /\ Records' = Records /\ Idle.step = "idle"
      /\ \A e : (Kept(e)' <=> Kept(e)) /\ (Held(e)' <=> Held(e)) /\ (Outgrown(e)' <=> Outgrown(e))
      /\ \A e, n : Arrived(e, n)' <=> Arrived(e, n)
  BY <1>2, SameRecords DEF Idle, Records
<1>4. AuditTypeOK' /\ Limits' /\ AcknowledgedIsKept' /\ CallsTypeOK'
  BY <1>1, <1>2, <1>3, SameLog DEF AuditTypeOK, Limits, AcknowledgedIsKept, CallsTypeOK
<1>5. OnePlace' /\ QueueFits'
  BY <1>1, <1>2, <1>3 DEF OnePlace, QueueFits
<1>6. RepliesFit' /\ AnsweredFits' /\ ReadersSeeAnswered'
  BY <1>1, <1>2, <1>3 DEF RepliesFit, AnsweredFits, ReadersSeeAnswered
<1>. QED  BY <1>4, <1>5, <1>6 DEF RecordsInv

\* The worker stops with an empty queue: what it could not write is lost.
LEMMA DisconnectedKeeps ==
    ASSUME RecordsInv, Disconnected
    PROVE  RecordsInv'
<1>1. /\ AuditTypeOK /\ CallsTypeOK /\ OnePlace /\ QueueFits /\ RepliesFit /\ AnsweredFits
      /\ Limits /\ AcknowledgedIsKept /\ ReadersSeeAnswered
  BY DEF RecordsInv
<1>2. /\ ~open /\ open' = open /\ queue = <<>> /\ queue' = queue /\ stamps' = stamps /\ pending' = <<>>
      /\ worker'.replies = {} /\ answered' = answered /\ calls' = calls
      /\ aged' = aged
      /\ \/ log' = Bounded(log \cup ToSet(pending)) /\ committed' = committed \cup ToSet(pending)
         \/ log' = log /\ committed' = committed
  BY DEF Disconnected, Running
<1>3. /\ Idle' = Idle /\ Records' = Records /\ Idle.step = "idle"
      /\ \A c \in Callers : calls[c] = Idle /\ calls[c].step = "idle"
  <2>1. Idle' = Idle /\ Records' = Records /\ Idle.step = "idle"
    BY <1>2 DEF Idle, Records
  <2>. QED  BY <1>1, <1>2, <2>1 DEF CallsTypeOK
<1>4. /\ \A e \in Records : Kept(e) => Kept(e)'
      /\ log' \subseteq committed' /\ committed' \subseteq Records /\ IsFiniteSet(committed')
      /\ \A e \in log' : Fits(log', e)
  <2>1. CASE log' = Bounded(log \cup ToSet(pending)) /\ committed' = committed \cup ToSet(pending)
    BY <1>1, <1>2, <2>1, FlushKeeps
  <2>2. CASE log' = log /\ committed' = committed
    BY <1>1, <1>2, <2>2, SameLog DEF AuditTypeOK, Limits
  <2>. QED  BY <1>2, <2>1, <2>2
<1>5. (\A i \in DOMAIN queue' : FALSE) /\ (\A i \in DOMAIN pending' : FALSE)
  BY <1>2
<1>6. AuditTypeOK' /\ CallsTypeOK'
  <2>1. pending' \in Seq(Records)
    BY <1>2
  <2>2. AuditTypeOK'
    BY <1>1, <1>2, <1>3, <1>4, <2>1 DEF AuditTypeOK
  <2>. QED  BY <1>2, <1>3, <2>2 DEF CallsTypeOK
<1>7. OnePlace' /\ QueueFits' /\ RepliesFit' /\ AnsweredFits'
  BY <1>2, <1>3, <1>5 DEF OnePlace, QueueFits, RepliesFit, AnsweredFits
<1>8. Limits'
  <2>1. Len(pending') = 0
    BY <1>2
  <2>. QED  BY <1>1, <1>2, <1>4, <2>1, AccessAssumption DEF Limits
<1>9. AcknowledgedIsKept' /\ ReadersSeeAnswered'
  <2>1. \A e \in answered' : e.allowed \/ Kept(e)'
    BY <1>1, <1>2, <1>4 DEF AuditTypeOK, AcknowledgedIsKept, Kept
  <2>. QED  BY <1>2, <1>3, <2>1 DEF AcknowledgedIsKept, ReadersSeeAnswered, Kept
<1>. QED  BY <1>6, <1>7, <1>8, <1>9 DEF RecordsInv

\* The worker prunes, or days pass: what was kept stays so, and nothing else moves.
LEMMA LogShrinks ==
    ASSUME RecordsInv, log' \subseteq log, Bounded(log) \subseteq log', committed' = committed,
           aged' \in [BOOLEAN -> Nat], \A b \in BOOLEAN : aged[b] <= aged'[b],
           queue' = queue, pending' = pending, calls' = calls, stamps' = stamps,
           worker'.replies \subseteq worker.replies, answered' \subseteq answered,
           open' = open \/ (open' = TRUE /\ \A e \in answered' : Kept(e))
    PROVE  RecordsInv'
<1>1. /\ AuditTypeOK /\ CallsTypeOK /\ OnePlace /\ QueueFits /\ RepliesFit /\ AnsweredFits
      /\ Limits /\ AcknowledgedIsKept /\ ReadersSeeAnswered
  BY DEF RecordsInv
<1>2. Idle' = Idle /\ Records' = Records /\ \A e : Held(e)' <=> Held(e)
  BY DEF Idle, Records, Held
<1>3. (\A e \in Records : Kept(e) => Kept(e)') /\ \A e \in log' : Fits(log', e)
  <2>1. \A b \in BOOLEAN : aged[b] \in Nat /\ aged'[b] \in Nat /\ aged[b] <= aged'[b]
    BY <1>1 DEF AuditTypeOK
  <2>. QED  BY <1>1, <2>1, PruneKeeps
<1>4. \A e \in Records : \A n : Arrived(e, n) => Arrived(e, n)'
  BY <1>2, <1>3 DEF Arrived
<1>5. AuditTypeOK'
  BY <1>1, <1>2 DEF AuditTypeOK
<1>6. CallsTypeOK' /\ Limits'
  BY <1>1, <1>2, <1>3 DEF CallsTypeOK, Limits
<1>7. OnePlace'
  BY <1>1, <1>2 DEF OnePlace
<1>8. \A c \in Callers : calls[c].step \in {"flush", "flushing", "read"} => calls[c].seen \subseteq Records
  BY <1>1 DEF CallsTypeOK
<1>9. QueueFits'
  <2>1. ASSUME NEW i \in DOMAIN queue, queue[i].rec = Idle, NEW e \in calls[queue[i].from].seen
        PROVE  Arrived(e, i)'
    <3>1. e \in Records /\ Arrived(e, i)
      BY <1>1, <1>8, <2>1, QueueRows DEF QueueFits
    <3>. QED  BY <1>4, <3>1
  <2>. QED  BY <1>1, <1>2, <2>1 DEF QueueFits
<1>10. RepliesFit'
  <2>1. ASSUME NEW c \in worker'.replies
        PROVE  \/ calls[c].step = "waiting" /\ Held(calls[c].rec)
               \/ calls[c].step = "flushing" /\ \A e \in calls[c].seen : Kept(e)' \/ Held(e)
    BY <1>1, <1>3, <1>8, <2>1 DEF RepliesFit, AuditTypeOK
  <2>. QED  BY <2>1 DEF RepliesFit, Held
<1>11. AnsweredFits'
  <2>1. PICK n : n = Len(queue)
    OBVIOUS
  <2>2. \A e \in answered' : e \in Records
    BY <1>1 DEF AuditTypeOK
  <2>3. open' => \A e \in answered' : Arrived(e, n)'
    <3>1. CASE open' = open
      BY <1>1, <1>4, <2>1, <2>2, <3>1 DEF AnsweredFits
    <3>2. CASE \A e \in answered' : Kept(e)
      BY <1>3, <2>2, <3>2 DEF Arrived
    <3>. QED  BY <3>1, <3>2
  <2>4. \A c \in Callers : calls[c].step = "flush" => \A e \in calls[c].seen : Arrived(e, n)'
    BY <1>1, <1>4, <1>8, <2>1 DEF AnsweredFits
  <2>5. n = Len(queue')
    BY <2>1
  <2>. QED  BY <2>3, <2>4, <2>5 DEF AnsweredFits
<1>12. AcknowledgedIsKept'
  <2>1. \A e \in answered' : e \in Records /\ (e.allowed \/ Kept(e))
    BY <1>1 DEF AuditTypeOK, AcknowledgedIsKept, Kept
  <2>2. \A e \in answered' : e.allowed \/ Kept(e)'
    BY <1>3, <2>1
  <2>. QED  BY <2>2 DEF AcknowledgedIsKept, Kept
<1>13. ReadersSeeAnswered'
  <2>1. \A c \in Callers : calls[c].step = "read" => \A e \in calls[c].seen : Kept(e)'
    BY <1>1, <1>3, <1>8 DEF ReadersSeeAnswered, Kept
  <2>. QED  BY <2>1 DEF ReadersSeeAnswered, Kept
<1>. QED  BY <1>5, <1>6, <1>7, <1>9, <1>10, <1>11, <1>12, <1>13 DEF RecordsInv

\* After the end only what is on record was answered.
LEMMA ReopenKeeps ==
    ASSUME RecordsInv, Reopen
    PROVE  RecordsInv'
<1>1. AuditTypeOK /\ AcknowledgedIsKept
  BY DEF RecordsInv
<1>2. /\ open' = TRUE /\ queue' = queue /\ stamps' = stamps /\ pending' = pending /\ calls' = calls
      /\ worker'.replies = {} /\ aged' = aged /\ committed' = committed
      /\ log' \subseteq log /\ Bounded(log) \subseteq log'
      /\ answered' = answered \cap (log \cup {e \in answered : ~e.allowed})
  BY DEF Reopen, Pruned, Running
<1>3. \A e \in answered' : Kept(e)
  BY <1>1, <1>2 DEF AcknowledgedIsKept, Kept
<1>4. aged' \in [BOOLEAN -> Nat] /\ \A b \in BOOLEAN : aged[b] <= aged'[b]
  BY <1>1, <1>2 DEF AuditTypeOK
<1>. QED  BY <1>2, <1>3, <1>4, LogShrinks

LEMMA SweepKeeps ==
    ASSUME RecordsInv, Sweep
    PROVE  RecordsInv'
<1>1. /\ open' = open /\ queue' = queue /\ stamps' = stamps /\ pending' = pending /\ calls' = calls
      /\ worker' = worker /\ aged' = aged /\ committed' = committed /\ answered' = answered
      /\ log' \subseteq log /\ Bounded(log) \subseteq log'
  BY DEF Sweep, Pruned
<1>2. aged' \in [BOOLEAN -> Nat] /\ \A b \in BOOLEAN : aged[b] <= aged'[b]
  BY <1>1 DEF RecordsInv, AuditTypeOK
<1>. QED  BY <1>1, <1>2, LogShrinks

LEMMA TimePassesKeeps ==
    ASSUME RecordsInv, TimePasses
    PROVE  RecordsInv'
<1>1. /\ open' = open /\ queue' = queue /\ stamps' = stamps /\ pending' = pending /\ calls' = calls
      /\ worker' = worker /\ committed' = committed /\ answered' = answered /\ log' = log
  BY DEF TimePasses
<1>2. aged' \in [BOOLEAN -> Nat] /\ \A b \in BOOLEAN : aged[b] <= aged'[b]
  <2>1. PICK allowed, refused \in 0 .. stamps :
           /\ aged[TRUE] <= allowed /\ aged[FALSE] <= refused
           /\ aged' = [b \in BOOLEAN |-> IF b THEN allowed ELSE refused]
    BY DEF TimePasses
  <2>2. allowed \in Nat /\ refused \in Nat
    BY DEF RecordsInv, AuditTypeOK
  <2>3. aged'[TRUE] = allowed /\ aged'[FALSE] = refused
    BY <2>1
  <2>4. \A b \in BOOLEAN : b = TRUE \/ b = FALSE
    OBVIOUS
  <2>. QED  BY <2>1, <2>2, <2>3, <2>4
<1>3. Bounded(log) \subseteq log
  BY DEF Bounded
<1>. QED  BY <1>1, <1>2, <1>3, LogShrinks

LEMMA CrashKeeps ==
    ASSUME RecordsInv, Crash
    PROVE  RecordsInv'
<1>1. /\ AuditTypeOK /\ CallsTypeOK /\ OnePlace /\ QueueFits /\ RepliesFit /\ AnsweredFits
      /\ Limits /\ AcknowledgedIsKept /\ ReadersSeeAnswered
  BY DEF RecordsInv
<1>2. /\ open /\ open' = open /\ queue' = <<>> /\ stamps' = stamps /\ pending' = <<>> /\ log' = log
      /\ aged' = aged /\ committed' = committed
      /\ worker'.replies = {} /\ \A c \in Callers : calls'[c] = Idle
      /\ answered' = answered \cap (log \cup {e \in answered : ~e.allowed})
  BY DEF Crash, Running, logVars
<1>3. /\ Idle' = Idle /\ Records' = Records /\ Idle.step = "idle"
      /\ \A e : (Kept(e)' <=> Kept(e)) /\ (Outgrown(e)' <=> Outgrown(e))
  BY <1>2, SameLog DEF Idle, Records
<1>4. \A c \in Callers : calls'[c].step = "idle"
  BY <1>2, <1>3
<1>5. \A e \in answered' : e \in answered /\ Kept(e)
  BY <1>1, <1>2 DEF AcknowledgedIsKept, Kept
<1>6. (\A i \in DOMAIN queue' : FALSE) /\ (\A i \in DOMAIN pending' : FALSE) /\ Len(queue') = 0 /\ Len(pending') = 0
  BY <1>2
<1>7. AuditTypeOK'
  <2>1. pending' \in Seq(Records) /\ queue' \in Seq([from : Callers, rec : Records \cup {Idle}])
    BY <1>2
  <2>. QED  BY <1>1, <1>2, <1>3, <1>5, <2>1 DEF AuditTypeOK
<1>8. CallsTypeOK' /\ OnePlace' /\ QueueFits' /\ RepliesFit' /\ ReadersSeeAnswered'
  BY <1>2, <1>3, <1>4, <1>6 DEF CallsTypeOK, OnePlace, QueueFits, RepliesFit, ReadersSeeAnswered
<1>9. AnsweredFits'
  <2>1. \A e \in answered' : Arrived(e, Len(queue))'
    BY <1>3, <1>5 DEF Arrived
  <2>. QED  BY <1>2, <1>4, <2>1 DEF AnsweredFits
<1>10. Limits' /\ AcknowledgedIsKept'
  BY <1>1, <1>2, <1>3, <1>5, <1>6, SameLog, AccessAssumption DEF Limits, AcknowledgedIsKept, Kept
<1>. QED  BY <1>7, <1>8, <1>9, <1>10 DEF RecordsInv

-----------------------------------------------------------------------------
(* Every step keeps the records                                            *)

LEMMA EndsTheCall ==
    ASSUME NEW c \in Callers, NEW decision, NEW noted, Complete(c, decision, noted),
           UNCHANGED <<auditVars, answered>>, calls[c].step \in {"idle", "granted"},
           calls[c].step = "idle" => open
    PROVE  CallTurn(c)
<1>. DEFINE b == decision = "allowed"
            x(n) == [step |-> "send", rec |-> [stamp |-> stamps + 1, allowed |-> b, size |-> n]]
<1>1. ASSUME NEW n \in Sizes[c], stamps' = stamps + 1, calls' = [calls EXCEPT ![c] = x(n)]
      PROVE  CallTurn(c)
  <2>1. b \in BOOLEAN /\ n \in Nat \ {0}
    BY AccessAssumption
  <2>. HIDE DEF b
  <2>. QED  BY <1>1, <2>1 DEF CallTurn
<1>2. CASE stamps' = stamps /\ calls' = [calls EXCEPT ![c] = Idle]
  BY <1>2 DEF CallTurn
<1>. QED  BY <1>1, <1>2 DEF Complete

LEMMA BeginsIdle ==
    ASSUME NEW c, Begin(c)
    PROVE  open /\ calls[c].step = "idle"
BY DEF Begin, Idle

LEMMA AskIsATurn ==
    ASSUME NEW c \in Callers, NEW r, Ask(c, r)
    PROVE  CallTurn(c)
<1>1. /\ open /\ calls[c].step = "idle" /\ UNCHANGED <<auditVars, answered>>
  BY BeginsIdle DEF Ask
<1>2. CASE Authorized(c, r)
  <2>. DEFINE call == [step |-> "granted", req |-> r, scopes |-> On(r) \cup From(r) \cup To(r)]
  <2>1. call.step = "granted" /\ calls' = [calls EXCEPT ![c] = call] /\ stamps' = stamps
    BY <1>2 DEF Ask
  <2>. HIDE DEF call
  <2>. QED  BY <1>1, <2>1 DEF CallTurn
<1>3. CASE ~Authorized(c, r)
  BY <1>1, <1>3, EndsTheCall DEF Ask
<1>. QED  BY <1>2, <1>3

LEMMA WithinIsATurn ==
    ASSUME NEW c \in Callers, NEW needs, NEW asked, NEW r, Within(c, needs, asked, r)
    PROVE  CallTurn(c)
<1>. DEFINE S == IF asked = {} THEN Available(c, needs) ELSE asked
            call == [step |-> "granted", req |-> r, scopes |-> S]
<1>1. /\ open /\ calls[c].step = "idle" /\ UNCHANGED <<auditVars, answered>>
      /\ \/ Complete(c, "denied", TRUE)
         \/ calls' = [calls EXCEPT ![c] = call] /\ stamps' = stamps
  BY BeginsIdle DEF Within
<1>2. call.step = "granted"
  OBVIOUS
<1>. HIDE DEF call
<1>3. CASE Complete(c, "denied", TRUE)
  BY <1>1, <1>3, EndsTheCall
<1>4. CASE calls' = [calls EXCEPT ![c] = call] /\ stamps' = stamps
  BY <1>1, <1>2, <1>4 DEF CallTurn
<1>. QED  BY <1>1, <1>3, <1>4

LEMMA RecordsSafe ==
    ASSUME GateInv, RecordsInv, [GateNext]_gateVars
    PROVE  RecordsInv'
<1>. calls = [c \in Callers |-> calls[c]]
  BY DEF GateInv
<1>1. ASSUME NEW c \in Callers, CallTurn(c)
      PROVE  RecordsInv'
  BY <1>1, CallTurnKeeps
<1>2. ASSUME NEW c \in Callers,
           \/ ManagePageLifecycle(c) \/ RevisePage(c) \/ RepairPage(c) \/ UnpackPage(c)
           \/ DeletePage(c) \/ PackPages(c) \/ ConsolidatePages(c) \/ LinkPages(c)
           \/ IngestPage(c) \/ SubmitFeedback(c) \/ WritePage(c) \/ ExtractTopic(c)
           \/ WriteSummary(c) \/ MarkSummaryAssessed(c) \/ AssessPageValidity(c)
           \/ ApplyReconciliation(c) \/ CreateScope(c) \/ PutRevisionRetentionLease(c)
      PROVE  RecordsInv'
  <2>1. \E r : Asked(r) /\ Ask(c, r)
    BY <1>2, OperationsAsk DEF GateInv
  <2>. QED  BY <1>1, <2>1, AskIsATurn
<1>3. ASSUME NEW c \in Callers,
           \/ TombstoneDerivationCascade(c) \/ CollectRevisionRetention(c) \/ ListScopes(c)
           \/ SearchPages(c) \/ Browse(c) \/ ReadPages(c) \/ CurrentRevisionId(c)
           \/ PageCount(c) \/ ContentCharCount(c) \/ ReadForAudit(c) \/ PendingFeedback(c)
           \/ NextSummaryCandidate(c) \/ DurablePageInventory(c) \/ HealthSnapshot(c)
      PROVE  RecordsInv'
  <2>1. \E needs, asked, r : Asked(r) /\ r.needs \subseteq needs /\ Within(c, needs, asked, r)
    BY <1>3, OperationsWithin
  <2>. QED  BY <1>1, <2>1, WithinIsATurn
<1>4. ASSUME NEW c \in Callers, AskUnknown(c) \/ RefuseModel(c)
      PROVE  RecordsInv'
  <2>1. /\ open /\ calls[c].step = "idle" /\ UNCHANGED <<auditVars, answered>>
        /\ \E decision : Complete(c, decision, TRUE)
    BY <1>4, BeginsIdle DEF AskUnknown, RefuseModel
  <2>. QED  BY <1>1, <2>1, EndsTheCall
<1>5. ASSUME NEW c \in Callers, Commit(c) \/ Refuse(c)
      PROVE  RecordsInv'
  <2>1. /\ calls[c].step = "granted" /\ UNCHANGED <<auditVars, answered>>
        /\ \E decision, noted : Complete(c, decision, noted)
    BY <1>5 DEF Commit, Refuse
  <2>. QED  BY <1>1, <2>1, EndsTheCall
<1>6. ASSUME NEW c \in Callers, AccessLog(c)
      PROVE  RecordsInv'
  <2>1. /\ open /\ calls[c].step = "idle" /\ UNCHANGED <<auditVars, answered, stamps>>
        /\ calls' = [calls EXCEPT ![c] = [step |-> "flush", seen |-> answered]]
    BY <1>6, BeginsIdle DEF AccessLog
  <2>. QED  BY <1>1, <2>1 DEF CallTurn
<1>7. ASSUME NEW c \in Callers, ReadLog(c)
      PROVE  RecordsInv'
  <2>1. /\ calls[c].step = "read" /\ UNCHANGED <<auditVars, answered, stamps>>
        /\ calls' = [calls EXCEPT ![c] = Idle]
    BY <1>7 DEF ReadLog
  <2>. QED  BY <1>1, <2>1 DEF CallTurn
<1>8. ASSUME NEW c \in Callers, Send(c)
      PROVE  RecordsInv'
  BY <1>8, SendFlushKeeps, SendRecordKeeps DEF Send
<1>9. ASSUME Receive \/ Flush \/ FlushFails
      PROVE  RecordsInv'
  BY <1>9, ReceiveKeeps, FlushKeepsRecords, FlushFailsKeeps
<1>10. ASSUME Close \/ Disconnected \/ Reopen \/ Crash \/ Sweep \/ TimePasses
       PROVE  RecordsInv'
  BY <1>10, CloseKeeps, DisconnectedKeeps, ReopenKeeps, CrashKeeps, SweepKeeps, TimePassesKeeps
<1>11. ASSUME \/ UNCHANGED gateVars \/ \E c \in Callers : AskUnrecorded(c)
              \/ \E p \in Pages, s \in Scopes : TransferPageScope(p, s)
       PROVE  RecordsInv'
  <2>1. UNCHANGED <<auditVars, calls, answered, stamps>>
    BY <1>11 DEF gateVars, AskUnrecorded, TransferPageScope
  <2>. QED  BY <2>1, NothingMoves
<1>. QED  BY <1>2, <1>3, <1>4, <1>5, <1>6, <1>7, <1>8, <1>9, <1>10, <1>11 DEF GateNext

-----------------------------------------------------------------------------
(* The theorems                                                            *)

IInv == GateInv /\ RecordsInv

LEMMA StoreStarts ==
    ASSUME GateInit
    PROVE  StoreInv
<1>1. Initial \in Seq(Scopes) /\ Len(Initial) \in Nat /\ DOMAIN Initial = 1 .. Len(Initial)
      /\ \A p \in DOMAIN Initial : Initial[p] \in Places /\ p \in Nat
  BY AccessAssumption, SequenceIsFunction DEF Places
<1>2. revs = Initial /\ pages = [p \in 1 .. Len(Initial) |-> [scope |-> Initial[p], rev |-> p]]
  BY <1>1 DEF GateInit
<1>3. pages \in [1 .. Len(Initial) -> [scope : Places, rev : Nat]]
  BY <1>1, <1>2
<1>4. revs \in [1 .. Len(Initial) -> Places]
  BY <1>1, <1>2
<1>5. pages \in Seq([scope : Places, rev : Nat]) /\ revs \in Seq(Places)
  BY <1>1, <1>3, <1>4, FunctionIsSequence
<1>6. \A p \in Pages : pages[p].rev = p /\ pages[p].scope = Initial[p] /\ p \in 1 .. Len(Initial)
  BY <1>2 DEF Pages
<1>. QED  BY <1>1, <1>2, <1>5, <1>6 DEF StoreInv

LEMMA Starts == GateInit => IInv
<1>. SUFFICES ASSUME GateInit
              PROVE  IInv
  OBVIOUS
<1>1. /\ \A c \in Callers : calls[c] = Idle /\ calls[c].step = "idle"
      /\ calls = [c \in Callers |-> calls[c]]
  BY DEF GateInit, Idle
<1>2. /\ queue = <<>> /\ pending = <<>> /\ log = {} /\ answered = {} /\ worker.replies = {}
      /\ committed = {} /\ IsFiniteSet(committed) /\ aged \in [BOOLEAN -> Nat]
      /\ stamps = 0 /\ open = TRUE /\ DOMAIN queue = {} /\ DOMAIN pending = {}
      /\ Len(queue) = 0 /\ Len(pending) = 0
  BY FS_EmptySet DEF GateInit, Running
<1>3. GateInv
  BY <1>1, StoreStarts DEF GateInv, GrantsHold
<1>4. AuditTypeOK /\ CallsTypeOK
  BY <1>1, <1>2 DEF AuditTypeOK, CallsTypeOK
<1>5. OnePlace /\ QueueFits /\ RepliesFit
  BY <1>1, <1>2 DEF OnePlace, QueueFits, RepliesFit
<1>6. AnsweredFits /\ Limits /\ AcknowledgedIsKept /\ ReadersSeeAnswered
  BY <1>1, <1>2, AccessAssumption DEF AnsweredFits, Limits, AcknowledgedIsKept, ReadersSeeAnswered
<1>. QED  BY <1>3, <1>4, <1>5, <1>6 DEF IInv, RecordsInv

\* Whatever the sessions, the worker, the operator and the process do, grants hold until
\* their calls commit, every record is in one place, and those who wait for one are
\* waited for by the worker (adapter.rs, access.rs, audit_writer.rs).
THEOREM GateInvariant == GateSpec => []IInv
<1>1. IInv /\ [GateNext]_gateVars => IInv'
  BY GrantsKept, RecordsSafe DEF IInv, RecordsInv
<1>. QED  BY Starts, <1>1, PTL DEF GateSpec

LEMMA WrittenOnce ==
    ASSUME RecordsInv
    PROVE  RecordedOnce
<1>. DEFINE q == [i \in DOMAIN queue |-> queue[i].rec]
            n == Len(queue)
            sent == q \o pending
<1>1. /\ n \in Nat /\ DOMAIN queue = 1 .. n
      /\ \A i \in 1 .. n : queue[i].rec \in Records \cup {Idle}
      /\ Len(pending) \in Nat /\ DOMAIN pending = 1 .. Len(pending)
      /\ pending \in Seq(Records)
  BY QueueRows DEF RecordsInv, AuditTypeOK
<1>2. q \in [1 .. n -> Records \cup {Idle}]
  BY <1>1
<1>3. q \in Seq(Records \cup {Idle}) /\ Len(q) = n /\ \A i \in 1 .. n : q[i] = queue[i].rec
  BY <1>1, <1>2, FunctionIsSequence
<1>4. pending \in Seq(Records \cup {Idle})
  BY <1>1
<1>. HIDE DEF q, n
<1>5. /\ DOMAIN sent = 1 .. (n + Len(pending))
      /\ \A i \in 1 .. n : sent[i] = queue[i].rec
      /\ \A i \in DOMAIN sent : i \notin 1 .. n => i - n \in DOMAIN pending /\ sent[i] = pending[i - n]
  <2>. DEFINE S == Records \cup {Idle}
              m == Len(pending)
  <2>1. sent \in Seq(S) /\ Len(sent) = n + m
    BY <1>3, <1>4, ConcatProperties
  <2>2. \A i \in 1 .. (n + m) : sent[i] = IF i <= n THEN q[i] ELSE pending[i - n]
    BY <1>3, <1>4, ConcatProperties
  <2>3. DOMAIN sent = 1 .. (n + m)
    BY <2>1, SequenceIsFunction
  <2>4. m \in Nat /\ n \in Nat
    BY <1>1
  <2>. HIDE DEF sent, m, S
  <2>5. \A i \in 1 .. n : i \in 1 .. (n + m) /\ i <= n
    BY <2>4
  <2>6. \A i \in 1 .. (n + m) : i \notin 1 .. n => ~(i <= n) /\ i - n \in 1 .. m
    BY <2>4
  <2>. QED  BY <1>1, <1>3, <2>2, <2>3, <2>5, <2>6 DEF m
<1>. HIDE DEF sent
<1>6. ASSUME NEW i \in DOMAIN sent, NEW j \in DOMAIN sent, i # j, sent[i] # Idle
      PROVE  sent[i] # sent[j]
  <2>1. CASE i \in 1 .. n /\ j \in 1 .. n
    BY <1>1, <1>5, <1>6, <2>1 DEF RecordsInv, OnePlace
  <2>2. CASE i \in 1 .. n /\ j \notin 1 .. n
    BY <1>1, <1>5, <2>2 DEF RecordsInv, OnePlace, Held
  <2>3. CASE i \notin 1 .. n /\ j \in 1 .. n
    BY <1>1, <1>5, <2>3 DEF RecordsInv, OnePlace, Held
  <2>4. CASE i \notin 1 .. n /\ j \notin 1 .. n
    <3>1. i - n # j - n
      BY <1>1, <1>5, <1>6
    <3>. QED  BY <1>5, <2>4, <3>1 DEF RecordsInv, OnePlace
  <2>. QED  BY <2>1, <2>2, <2>3, <2>4
<1>7. ASSUME NEW i \in DOMAIN sent
      PROVE  sent[i] \notin committed
  BY <1>1, <1>5 DEF RecordsInv, OnePlace
<1>. QED  BY <1>6, <1>7 DEF RecordedOnce, sent, q

\* A refusal or a failure that was answered as recorded stays on record until it is too
\* old, or it and those of its kind written since are too many or too big for the budget
\* of the kind; no record is written twice, and a reader sees those of the calls that were
\* answered before it asked (audit_writer.rs, log_retention.rs): for any sessions, sizes of
\* records, queue and batch, budgets and ages.
THEOREM RecordsAreKept == GateSpec => []RecordsKept
<1>1. IInv => RecordsKept
  BY WrittenOnce DEF IInv, RecordsInv, RecordsKept
<1>. QED  BY GateInvariant, <1>1, PTL

\* The type invariant that the run checks, for every value of the constants.
THEOREM GateTypeCorrect == GateSpec => []GateTypeOK
<1>1. IInv => GateTypeOK
  BY Rows DEF IInv, GateInv, RecordsInv, AuditTypeOK, RepliesFit, Limits, GateTypeOK
<1>. QED  BY GateInvariant, <1>1, PTL

\* A call changes Pages where its session holds the permission when it changes them,
\* also if an operator moved them after they were looked up (access.rs): the heads the
\* transaction compares are Revisions, and those stay in the Scope that was looked up.
\* What it attaches to a Revision it attaches where its session holds the permission in
\* the Revision's own Scope, which the Page may have left (ensure_revision_access).
THEOREM CallsCommitWhereGranted == GateSpec => CommittedWhereGranted
<1>1. ASSUME IInv, NEW c \in Callers, Commit(c), NEW n \in calls[c].req.needs
      PROVE  /\ \A h \in calls[c].req.heads : Allows(c, n, pages[h[1]].scope)
             /\ \A x \in calls[c].req.onto : Allows(c, n, revs[x])
  <2>1. GrantHolds(c, calls[c]) /\ StoreInv /\ Holds(calls[c])
    BY <1>1 DEF IInv, GateInv, GrantsHold, Commit
  <2>2. ASSUME NEW h \in calls[c].req.heads
        PROVE  Allows(c, n, pages[h[1]].scope)
    <3>1. pages[h[1]].rev = h[2] /\ pages[h[1]].scope \in calls[c].scopes
      BY <2>1 DEF Holds
    <3>2. h[1] \in Pages /\ pages[h[1]].scope = revs[h[2]]
      BY <2>1, <3>1 DEF GrantHolds, StoreInv, Pages
    <3>. QED  BY <2>1, <3>1, <3>2 DEF GrantHolds
  <2>3. ASSUME NEW x \in calls[c].req.onto
        PROVE  Allows(c, n, revs[x])
    BY <2>1 DEF GrantHolds, Holds
  <2>. QED  BY <2>2, <2>3
<1>2. IInv /\ [GateNext]_gateVars =>
         [\A c \in Callers : Commit(c) => \A n \in calls[c].req.needs :
             /\ \A h \in calls[c].req.heads : Allows(c, n, pages[h[1]].scope)
             /\ \A x \in calls[c].req.onto : Allows(c, n, revs[x])]_gateVars
  BY <1>1
<1>. QED  BY GateInvariant, <1>2, PTL DEF GateSpec, CommittedWhereGranted

-----------------------------------------------------------------------------
(***************************************************************************)
(* Enrollment, HubWithdrawal and HubActivity, for any clients, projects,   *)
(* outputs and cards.  What the file of the enrollments grants is          *)
(* provisioned, the calls and the sessions fit it, and what was retired is *)
(* empty and a source of the group that is merged: every step keeps the    *)
(* six together, the last ones because the published state gives           *)
(* the sources to one project.                                             *)
(*                                                                         *)
(* An output that is withdrawn is followed from the Revision that the      *)
(* review wrote to the one an operator may have written since: only the    *)
(* first is archived or undone.                                            *)
(*                                                                         *)
(* Handoff cards get versions that no window has seen, and a page of an    *)
(* answer begins where the one before it ended.  What a publication        *)
(* reclaims is counted: the first n of an order are at most n.             *)
(***************************************************************************)

-----------------------------------------------------------------------------
(* Who may use the store: the inductive invariant                          *)

RegFields == {"client", "scopes", "policy", "projects", "historical", "revoked"}
ProjectFields == {"key", "aliases", "historical", "scope", "name", "ready", "owner"}
CallFields == {"step", "reg", "access", "binding"}
CommandFields == {"step", "original", "transfers", "retire"}

FileShape(f) ==
    /\ DOMAIN f = {"requests", "regs", "projects"}
    /\ \A r \in DOMAIN f.regs : DOMAIN f.regs[r] = RegFields
    /\ \A p \in f.projects : DOMAIN p = ProjectFields

Provisioned(f, s) ==
    /\ FileShape(f)
    /\ \A r \in DOMAIN f.regs : f.regs[r].projects \subseteq s /\ f.regs[r].historical \subseteq s
    /\ \A p \in f.projects : p.historical \subseteq s /\ (p.ready => p.scope \in s)
    /\ \A p, q \in f.projects : p.key = q.key => p = q

BindingOf(f, b) ==
    /\ DOMAIN b = ProjectFields
    /\ \E p \in f.projects :
          /\ p.key = b.key /\ p.scope = b.scope /\ p.historical = b.historical
          /\ p.ready = b.ready /\ p.aliases \subseteq b.aliases
CallFits(f, s, h, c, k) ==
    \/ k = NoCall
    \/ /\ DOMAIN k = CallFields /\ k.reg \in DOMAIN f.regs
       /\ k.step \in {"found", "install", "confirm", "close", "provision", "grant"}
       /\ k.step \in {"provision", "grant"} => h = c /\ BindingOf(f, k.binding)
       /\ k.step = "grant" => k.binding.scope \in s
CallsFit(f, s, h, k) ==
    /\ DOMAIN k = PublicCalls /\ \A c \in PublicCalls : CallFits(f, s, h, c, k[c])
    /\ h \in PublicCalls \cup {Nobody} /\ (h # Nobody => k[h].step \in {"provision", "grant"})

Closing(k, reg) == \E c \in DOMAIN k : k[c].step \in {"confirm", "close"} /\ k[c].reg = reg
SessionsFit(f, ses, clo, k) ==
    /\ DOMAIN ses \subseteq DOMAIN f.regs /\ clo \subseteq DOMAIN f.regs
    /\ \A reg \in DOMAIN ses : ~f.regs[reg].revoked \/ reg \in clo \/ Closing(k, reg)

Emptied(f, s, ret, pl) ==
    /\ DOMAIN ret \subseteq s /\ DOMAIN ret \subseteq Sources(f)
    /\ \A p \in DOMAIN pl : pl[p].scope \in s /\ pl[p].scope \notin DOMAIN ret
Deserted(f, ret, beg, posted) ==
    /\ beg \/ \A p \in f.projects : p.scope \in DOMAIN ret => p.scope \in Adoptable
    /\ beg \/ posted \cap DOMAIN ret = {}

Commanded(f, run, h, k, com, beg, posted) ==
    /\ ~run => h = Nobody /\ \A c \in PublicCalls : k[c] = NoCall
    /\ com # NoCall =>
          /\ ~run /\ beg /\ DOMAIN com = CommandFields /\ com.original = f
          /\ Mergeable(f) /\ IsValid(Merged(f)) /\ com.retire \subseteq Sources(f)
          /\ com.step \in {"transfer", "publish"}
          /\ com.step = "publish" => posted \cap Sources(f) = {}

EnrollInv ==
    /\ Provisioned(file, scopes) /\ CallsFit(file, scopes, holder, inCall)
    /\ SessionsFit(file, sessions, closing, inCall)
    /\ Emptied(file, scopes, retired, placed) /\ Deserted(file, retired, begun, cardScopes)
    /\ Commanded(file, running, holder, inCall, cli, begun, cardScopes)

-----------------------------------------------------------------------------
(* What follows a file                                                     *)

\* No call holds the lock: none is between its binding and its grant.
LEMMA UnlockedCalls ==
    ASSUME NEW f, NEW s, NEW k, CallsFit(f, s, Nobody, k), NEW c \in PublicCalls
    PROVE  k[c] = NoCall \/ k[c].step \notin {"provision", "grant"}
BY EnrollmentAssumption DEF CallsFit, CallFits

\* A file that keeps its registrations serves the calls that were under way.
LEMMA CallsFollow ==
    ASSUME NEW f, NEW s, NEW k, CallsFit(f, s, Nobody, k), NEW g, NEW t,
           DOMAIN f.regs \subseteq DOMAIN g.regs
    PROVE  CallsFit(g, t, Nobody, k)
<1>1. ASSUME NEW c \in PublicCalls  PROVE CallFits(g, t, Nobody, c, k[c])
  <2>1. CallFits(f, s, Nobody, c, k[c])  BY DEF CallsFit
  <2>2. k[c] = NoCall \/ k[c].step \notin {"provision", "grant"}  BY UnlockedCalls
  <2>. QED  BY <2>1, <2>2 DEF CallFits
<1>. QED  BY <1>1 DEF CallsFit

LEMMA MoreScopes ==
    ASSUME NEW f, NEW s, NEW t, s \subseteq t
    PROVE  /\ Provisioned(f, s) => Provisioned(f, t)
           /\ \A h, k : CallsFit(f, s, h, k) => CallsFit(f, t, h, k)
           /\ \A ret, pl : Emptied(f, s, ret, pl) => Emptied(f, t, ret, pl)
<1>1. Provisioned(f, s) => Provisioned(f, t)  BY DEF Provisioned
<1>2. ASSUME NEW h, NEW k, CallsFit(f, s, h, k)  PROVE CallsFit(f, t, h, k)
  BY <1>2 DEF CallsFit, CallFits
<1>3. ASSUME NEW ret, NEW pl, Emptied(f, s, ret, pl)  PROVE Emptied(f, t, ret, pl)
  BY <1>3 DEF Emptied
<1>. QED  BY <1>1, <1>2, <1>3

\* Sessions stay as they were when nobody is revoked.
LEMMA SessionsFollow ==
    ASSUME NEW f, NEW ses, NEW clo, NEW k, SessionsFit(f, ses, clo, k), NEW g,
           DOMAIN f.regs \subseteq DOMAIN g.regs,
           \A r \in DOMAIN f.regs : g.regs[r].revoked => f.regs[r].revoked
    PROVE  SessionsFit(g, ses, clo, k)
BY DEF SessionsFit

\* What keeps the projects keeps the Scopes that a merge would retire.
LEMMA SourcesFollow ==
    ASSUME NEW f, NEW g, g.projects = f.projects
    PROVE  Sources(g) = Sources(f) /\ Reviewed(g) = Reviewed(f)
BY DEF Sources, Reviewed

LEMMA InSources ==
    ASSUME NEW f, NEW x
    PROVE  x \in Sources(f) <=>
              x # Target /\ \E p \in Reviewed(f) : x = p.scope \/ x \in p.historical
<1>. DEFINE S == {{p.scope} \cup p.historical : p \in Reviewed(f)}
<1>1. Sources(f) = (UNION S) \ {Target}  BY Zenon DEF Sources
<1>2. ASSUME NEW p \in Reviewed(f)  PROVE {p.scope} \cup p.historical \in S  OBVIOUS
<1>3. ASSUME NEW y \in S  PROVE \E p \in Reviewed(f) : y = {p.scope} \cup p.historical  BY <1>3
<1>. HIDE DEF S
<1>4. ASSUME x \in Sources(f)
      PROVE  x # Target /\ \E p \in Reviewed(f) : x = p.scope \/ x \in p.historical
  <2>1. PICK y \in S : x \in y  BY <1>1, <1>4
  <2>2. PICK p \in Reviewed(f) : y = {p.scope} \cup p.historical  BY <1>3
  <2>3. x \in {p.scope} \cup p.historical  BY <2>1, <2>2
  <2>4. x # Target  BY <1>1, <1>4
  <2>. QED  BY <2>3, <2>4
<1>5. ASSUME x # Target, NEW p \in Reviewed(f), x = p.scope \/ x \in p.historical
      PROVE  x \in Sources(f)
  <2>. DEFINE y == {p.scope} \cup p.historical
  <2>1. y \in S /\ x \in y  BY <1>2, <1>5
  <2>. HIDE DEF y
  <2>. QED  BY <1>1, <1>5, <2>1
<1>. QED  BY <1>4, <1>5

LEMMA SameProjectsFollow ==
    ASSUME NEW f, NEW g, g.projects = f.projects
    PROVE  /\ \A s, ret, pl : Emptied(f, s, ret, pl) => Emptied(g, s, ret, pl)
           /\ \A ret, beg, posted : Deserted(f, ret, beg, posted) => Deserted(g, ret, beg, posted)
BY SourcesFollow DEF Emptied, Deserted

\* A step of the Runtime: no command is under way.
LEMMA NoCommand ==
    ASSUME NEW f, NEW h, NEW k, NEW com, NEW beg, NEW posted,
           Commanded(f, TRUE, h, k, com, beg, posted)
    PROVE  com = NoCall /\ \A g, h2, k2, cards2 : Commanded(g, TRUE, h2, k2, com, beg, cards2)
BY DEF Commanded

\* A file that changes while the lock is free, keeping what it grants and its projects.
LEMMA FileFollows ==
    ASSUME EnrollInv, LockFree, FileShape(file'), file'.projects = file.projects,
           DOMAIN Regs \subseteq DOMAIN file'.regs,
           \A r \in DOMAIN file'.regs :
              file'.regs[r].projects \subseteq scopes /\ file'.regs[r].historical \subseteq scopes
    PROVE  /\ Provisioned(file', scopes) /\ CallsFit(file', scopes, holder, inCall)
           /\ Emptied(file', scopes, retired, placed) /\ Deserted(file', retired, begun, cardScopes)
           /\ Commanded(file', running, holder, inCall, cli, begun, cardScopes)
<1>1. Provisioned(file', scopes)  BY DEF EnrollInv, Provisioned, Regs
<1>2. CallsFit(file', scopes, holder, inCall)  BY CallsFollow DEF EnrollInv, LockFree, Regs
<1>3. Emptied(file', scopes, retired, placed) /\ Deserted(file', retired, begun, cardScopes)
  BY SameProjectsFollow DEF EnrollInv
<1>4. Commanded(file', running, holder, inCall, cli, begun, cardScopes)
  BY DEF EnrollInv, LockFree, Commanded
<1>. QED  BY <1>1, <1>2, <1>3, <1>4

-----------------------------------------------------------------------------
(* Public calls                                                            *)

\* A call goes on, in a Runtime that works on the file as it is.
LEMMA CallMoves ==
    ASSUME EnrollInv, running, NEW c \in PublicCalls, NEW v,
           inCall' = [inCall EXCEPT ![c] = v], scopes \subseteq scopes',
           UNCHANGED <<file, running, retired, placed, commandVars>>,
           CallFits(file, scopes', holder', c, v), holder' \in PublicCalls \cup {Nobody},
           holder' = c <=> v.step \in {"provision", "grant"},
           holder' # c => holder' = Nobody \/ holder' = holder,
           holder \notin {c, Nobody} => holder' = holder,
           SessionsFit(file, sessions', closing', inCall')
    PROVE  EnrollInv'
<1>1. CallsFit(file, scopes', holder, inCall)  BY MoreScopes DEF EnrollInv
<1>2. /\ DOMAIN inCall' = PublicCalls /\ inCall'[c] = v
      /\ \A d \in PublicCalls \ {c} : inCall'[d] = inCall[d]
  BY <1>1 DEF CallsFit
<1>3. ASSUME NEW d \in PublicCalls \ {c}  PROVE CallFits(file, scopes', holder', d, inCall[d])
  <2>1. CallFits(file, scopes', holder, d, inCall[d])  BY <1>1 DEF CallsFit
  <2>2. d # Nobody  BY EnrollmentAssumption
  <2>. QED  BY <2>1, <2>2 DEF CallFits
<1>4. holder' # Nobody => inCall'[holder'].step \in {"provision", "grant"}
  BY <1>1, <1>2, EnrollmentAssumption DEF CallsFit
<1>5. CallsFit(file', scopes', holder', inCall')
  BY <1>2, <1>3, <1>4 DEF CallsFit
<1>6. Provisioned(file', scopes') /\ Emptied(file', scopes', retired', placed')
  BY MoreScopes DEF EnrollInv
<1>7. Deserted(file', retired', begun', cardScopes')
      /\ Commanded(file', running', holder', inCall', cli', begun', cardScopes')
  BY DEF EnrollInv, commandVars, Commanded
<1>. QED  BY <1>5, <1>6, <1>7 DEF EnrollInv

\* A call that closes nothing may become any other: sessions are closed by the rest.
LEMMA OpensFit ==
    ASSUME EnrollInv, NEW c \in PublicCalls, NEW v, inCall' = [inCall EXCEPT ![c] = v],
           UNCHANGED <<sessions, closing>>,
           inCall[c] = NoCall \/ inCall[c].step \notin {"confirm", "close"}
    PROVE  SessionsFit(file, sessions', closing', inCall')
<1>1. inCall[c].step \notin {"confirm", "close"}  BY DEF NoCall
<1>2. DOMAIN inCall' = DOMAIN inCall /\ \A d \in DOMAIN inCall \ {c} : inCall'[d] = inCall[d]
  OBVIOUS
<1>. QED  BY <1>1, <1>2 DEF EnrollInv, SessionsFit, Closing

LEMMA OpeningFits ==
    ASSUME NEW c, NEW reg \in DOMAIN Regs, NEW s, NEW h
    PROVE  CallFits(file, s, h, c, Opening(reg)) /\ Opening(reg).step = "found"
BY DEF CallFits, CallFields, Opening, Regs

LEMMA IdleIsNoHolder ==
    ASSUME EnrollInv, NEW c \in PublicCalls, inCall[c] = NoCall
    PROVE  holder # c
BY EnrollmentAssumption DEF EnrollInv, CallsFit, NoCall

LEMMA TakeKeeps ==
    ASSUME EnrollInv, NEW c \in PublicCalls, NEW reg \in DOMAIN Regs, LockFree, inCall[c] = NoCall,
           inCall' = [inCall EXCEPT ![c] = Opening(reg)],
           UNCHANGED <<file, running, holder, closing, sessions, placeVars, commandVars>>
    PROVE  EnrollInv'
<1>1. CallFits(file, scopes', holder', c, Opening(reg)) /\ Opening(reg).step = "found"  BY OpeningFits
<1>2. SessionsFit(file, sessions', closing', inCall')  BY OpensFit
<1>3. holder' # c /\ holder' = Nobody /\ holder = Nobody  BY IdleIsNoHolder DEF LockFree
<1>. QED  BY <1>1, <1>2, <1>3, CallMoves DEF LockFree, placeVars

LEMMA OpenKeeps ==
    ASSUME EnrollInv, NEW c \in PublicCalls, NEW reg \in DOMAIN Regs, Open(c, reg)
    PROVE  EnrollInv'
BY TakeKeeps DEF Open

LEMMA FileOfRequests ==
    ASSUME EnrollInv, NEW x, file' = [file EXCEPT !.requests = x]
    PROVE  FileShape(file') /\ file'.regs = file.regs /\ file'.projects = file.projects
BY DEF EnrollInv, Provisioned, FileShape

\* Requests alone change, or registrations in what no grant and no revocation is about.
LEMMA FileKeeps ==
    ASSUME EnrollInv, LockFree, FileShape(file'), file'.projects = file.projects,
           DOMAIN Regs \subseteq DOMAIN file'.regs,
           \A r \in DOMAIN Regs : file'.regs[r].revoked => Regs[r].revoked,
           \A r \in DOMAIN file'.regs :
              file'.regs[r].projects \subseteq scopes /\ file'.regs[r].historical \subseteq scopes,
           UNCHANGED <<running, runtimeVars, placeVars, commandVars>>
    PROVE  EnrollInv'
<1>1. SessionsFit(file', sessions, closing, inCall)
  BY SessionsFollow DEF EnrollInv, Regs
<1>2. /\ Provisioned(file', scopes) /\ CallsFit(file', scopes, holder, inCall)
      /\ Emptied(file', scopes, retired, placed) /\ Deserted(file', retired, begun, cardScopes)
      /\ Commanded(file', running, holder, inCall, cli, begun, cardScopes)
  BY FileFollows
<1>. QED  BY <1>1, <1>2 DEF EnrollInv, runtimeVars, placeVars, commandVars

LEMMA RequestsKeep ==
    ASSUME EnrollInv, LockFree, NEW x, file' = [file EXCEPT !.requests = x],
           UNCHANGED <<running, runtimeVars, placeVars, commandVars>>
    PROVE  EnrollInv'
<1>1. FileShape(file') /\ file'.regs = file.regs /\ file'.projects = file.projects  BY FileOfRequests
<1>2. \A r \in DOMAIN Regs : Regs[r].projects \subseteq scopes /\ Regs[r].historical \subseteq scopes
  BY DEF EnrollInv, Provisioned, Regs
<1>. QED  BY <1>1, <1>2, FileKeeps DEF Regs

LEMMA BeginKeeps ==
    ASSUME EnrollInv, NEW c \in PublicCalls, NEW client \in Clients, BeginEnrollment(c, client)
    PROVE  EnrollInv'
<1>. DEFINE same == {q \in file.requests : q.client = client /\ q.scopes = Wanted[client]}
<1>1. CASE \E q \in same : /\ q.decision = "approved" /\ IsActive(q.reg)
                           /\ inCall' = [inCall EXCEPT ![c] = Opening(q.reg)]
                           /\ UNCHANGED file
  BY <1>1, TakeKeeps DEF BeginEnrollment, IsActive
<1>2. CASE /\ file' = [file EXCEPT !.requests = @ \cup
                 {[client |-> client, scopes |-> Wanted[client], decision |-> "pending", reg |-> 0]}]
           /\ UNCHANGED inCall
  BY <1>2, RequestsKeep DEF BeginEnrollment, runtimeVars
<1>. QED  BY <1>1, <1>2 DEF BeginEnrollment

\* A call that is under way, and the same call at another step.
LEMMA CallShape ==
    ASSUME EnrollInv, NEW c \in PublicCalls,
           inCall[c].step \in {"found", "install", "confirm", "close", "provision", "grant"}
    PROVE  /\ inCall[c] # NoCall /\ DOMAIN inCall[c] = CallFields /\ inCall[c].reg \in DOMAIN Regs
           /\ CallFits(file, scopes, holder, c, inCall[c])
           /\ holder = c <=> inCall[c].step \in {"provision", "grant"}
           /\ \A x : LET v == [inCall[c] EXCEPT !.step = x]
                     IN  /\ v.step = x /\ v.reg = inCall[c].reg /\ v.binding = inCall[c].binding
                         /\ DOMAIN v = CallFields
<1>1. inCall[c] # NoCall  BY DEF NoCall
<1>2. CallFits(file, scopes, holder, c, inCall[c])  BY DEF EnrollInv, CallsFit
<1>3. DOMAIN inCall[c] = CallFields /\ inCall[c].reg \in DOMAIN Regs  BY <1>1, <1>2 DEF CallFits, Regs
<1>4. inCall[c].step \in {"provision", "grant"} => holder = c  BY <1>1, <1>2 DEF CallFits
<1>5. holder = c => inCall[c].step \in {"provision", "grant"}
  BY EnrollmentAssumption DEF EnrollInv, CallsFit
<1>. QED  BY <1>1, <1>2, <1>3, <1>4, <1>5 DEF CallFields

\* The next step of a call without the lock.
NextStep(k, v, x) == v = [k EXCEPT !.step = x] /\ x \in {"found", "install", "confirm", "close"}

LEMMA StepFits ==
    ASSUME EnrollInv, NEW c \in PublicCalls,
           inCall[c].step \in {"found", "install", "confirm", "close"},
           NEW x, NEW v, NextStep(inCall[c], v, x)
    PROVE  /\ \A s, h : CallFits(file, s, h, c, v)
           /\ holder # c /\ v.step = x /\ x \notin {"provision", "grant"}
           /\ v.reg = inCall[c].reg /\ inCall[c].reg \in DOMAIN Regs
<1>1. v = [inCall[c] EXCEPT !.step = x] /\ x \in {"found", "install", "confirm", "close"}
  BY DEF NextStep
<1>2. DOMAIN inCall[c] = CallFields /\ inCall[c].reg \in DOMAIN Regs /\ holder # c
  BY CallShape
<1>3. DOMAIN v = CallFields /\ v.step = x /\ v.reg = inCall[c].reg
  BY <1>1, <1>2 DEF CallFields
<1>. QED  BY <1>1, <1>2, <1>3 DEF CallFits, Regs

LEMMA HolderIs == ASSUME EnrollInv  PROVE holder \in PublicCalls \cup {Nobody}
BY DEF EnrollInv, CallsFit

LEMMA MaterializeKeeps ==
    ASSUME EnrollInv, NEW c \in PublicCalls, Materialize(c)
    PROVE  EnrollInv'
<1>. DEFINE v == [inCall[c] EXCEPT !.step = "install"]
<1>1. inCall[c].step = "found" /\ inCall' = [inCall EXCEPT ![c] = v] /\ scopes \subseteq scopes'
  BY DEF Materialize
<1>2. CallFits(file, scopes', holder', c, v) /\ holder # c /\ v.step = "install"
  <2>1. NextStep(inCall[c], v, "install")  BY DEF NextStep
  <2>. HIDE DEF v
  <2>. QED  BY <1>1, <2>1, StepFits
<1>3. SessionsFit(file, sessions', closing', inCall')  BY <1>1, OpensFit DEF Materialize
<1>. HIDE DEF v
<1>4. running /\ UNCHANGED <<file, running, retired, placed, commandVars>> /\ holder' = holder  BY DEF Materialize
<1>5. v.step \notin {"provision", "grant"}  BY <1>2
<1>. QED  BY <1>1, <1>2, <1>3, <1>4, <1>5, HolderIs, CallMoves

\* The endpoint that is opened is one of a call that will look at it again.
LEMMA InstallKeeps ==
    ASSUME EnrollInv, NEW c \in PublicCalls, Install(c)
    PROVE  EnrollInv'
<1>. DEFINE v == [inCall[c] EXCEPT !.step = "confirm"]  reg == inCall[c].reg
<1>1. inCall[c].step = "install" /\ inCall' = [inCall EXCEPT ![c] = v]
      /\ sessions' = Put(sessions, reg, inCall[c].access)
  BY DEF Install
<1>2. /\ CallFits(file, scopes, holder, c, v) /\ holder # c
      /\ v.step = "confirm" /\ v.reg = reg /\ reg \in DOMAIN Regs
  <2>1. NextStep(inCall[c], v, "confirm")  BY DEF NextStep
  <2>. HIDE DEF v
  <2>. QED  BY <1>1, <2>1, StepFits
<1>. HIDE DEF v, reg
<1>3. DOMAIN inCall = PublicCalls  BY DEF EnrollInv, CallsFit
<1>4. DOMAIN inCall' = PublicCalls /\ inCall'[c] = v /\ \A d \in PublicCalls \ {c} : inCall'[d] = inCall[d]
  BY <1>1, <1>3
<1>5. Closing(inCall', reg)  BY <1>2, <1>4 DEF Closing
<1>6. \A r : Closing(inCall, r) => Closing(inCall', r)
  BY <1>1, <1>3, <1>4 DEF Closing
<1>7. DOMAIN sessions' = DOMAIN sessions \cup {reg}  BY <1>1 DEF Put
<1>8. SessionsFit(file, sessions', closing', inCall')
  BY <1>2, <1>5, <1>6, <1>7 DEF Install, EnrollInv, SessionsFit, Regs
<1>9. running /\ scopes' = scopes /\ UNCHANGED <<file, running, retired, placed, commandVars>> /\ holder' = holder
  BY DEF Install, placeVars
<1>10. v.step \notin {"provision", "grant"}  BY <1>2
<1>. QED  BY <1>1, <1>2, <1>8, <1>9, <1>10, HolderIs, CallMoves

\* An active registration keeps its endpoint; another one's call goes on to close it.
LEMMA ConfirmKeeps ==
    ASSUME EnrollInv, NEW c \in PublicCalls, Confirm(c)
    PROVE  EnrollInv'
<1>. DEFINE closed == [inCall[c] EXCEPT !.step = "close"]
            v == IF IsActive(inCall[c].reg) THEN NoCall ELSE closed
            reg == inCall[c].reg
<1>1. inCall[c].step = "confirm" /\ inCall' = [inCall EXCEPT ![c] = v]
  BY DEF Confirm
<1>2. /\ CallFits(file, scopes, holder, c, closed) /\ holder # c
      /\ closed.step = "close" /\ closed.reg = reg /\ reg \in DOMAIN Regs
  <2>1. NextStep(inCall[c], closed, "close")  BY DEF NextStep
  <2>. HIDE DEF closed
  <2>. QED  BY <1>1, <2>1, StepFits
<1>3. CallFits(file, scopes, holder, c, v) /\ v.step \notin {"provision", "grant"}
  BY <1>2 DEF CallFits, NoCall
<1>4. IsActive(reg) \/ (v.step = "close" /\ v.reg = reg)  BY <1>2
<1>. HIDE DEF v, reg
<1>5. DOMAIN inCall = PublicCalls  BY DEF EnrollInv, CallsFit
<1>6. DOMAIN inCall' = PublicCalls /\ inCall'[c] = v /\ \A d \in PublicCalls \ {c} : inCall'[d] = inCall[d]
  BY <1>1, <1>5
<1>7. ASSUME NEW r \in DOMAIN sessions  PROVE ~Regs[r].revoked \/ r \in closing \/ Closing(inCall', r)
  <2>1. ~Regs[r].revoked \/ r \in closing \/ Closing(inCall, r)  BY DEF EnrollInv, SessionsFit, Regs
  <2>2. CASE Closing(inCall, r)
    <3>1. PICK d \in PublicCalls : inCall[d].step \in {"confirm", "close"} /\ inCall[d].reg = r
      BY <2>2, <1>5 DEF Closing
    <3>2. CASE d = c
      <4>1. reg = r  BY <3>1, <3>2 DEF reg
      <4>. QED  BY <4>1, <1>4, <1>6 DEF IsActive, Closing
    <3>3. CASE d # c  BY <3>1, <3>3, <1>6 DEF Closing
    <3>. QED  BY <3>2, <3>3
  <2>. QED  BY <2>1, <2>2
<1>8. SessionsFit(file, sessions', closing', inCall')
  BY <1>7 DEF Confirm, EnrollInv, SessionsFit, Regs
<1>9. running /\ scopes' = scopes /\ UNCHANGED <<file, running, retired, placed, commandVars>> /\ holder' = holder
  BY DEF Confirm, LockFree, placeVars
<1>. QED  BY <1>1, <1>2, <1>3, <1>8, <1>9, HolderIs, CallMoves

\* A call ends after its endpoint, if it has one left to close, is gone.
LEMMA EndKeeps ==
    ASSUME EnrollInv, running, NEW c \in PublicCalls, inCall' = [inCall EXCEPT ![c] = NoCall],
           holder' = IF holder = c THEN Nobody ELSE holder, NEW S, sessions' = Drop(sessions, S),
           inCall[c].step \in {"confirm", "close"} => inCall[c].reg \in S,
           UNCHANGED <<file, running, closing, placeVars, commandVars>>
    PROVE  EnrollInv'
<1>1. DOMAIN inCall = PublicCalls  BY DEF EnrollInv, CallsFit
<1>2. DOMAIN inCall' = PublicCalls /\ \A d \in PublicCalls \ {c} : inCall'[d] = inCall[d]
  BY <1>1
<1>3. DOMAIN sessions' = DOMAIN sessions \ S  BY DEF Drop
<1>4. \A r \in DOMAIN sessions' : Closing(inCall, r) => Closing(inCall', r)
  BY <1>1, <1>2, <1>3 DEF Closing
<1>5. SessionsFit(file, sessions', closing', inCall')
  BY <1>3, <1>4 DEF EnrollInv, SessionsFit
<1>6. CallFits(file, scopes', holder', c, NoCall) /\ NoCall.step \notin {"provision", "grant"}
  BY DEF CallFits, NoCall
<1>7. holder' # c /\ holder' \in PublicCalls \cup {Nobody} /\ (holder \notin {c, Nobody} => holder' = holder)
      /\ (holder' = Nobody \/ holder' = holder)
  BY HolderIs, EnrollmentAssumption
<1>. QED  BY <1>5, <1>6, <1>7, CallMoves DEF placeVars

LEMMA CloseInactiveKeeps ==
    ASSUME EnrollInv, NEW c \in PublicCalls, CloseInactive(c)
    PROVE  EnrollInv'
<1>1. holder # c  BY CallShape DEF CloseInactive
<1>. QED  BY <1>1, EndKeeps DEF CloseInactive

LEMMA FailKeeps ==
    ASSUME EnrollInv, NEW c \in PublicCalls, Fail(c)
    PROVE  EnrollInv'
BY EndKeeps DEF Fail

-----------------------------------------------------------------------------
(* The registration of a project                                           *)

\* The call that takes the lock.
LEMMA LockTaken ==
    ASSUME NEW g, NEW s, NEW k, CallsFit(g, s, Nobody, k), NEW c \in PublicCalls, NEW v,
           v.step = "provision", CallFits(g, s, c, c, v)
    PROVE  CallsFit(g, s, c, [k EXCEPT ![c] = v])
<1>. DEFINE j == [k EXCEPT ![c] = v]
<1>1. DOMAIN j = PublicCalls /\ j[c] = v /\ \A d \in PublicCalls \ {c} : j[d] = k[d]
  BY DEF CallsFit
<1>. HIDE DEF j
<1>2. ASSUME NEW d \in PublicCalls \ {c}  PROVE CallFits(g, s, c, d, k[d])
  <2>1. CallFits(g, s, Nobody, d, k[d])  BY DEF CallsFit
  <2>2. k[d] = NoCall \/ k[d].step \notin {"provision", "grant"}  BY UnlockedCalls
  <2>. QED  BY <2>1, <2>2 DEF CallFits
<1>3. CallsFit(g, s, c, j)  BY <1>1, <1>2 DEF CallsFit
<1>. QED  BY <1>3 DEF j

LEMMA EnsureMoves ==
    ASSUME EnrollInv, LockFree, NEW c \in PublicCalls, inCall[c] = NoCall, NEW v,
           inCall' = [inCall EXCEPT ![c] = v], holder' = c, v.step = "provision",
           CallFits(file', scopes, c, c, v), file'.regs = file.regs,
           Provisioned(file', scopes), Emptied(file', scopes, retired, placed),
           Deserted(file', retired, begun, cardScopes),
           UNCHANGED <<running, closing, sessions, placeVars, commandVars>>
    PROVE  EnrollInv'
<1>1. CallsFit(file', scopes, Nobody, inCall)  BY CallsFollow DEF EnrollInv, LockFree
<1>2. CallsFit(file', scopes, holder', inCall')  BY <1>1, LockTaken
<1>3. SessionsFit(file, sessions', closing', inCall')  BY OpensFit
<1>4. SessionsFit(file', sessions', closing', inCall')  BY <1>3 DEF SessionsFit
<1>5. cli = NoCall  BY DEF EnrollInv, Commanded, LockFree
<1>6. Commanded(file', running', holder', inCall', cli', begun', cardScopes')
  BY <1>5 DEF Commanded, LockFree, commandVars
<1>. QED  BY <1>2, <1>4, <1>6 DEF EnrollInv, placeVars, commandVars

LEMMA RebindKeeps ==
    ASSUME EnrollInv, LockFree, NEW c \in PublicCalls, inCall[c] = NoCall, NEW reg \in DOMAIN Regs,
           NEW key, NEW existing, Rebind(c, reg, key, existing),
           UNCHANGED <<running, closing, sessions, placeVars, commandVars>>
    PROVE  EnrollInv'
<1>1. PICK p \in Bound(key, existing) :
         /\ holder' = c /\ UNCHANGED file
         /\ inCall' = [inCall EXCEPT ![c] = [Opening(reg) EXCEPT !.step = "provision",
                          !.binding = [p EXCEPT !.aliases = @ \cup ({key} \ {p.key})]]]
  BY DEF Rebind
<1>. DEFINE b == [p EXCEPT !.aliases = @ \cup ({key} \ {p.key})]
            v == [Opening(reg) EXCEPT !.step = "provision", !.binding = b]
<1>2. p \in file.projects  BY DEF Bound, Projects
<1>3. DOMAIN p = ProjectFields  BY <1>2 DEF EnrollInv, Provisioned, FileShape
<1>4. /\ DOMAIN b = ProjectFields /\ b.key = p.key /\ b.scope = p.scope
      /\ b.historical = p.historical /\ b.ready = p.ready /\ b.aliases = p.aliases \cup ({key} \ {p.key})
  BY <1>3 DEF ProjectFields
<1>. HIDE DEF b
<1>5. BindingOf(file, b)  BY <1>2, <1>4 DEF BindingOf
<1>6. DOMAIN v = CallFields /\ v.step = "provision" /\ v.reg = reg /\ v.binding = b
  BY DEF Opening, CallFields
<1>7. inCall' = [inCall EXCEPT ![c] = v]  BY <1>1 DEF b
<1>. HIDE DEF v
<1>8. CallFits(file', scopes, c, c, v)  BY <1>1, <1>5, <1>6 DEF CallFits, Regs
<1>9. Provisioned(file', scopes) /\ Emptied(file', scopes, retired, placed)
      /\ Deserted(file', retired, begun, cardScopes) /\ file'.regs = file.regs
  BY <1>1 DEF EnrollInv
<1>. QED  BY <1>1, <1>6, <1>7, <1>8, <1>9, EnsureMoves

\* A binding that is new: no project has its key, and its Scope is new or was named.
LEMMA BindKeeps ==
    ASSUME EnrollInv, LockFree, NEW c \in PublicCalls, inCall[c] = NoCall, NEW reg \in DOMAIN Regs,
           NEW key, NEW existing \in Adoptable \cup {Nobody}, Bind(c, reg, key, existing),
           UNCHANGED <<running, closing, sessions, placeVars, commandVars>>
    PROVE  EnrollInv'
<1>. DEFINE scope == IF existing = Nobody THEN key ELSE existing
            b == Binding(key, scope, reg)
            v == [Opening(reg) EXCEPT !.step = "provision", !.binding = b]
<1>1. /\ Bound(key, existing) = {}
      /\ existing = Nobody => key \notin scopes
      /\ file' = [file EXCEPT !.projects = @ \cup {b}] /\ holder' = c
      /\ inCall' = [inCall EXCEPT ![c] = v]
  BY DEF Bind
<1>2. /\ DOMAIN b = ProjectFields /\ b.key = key /\ b.scope = scope /\ b.historical = {}
      /\ b.ready = FALSE /\ b.aliases = {}
  BY DEF Binding, ProjectFields
<1>3. existing = Nobody \/ scope \in Adoptable  OBVIOUS
<1>. HIDE DEF b
<1>4. DOMAIN v = CallFields /\ v.step = "provision" /\ v.reg = reg /\ v.binding = b
  BY DEF Opening, CallFields
<1>. HIDE DEF v
<1>5. FileShape(file)  BY DEF EnrollInv, Provisioned
<1>6. /\ DOMAIN file' = DOMAIN file /\ file'.projects = file.projects \cup {b}
      /\ file'.regs = file.regs
  BY <1>1, <1>5 DEF FileShape
<1>7. \A p \in file.projects : p.key # key  BY <1>1 DEF Bound, KeysOf, Projects
<1>8. FileShape(file')  BY <1>2, <1>5, <1>6 DEF FileShape
<1>9. Provisioned(file', scopes)  BY <1>2, <1>6, <1>7, <1>8 DEF EnrollInv, Provisioned
<1>10. Sources(file) \subseteq Sources(file')  BY <1>6 DEF Sources, Reviewed
<1>11. Emptied(file', scopes, retired, placed)  BY <1>10 DEF EnrollInv, Emptied
<1>12. b.scope \in DOMAIN retired => b.scope \in Adoptable
  BY <1>1, <1>2, <1>3 DEF EnrollInv, Emptied
<1>13. Deserted(file', retired, begun, cardScopes)
  BY <1>6, <1>12 DEF EnrollInv, Deserted
<1>14. BindingOf(file', b)  BY <1>2, <1>6 DEF BindingOf
<1>15. CallFits(file', scopes, c, c, v)  BY <1>4, <1>6, <1>14 DEF CallFits, Regs
<1>. QED  BY <1>1, <1>4, <1>6, <1>9, <1>11, <1>13, <1>15, EnsureMoves

LEMMA EnsureKeeps ==
    ASSUME EnrollInv, NEW c \in PublicCalls, NEW reg \in DOMAIN Regs, NEW key,
           NEW existing \in Adoptable \cup {Nobody}, EnsureProjectScope(c, reg, key, existing)
    PROVE  EnrollInv'
BY RebindKeeps, BindKeeps DEF EnsureProjectScope

\* The Scope is created, unless the project was ready: then it exists.
LEMMA ProvisionKeeps ==
    ASSUME EnrollInv, NEW c \in PublicCalls, Provision(c)
    PROVE  EnrollInv'
<1>. DEFINE v == [inCall[c] EXCEPT !.step = "grant"]  b == inCall[c].binding
<1>1. /\ running /\ holder = c /\ inCall[c].step = "provision" /\ inCall' = [inCall EXCEPT ![c] = v]
      /\ scopes' = scopes \cup (IF b.ready THEN {} ELSE {b.scope})
      /\ UNCHANGED <<file, running, retired, placed, commandVars>> /\ holder' = holder
      /\ UNCHANGED <<sessions, closing>>
  BY DEF Provision
<1>2. /\ DOMAIN inCall[c] = CallFields /\ inCall[c].reg \in DOMAIN Regs
      /\ BindingOf(file, b)
  <2>1. CallFits(file, scopes, holder, c, inCall[c]) /\ inCall[c] # NoCall
        /\ DOMAIN inCall[c] = CallFields /\ inCall[c].reg \in DOMAIN Regs
    BY <1>1, CallShape
  <2>. QED  BY <1>1, <2>1 DEF CallFits
<1>3. DOMAIN v = CallFields /\ v.step = "grant" /\ v.reg = inCall[c].reg /\ v.binding = b
  BY <1>2 DEF CallFields
<1>. HIDE DEF v, b
<1>4. b.ready => b.scope \in scopes  BY <1>2 DEF BindingOf, EnrollInv, Provisioned
<1>5. b.scope \in scopes' /\ scopes \subseteq scopes'  BY <1>1, <1>4
<1>6. CallFits(file, scopes', holder', c, v)  BY <1>1, <1>2, <1>3, <1>5 DEF CallFits, Regs
<1>7. SessionsFit(file, sessions', closing', inCall')  BY <1>1, OpensFit
<1>. QED  BY <1>1, <1>3, <1>5, <1>6, <1>7, HolderIs, CallMoves

\* What the file becomes when a project is granted, field by field.
GrantedAs(f, g, reg, b) ==
    /\ DOMAIN g = DOMAIN f /\ DOMAIN g.regs = DOMAIN f.regs
    /\ g.projects = {p \in f.projects : p.key # b.key} \cup {[b EXCEPT !.ready = TRUE]}
    /\ \A r \in DOMAIN f.regs \ {reg} : g.regs[r] = f.regs[r]
    /\ DOMAIN g.regs[reg] = DOMAIN f.regs[reg]
    /\ g.regs[reg].projects = f.regs[reg].projects \cup {b.scope}
    /\ g.regs[reg].historical = f.regs[reg].historical \cup b.historical
    /\ g.regs[reg].revoked = f.regs[reg].revoked

LEMMA GrantedAsIs ==
    ASSUME NEW f, FileShape(f), NEW reg \in DOMAIN f.regs, NEW b, NEW g,
           g = [f EXCEPT !.projects = {p \in @ : p.key # b.key} \cup {[b EXCEPT !.ready = TRUE]},
                         !.regs[reg].projects = @ \cup {b.scope},
                         !.regs[reg].historical = @ \cup b.historical]
    PROVE  GrantedAs(f, g, reg, b)
<1>1. DOMAIN f = {"requests", "regs", "projects"} /\ DOMAIN f.regs[reg] = RegFields  BY DEF FileShape
<1>. DEFINE r1 == [f.regs EXCEPT ![reg].projects = @ \cup {b.scope}]
            r2 == [r1 EXCEPT ![reg].historical = @ \cup b.historical]
<1>2. /\ DOMAIN r1 = DOMAIN f.regs /\ \A r \in DOMAIN f.regs \ {reg} : r1[r] = f.regs[r]
      /\ r1[reg] = [f.regs[reg] EXCEPT !.projects = @ \cup {b.scope}]
  OBVIOUS
<1>3. /\ DOMAIN r1[reg] = RegFields /\ r1[reg].projects = f.regs[reg].projects \cup {b.scope}
      /\ r1[reg].historical = f.regs[reg].historical /\ r1[reg].revoked = f.regs[reg].revoked
  BY <1>1, <1>2 DEF RegFields
<1>4. /\ DOMAIN r2 = DOMAIN r1 /\ \A r \in DOMAIN f.regs \ {reg} : r2[r] = r1[r]
      /\ r2[reg] = [r1[reg] EXCEPT !.historical = @ \cup b.historical]
  BY <1>2
<1>5. /\ DOMAIN r2[reg] = RegFields /\ r2[reg].projects = r1[reg].projects
      /\ r2[reg].historical = r1[reg].historical \cup b.historical /\ r2[reg].revoked = r1[reg].revoked
  BY <1>3, <1>4 DEF RegFields
<1>6. g.regs = r2 /\ DOMAIN g = DOMAIN f
      /\ g.projects = {p \in f.projects : p.key # b.key} \cup {[b EXCEPT !.ready = TRUE]}
  BY <1>1
<1>. QED  BY <1>1, <1>2, <1>3, <1>4, <1>5, <1>6 DEF GrantedAs

\* The project that is granted takes the place of the one the call has bound.
LEMMA GrantedAsFits ==
    ASSUME NEW f, NEW s, NEW reg \in DOMAIN f.regs, NEW b, NEW g, Provisioned(f, s),
           BindingOf(f, b), b.scope \in s, GrantedAs(f, g, reg, b)
    PROVE  /\ Provisioned(g, s)
           /\ \A ret, pl : Emptied(f, s, ret, pl) => Emptied(g, s, ret, pl)
           /\ \A ret, beg, posted : Deserted(f, ret, beg, posted) => Deserted(g, ret, beg, posted)
<1>. DEFINE e == [b EXCEPT !.ready = TRUE]
<1>1. PICK p \in f.projects :
         /\ p.key = b.key /\ p.scope = b.scope /\ p.historical = b.historical
         /\ p.ready = b.ready /\ p.aliases \subseteq b.aliases
  BY DEF BindingOf
<1>2. /\ DOMAIN e = ProjectFields /\ e.key = p.key /\ e.scope = p.scope
      /\ e.historical = p.historical /\ p.aliases \subseteq e.aliases
  BY <1>1 DEF BindingOf, ProjectFields
<1>3. g.projects = {q \in f.projects : q.key # b.key} \cup {e}  BY DEF GrantedAs
<1>. HIDE DEF e
<1>4. \A q \in f.projects : q.key # b.key \/ q = p  BY <1>1 DEF Provisioned
<1>5. FileShape(g)
  <2>1. \A r \in DOMAIN g.regs : DOMAIN g.regs[r] = RegFields
    BY DEF GrantedAs, Provisioned, FileShape
  <2>2. DOMAIN g = {"requests", "regs", "projects"}  BY DEF GrantedAs, Provisioned, FileShape
  <2>3. \A q \in g.projects : DOMAIN q = ProjectFields  BY <1>2, <1>3 DEF Provisioned, FileShape
  <2>. QED  BY <2>1, <2>2, <2>3 DEF FileShape
<1>6. p.historical \subseteq s /\ p.scope \in s  BY <1>1 DEF Provisioned
<1>7. \A r \in DOMAIN g.regs : g.regs[r].projects \subseteq s /\ g.regs[r].historical \subseteq s
  BY <1>1, <1>6 DEF GrantedAs, Provisioned
<1>8. \A q \in g.projects : q.historical \subseteq s /\ (q.ready => q.scope \in s)
  BY <1>2, <1>3, <1>6 DEF Provisioned
<1>9. \A q, o \in g.projects : q.key = o.key => q = o  BY <1>1, <1>2, <1>3 DEF Provisioned
<1>10. Provisioned(g, s)  BY <1>5, <1>7, <1>8, <1>9 DEF Provisioned
<1>11. \A q \in f.projects : \E o \in g.projects :
          KeysOf(q) \subseteq KeysOf(o) /\ o.scope = q.scope /\ o.historical = q.historical
  BY <1>2, <1>3, <1>4 DEF KeysOf
<1>12. Sources(f) \subseteq Sources(g)
  <2>1. ASSUME NEW x \in Sources(f)  PROVE x \in Sources(g)
    <3>1. PICK q \in f.projects : Members \cap KeysOf(q) # {} /\ (x = q.scope \/ x \in q.historical)
      BY <2>1, InSources DEF Reviewed
    <3>2. PICK o \in g.projects :
             KeysOf(q) \subseteq KeysOf(o) /\ o.scope = q.scope /\ o.historical = q.historical
      BY <1>11
    <3>3. o \in Reviewed(g)  BY <3>1, <3>2 DEF Reviewed
    <3>. QED  BY <2>1, <3>1, <3>2, <3>3, InSources
  <2>. QED  BY <2>1
<1>13. \A ret, pl : Emptied(f, s, ret, pl) => Emptied(g, s, ret, pl)  BY <1>12 DEF Emptied
<1>14. ASSUME NEW ret, NEW beg, NEW posted, Deserted(f, ret, beg, posted)
       PROVE  Deserted(g, ret, beg, posted)
  BY <1>2, <1>3, <1>14 DEF Deserted
<1>. QED  BY <1>10, <1>13, <1>14

LEMMA GrantKeeps ==
    ASSUME EnrollInv, NEW c \in PublicCalls, Grant(c)
    PROVE  EnrollInv'
<1>. DEFINE b == inCall[c].binding  reg == inCall[c].reg
            v == [inCall[c] EXCEPT !.step = "found", !.binding = NoCall,
                      !.access = Access(file'.regs[reg], {})]
<1>1. /\ running /\ holder = c /\ inCall[c].step = "grant" /\ holder' = Nobody
      /\ inCall' = [inCall EXCEPT ![c] = v]
      /\ UNCHANGED <<running, closing, sessions, placeVars, commandVars>>
  BY DEF Grant
<1>2. /\ DOMAIN inCall[c] = CallFields /\ reg \in DOMAIN Regs
      /\ BindingOf(file, b) /\ b.scope \in scopes
  <2>1. CallFits(file, scopes, holder, c, inCall[c]) /\ inCall[c] # NoCall
        /\ DOMAIN inCall[c] = CallFields /\ inCall[c].reg \in DOMAIN Regs
    BY <1>1, CallShape
  <2>. QED  BY <1>1, <2>1 DEF CallFits
<1>3. DOMAIN v = CallFields /\ v.step = "found" /\ v.reg = reg  BY <1>2 DEF CallFields
<1>4. file' = [file EXCEPT !.projects = {p \in @ : p.key # b.key} \cup {[b EXCEPT !.ready = TRUE]},
                  !.regs[reg].projects = @ \cup {b.scope},
                  !.regs[reg].historical = @ \cup b.historical]
  BY DEF Grant
<1>. HIDE DEF v, b, reg
<1>5. FileShape(file)  BY DEF EnrollInv, Provisioned
<1>6. GrantedAs(file, file', reg, b)  BY <1>2, <1>4, <1>5, GrantedAsIs DEF Regs
<1>7. /\ Provisioned(file', scopes) /\ Emptied(file', scopes, retired, placed)
      /\ Deserted(file', retired, begun, cardScopes)
  BY <1>2, <1>6, GrantedAsFits DEF EnrollInv, Regs
<1>8. DOMAIN file'.regs = DOMAIN Regs /\ \A r \in DOMAIN Regs : file'.regs[r].revoked = Regs[r].revoked
  BY <1>2, <1>6 DEF GrantedAs, Regs
<1>9. SessionsFit(file, sessions', closing', inCall')  BY <1>1, OpensFit
<1>10. SessionsFit(file', sessions', closing', inCall')
  BY <1>8, <1>9, SessionsFollow DEF Regs
<1>11. DOMAIN inCall = PublicCalls /\ \A d \in PublicCalls : CallFits(file, scopes, c, d, inCall[d])
  BY <1>1 DEF EnrollInv, CallsFit
<1>12. ASSUME NEW d \in PublicCalls \ {c}  PROVE CallFits(file', scopes, Nobody, d, inCall[d])
  BY <1>8, <1>11 DEF CallFits, Regs
<1>13. CallFits(file', scopes, Nobody, c, v)  BY <1>2, <1>3, <1>8 DEF CallFits, Regs
<1>14. DOMAIN inCall' = PublicCalls /\ inCall'[c] = v /\ \A d \in PublicCalls \ {c} : inCall'[d] = inCall[d]
  BY <1>1, <1>11
<1>15. CallsFit(file', scopes, holder', inCall')
  BY <1>1, <1>12, <1>13, <1>14 DEF CallsFit
<1>16. cli = NoCall  BY <1>1 DEF EnrollInv, Commanded
<1>17. Commanded(file', running', holder', inCall', cli', begun', cardScopes')
  BY <1>1, <1>16 DEF Commanded, commandVars
<1>. QED  BY <1>1, <1>7, <1>10, <1>15, <1>17 DEF EnrollInv, placeVars, commandVars

-----------------------------------------------------------------------------
(* The operator's calls, and the life of the Runtime                       *)

LEMMA ApproveKeeps ==
    ASSUME EnrollInv, NEW q \in file.requests, Approve(q)
    PROVE  EnrollInv'
<1>. DEFINE reg == Cardinality(DOMAIN Regs) + 1  x == Decide(q, "approved", reg)
            e == Registration(q.client, {})
<1>1. /\ LockFree /\ file' = [file EXCEPT !.requests = x, !.regs = Put(@, reg, e)]
      /\ UNCHANGED <<running, runtimeVars, placeVars, commandVars>>
  BY DEF Approve
<1>2. DOMAIN e = RegFields /\ e.projects = {} /\ e.historical = {} /\ e.revoked = FALSE
  BY DEF Registration, RegFields
<1>. HIDE DEF e, reg, x
<1>3. DOMAIN file = {"requests", "regs", "projects"}  BY DEF EnrollInv, Provisioned, FileShape
<1>4. file'.regs = Put(file.regs, reg, e) /\ file'.projects = file.projects /\ DOMAIN file' = DOMAIN file
  BY <1>1, <1>3
<1>5. /\ DOMAIN file'.regs = DOMAIN Regs \cup {reg} /\ file'.regs[reg] = e
      /\ \A r \in DOMAIN Regs \ {reg} : file'.regs[r] = Regs[r]
  BY <1>4 DEF Put, Regs
<1>6. FileShape(file')  BY <1>2, <1>4, <1>5 DEF EnrollInv, Provisioned, FileShape, Regs
<1>7. \A r \in DOMAIN file'.regs :
        file'.regs[r].projects \subseteq scopes /\ file'.regs[r].historical \subseteq scopes
  BY <1>2, <1>5 DEF EnrollInv, Provisioned, Regs
<1>8. \A r \in DOMAIN Regs : file'.regs[r].revoked => Regs[r].revoked  BY <1>2, <1>5
<1>. QED  BY <1>1, <1>4, <1>5, <1>6, <1>7, <1>8, FileKeeps

LEMMA RejectKeeps ==
    ASSUME EnrollInv, NEW q \in file.requests, Reject(q)
    PROVE  EnrollInv'
BY RequestsKeep DEF Reject

LEMMA ExpireKeeps ==
    ASSUME EnrollInv, NEW q \in file.requests, Expire(q)
    PROVE  EnrollInv'
BY RequestsKeep DEF Expire

\* A registration whose grants stay what they are.
LEMMA RegistrationChanges ==
    ASSUME EnrollInv, NEW reg \in DOMAIN Regs, NEW e, DOMAIN e = RegFields,
           e.projects = Regs[reg].projects, e.historical = Regs[reg].historical,
           file'.regs = [file.regs EXCEPT ![reg] = e], file'.projects = file.projects,
           DOMAIN file' = DOMAIN file
    PROVE  /\ FileShape(file') /\ file'.projects = file.projects /\ DOMAIN file'.regs = DOMAIN Regs
           /\ file'.regs[reg] = e /\ \A r \in DOMAIN Regs \ {reg} : file'.regs[r] = Regs[r]
           /\ \A r \in DOMAIN file'.regs :
                 file'.regs[r].projects \subseteq scopes /\ file'.regs[r].historical \subseteq scopes
<1>1. DOMAIN file = {"requests", "regs", "projects"}  BY DEF EnrollInv, Provisioned, FileShape
<1>3. /\ DOMAIN file'.regs = DOMAIN Regs /\ file'.regs[reg] = e
      /\ \A r \in DOMAIN Regs \ {reg} : file'.regs[r] = Regs[r]
  BY DEF Regs
<1>4. FileShape(file')  BY <1>3 DEF EnrollInv, Provisioned, FileShape, Regs
<1>5. \A r \in DOMAIN file'.regs :
        file'.regs[r].projects \subseteq scopes /\ file'.regs[r].historical \subseteq scopes
  BY <1>3 DEF EnrollInv, Provisioned, Regs
<1>. QED  BY <1>3, <1>4, <1>5

LEMMA SetPolicyKeeps ==
    ASSUME EnrollInv, NEW reg \in DOMAIN Regs, SetPolicy(reg)
    PROVE  EnrollInv'
<1>. DEFINE e == [Regs[reg] EXCEPT !.policy = ~@]
<1>1. DOMAIN Regs[reg] = RegFields /\ DOMAIN file = {"requests", "regs", "projects"}
  BY DEF EnrollInv, Provisioned, FileShape, Regs
<1>2. /\ DOMAIN e = RegFields /\ e.projects = Regs[reg].projects
      /\ e.historical = Regs[reg].historical /\ e.revoked = Regs[reg].revoked
  BY <1>1 DEF RegFields
<1>3. /\ file'.regs = [file.regs EXCEPT ![reg] = e] /\ file'.projects = file.projects
      /\ DOMAIN file' = DOMAIN file
  <2>1. file' = [file EXCEPT !.regs[reg].policy = ~@]  BY DEF SetPolicy
  <2>. QED  BY <1>1, <2>1 DEF Regs
<1>4. LockFree /\ UNCHANGED <<running, runtimeVars, placeVars, commandVars>>  BY DEF SetPolicy
<1>. HIDE DEF e
<1>. QED  BY <1>2, <1>3, <1>4, RegistrationChanges, FileKeeps

\* The endpoint of a registration that is revoked is on its way to be closed.
LEMMA RevokeKeeps ==
    ASSUME EnrollInv, NEW reg \in DOMAIN Regs, Revoke(reg)
    PROVE  EnrollInv'
<1>. DEFINE e == [Regs[reg] EXCEPT !.revoked = TRUE]
            x == {IF q.decision = "approved" /\ q.reg = reg
                  THEN [q EXCEPT !.decision = "rejected"] ELSE q : q \in file.requests}
<1>1. DOMAIN Regs[reg] = RegFields /\ DOMAIN file = {"requests", "regs", "projects"}
  BY DEF EnrollInv, Provisioned, FileShape, Regs
<1>2. /\ DOMAIN e = RegFields /\ e.projects = Regs[reg].projects
      /\ e.historical = Regs[reg].historical
  BY <1>1 DEF RegFields
<1>3. /\ file'.regs = [file.regs EXCEPT ![reg] = e] /\ file'.projects = file.projects
      /\ DOMAIN file' = DOMAIN file
  <2>1. file' = [file EXCEPT !.regs[reg].revoked = TRUE, !.requests = x]  BY DEF Revoke
  <2>. HIDE DEF x
  <2>. QED  BY <1>1, <2>1 DEF Regs
<1>4. /\ LockFree /\ closing' = closing \cup {reg}
      /\ UNCHANGED <<running, holder, inCall, sessions, placeVars, commandVars>>
  BY DEF Revoke
<1>. HIDE DEF e, x
<1>5. /\ FileShape(file') /\ file'.projects = file.projects /\ DOMAIN file'.regs = DOMAIN Regs
      /\ file'.regs[reg] = e /\ \A r \in DOMAIN Regs \ {reg} : file'.regs[r] = Regs[r]
      /\ \A r \in DOMAIN file'.regs :
            file'.regs[r].projects \subseteq scopes /\ file'.regs[r].historical \subseteq scopes
  BY <1>2, <1>3, RegistrationChanges
<1>6. /\ Provisioned(file', scopes) /\ CallsFit(file', scopes, holder, inCall)
      /\ Emptied(file', scopes, retired, placed) /\ Deserted(file', retired, begun, cardScopes)
      /\ Commanded(file', running, holder, inCall, cli, begun, cardScopes)
  BY <1>4, <1>5, FileFollows
<1>7. SessionsFit(file', sessions, closing', inCall)
  BY <1>4, <1>5 DEF EnrollInv, SessionsFit, Regs
<1>. QED  BY <1>4, <1>6, <1>7 DEF EnrollInv, placeVars, commandVars

LEMMA CloseRevokedKeeps ==
    ASSUME EnrollInv, NEW reg \in DOMAIN Regs, CloseRevoked(reg)
    PROVE  EnrollInv'
<1>1. /\ DOMAIN sessions' = DOMAIN sessions \ {reg} /\ closing' = closing \ {reg}
      /\ UNCHANGED <<file, running, holder, inCall, placeVars, commandVars>>
  BY DEF CloseRevoked, Drop
<1>2. SessionsFit(file, sessions', closing', inCall)  BY <1>1 DEF EnrollInv, SessionsFit
<1>. QED  BY <1>1, <1>2 DEF EnrollInv, placeVars, commandVars

LEMMA StopKeeps ==
    ASSUME EnrollInv, Stop
    PROVE  EnrollInv'
<1>1. /\ running /\ running' = FALSE /\ holder' = Nobody /\ closing' = {} /\ DOMAIN sessions' = {}
      /\ inCall' = [c \in PublicCalls |-> NoCall] /\ UNCHANGED <<file, placeVars, commandVars>>
  BY DEF Stop, NoRows
<1>2. CallsFit(file, scopes, holder', inCall')  BY <1>1 DEF CallsFit, CallFits
<1>3. SessionsFit(file, sessions', closing', inCall')  BY <1>1 DEF SessionsFit
<1>4. cli = NoCall  BY <1>1 DEF EnrollInv, Commanded
<1>5. Commanded(file, running', holder', inCall', cli, begun, cardScopes)
  BY <1>1, <1>4 DEF Commanded
<1>. QED  BY <1>1, <1>2, <1>3, <1>5 DEF EnrollInv, placeVars, commandVars

LEMMA StartKeeps ==
    ASSUME EnrollInv, Start
    PROVE  EnrollInv'
<1>1. /\ cli = NoCall /\ running' /\ UNCHANGED <<file, runtimeVars, placeVars, commandVars>>
  BY DEF Start
<1>2. Commanded(file, running', holder, inCall, cli, begun, cardScopes)
  BY <1>1 DEF Commanded
<1>. QED  BY <1>1, <1>2 DEF EnrollInv, runtimeVars, placeVars, commandVars

-----------------------------------------------------------------------------
(* The store, and the steps of a merge                                     *)

\* A Page is written where it may be, in a Scope that exists and is not retired.
LEMMA AddPageKeeps ==
    ASSUME EnrollInv, NEW scope, AddPage(scope)
    PROVE  EnrollInv'
<1>. DEFINE p == Cardinality(DOMAIN placed) + 1  e == [scope |-> scope, rev |-> 1]
<1>1. /\ scope \in scopes /\ scope \notin DOMAIN retired /\ placed' = Put(placed, p, e)
      /\ UNCHANGED <<file, running, runtimeVars, scopes, retired, commandVars>>
  BY DEF AddPage, Writable
<1>. HIDE DEF p
<1>2. /\ DOMAIN placed' = DOMAIN placed \cup {p} /\ placed'[p].scope = scope
      /\ \A o \in DOMAIN placed \ {p} : placed'[o] = placed[o]
  BY <1>1 DEF Put
<1>3. Emptied(file, scopes, retired, placed')  BY <1>1, <1>2 DEF EnrollInv, Emptied
<1>. QED  BY <1>1, <1>3 DEF EnrollInv, runtimeVars, commandVars

LEMMA ReviewKeeps ==
    ASSUME EnrollInv, Review
    PROVE  EnrollInv'
<1>1. UNCHANGED <<file, running, runtimeVars, placeVars, cardScopes, cli, begun>>  BY DEF Review
<1>. QED  BY <1>1 DEF EnrollInv, runtimeVars, placeVars

LEMMA PrepareKeeps ==
    ASSUME EnrollInv, Prepare
    PROVE  EnrollInv'
<1>1. /\ ~running /\ Mergeable(file) /\ IsValid(Merged(file)) /\ begun'
      /\ cli' = [step |-> "transfer", original |-> file,
                 transfers |-> {t \in plan.pages : IsReady(t)}, retire |-> Sources(file)]
      /\ UNCHANGED <<file, running, runtimeVars, placeVars, cardScopes>>
  BY DEF Prepare
<1>2. Commanded(file, running, holder, inCall, cli', begun', cardScopes)
  BY <1>1 DEF EnrollInv, Commanded, CommandFields
<1>3. Deserted(file, retired, begun', cardScopes)  BY <1>1 DEF Deserted
<1>. QED  BY <1>1, <1>2, <1>3 DEF EnrollInv, runtimeVars, placeVars

LEMMA TransferKeeps ==
    ASSUME EnrollInv, cli # NoCall, NEW t \in cli.transfers, Transfer(t)
    PROVE  EnrollInv'
<1>. DEFINE e == [scope |-> Target, rev |-> t[2] + 1]
<1>1. /\ Target \in scopes /\ Target \notin DOMAIN retired /\ placed' = [placed EXCEPT ![t[1]] = e]
      /\ cli' = [cli EXCEPT !.transfers = @ \ {t}]
      /\ UNCHANGED <<file, running, runtimeVars, scopes, retired, cardScopes, begun>>
  BY DEF Transfer, Writable
<1>2. e.scope = Target  OBVIOUS
<1>. HIDE DEF e
<1>3. /\ DOMAIN placed' = DOMAIN placed
      /\ \A o \in DOMAIN placed : placed'[o] = IF o = t[1] THEN e ELSE placed[o]
  BY <1>1
<1>4. Emptied(file, scopes, retired, placed')  BY <1>1, <1>2, <1>3 DEF EnrollInv, Emptied
<1>5. DOMAIN cli = CommandFields  BY DEF EnrollInv, Commanded
<1>6. /\ DOMAIN cli' = CommandFields /\ cli'.original = cli.original /\ cli'.retire = cli.retire
      /\ cli'.step = cli.step
  BY <1>1, <1>5 DEF CommandFields
<1>7. Commanded(file, running, holder, inCall, cli', begun, cardScopes)
  BY <1>6 DEF EnrollInv, Commanded
<1>. QED  BY <1>1, <1>4, <1>7 DEF EnrollInv, runtimeVars

\* What a merge retires exists: its projects are ready.
LEMMA SourcesExist ==
    ASSUME NEW f, NEW s, Provisioned(f, s), Mergeable(f)
    PROVE  Sources(f) \subseteq s /\ Target \in s
<1>1. \A p \in Reviewed(f) : p \in f.projects /\ p.ready  BY DEF Mergeable, Reviewed
<1>2. \A p \in Reviewed(f) : p.scope \in s /\ p.historical \subseteq s  BY <1>1 DEF Provisioned
<1>3. ASSUME NEW x \in Sources(f)  PROVE x \in s  BY <1>2, InSources
<1>4. \E p \in Reviewed(f) : p.scope = Target  BY DEF Mergeable
<1>. QED  BY <1>2, <1>3, <1>4

\* A Scope that is retired is empty, exists, and belongs to the group that is merged.
LEMMA RetireKeeps ==
    ASSUME EnrollInv, cli # NoCall, NEW s \in cli.retire, Retire(s)
    PROVE  EnrollInv'
<1>1. /\ cli' = [cli EXCEPT !.retire = @ \ {s}]
      /\ UNCHANGED <<file, running, runtimeVars, scopes, placed, cardScopes, begun>>
      /\ \/ retired' = retired
         \/ (\A p \in DOMAIN placed : placed[p].scope # s) /\ retired' = Put(retired, s, Target)
  BY DEF Retire
<1>2. begun /\ DOMAIN cli = CommandFields /\ s \in Sources(file) /\ s \in scopes
  BY SourcesExist DEF EnrollInv, Commanded
<1>3. retired' = retired \/ DOMAIN retired' = DOMAIN retired \cup {s}  BY <1>1 DEF Put
<1>4. Emptied(file, scopes, retired', placed)  BY <1>1, <1>2, <1>3 DEF EnrollInv, Emptied
<1>5. Deserted(file, retired', begun, cardScopes)  BY <1>2 DEF Deserted
<1>6. /\ DOMAIN cli' = CommandFields /\ cli'.original = cli.original /\ cli'.retire \subseteq cli.retire
      /\ cli'.step = cli.step
  BY <1>1, <1>2 DEF CommandFields
<1>7. Commanded(file, running, holder, inCall, cli', begun, cardScopes)
  BY <1>6 DEF EnrollInv, Commanded
<1>. QED  BY <1>1, <1>4, <1>5, <1>7 DEF EnrollInv, runtimeVars

LEMMA PublishContextKeeps ==
    ASSUME EnrollInv, PublishContext
    PROVE  EnrollInv'
<1>1. /\ cli.step = "transfer" /\ cardScopes' = Moved(cardScopes, cli.original)
      /\ cli' = [cli EXCEPT !.step = "publish"]
      /\ UNCHANGED <<file, running, runtimeVars, placeVars, begun>>
  BY DEF PublishContext
<1>2. cli # NoCall  BY <1>1 DEF NoCall
<1>3. begun /\ DOMAIN cli = CommandFields /\ cli.original = file  BY <1>2 DEF EnrollInv, Commanded
<1>4. Target \notin Sources(file)  BY InSources
<1>5. cardScopes' \cap Sources(file) = {}  BY <1>1, <1>3, <1>4 DEF Moved
<1>6. /\ DOMAIN cli' = CommandFields /\ cli'.original = cli.original /\ cli'.retire = cli.retire
      /\ cli'.step = "publish"
  BY <1>1, <1>3 DEF CommandFields
<1>7. Commanded(file, running, holder, inCall, cli', begun, cardScopes')
  BY <1>2, <1>5, <1>6 DEF EnrollInv, Commanded
<1>8. Deserted(file, retired, begun, cardScopes')  BY <1>3 DEF Deserted
<1>. QED  BY <1>1, <1>7, <1>8 DEF EnrollInv, runtimeVars, placeVars

-----------------------------------------------------------------------------
(* The state that a merge publishes                                        *)

LEMMA CanonicalIs ==
    ASSUME NEW f, NEW s, Provisioned(f, s), Mergeable(f)
    PROVE  LET C == Canonical(f)
           IN  /\ DOMAIN C = ProjectFields /\ C.key = Target /\ C.scope = Target
               /\ C.historical = Sources(f)
<1>. DEFINE m == CHOOSE p \in Reviewed(f) : p.scope = Target
            a == (UNION {KeysOf(p) : p \in Reviewed(f)}) \ {Target}
<1>1. m \in Reviewed(f) /\ m.scope = Target
  <2>1. \E p \in Reviewed(f) : p.scope = Target  BY DEF Mergeable
  <2>. QED  BY <2>1
<1>2. DOMAIN m = ProjectFields  BY <1>1 DEF Reviewed, Provisioned, FileShape
<1>3. Canonical(f) = [m EXCEPT !.key = Target, !.historical = Sources(f), !.aliases = a]
  BY DEF Canonical
<1>. HIDE DEF m, a
<1>. QED  BY <1>1, <1>2, <1>3 DEF ProjectFields

LEMMA RegrantedIs ==
    ASSUME NEW f, NEW s, Provisioned(f, s), Mergeable(f), NEW r \in DOMAIN f.regs
    PROVE  LET e == Regranted(f.regs[r], f)
           IN  /\ DOMAIN e = RegFields /\ e.revoked = f.regs[r].revoked
               /\ e.projects \subseteq s /\ e.historical \subseteq s
<1>. DEFINE old == f.regs[r]
            H == UNION {p.historical : p \in {p \in Unified(f) : p.scope \in Moved(old.projects, f)}}
            e == Regranted(old, f)
<1>1. e = [old EXCEPT !.projects = Moved(@, f), !.scopes = Moved(@, f), !.historical = @ \cup H]
  BY DEF Regranted
<1>2. DOMAIN old = RegFields /\ old.projects \subseteq s /\ old.historical \subseteq s
  BY DEF Provisioned, FileShape
<1>3. Sources(f) \subseteq s /\ Target \in s  BY SourcesExist
<1>4. Moved(old.projects, f) \subseteq s  BY <1>2, <1>3 DEF Moved
<1>5. \A p \in Unified(f) : p.historical \subseteq s
  BY <1>3, CanonicalIs DEF Unified, Provisioned
<1>6. H \subseteq s
  <2>1. ASSUME NEW x \in H  PROVE x \in s
    <3>1. PICK p \in Unified(f) : x \in p.historical  BY <2>1
    <3>. QED  BY <3>1, <1>5
  <2>. QED  BY <2>1
<1>. HIDE DEF H, old, e
<1>7. /\ DOMAIN e = RegFields /\ e.revoked = old.revoked /\ e.projects = Moved(old.projects, f)
      /\ e.historical = old.historical \cup H
  BY <1>1, <1>2 DEF RegFields
<1>8. e.projects \subseteq s /\ e.historical \subseteq s  BY <1>2, <1>4, <1>6, <1>7
<1>. QED  BY <1>7, <1>8 DEF e, old

\* The merged file, part by part.
LEMMA MergedFits ==
    ASSUME NEW f, NEW s, Provisioned(f, s), Mergeable(f), NEW g, g = Merged(f)
    PROVE  /\ Provisioned(g, s) /\ DOMAIN g.regs = DOMAIN f.regs
           /\ \A r \in DOMAIN f.regs : g.regs[r].revoked = f.regs[r].revoked
           /\ g.projects = (f.projects \ Reviewed(f)) \cup {Canonical(f)}
           /\ Canonical(f) \notin f.projects \ Reviewed(f) /\ Canonical(f).scope = Target
           /\ Canonical(f).historical = Sources(f) /\ Sources(f) \subseteq Sources(g)
<1>. DEFINE C == Canonical(f)
<1>1. DOMAIN C = ProjectFields /\ C.key = Target /\ C.scope = Target /\ C.historical = Sources(f)
  BY CanonicalIs
<1>2. /\ DOMAIN g = {"requests", "regs", "projects"}
      /\ g.projects = (f.projects \ Reviewed(f)) \cup {C}
      /\ g.regs = [r \in DOMAIN f.regs |-> Regranted(f.regs[r], f)]
  BY DEF Merged, Unified
<1>. HIDE DEF C
<1>3. /\ DOMAIN g.regs = DOMAIN f.regs
      /\ \A r \in DOMAIN f.regs : g.regs[r] = Regranted(f.regs[r], f)
  BY <1>2
<1>4. \A r \in DOMAIN f.regs :
        /\ DOMAIN g.regs[r] = RegFields /\ g.regs[r].revoked = f.regs[r].revoked
        /\ g.regs[r].projects \subseteq s /\ g.regs[r].historical \subseteq s
  BY <1>3, RegrantedIs
<1>5. Sources(f) \subseteq s /\ Target \in s  BY SourcesExist
<1>6. FileShape(g)  BY <1>1, <1>2, <1>3, <1>4 DEF FileShape, Provisioned
<1>7. Target \in KeysOf(C) /\ Target \in Members  BY <1>1, EnrollmentAssumption DEF KeysOf
<1>8. \A q \in f.projects \ Reviewed(f) : q.key # Target  BY <1>7 DEF Reviewed, KeysOf
<1>9. C \notin f.projects \ Reviewed(f)  BY <1>1, <1>8
<1>10. Provisioned(g, s)
  <2>1. \A p \in g.projects : p.historical \subseteq s /\ (p.ready => p.scope \in s)
    BY <1>1, <1>2, <1>5 DEF Provisioned
  <2>2. \A p, q \in g.projects : p.key = q.key => p = q
    BY <1>1, <1>2, <1>8 DEF Provisioned
  <2>. QED  BY <1>3, <1>4, <1>6, <2>1, <2>2 DEF Provisioned
<1>11. C \in Reviewed(g)  BY <1>2, <1>7 DEF Reviewed
<1>12. ASSUME NEW x \in Sources(f)  PROVE x \in Sources(g)
  <2>1. x # Target  BY InSources
  <2>. QED  BY <1>1, <1>11, <2>1, InSources
<1>. QED  BY <1>1, <1>2, <1>3, <1>4, <1>9, <1>10, <1>12 DEF C

\* What was retired belongs to the canonical project alone.
LEMMA PublishKeeps ==
    ASSUME EnrollInv, Publish
    PROVE  EnrollInv'
<1>1. /\ cli.step = "publish" /\ file' = Merged(file) /\ cli' = NoCall /\ begun' = FALSE
      /\ UNCHANGED <<running, runtimeVars, placeVars, cardScopes>>
  BY DEF Publish
<1>2. cli # NoCall  BY <1>1 DEF NoCall
<1>3. /\ ~running /\ Mergeable(file) /\ IsValid(file') /\ cardScopes \cap Sources(file) = {}
      /\ holder = Nobody /\ \A c \in PublicCalls : inCall[c] = NoCall
  BY <1>1, <1>2 DEF EnrollInv, Commanded
<1>. DEFINE C == Canonical(file)
<1>4. /\ Provisioned(file', scopes) /\ DOMAIN file'.regs = DOMAIN file.regs
      /\ \A r \in DOMAIN file.regs : file'.regs[r].revoked = file.regs[r].revoked
      /\ file'.projects = (file.projects \ Reviewed(file)) \cup {C}
      /\ C \notin file.projects \ Reviewed(file) /\ C.scope = Target
      /\ C.historical = Sources(file) /\ Sources(file) \subseteq Sources(file')
  <2>1. Provisioned(file, scopes) /\ Mergeable(file) /\ file' = Merged(file)
    BY <1>1, <1>3 DEF EnrollInv
  <2>. QED  BY ONLY <2>1, MergedFits
<1>. HIDE DEF C
<1>5. CallsFit(file', scopes, holder, inCall)  BY <1>3 DEF EnrollInv, CallsFit, CallFits
<1>6. SessionsFit(file', sessions, closing, inCall)
  BY <1>4, SessionsFollow DEF EnrollInv
<1>7. Emptied(file', scopes, retired, placed)  BY <1>4 DEF EnrollInv, Emptied
<1>8. DOMAIN retired \subseteq Sources(file) /\ Target \notin Sources(file)
  BY InSources DEF EnrollInv, Emptied
<1>9. ASSUME NEW p \in file'.projects  PROVE p.scope \notin DOMAIN retired
  <2>1. CASE p = C  BY <2>1, <1>4, <1>8
  <2>2. CASE p # C
    <3>1. ({p.scope} \cup p.historical) \cap ({C.scope} \cup C.historical) = {}
      BY <1>3, <1>4, <2>2 DEF IsValid
    <3>. QED  BY <1>4, <1>8, <3>1
  <2>. QED  BY <2>1, <2>2
<1>10. Deserted(file', retired, begun', cardScopes)  BY <1>3, <1>8, <1>9 DEF Deserted
<1>11. Commanded(file', running, holder, inCall, cli', begun', cardScopes)
  BY <1>1, <1>3 DEF Commanded
<1>. QED  BY <1>1, <1>4, <1>5, <1>6, <1>7, <1>10, <1>11 DEF EnrollInv, runtimeVars, placeVars

LEMMA AbortKeeps ==
    ASSUME EnrollInv, Abort
    PROVE  EnrollInv'
<1>1. /\ cli' = NoCall /\ UNCHANGED <<file, running, runtimeVars, placeVars, cardScopes, begun>>
  BY DEF Abort
<1>2. Commanded(file, running, holder, inCall, cli', begun, cardScopes)
  BY <1>1 DEF EnrollInv, Commanded
<1>. QED  BY <1>1, <1>2 DEF EnrollInv, runtimeVars, placeVars

-----------------------------------------------------------------------------
(* The theorems                                                            *)

LEMMA EnrollmentStarts ==
    ASSUME EnrollmentInit
    PROVE  EnrollInv
<1>. DEFINE owner == CHOOSE c \in Clients : c \notin Wide
            R == Registration(owner, Registered)
            B(k) == [Binding(k, k, 1) EXCEPT !.ready = TRUE]
<1>1. /\ file = IF Registered = {} THEN [requests |-> {}, regs |-> <<>>, projects |-> {}]
                ELSE [requests |-> {[client |-> owner, scopes |-> Wanted[owner],
                                     decision |-> "approved", reg |-> 1]},
                      regs |-> <<R>>, projects |-> {B(k) : k \in Registered}]
      /\ Registered \subseteq scopes
  BY DEF EnrollmentInit
<1>2. DOMAIN R = RegFields /\ R.projects = Registered /\ R.historical = {}
  BY DEF Registration, RegFields
<1>3. \A k : /\ DOMAIN B(k) = ProjectFields /\ B(k).key = k /\ B(k).scope = k
             /\ B(k).historical = {}
  BY DEF Binding, ProjectFields
<1>. HIDE DEF owner, R, B
<1>4. DOMAIN file = {"requests", "regs", "projects"}  BY <1>1
<1>5. \A r \in DOMAIN file.regs : file.regs[r] = R
  <2>1. file.regs = <<>> \/ file.regs = <<R>>  BY <1>1
  <2>2. CASE file.regs = <<>>  BY <2>2
  <2>3. CASE file.regs = <<R>>  BY <2>3
  <2>. QED  BY <2>1, <2>2, <2>3
<1>6. \A p \in file.projects : \E k \in Registered : p = B(k)  BY <1>1
<1>7. FileShape(file)  BY <1>2, <1>3, <1>4, <1>5, <1>6 DEF FileShape
<1>8. Provisioned(file, scopes)
  <2>1. \A r \in DOMAIN file.regs :
          file.regs[r].projects \subseteq scopes /\ file.regs[r].historical \subseteq scopes
    BY <1>1, <1>2, <1>5
  <2>2. \A p \in file.projects : p.historical \subseteq scopes /\ p.scope \in scopes
    BY <1>1, <1>3, <1>6
  <2>3. \A p, q \in file.projects : p.key = q.key => p = q  BY <1>3, <1>6
  <2>. QED  BY <1>7, <2>1, <2>2, <2>3 DEF Provisioned
<1>9. /\ running /\ holder = Nobody /\ closing = {} /\ DOMAIN sessions = {}
      /\ inCall = [c \in PublicCalls |-> NoCall] /\ DOMAIN retired = {} /\ DOMAIN placed = {}
      /\ cli = NoCall
  BY DEF EnrollmentInit, NoRows
<1>10. CallsFit(file, scopes, holder, inCall)  BY <1>9 DEF CallsFit, CallFits
<1>11. SessionsFit(file, sessions, closing, inCall) /\ Emptied(file, scopes, retired, placed)
       /\ Deserted(file, retired, begun, cardScopes)
  BY <1>9 DEF SessionsFit, Emptied, Deserted
<1>12. Commanded(file, running, holder, inCall, cli, begun, cardScopes)  BY <1>9 DEF Commanded
<1>. QED  BY <1>8, <1>10, <1>11, <1>12 DEF EnrollInv

LEMMA EnrollmentKeeps ==
    ASSUME EnrollInv, [EnrollmentNext]_enrollmentVars
    PROVE  EnrollInv'
<1>1. CASE UNCHANGED enrollmentVars
  BY <1>1 DEF EnrollInv, enrollmentVars
<1>2. ASSUME NEW c \in PublicCalls, \E client \in Clients : BeginEnrollment(c, client)  PROVE EnrollInv'
  BY <1>2, BeginKeeps
<1>3. ASSUME NEW c \in PublicCalls, \E reg \in DOMAIN Regs : Open(c, reg)  PROVE EnrollInv'
  BY <1>3, OpenKeeps
<1>4. ASSUME NEW c \in PublicCalls,
             Materialize(c) \/ Install(c) \/ Confirm(c) \/ CloseInactive(c) \/ Fail(c)
      PROVE  EnrollInv'
  BY <1>4, MaterializeKeeps, InstallKeeps, ConfirmKeeps, CloseInactiveKeeps, FailKeeps
<1>5. ASSUME NEW c \in PublicCalls, NEW reg \in DOMAIN Regs, NEW key \in Keys,
             NEW existing \in Adoptable \cup {Nobody}, EnsureProjectScope(c, reg, key, existing)
      PROVE  EnrollInv'
  BY <1>5, EnsureKeeps
<1>6. ASSUME NEW c \in PublicCalls, Provision(c) \/ Grant(c)  PROVE EnrollInv'
  BY <1>6, ProvisionKeeps, GrantKeeps
<1>7. ASSUME NEW q \in file.requests, Approve(q) \/ Reject(q) \/ Expire(q)  PROVE EnrollInv'
  BY <1>7, ApproveKeeps, RejectKeeps, ExpireKeeps
<1>8. ASSUME NEW reg \in DOMAIN Regs, SetPolicy(reg) \/ Revoke(reg) \/ CloseRevoked(reg)
      PROVE  EnrollInv'
  BY <1>8, SetPolicyKeeps, RevokeKeeps, CloseRevokedKeeps
<1>9. CASE Stop \/ Start  BY <1>9, StopKeeps, StartKeeps
<1>10. ASSUME NEW s \in scopes,
              IngestEmbedded(s) \/ \E reg \in DOMAIN sessions : Ingest(reg, s)
       PROVE  EnrollInv'
  BY <1>10, AddPageKeeps DEF IngestEmbedded, Ingest
<1>11. CASE Review \/ Prepare \/ PublishContext \/ Publish \/ Abort
  BY <1>11, ReviewKeeps, PrepareKeeps, PublishContextKeeps, PublishKeeps, AbortKeeps
<1>12. CASE cli # NoCall /\ \E t \in cli.transfers : Transfer(t)  BY <1>12, TransferKeeps
<1>13. CASE cli # NoCall /\ \E s \in cli.retire : Retire(s)  BY <1>13, RetireKeeps
<1>. QED
  BY <1>1, <1>2, <1>3, <1>4, <1>5, <1>6, <1>7, <1>8, <1>9, <1>10, <1>11, <1>12, <1>13
  DEF EnrollmentNext

\* The invariant that the rest follows from: the file, the calls, the sessions, the
\* retired Scopes and the command that runs agree with each other.
THEOREM EnrollmentInvariant == EnrollmentSpec => []EnrollInv
<1>. QED  BY EnrollmentStarts, EnrollmentKeeps, PTL DEF EnrollmentSpec

\* The state has its type at all times: a lock is held only between the binding and the
\* grant of a project, and sessions, Pages and retired Scopes refer to what there is.
THEOREM EnrollmentIsTyped == EnrollmentSpec => []EnrollmentTypeOK
<1>1. EnrollInv => EnrollmentTypeOK
  BY DEF EnrollInv, EnrollmentTypeOK, CallsFit, SessionsFit, Emptied, Regs
<1>. QED  BY <1>1, EnrollmentInvariant, PTL

\* Whatever the order of calls, stops and aborted merges: no endpoint of a revoked
\* registration stays open with nobody to close it; a grant is for a Scope that exists;
\* a Scope that was retired has no Page, project or activity card once the merge is done.
THEOREM AccessEndsAlways == EnrollmentSpec => []AccessEnds
<1>1. EnrollInv => RevokedIsClosed
  BY DEF EnrollInv, RevokedIsClosed, SessionsFit, Closing, IsActive, Regs
<1>2. EnrollInv => GrantIsProvisioned
  BY DEF EnrollInv, GrantIsProvisioned, Provisioned, Regs
<1>3. EnrollInv => RetiredIsLeft
  BY DEF EnrollInv, RetiredIsLeft, Emptied, Deserted, Projects
<1>4. EnrollInv => AccessEnds  BY <1>1, <1>2, <1>3 DEF AccessEnds
<1>. QED  BY <1>4, EnrollmentInvariant, PTL

-----------------------------------------------------------------------------
(* The withdrawal of an automatic output                                   *)

Created == {o \in Outputs : Kind[o] = "create"}
Updated == {o \in Outputs : Kind[o] = "update"}
Hands ==
    {NoWithdrawal}
    \cup [step : {"look", "archive", "receipt"}, output : Created, operator : Operators]
    \cup [step : {"restore", "receipt"}, output : Updated, operator : Operators]

\* The Revision the review wrote stays where it was written, and the Revision of a
\* withdrawal can only be the one after it.
Undoes(r) == \E n \in DOMAIN r : r[n] = "undo"
Grown(r, w) ==
    /\ r \in Seq(Makers) /\ w <= Len(r) /\ r[w] = "auto"
    /\ \A n \in DOMAIN r : r[n] = "undo" => n = w + 1
Restored(o) == Undoes(outputs[o].revs)
Receipts(o) ==
    {"none"} \cup (IF Kind[o] = "create" THEN {"withdrawing", "archived"}
                   ELSE IF Kind[o] = "update" THEN {"withdrawing", "restored"} ELSE {})

Marks == {"none", "withdrawing", "archived", "restored"}

WithdrawalInv ==
    /\ outputs \in [Outputs -> [status : Statuses, revs : Seq(Makers)]]
    /\ \A o \in Outputs : Grown(outputs[o].revs, Written(o))
    /\ undoKeys \subseteq Operators \X Updated
    /\ \A k \in undoKeys : Restored(k[2])
    /\ receipts \in [Outputs -> Marks]
    /\ \A o \in Outputs : receipts[o] \in Receipts(o) /\ (receipts[o] = "restored" => Restored(o))
    /\ hand \in Hands
    /\ hand # NoWithdrawal /\ hand.step = "receipt" /\ hand.output \in Updated => Restored(hand.output)

\* s has one Revision more than r, by m.
Longer(s, r, m) ==
    /\ s \in Seq(Makers) /\ Len(s) = Len(r) + 1 /\ DOMAIN s = 1 .. (Len(r) + 1)
    /\ s[Len(r) + 1] = m
    /\ \A n \in 1 .. Len(r) : s[n] = r[n]

LEMMA NextIndex ==
    ASSUME NEW k \in Nat
    PROVE  /\ \A n \in 1 .. (k + 1) : n \in 1 .. k \/ n = k + 1
           /\ 1 .. k \subseteq 1 .. (k + 1) /\ k + 1 \in 1 .. (k + 1)
OBVIOUS

LEMMA LongerKeeps ==
    ASSUME NEW w \in 1 .. 2, NEW r, Grown(r, w), NEW m, m = "undo" => Len(r) = w,
           NEW s, Longer(s, r, m)
    PROVE  Grown(s, w) /\ (Undoes(r) => Undoes(s)) /\ (m = "undo" => Undoes(s))
<1>1. Len(r) \in Nat /\ w <= Len(r) /\ w \in 1 .. Len(r) /\ DOMAIN r = 1 .. Len(r) /\ w <= Len(r) + 1
  BY DEF Grown
<1>2. /\ DOMAIN s = 1 .. (Len(r) + 1) /\ s[Len(r) + 1] = m /\ s \in Seq(Makers) /\ Len(s) = Len(r) + 1
      /\ \A n \in 1 .. Len(r) : s[n] = r[n]
  BY DEF Longer
<1>3. \A n \in DOMAIN s : n \in 1 .. Len(r) \/ n = Len(r) + 1  BY <1>1, <1>2, NextIndex
<1>4. 1 .. Len(r) \subseteq DOMAIN s /\ Len(r) + 1 \in DOMAIN s  BY <1>1, <1>2, NextIndex
<1>5. \A n \in DOMAIN r : r[n] = "undo" => n = w + 1  BY DEF Grown
<1>6. \A n \in DOMAIN s : s[n] = "undo" => n = w + 1
  BY <1>1, <1>2, <1>3, <1>5
<1>7. s[w] = "auto"  BY <1>1, <1>2 DEF Grown
<1>8. Grown(s, w)  BY <1>1, <1>2, <1>6, <1>7, <1>8 DEF Grown
<1>9. Undoes(r) => Undoes(s)  BY <1>1, <1>2, <1>4 DEF Undoes
<1>10. m = "undo" => Undoes(s)  BY <1>2, <1>4 DEF Undoes
<1>. QED  BY <1>8, <1>9, <1>10

LEMMA AppendKeeps ==
    ASSUME NEW w \in 1 .. 2, NEW r, Grown(r, w), NEW m \in Makers, m # "undo" \/ Len(r) = w
    PROVE  Grown(Append(r, m), w) /\ (Undoes(r) => Undoes(Append(r, m)))
           /\ (m = "undo" => Undoes(Append(r, m)))
<1>1. r \in Seq(Makers)  BY DEF Grown
<1>2. /\ Append(r, m) \in Seq(Makers) /\ Len(Append(r, m)) = Len(r) + 1
      /\ Append(r, m)[Len(r) + 1] = m
      /\ \A n \in 1 .. Len(r) : Append(r, m)[n] = r[n]
  BY <1>1, AppendProperties
<1>3. Len(r) \in Nat /\ Longer(Append(r, m), r, m)  BY <1>1, <1>2 DEF Longer
<1>. QED  BY <1>3, LongerKeeps

LEMMA WrittenTyped ==
    ASSUME NEW o \in Outputs
    PROVE  Written(o) \in 1 .. 2
BY DEF Written

\* A Page that is revised, by whom it may be.
LEMMA ReviseKeeps ==
    ASSUME WithdrawalInv, NEW o \in Outputs, NEW m \in Makers, NEW st \in Statuses,
           m # "undo" \/ Latest(o) = Written(o), outputs' = Revise(o, m, st)
    PROVE  /\ outputs' \in [Outputs -> [status : Statuses, revs : Seq(Makers)]]
           /\ \A q \in Outputs : Grown(outputs'[q].revs, Written(q))
           /\ \A q \in Outputs : Undoes(outputs[q].revs) => Undoes(outputs'[q].revs)
           /\ m = "undo" => Undoes(outputs'[o].revs)
<1>. DEFINE r == outputs[o].revs
<1>1. Grown(r, Written(o)) /\ Len(r) = Latest(o)  BY DEF WithdrawalInv, Latest
<1>2. /\ Grown(Append(r, m), Written(o)) /\ (Undoes(r) => Undoes(Append(r, m)))
      /\ (m = "undo" => Undoes(Append(r, m)))
  BY <1>1, WrittenTyped, AppendKeeps
<1>3. /\ outputs'[o] = [status |-> st, revs |-> Append(r, m)]
      /\ \A q \in Outputs \ {o} : outputs'[q] = outputs[q]
      /\ DOMAIN outputs' = Outputs
      /\ outputs' = [outputs EXCEPT ![o] = [status |-> st, revs |-> Append(r, m)]]
  BY DEF Revise, WithdrawalInv
<1>4. outputs'[o].revs = Append(r, m)  BY <1>3
<1>5. Append(r, m) \in Seq(Makers)  BY <1>2 DEF Grown
<1>6. [status |-> st, revs |-> Append(r, m)] \in [status : Statuses, revs : Seq(Makers)]  BY <1>5
<1>7. outputs' \in [Outputs -> [status : Statuses, revs : Seq(Makers)]]
  BY <1>3, <1>6 DEF WithdrawalInv
<1>. QED  BY <1>2, <1>3, <1>4, <1>7 DEF WithdrawalInv

LEMMA InitKeepsWithdrawal ==
    ASSUME WithdrawalInit
    PROVE  WithdrawalInv
<1>. DEFINE r(o) == IF Kind[o] = "update" THEN <<"before", "auto">> ELSE <<"auto">>
<1>1. <<"before", "auto">> \in Seq(Makers) /\ <<"auto">> \in Seq(Makers)
  BY DEF Makers
<1>2. Grown(<<"before", "auto">>, 2) /\ Grown(<<"auto">>, 1)
  BY <1>1 DEF Grown
<1>3. \A o \in Outputs : Grown(r(o), Written(o)) /\ r(o) \in Seq(Makers)
  BY <1>1, <1>2 DEF Written
<1>4. outputs = [o \in Outputs |-> [status |-> "active", revs |-> r(o)]]
  BY DEF WithdrawalInit
<1>. HIDE DEF r
<1>5. \A o \in Outputs : outputs[o] = [status |-> "active", revs |-> r(o)] /\ outputs[o].revs = r(o)
  BY <1>4
<1>6. "active" \in Statuses  BY DEF Statuses
<1>7. outputs \in [Outputs -> [status : Statuses, revs : Seq(Makers)]]
  BY <1>3, <1>4, <1>6
<1>8. undoKeys = {} /\ hand = NoWithdrawal /\ receipts = [o \in Outputs |-> "none"]
  BY DEF WithdrawalInit
<1>9. receipts \in [Outputs -> Marks] /\ \A o \in Outputs : receipts[o] = "none"
  BY <1>8 DEF Marks
<1>10. \A o \in Outputs : Grown(outputs[o].revs, Written(o))  BY <1>3, <1>5
<1>11. hand \in Hands  BY <1>8 DEF Hands
<1>12. \A o \in Outputs : receipts[o] \in Receipts(o) /\ receipts[o] # "restored"
  BY <1>9 DEF Receipts
<1>. QED  BY <1>7, <1>8, <1>9, <1>10, <1>11, <1>12 DEF WithdrawalInv

\* What a step does that leaves the Pages as they are.
LEMMA SamePagesKeep ==
    ASSUME WithdrawalInv, UNCHANGED <<outputs, undoKeys>>,
           receipts' \in [Outputs -> Marks],
           \A o \in Outputs : receipts'[o] \in Receipts(o) /\ (receipts'[o] = "restored" => Restored(o)),
           hand' \in Hands,
           hand' # NoWithdrawal /\ hand'.step = "receipt" /\ hand'.output \in Updated
             => Restored(hand'.output)
    PROVE  WithdrawalInv'
BY DEF WithdrawalInv, Restored, Receipts, Hands, Created, Updated, NoWithdrawal, Written

\* What a step does that lets no Revision of a withdrawal disappear.
LEMMA GrowingPagesKeep ==
    ASSUME WithdrawalInv, UNCHANGED receipts,
           outputs' \in [Outputs -> [status : Statuses, revs : Seq(Makers)]],
           \A q \in Outputs : Grown(outputs'[q].revs, Written(q)),
           \A q \in Outputs : Undoes(outputs[q].revs) => Undoes(outputs'[q].revs),
           undoKeys' \subseteq Operators \X Updated,
           \A k \in undoKeys' : Undoes(outputs'[k[2]].revs),
           hand' \in Hands,
           hand' # NoWithdrawal /\ hand'.step = "receipt" /\ hand'.output \in Updated
             => Undoes(outputs'[hand'.output].revs)
    PROVE  WithdrawalInv'
BY DEF WithdrawalInv, Restored, Receipts, Hands, Created, Updated, NoWithdrawal, Written

LEMMA HandFields ==
    ASSUME hand \in Hands, hand # NoWithdrawal
    PROVE  /\ hand.output \in Outputs /\ hand.operator \in Operators
           /\ hand.step \in {"look", "archive"} => hand.output \in Created
           /\ hand.step = "restore" => hand.output \in Updated
           /\ hand.step = "receipt" => hand.output \in Created \cup Updated
           /\ hand.output \in Created => \A x \in {"archive", "receipt"} : [hand EXCEPT !.step = x] \in Hands
           /\ hand.output \in Updated => [hand EXCEPT !.step = "receipt"] \in Hands
           /\ \A x : [hand EXCEPT !.step = x].step = x /\ [hand EXCEPT !.step = x].output = hand.output
BY DEF Hands, Created, Updated, NoWithdrawal

LEMMA IdleHasNoStep ==
    ASSUME hand.step \in {"look", "archive", "restore", "receipt"}
    PROVE  hand # NoWithdrawal
BY DEF NoWithdrawal

-----------------------------------------------------------------------------
(* The steps                                                               *)

\* A step that leaves the Pages, the keys and the receipts, for another hand.
LEMMA HandMoves ==
    ASSUME WithdrawalInv, UNCHANGED <<outputs, undoKeys, receipts>>, hand' \in Hands,
           hand' # NoWithdrawal /\ hand'.step = "receipt" /\ hand'.output \in Updated
             => Restored(hand'.output)
    PROVE  WithdrawalInv'
BY SamePagesKeep DEF WithdrawalInv

LEMMA IdleKeeps ==
    ASSUME WithdrawalInv, UNCHANGED <<outputs, undoKeys, receipts>>, hand' = NoWithdrawal
    PROVE  WithdrawalInv'
BY HandMoves DEF Hands

\* The output that a call withdraws has the receipt "withdrawing".
LEMMA WithdrawKeeps ==
    ASSUME WithdrawalInv, NEW o \in Outputs, NEW operator \in Operators, Withdraw(o, operator)
    PROVE  WithdrawalInv'
<1>. DEFINE h == [step |-> IF Kind[o] = "create" THEN "look" ELSE "restore", output |-> o,
                  operator |-> operator]
<1>1. hand' = h /\ receipts' = [receipts EXCEPT ![o] = "withdrawing"]
      /\ UNCHANGED <<outputs, undoKeys>> /\ Kind[o] \in {"create", "update"}
  BY DEF Withdraw
<1>2. h \in Hands /\ h.step # "receipt"  BY <1>1 DEF Hands, Created, Updated
<1>. HIDE DEF h
<1>3. receipts' \in [Outputs -> Marks]  BY <1>1 DEF WithdrawalInv, Marks
<1>4. \A q \in Outputs : receipts'[q] \in Receipts(q) /\ (receipts'[q] = "restored" => Restored(q))
  BY <1>1 DEF WithdrawalInv, Receipts
<1>. QED  BY <1>1, <1>2, <1>3, <1>4, SamePagesKeep

LEMMA LookKeeps ==
    ASSUME WithdrawalInv, LookAtPage
    PROVE  WithdrawalInv'
<1>1. hand # NoWithdrawal /\ hand \in Hands /\ hand.output \in Created /\ hand.output \notin Updated
  BY IdleHasNoStep, HandFields DEF LookAtPage, WithdrawalInv, Created, Updated
<1>2. CASE hand' = NoWithdrawal  BY <1>2, IdleKeeps DEF LookAtPage
<1>3. CASE hand' # NoWithdrawal
  <2>1. \E x \in {"archive", "receipt"} : hand' = [hand EXCEPT !.step = x]
    BY <1>3 DEF LookAtPage
  <2>2. hand' \in Hands /\ hand'.output = hand.output  BY <1>1, <2>1, HandFields
  <2>3. UNCHANGED <<outputs, undoKeys, receipts>>  BY DEF LookAtPage
  <2>. QED  BY <1>1, <2>2, <2>3, HandMoves
<1>. QED  BY <1>2, <1>3

LEMMA ArchiveKeeps ==
    ASSUME WithdrawalInv, ArchivePage
    PROVE  WithdrawalInv'
<1>. DEFINE o == hand.output
<1>1. hand # NoWithdrawal /\ hand \in Hands /\ o \in Outputs /\ o \in Created /\ o \notin Updated
  BY IdleHasNoStep, HandFields DEF ArchivePage, WithdrawalInv, Created, Updated
<1>2. CASE hand' = NoWithdrawal /\ UNCHANGED outputs  BY <1>2, IdleKeeps DEF ArchivePage
<1>3. CASE outputs' = [outputs EXCEPT ![o].status = "archived"] /\ hand' = [hand EXCEPT !.step = "receipt"]
  <2>1. hand' \in Hands /\ hand'.output = o  BY <1>1, <1>3, HandFields
  <2>2. hand'.output \notin Updated /\ UNCHANGED <<receipts, undoKeys>>  BY <1>1, <2>1 DEF ArchivePage
  <2>. HIDE DEF o
  <2>3. outputs' \in [Outputs -> [status : Statuses, revs : Seq(Makers)]]
        /\ \A q \in Outputs : outputs'[q].revs = outputs[q].revs
    BY <1>1, <1>3 DEF WithdrawalInv, Statuses
  <2>4. \A q \in Outputs : Grown(outputs'[q].revs, Written(q))
    BY <2>3 DEF WithdrawalInv
  <2>5. \A k \in undoKeys : Undoes(outputs'[k[2]].revs)
    BY <2>3 DEF WithdrawalInv, Restored, Updated
  <2>6. \A q \in Outputs : Undoes(outputs[q].revs) => Undoes(outputs'[q].revs)  BY <2>3
  <2>7. undoKeys' \subseteq Operators \X Updated  BY <2>2 DEF WithdrawalInv
  <2>. QED  BY <2>1, <2>2, <2>3, <2>4, <2>5, <2>6, <2>7, GrowingPagesKeep
<1>. QED  BY <1>2, <1>3 DEF ArchivePage

LEMMA RestoreKeeps ==
    ASSUME WithdrawalInv, RestorePrevious
    PROVE  WithdrawalInv'
<1>. DEFINE o == hand.output  key == <<hand.operator, o>>
<1>1. hand # NoWithdrawal /\ hand \in Hands /\ o \in Updated /\ o \in Outputs /\ hand.operator \in Operators
  BY IdleHasNoStep, HandFields DEF RestorePrevious, WithdrawalInv, Updated
<1>2. CASE hand' = NoWithdrawal /\ UNCHANGED <<outputs, undoKeys>>  BY <1>2, IdleKeeps DEF RestorePrevious
<1>3. CASE key \in undoKeys /\ hand' = [hand EXCEPT !.step = "receipt"] /\ UNCHANGED <<outputs, undoKeys>>
  <2>1. hand' \in Hands /\ hand'.output = o  BY <1>1, <1>3, HandFields
  <2>2. Restored(key[2])  BY <1>3 DEF WithdrawalInv
  <2>. QED  BY <1>3, <2>1, <2>2, HandMoves DEF RestorePrevious
<1>4. CASE /\ Latest(o) = Written(o)
           /\ outputs' = Revise(o, "undo", "active")
           /\ undoKeys' = undoKeys \cup {key}
           /\ hand' = [hand EXCEPT !.step = "receipt"]
  <2>1. hand' \in Hands /\ hand'.output = o /\ UNCHANGED receipts
    BY <1>1, <1>4, HandFields DEF RestorePrevious
  <2>2. "undo" \in Makers /\ "active" \in Statuses  BY DEF Makers, Statuses
  <2>3. /\ outputs' \in [Outputs -> [status : Statuses, revs : Seq(Makers)]]
        /\ \A q \in Outputs : Grown(outputs'[q].revs, Written(q))
        /\ \A q \in Outputs : Undoes(outputs[q].revs) => Undoes(outputs'[q].revs)
        /\ Undoes(outputs'[o].revs)
    BY <1>1, <1>4, <2>2, ReviseKeeps
  <2>4. key \in Operators \X Updated /\ key[2] = o  BY <1>1
  <2>. HIDE DEF o, key
  <2>5. undoKeys' \subseteq Operators \X Updated  BY <1>4, <2>4 DEF WithdrawalInv
  <2>6. \A k \in undoKeys' : Undoes(outputs'[k[2]].revs)
    <3>. SUFFICES ASSUME NEW k \in undoKeys'  PROVE Undoes(outputs'[k[2]].revs)
      OBVIOUS
    <3>1. CASE k = key  BY <3>1, <2>3, <2>4
    <3>2. CASE k \in undoKeys
      <4>1. k[2] \in Outputs  BY <3>2 DEF WithdrawalInv, Updated
      <4>2. Undoes(outputs[k[2]].revs)  BY <3>2 DEF WithdrawalInv, Restored
      <4>. QED  BY <4>1, <4>2, <2>3
    <3>. QED  BY <1>4, <3>1, <3>2
  <2>7. hand' # NoWithdrawal /\ hand'.step = "receipt" /\ hand'.output \in Updated
          => Undoes(outputs'[hand'.output].revs)
    BY <2>1, <2>3
  <2>. QED  BY <2>1, <2>3, <2>5, <2>6, <2>7, GrowingPagesKeep
<1>. QED  BY <1>2, <1>3, <1>4 DEF RestorePrevious

LEMMA ReceiptKeeps ==
    ASSUME WithdrawalInv, SaveReceipt
    PROVE  WithdrawalInv'
<1>. DEFINE o == hand.output  x == IF Kind[o] = "create" THEN "archived" ELSE "restored"
<1>1. hand # NoWithdrawal /\ hand \in Hands /\ o \in Outputs /\ o \in Created \cup Updated
  BY IdleHasNoStep, HandFields DEF SaveReceipt, WithdrawalInv
<1>2. o \in Updated => Restored(o)  BY <1>1 DEF WithdrawalInv, SaveReceipt
<1>3. receipts' = [receipts EXCEPT ![o] = x] /\ hand' = NoWithdrawal /\ UNCHANGED <<outputs, undoKeys>>
  BY DEF SaveReceipt
<1>4. x \in Receipts(o) /\ (x = "restored" => Restored(o)) /\ x \in Marks
  BY <1>1, <1>2 DEF Marks, Receipts, Created, Updated
<1>. HIDE DEF o, x
<1>5. receipts' \in [Outputs -> Marks]  BY <1>3, <1>4 DEF WithdrawalInv
<1>6. \A q \in Outputs : receipts'[q] \in Receipts(q) /\ (receipts'[q] = "restored" => Restored(q))
  BY <1>1, <1>3, <1>4 DEF WithdrawalInv
<1>7. hand' \in Hands  BY <1>3 DEF Hands
<1>. QED  BY <1>3, <1>5, <1>6, <1>7, SamePagesKeep

\* What another client does to a Page.
LEMMA OthersRevise ==
    ASSUME WithdrawalInv, NEW o \in Outputs, NEW m \in {"other", "tombstone"}, NEW st \in Statuses,
           outputs' = Revise(o, m, st), UNCHANGED <<undoKeys, receipts, hand>>
    PROVE  WithdrawalInv'
<1>1. m \in Makers /\ m # "undo"  BY DEF Makers
<1>2. /\ outputs' \in [Outputs -> [status : Statuses, revs : Seq(Makers)]]
      /\ \A q \in Outputs : Grown(outputs'[q].revs, Written(q))
      /\ \A q \in Outputs : Undoes(outputs[q].revs) => Undoes(outputs'[q].revs)
  BY <1>1, ReviseKeeps
<1>3. undoKeys' \subseteq Operators \X Updated /\ hand' \in Hands  BY DEF WithdrawalInv
<1>4. \A k \in undoKeys' : Undoes(outputs'[k[2]].revs)
  <2>. SUFFICES ASSUME NEW k \in undoKeys  PROVE Undoes(outputs'[k[2]].revs)
    OBVIOUS
  <2>1. k[2] \in Outputs /\ Undoes(outputs[k[2]].revs)  BY DEF WithdrawalInv, Restored, Updated
  <2>. QED  BY <2>1, <1>2
<1>5. ASSUME hand # NoWithdrawal, hand.step = "receipt", hand.output \in Updated
      PROVE  Undoes(outputs'[hand.output].revs)
  <2>1. Undoes(outputs[hand.output].revs)  BY <1>5 DEF WithdrawalInv, Restored
  <2>2. hand.output \in Outputs  BY <1>5 DEF Updated
  <2>. QED  BY <1>2, <2>1, <2>2
<1>. QED  BY <1>2, <1>3, <1>4, <1>5, GrowingPagesKeep

LEMMA GovernKeeps ==
    ASSUME WithdrawalInv, NEW o \in Outputs, Govern(o)
    PROVE  WithdrawalInv'
<1>1. /\ outputs' = [outputs EXCEPT ![o].status = IF @ = "active" THEN "archived" ELSE "active"]
      /\ UNCHANGED <<undoKeys, receipts, hand>>
  BY DEF Govern
<1>2. outputs' \in [Outputs -> [status : Statuses, revs : Seq(Makers)]]
      /\ \A q \in Outputs : outputs'[q].revs = outputs[q].revs
  BY <1>1 DEF WithdrawalInv, Statuses
<1>3. \A q \in Outputs : Grown(outputs'[q].revs, Written(q))  BY <1>2 DEF WithdrawalInv
<1>4. \A k \in undoKeys' : Undoes(outputs'[k[2]].revs)
  BY <1>1, <1>2 DEF WithdrawalInv, Restored, Updated
<1>5. \A q \in Outputs : Undoes(outputs[q].revs) => Undoes(outputs'[q].revs)  BY <1>2
<1>6. hand' # NoWithdrawal /\ hand'.step = "receipt" /\ hand'.output \in Updated
        => Undoes(outputs'[hand'.output].revs)
  BY <1>1, <1>2 DEF WithdrawalInv, Restored, Updated
<1>7. undoKeys' \subseteq Operators \X Updated /\ hand' \in Hands  BY <1>1 DEF WithdrawalInv
<1>. QED  BY <1>1, <1>2, <1>3, <1>4, <1>5, <1>6, <1>7, GrowingPagesKeep

LEMMA WithdrawalKeeps ==
    ASSUME WithdrawalInv, [WithdrawalNext]_withdrawalVars
    PROVE  WithdrawalInv'
<1>1. ASSUME NEW o \in Outputs, NEW operator \in Operators, Withdraw(o, operator)  PROVE WithdrawalInv'
  BY <1>1, WithdrawKeeps
<1>2. CASE LookAtPage  BY <1>2, LookKeeps
<1>3. CASE ArchivePage  BY <1>3, ArchiveKeeps
<1>4. CASE RestorePrevious  BY <1>4, RestoreKeeps
<1>5. CASE SaveReceipt  BY <1>5, ReceiptKeeps
<1>6. CASE RuntimeDies  BY <1>6, IdleKeeps DEF RuntimeDies
<1>7. CASE Forget  BY <1>7, HandMoves DEF Forget, WithdrawalInv
<1>8. ASSUME NEW o \in Outputs, Edit(o)  PROVE WithdrawalInv'
  BY <1>8, OthersRevise DEF Edit, Statuses
<1>9. ASSUME NEW o \in Outputs, DeleteOutput(o)  PROVE WithdrawalInv'
  BY <1>9, OthersRevise DEF DeleteOutput, Statuses
<1>10. ASSUME NEW o \in Outputs, Govern(o)  PROVE WithdrawalInv'  BY <1>10, GovernKeeps
<1>11. CASE UNCHANGED withdrawalVars  BY <1>11, HandMoves DEF withdrawalVars, WithdrawalInv
<1>. QED
  BY <1>1, <1>2, <1>3, <1>4, <1>5, <1>6, <1>7, <1>8, <1>9, <1>10, <1>11 DEF WithdrawalNext

-----------------------------------------------------------------------------
(* The theorems                                                            *)

\* Receipts and keys are backed by Revisions, whoever dies when: what is recorded as
\* restored, or answered by a key, has its Revision, and the Revision the review wrote
\* stays at its place (undo_automatic_output).
THEOREM WithdrawalInvariant == WithdrawalSpec => []WithdrawalInv
<1>1. WithdrawalInit => WithdrawalInv  BY InitKeepsWithdrawal
<1>2. WithdrawalInv /\ [WithdrawalNext]_withdrawalVars => WithdrawalInv'  BY WithdrawalKeeps
<1>. QED  BY <1>1, <1>2, PTL DEF WithdrawalSpec

\* The receipts are those of the kinds, and a withdrawal makes one Revision at most.
THEOREM WithdrawalIsTyped == WithdrawalSpec => []WithdrawalTypeOK
<1>1. WithdrawalInv => WithdrawalTypeOK
  <2>. SUFFICES ASSUME WithdrawalInv  PROVE WithdrawalTypeOK
    OBVIOUS
  <2>1. ASSUME NEW o \in Outputs
        PROVE  Cardinality({n \in DOMAIN outputs[o].revs : outputs[o].revs[n] = "undo"}) <= 1
    <3>. DEFINE S == {n \in DOMAIN outputs[o].revs : outputs[o].revs[n] = "undo"}
    <3>1. S \subseteq {Written(o) + 1}  BY DEF WithdrawalInv, Grown
    <3>. HIDE DEF S
    <3>2. IsFiniteSet({Written(o) + 1}) /\ Cardinality({Written(o) + 1}) = 1  BY FS_Singleton
    <3>3. Cardinality(S) <= 1  BY <3>1, <3>2, FS_Subset
    <3>. QED  BY <3>3 DEF S
  <2>. QED  BY <2>1 DEF WithdrawalInv, WithdrawalTypeOK, Restored, Undoes, Receipts, Updated
<1>. QED  BY <1>1, WithdrawalInvariant, PTL

\* Later edits conflict: the withdrawal changes no Page whose head is not the Revision
\* that the automatic review wrote (automatic_withdrawal.rs).
THEOREM WithdrawalLetsEditsStand == WithdrawalSpec => LaterEditsStand
<1>. DEFINE Stands ==
       \A o \in Outputs :
         hand # NoWithdrawal /\ hand.output = o /\ hand.step \in {"archive", "restore"}
           /\ hand'.step = "receipt" /\ outputs'[o] # outputs[o]
         => outputs[o].revs[Latest(o)] = "auto"
<1>1. WithdrawalInv /\ [WithdrawalNext]_withdrawalVars => [Stands]_withdrawalVars
  <2>. SUFFICES ASSUME WithdrawalInv, WithdrawalNext, NEW o \in Outputs,
                       hand # NoWithdrawal, hand.output = o, hand.step \in {"archive", "restore"},
                       hand'.step = "receipt", outputs'[o] # outputs[o]
                PROVE  outputs[o].revs[Latest(o)] = "auto"
    BY DEF withdrawalVars
  <2>1. hand' # hand /\ hand' # NoWithdrawal  BY DEF NoWithdrawal
  <2>2. Latest(o) = Written(o)
    BY <2>1 DEF WithdrawalNext, Withdraw, LookAtPage, ArchivePage, RestorePrevious, SaveReceipt,
                RuntimeDies, Forget, Edit, DeleteOutput, Govern
  <2>. QED  BY <2>2 DEF WithdrawalInv, Grown
<1>. QED  BY <1>1, WithdrawalInvariant, PTL DEF WithdrawalSpec, LaterEditsStand

-----------------------------------------------------------------------------
(* Handoff cards.  An order of finitely many things gives each its place.  *)
(* R orders the elements of S one after another.                           *)
Orders(R, S) ==
  /\ \A x \in S : <<x, x>> \notin R
  /\ \A x, y, z \in S : <<x, y>> \in R /\ <<y, z>> \in R => <<x, z>> \in R
  /\ \A x, y \in S : x # y => <<x, y>> \in R \/ <<y, x>> \in R

Ahead(R, S, x) == Cardinality({y \in S : <<y, x>> \in R})

(* What is later has more ahead of it.                                     *)
LEMMA LaterHasMoreAhead ==
  ASSUME NEW S, IsFiniteSet(S), NEW R, Orders(R, S), NEW x \in S, NEW y \in S, <<x, y>> \in R
  PROVE  Ahead(R, S, x) < Ahead(R, S, y)
<1> DEFINE A == {z \in S : <<z, x>> \in R}
           B == {z \in S : <<z, y>> \in R}
<1>1. A \in SUBSET B /\ x \in B /\ x \notin A
  BY DEF Orders
<1>2. IsFiniteSet(B) BY FS_Subset, B \in SUBSET S
<1>3. /\ IsFiniteSet(A) /\ Cardinality(A) <= Cardinality(B)
      /\ Cardinality(B) = Cardinality(A) => B = A
  BY <1>1, <1>2, FS_Subset
<1>4. Cardinality(A) \in Nat /\ Cardinality(B) \in Nat BY <1>2, <1>3, FS_CardinalityType
<1> QED BY <1>1, <1>3, <1>4 DEF Ahead

(* So each place, counted from 0, is taken by exactly one element.         *)
LEMMA PlacesAreTaken ==
  ASSUME NEW S, IsFiniteSet(S), NEW R, Orders(R, S)
  PROVE  /\ Cardinality(S) \in Nat
         /\ \A x \in S : Ahead(R, S, x) \in 0..(Cardinality(S) - 1)
         /\ \A x, y \in S : Ahead(R, S, x) = Ahead(R, S, y) => x = y
         /\ \A n \in 0..(Cardinality(S) - 1) : \E x \in S : Ahead(R, S, x) = n
<1> DEFINE N == Cardinality(S)
           P == 0..(N - 1)
           f == [x \in S |-> Ahead(R, S, x)]
<1>1. N \in Nat BY FS_CardinalityType
<1>2. ASSUME NEW x \in S PROVE Ahead(R, S, x) \in P
  <2> DEFINE A == {y \in S : <<y, x>> \in R}
  <2>1. A \in SUBSET S /\ x \notin A BY DEF Orders
  <2>2. /\ IsFiniteSet(A) /\ Cardinality(A) <= N
        /\ N = Cardinality(A) => S = A
    BY <2>1, FS_Subset
  <2>3. Cardinality(A) \in Nat BY <2>2, FS_CardinalityType
  <2> QED BY <1>1, <2>1, <2>2, <2>3 DEF Ahead
<1>3. ASSUME NEW x \in S, NEW y \in S, Ahead(R, S, x) = Ahead(R, S, y) PROVE x = y
  <2>1. Ahead(R, S, x) \in Int /\ Ahead(R, S, y) \in Int BY <1>1, <1>2
  <2>2. ~(<<x, y>> \in R) /\ ~(<<y, x>> \in R) BY <1>3, <2>1, LaterHasMoreAhead
  <2> QED BY <2>2 DEF Orders
<1>4. f \in Injection(S, P)
  <2>1. f \in [S -> P] BY <1>2
  <2>2. \A x, y \in S : f[x] = f[y] => x = y BY <1>3
  <2> QED BY <2>1, <2>2, Zenon DEF Injection, IsInjective
<1>5. IsFiniteSet(P) /\ Cardinality(P) = N
  <2>1. 0 \in Int /\ N - 1 \in Int BY <1>1
  <2>2. IsFiniteSet(P) /\ Cardinality(P) = IF 0 > N - 1 THEN 0 ELSE (N - 1) - 0 + 1
    BY <2>1, FS_Interval
  <2> QED BY <1>1, <2>2
<1>6. f \in Surjection(S, P) BY <1>4, <1>5, FS_Injection
<1>7. \A n \in P : \E x \in S : f[x] = n BY <1>6 DEF Surjection
<1> QED BY <1>1, <1>2, <1>3, <1>7

(* At most n elements have fewer than n ahead of them.                     *)
LEMMA FewComeFirst ==
  ASSUME NEW S, IsFiniteSet(S), NEW R, Orders(R, S), NEW n \in Nat
  PROVE  Cardinality({x \in S : Ahead(R, S, x) < n}) <= n
<1> DEFINE T == {x \in S : Ahead(R, S, x) < n}
           P == 0..(n - 1)
           f == [x \in T |-> Ahead(R, S, x)]
<1>1. Cardinality(S) \in Nat BY FS_CardinalityType
<1>2. f \in [T -> P] BY <1>1, PlacesAreTaken
<1>3. \A x, y \in T : f[x] = f[y] => x = y BY PlacesAreTaken
<1>4. f \in Injection(T, P) BY <1>2, <1>3, Zenon DEF Injection, IsInjective
<1>5. IsFiniteSet(P) /\ Cardinality(P) = n
  <2>1. 0 \in Int /\ n - 1 \in Int OBVIOUS
  <2>2. IsFiniteSet(P) /\ Cardinality(P) = IF 0 > n - 1 THEN 0 ELSE (n - 1) - 0 + 1
    BY <2>1, FS_Interval
  <2> QED BY <2>2
<1> QED BY <1>4, <1>5, FS_Injection

-----------------------------------------------------------------------------
(* The cards of the hub, the items of an answer, and what a reader holds.  *)
CardRows == [scope : CardScopes, text : Texts, status : CardStatuses \cup {Unknown},
             version : Nat, at : Nat, expires : Nat]
Items == [key : CardKeys, card : CardRows]
Cursors == [client : ActivityClients, granted : ClientGrants, query : Queries, visible : Seq(Items)]
Walks == [page : Nat \ {0}, cursor : Cursors, items : Seq(Items), next : Nat]

(* The hub's file.                                                         *)
CardsFit ==
  /\ sequence \in Nat /\ now \in Nat
  /\ IsFiniteSet(DOMAIN cards) /\ DOMAIN cards \subseteq CardKeys /\ Cardinality(DOMAIN cards) <= MaxCards
  /\ \A k \in DOMAIN cards : /\ cards[k] \in CardRows
                             /\ cards[k].version \in 1..sequence
                             /\ cards[k].at <= now /\ cards[k].expires > now
  /\ \A j, k \in DOMAIN cards : cards[j].version = cards[k].version => j = k

PermissionsFit ==
  /\ policies \in [ActivityClients -> SUBSET {"publish", "read"}]
  /\ granted \in [ActivityClients -> ClientGrants]

(* What windows remember is of versions that the hub has given out.        *)
Remembered ==
  /\ DOMAIN known = Windows
  /\ \A w \in Windows : \A t \in DOMAIN known[w] : known[w][t].version \in 1..sequence
  /\ VersionNamesContent

(* The next page of a reader begins where its items end.                   *)
Walked(h) ==
  h.page > 0 =>
    /\ h.items = SubSeq(h.cursor.visible, 1, Len(h.items))
    /\ h.next = 0 => h.items = h.cursor.visible
    /\ h.next > 0 => h.next = Len(h.items) /\ h.next < Len(h.cursor.visible)

WalksFit ==
  /\ walk \in [Windows -> {NoWalk} \cup Walks]
  /\ \A w \in Windows : Walked(walk[w])

ActivityInv == CardsFit /\ PermissionsFit /\ Remembered /\ WalksFit

-----------------------------------------------------------------------------
(* The order of an answer: newest first, or each Scope in turn.            *)
Shown(c, q) == {k \in DOMAIN cards : Matches(c, q, k)}
Turn(c, q, k) ==
  IF q.scopes = {} /\ q.words = {}
  THEN Cardinality({j \in Shown(c, q) : cards[j].scope = cards[k].scope /\ Newer(j, k)}) ELSE 0
Before(c, q) ==
  {p \in Shown(c, q) \X Shown(c, q) :
     Turn(c, q, p[1]) < Turn(c, q, p[2]) \/ (Turn(c, q, p[1]) = Turn(c, q, p[2]) /\ Newer(p[1], p[2]))}

LEMMA ShownAreFinite ==
  ASSUME CardsFit, NEW c, NEW q
  PROVE  IsFiniteSet(Shown(c, q)) /\ Shown(c, q) \subseteq DOMAIN cards
<1>1. Shown(c, q) \in SUBSET DOMAIN cards BY DEF Shown
<1> QED BY <1>1, FS_Subset DEF CardsFit

LEMMA TurnsAreNumbers ==
  ASSUME CardsFit, NEW c, NEW q, NEW k
  PROVE  Turn(c, q, k) \in Nat
<1> DEFINE T == {j \in Shown(c, q) : cards[j].scope = cards[k].scope /\ Newer(j, k)}
<1>1. T \in SUBSET Shown(c, q) OBVIOUS
<1>2. Cardinality(T) \in Nat BY <1>1, ShownAreFinite, FS_Subset, FS_CardinalityType
<1> QED BY <1>2 DEF Turn

LEMMA NewerOrders ==
  ASSUME CardsFit
  PROVE  /\ \A i \in DOMAIN cards : ~Newer(i, i)
         /\ \A i, j, k \in DOMAIN cards : Newer(i, j) /\ Newer(j, k) => Newer(i, k)
         /\ \A i, j \in DOMAIN cards : i # j => Newer(i, j) \/ Newer(j, i)
<1>1. \A i \in DOMAIN cards : cards[i].at \in Nat /\ Order[i] \in Nat
  BY ActivityAssumption DEF CardsFit, CardRows
<1>2. \A i, j \in DOMAIN cards : Order[i] = Order[j] => i = j
  BY ActivityAssumption DEF CardsFit
<1> QED BY <1>1, <1>2 DEF Newer

LEMMA BeforeOrders ==
  ASSUME CardsFit, NEW c, NEW q
  PROVE  Orders(Before(c, q), Shown(c, q))
<1> DEFINE S == Shown(c, q)
           R == Before(c, q)
           turn(k) == Turn(c, q, k)
<1>1. \A k \in S : turn(k) \in Nat BY TurnsAreNumbers
<1>2. \A x, y \in S : <<x, y>> \in R <=> turn(x) < turn(y) \/ (turn(x) = turn(y) /\ Newer(x, y))
  BY DEF Before
<1>3. S \subseteq DOMAIN cards BY ShownAreFinite
<1> HIDE DEF S, R, turn
<1>4. \A x \in S : <<x, x>> \notin R BY <1>1, <1>2, <1>3, NewerOrders
<1>5. \A x, y, z \in S : <<x, y>> \in R /\ <<y, z>> \in R => <<x, z>> \in R
  <2> SUFFICES ASSUME NEW x \in S, NEW y \in S, NEW z \in S, <<x, y>> \in R, <<y, z>> \in R
               PROVE  <<x, z>> \in R
    OBVIOUS
  <2>1. turn(x) \in Nat /\ turn(y) \in Nat /\ turn(z) \in Nat BY <1>1
  <2>2. Newer(x, y) /\ Newer(y, z) => Newer(x, z) BY <1>3, NewerOrders
  <2> QED BY <1>2, <2>1, <2>2
<1>6. \A x, y \in S : x # y => <<x, y>> \in R \/ <<y, x>> \in R
  BY <1>1, <1>2, <1>3, NewerOrders
<1> QED BY <1>4, <1>5, <1>6 DEF Orders, S, R

(* An answer has the cards it shows, each as it is.                        *)
LEMMA AnswersAreCards ==
  ASSUME CardsFit, NEW c, NEW q
  PROVE  /\ Visible(c, q) \in Seq(Items)
         /\ \A n \in 1..Len(Visible(c, q)) : /\ Visible(c, q)[n].key \in DOMAIN cards
                                             /\ Visible(c, q)[n].card = cards[Visible(c, q)[n].key]
<1> DEFINE S == Shown(c, q)
           R == Before(c, q)
           N == Cardinality(S)
           key(n) == CHOOSE k \in S : 1 + Ahead(R, S, k) = n
           answer == [n \in 1..N |-> [key |-> key(n), card |-> cards[key(n)]]]
<1>1. ASSUME NEW k \in S
      PROVE  {j \in S : \/ Turn(c, q, j) < Turn(c, q, k)
                        \/ Turn(c, q, j) = Turn(c, q, k) /\ Newer(j, k)} = {j \in S : <<j, k>> \in R}
  BY <1>1 DEF Before
<1>2. Visible(c, q) = answer
  BY <1>1, Zenon DEF Visible, Shown, Turn, Ahead
<1>3. IsFiniteSet(S) /\ S \subseteq DOMAIN cards BY ShownAreFinite
<1>4. N \in Nat /\ \A n \in 0..(N - 1) : \E k \in S : Ahead(R, S, k) = n
  BY <1>3, BeforeOrders, PlacesAreTaken
<1>5. \A k \in S : Ahead(R, S, k) \in Int BY <1>3, BeforeOrders, PlacesAreTaken
<1>6. ASSUME NEW n \in 1..N PROVE key(n) \in S
  <2>1. PICK k \in S : Ahead(R, S, k) = n - 1 BY <1>4
  <2>2. 1 + Ahead(R, S, k) = n BY <2>1
  <2> QED BY <2>2
<1> HIDE DEF S, R, N, key
<1>7. \A k \in DOMAIN cards : k \in CardKeys /\ cards[k] \in CardRows BY DEF CardsFit
<1>8. \A n \in 1..N : answer[n] \in Items BY <1>3, <1>6, <1>7 DEF Items
<1>9. answer \in Seq(Items) /\ Len(answer) = N BY <1>4, <1>8
<1>10. \A n \in 1..N : answer[n].key \in DOMAIN cards /\ answer[n].card = cards[answer[n].key]
  BY <1>3, <1>6
<1> QED BY <1>2, <1>9, <1>10

(* A page of an answer begins where those before it end.                   *)
LEMMA PagesAdjoin ==
  ASSUME NEW T, NEW s \in Seq(T), NEW from \in 0..Len(s)
  PROVE  /\ Slice(s, from) \in Seq(T)
         /\ SubSeq(s, 1, from) \in Seq(T) /\ Len(SubSeq(s, 1, from)) = from
         /\ \A n \in 1..Len(Slice(s, from)) : \E m \in 1..Len(s) : Slice(s, from)[n] = s[m]
         /\ LET items == SubSeq(s, 1, from) \o Slice(s, from)
            IN /\ items \in Seq(T)
               /\ items = SubSeq(s, 1, Len(items))
               /\ Following(s, from) = 0 => items = s
               /\ Following(s, from) > 0 => Following(s, from) = Len(items) /\ Len(items) < Len(s)
         /\ Following(s, from) \in Nat
<1> DEFINE e == IF from + Limit < Len(s) THEN from + Limit ELSE Len(s)
           items == SubSeq(s, 1, from) \o Slice(s, from)
<1>1. Limit \in Nat \ {0} /\ Len(s) \in Nat /\ from \in Nat BY ActivityAssumption
<1>2. e \in from..Len(s) BY <1>1
<1>3. Slice(s, from) = SubSeq(s, from + 1, e) BY DEF Slice
<1>4. \A i \in (from + 1)..e : s[i] \in T BY <1>1, <1>2
<1>5. /\ SubSeq(s, from + 1, e) \in Seq(T)
      /\ Len(SubSeq(s, from + 1, e)) = IF from + 1 <= e THEN e - (from + 1) + 1 ELSE 0
      /\ \A i \in 1..(e - (from + 1) + 1) : SubSeq(s, from + 1, e)[i] = s[from + 1 + i - 1]
  <2>1. from + 1 \in Int /\ e \in Int BY <1>1, <1>2
  <2> HIDE DEF e
  <2> QED BY <2>1, <1>4, SubSeqProperties
<1>6. /\ SubSeq(s, 1, from) \in Seq(T)
      /\ Len(SubSeq(s, 1, from)) = IF 1 <= from THEN from - 1 + 1 ELSE 0
  <2>1. 1 \in Int /\ from \in Int /\ \A i \in 1..from : s[i] \in T BY <1>1
  <2> QED BY <2>1, SubSeqProperties
<1>7. items = SubSeq(s, 1, e)
  <2>1. 1 \in 1..(Len(s) + 1) /\ from \in (1 - 1)..Len(s) /\ e \in from..Len(s) BY <1>1, <1>2
  <2> HIDE DEF e
  <2> QED BY <1>3, <2>1, ConcatAdjacentSubSeq
<1>8. SubSeq(s, 1, e) \in Seq(T) /\ Len(SubSeq(s, 1, e)) = e
  <2>1. 1 \in Int /\ e \in Nat /\ \A i \in 1..e : s[i] \in T BY <1>1, <1>2
  <2> HIDE DEF e
  <2>2. /\ SubSeq(s, 1, e) \in Seq(T)
        /\ Len(SubSeq(s, 1, e)) = IF 1 <= e THEN e - 1 + 1 ELSE 0
    BY <2>1, SubSeqProperties
  <2> QED BY <2>1, <2>2
<1>9. Following(s, from) = IF from + Limit < Len(s) THEN from + Limit ELSE 0 BY DEF Following
<1>10. Following(s, from) = 0 => items = s
  <2> SUFFICES ASSUME Following(s, from) = 0 PROVE items = s OBVIOUS
  <2>1. e = Len(s) BY <1>1, <1>9
  <2>2. SubSeq(s, 1, Len(s)) = s BY SubSeqFull
  <2> QED BY <1>7, <2>1, <2>2
<1>11. \A n \in 1..Len(Slice(s, from)) : \E m \in 1..Len(s) : Slice(s, from)[n] = s[m]
  <2> SUFFICES ASSUME NEW n \in 1..Len(Slice(s, from)) PROVE \E m \in 1..Len(s) : Slice(s, from)[n] = s[m]
    OBVIOUS
  <2>1. n \in 1..(e - (from + 1) + 1) BY <1>1, <1>2, <1>3, <1>5
  <2>2. Slice(s, from)[n] = s[from + 1 + n - 1] BY <1>3, <1>5, <2>1
  <2>3. from + 1 + n - 1 \in 1..Len(s) BY <1>1, <1>2, <2>1
  <2> QED BY <2>2, <2>3
<1>12. Following(s, from) > 0 => Following(s, from) = e /\ e < Len(s) BY <1>1, <1>9
<1>13. Following(s, from) \in Nat BY <1>1, <1>9
<1>14. Len(SubSeq(s, 1, from)) = from BY <1>1, <1>6
<1> HIDE DEF e
<1> QED BY <1>3, <1>5, <1>6, <1>7, <1>8, <1>10, <1>11, <1>12, <1>13, <1>14

LEMMA PagesAreParts ==
  ASSUME NEW T, NEW s \in Seq(T), NEW from \in 0..Len(s)
  PROVE  /\ Slice(s, from) \in Seq(T)
         /\ \A n \in 1..Len(Slice(s, from)) : \E m \in 1..Len(s) : Slice(s, from)[n] = s[m]
BY PagesAdjoin

(* What a window learns is what cards say.                                 *)
LEMMA LearntIsSaid ==
  ASSUME ActivityInv, NEW w \in Windows, NEW items, Learn(w, items),
         \A i \in Range(items) : i.key \in DOMAIN cards /\ i.card = cards[i.key],
         UNCHANGED <<cards, sequence>>
  PROVE  Remembered'
<1> DEFINE own == {i \in Range(items) : i.key[1] = Client[w]}
           told(t) == {i \in own : i.key[2] = t}
           row == [t \in DOMAIN known[w] \cup {i.key[2] : i \in own} |->
                    IF told(t) = {} THEN known[w][t] ELSE Seen((CHOOSE i \in told(t) : TRUE).card)]
<1>1. known' = [known EXCEPT ![w] = row] BY DEF Learn
<1>2. DOMAIN known' = Windows BY <1>1 DEF ActivityInv, Remembered
<1>3. \A v \in Windows : known'[v] = IF v = w THEN row ELSE known[v] BY <1>1 DEF ActivityInv, Remembered
<1>4. ASSUME NEW t \in DOMAIN row, told(t) # {}
      PROVE  <<Client[w], t>> \in DOMAIN cards /\ row[t] = Seen(cards[<<Client[w], t>>])
  <2> DEFINE i == CHOOSE i \in told(t) : TRUE
  <2>1. i \in told(t) BY <1>4
  <2>4. row[t] = Seen(i.card) BY <1>4
  <2>2. i.key \in DOMAIN cards /\ i.card = cards[i.key] /\ i.key[1] = Client[w] /\ i.key[2] = t BY <2>1
  <2> HIDE DEF i, told
  <2>5. i.key \in ActivityClients \X Topics BY <2>2 DEF ActivityInv, CardsFit, CardKeys
  <2>3. i.key = <<Client[w], t>> BY <2>2, <2>5
  <2> QED BY <2>2, <2>3, <2>4
<1>5. ASSUME NEW t \in DOMAIN row, told(t) = {}
      PROVE  t \in DOMAIN known[w] /\ row[t] = known[w][t]
  BY <1>5
<1> HIDE DEF row, told
<1>6. ASSUME NEW v \in Windows, NEW t \in DOMAIN known'[v]
      PROVE  /\ known'[v][t].version \in 1..sequence
             /\ <<Client[v], t>> \in DOMAIN cards /\ cards[<<Client[v], t>>].version = known'[v][t].version
                  => known'[v][t] = Seen(cards[<<Client[v], t>>])
  <2>1. CASE v # w \/ told(t) = {}
    <3>1. t \in DOMAIN known[v] /\ known'[v][t] = known[v][t] BY <1>3, <1>5, <1>6, <2>1
    <3> QED BY <3>1 DEF ActivityInv, Remembered, VersionNamesContent
  <2>2. CASE v = w /\ told(t) # {}
    <3>1. t \in DOMAIN row /\ known'[v][t] = row[t] BY <1>3, <1>6, <2>2
    <3>2. <<Client[w], t>> \in DOMAIN cards /\ row[t] = Seen(cards[<<Client[w], t>>]) BY <1>4, <2>2, <3>1
    <3>3. Seen(cards[<<Client[w], t>>]).version \in 1..sequence
      BY <3>2 DEF ActivityInv, CardsFit, Seen
    <3> QED BY <2>2, <3>1, <3>2, <3>3
  <2> QED BY <2>1, <2>2
<1>7. cards' = cards /\ sequence' = sequence OBVIOUS
<1>8. \A v \in Windows : \A t \in DOMAIN known'[v] : known'[v][t].version \in 1..sequence'
  BY <1>6, <1>7
<1>9. VersionNamesContent' BY <1>6, <1>7, Zenon DEF VersionNamesContent
<1> QED BY <1>2, <1>8, <1>9 DEF Remembered

-----------------------------------------------------------------------------
(* Reclaiming.                                                             *)
SoonerPairs(s) == {p \in CardKeys \X CardKeys : Sooner(s, p[1], p[2])}

LEMMA SoonerCompares ==
  ASSUME NEW s, NEW i, NEW j
  PROVE  LET a == IF cards[i].scope = s THEN 0 ELSE 1
             b == IF cards[j].scope = s THEN 0 ELSE 1
         IN Sooner(s, i, j) <=> \/ a < b
                                \/ a = b /\ cards[i].at < cards[j].at
                                \/ a = b /\ cards[i].at = cards[j].at /\ Order[i] < Order[j]
<1> DEFINE a == IF cards[i].scope = s THEN 0 ELSE 1
           b == IF cards[j].scope = s THEN 0 ELSE 1
           ra == <<a, cards[i].at, Order[i]>>
           rb == <<b, cards[j].at, Order[j]>>
<1>1. Sooner(s, i, j) <=> \E n \in 1..3 : ra[n] < rb[n] /\ \A m \in 1..(n - 1) : ra[m] = rb[m]
  BY DEF Sooner
<1>2. /\ ra[1] = a /\ ra[2] = cards[i].at /\ ra[3] = Order[i]
      /\ rb[1] = b /\ rb[2] = cards[j].at /\ rb[3] = Order[j]
  OBVIOUS
<1> HIDE DEF ra, rb
<1>3. 1..3 = {1, 2, 3} /\ 1..(1 - 1) = {} /\ 1..(2 - 1) = {1} /\ 1..(3 - 1) = {1, 2} OBVIOUS
<1>4. (\E n \in 1..3 : ra[n] < rb[n] /\ \A m \in 1..(n - 1) : ra[m] = rb[m])
        <=> \/ ra[1] < rb[1]
            \/ ra[2] < rb[2] /\ ra[1] = rb[1]
            \/ ra[3] < rb[3] /\ ra[1] = rb[1] /\ ra[2] = rb[2]
  BY <1>3
<1> QED BY <1>1, <1>2, <1>4

LEMMA SoonerOrders ==
  ASSUME CardsFit, NEW s, NEW S \in SUBSET DOMAIN cards
  PROVE  Orders(SoonerPairs(s), S)
<1> DEFINE R == SoonerPairs(s)
           turn(i) == IF cards[i].scope = s THEN 0 ELSE 1
<1>1. \A i \in S : i \in CardKeys /\ cards[i].at \in Nat /\ Order[i] \in Nat /\ turn(i) \in Nat
  BY ActivityAssumption DEF CardsFit, CardRows
<1>2. \A i, j \in S : Order[i] = Order[j] => i = j
  BY ActivityAssumption DEF CardsFit
<1>3. \A i, j \in S : <<i, j>> \in R <=>
        \/ turn(i) < turn(j)
        \/ turn(i) = turn(j) /\ cards[i].at < cards[j].at
        \/ turn(i) = turn(j) /\ cards[i].at = cards[j].at /\ Order[i] < Order[j]
  <2> SUFFICES ASSUME NEW i \in S, NEW j \in S
               PROVE  <<i, j>> \in R <=>
                        \/ turn(i) < turn(j)
                        \/ turn(i) = turn(j) /\ cards[i].at < cards[j].at
                        \/ turn(i) = turn(j) /\ cards[i].at = cards[j].at /\ Order[i] < Order[j]
    OBVIOUS
  <2>1. <<i, j>> \in R <=> Sooner(s, i, j) BY <1>1 DEF SoonerPairs
  <2> QED BY <2>1, SoonerCompares
<1> HIDE DEF R, turn
<1>4. \A i \in S : <<i, i>> \notin R BY <1>1, <1>3
<1>5. \A i, j, k \in S : <<i, j>> \in R /\ <<j, k>> \in R => <<i, k>> \in R
  <2> SUFFICES ASSUME NEW i \in S, NEW j \in S, NEW k \in S, <<i, j>> \in R, <<j, k>> \in R
               PROVE  <<i, k>> \in R
    OBVIOUS
  <2> QED BY <1>1, <1>3
<1>6. \A i, j \in S : i # j => <<i, j>> \in R \/ <<j, i>> \in R BY <1>1, <1>2, <1>3
<1> QED BY <1>4, <1>5, <1>6 DEF Orders, R

LEMMA FirstAreFew ==
  ASSUME CardsFit, NEW s, NEW S \in SUBSET DOMAIN cards, NEW n \in Nat
  PROVE  First(s, S, n) \subseteq S /\ Cardinality(First(s, S, n)) <= n
<1>1. IsFiniteSet(S) BY FS_Subset DEF CardsFit
<1>2. \A j \in S : {i \in S : Sooner(s, i, j)} = {i \in S : <<i, j>> \in SoonerPairs(s)}
  BY DEF SoonerPairs, CardsFit
<1>3. First(s, S, n) = {j \in S : Ahead(SoonerPairs(s), S, j) < n}
  BY <1>2 DEF First, Ahead
<1> QED BY <1>1, <1>3, SoonerOrders, FewComeFirst

(* A publication takes completed cards of the client, and no more than it  *)
(* needs room for.                                                         *)
LEMMA ReclaimedAreFew ==
  ASSUME CardsFit, NEW k, NEW s
  PROVE  LET inScope == ReclaimedInScope(k, s)
             rest == Reclaimed(k, s) \ inScope
         IN /\ Reclaimed(k, s) \subseteq Completed(k) /\ inScope \subseteq Reclaimed(k, s)
            /\ inScope \subseteq InScope(k[1], s)
            /\ k \in DOMAIN cards => rest = {}
            /\ Cardinality(inScope) <= Excess(Cardinality(InScope(k[1], s)), TopicsPerScope)
            /\ Cardinality(rest) <= Excess(Cardinality(DOMAIN cards) - Cardinality(inScope), MaxCards)
<1> DEFINE inScope == ReclaimedInScope(k, s)
           rest == Reclaimed(k, s) \ inScope
           T == Completed(k) \cap InScope(k[1], s)
           U == Completed(k) \ inScope
           n == Excess(Cardinality(InScope(k[1], s)), TopicsPerScope)
           m == Excess(Cardinality(DOMAIN cards) - Cardinality(inScope), MaxCards)
<1>1. T \in SUBSET DOMAIN cards /\ U \in SUBSET DOMAIN cards /\ InScope(k[1], s) \in SUBSET DOMAIN cards
  BY DEF Completed, InScope
<1>2. TopicsPerScope \in Nat \ {0} /\ MaxCards \in Nat \ {0} BY ActivityAssumption
<1>3. Cardinality(InScope(k[1], s)) \in Nat BY <1>1, FS_Subset, FS_CardinalityType DEF CardsFit
<1>4. n \in Nat BY <1>2, <1>3 DEF Excess
<1>5. Cardinality({}) = 0 BY FS_EmptySet
<1>6. First(s, T, n) \subseteq T /\ Cardinality(First(s, T, n)) <= n BY <1>1, <1>4, FirstAreFew
<1>7. inScope = {} \/ inScope = First(s, T, n) BY DEF ReclaimedInScope
<1>8. inScope \subseteq T /\ Cardinality(inScope) <= n BY <1>4, <1>5, <1>6, <1>7
<1>9. Cardinality(DOMAIN cards) \in Nat /\ Cardinality(inScope) \in Nat
  <2>1. inScope \in SUBSET DOMAIN cards BY <1>1, <1>8
  <2> QED BY <2>1, FS_Subset, FS_CardinalityType DEF CardsFit
<1>10. m \in Nat BY <1>2, <1>9 DEF Excess
<1>11. First(s, U, m) \subseteq U /\ Cardinality(First(s, U, m)) <= m BY <1>1, <1>10, FirstAreFew
<1>12. Reclaimed(k, s) = IF k \in DOMAIN cards THEN inScope ELSE inScope \cup First(s, U, m)
  BY DEF Reclaimed
<1>13. rest = IF k \in DOMAIN cards THEN {} ELSE First(s, U, m) BY <1>11, <1>12
<1>14. Cardinality(rest) <= m BY <1>5, <1>10, <1>11, <1>13
<1> HIDE DEF inScope, n, m
<1> QED BY <1>8, <1>11, <1>12, <1>13, <1>14 DEF inScope, n, m

-----------------------------------------------------------------------------
(* Steps.  A window notes one card, or none.                               *)
LEMMA CardsThatGo ==
  ASSUME ActivityInv, NEW D \in SUBSET DOMAIN cards, cards' = Restrict(cards, D),
         sequence' = sequence, known' = known, now' \in Nat, now <= now',
         \A k \in D : cards[k].expires > now'
  PROVE  CardsFit' /\ Remembered'
<1>1. DOMAIN cards' = D /\ \A k \in D : cards'[k] = cards[k] BY DEF Restrict
<1>2. IsFiniteSet(D) /\ Cardinality(D) <= Cardinality(DOMAIN cards) BY FS_Subset DEF ActivityInv, CardsFit
<1>3. Cardinality(D) \in Nat /\ Cardinality(DOMAIN cards) \in Nat
  BY <1>2, FS_CardinalityType DEF ActivityInv, CardsFit
<1>4. MaxCards \in Nat BY ActivityAssumption
<1>5. Cardinality(D) <= MaxCards BY <1>2, <1>3, <1>4 DEF ActivityInv, CardsFit
<1>6. \A k \in D : /\ cards[k] \in CardRows /\ cards[k].version \in 1..sequence
                   /\ cards[k].at \in Nat /\ cards[k].at <= now
  BY DEF ActivityInv, CardsFit, CardRows
<1>7. CardsFit'
  BY <1>1, <1>2, <1>5, <1>6 DEF ActivityInv, CardsFit
<1>8. Remembered'
  <2>1. DOMAIN known = Windows /\ \A w \in Windows : \A t \in DOMAIN known[w] : known[w][t].version \in 1..sequence
    BY DEF ActivityInv, Remembered
  <2>2. VersionNamesContent BY DEF ActivityInv, Remembered
  <2>3. VersionNamesContent'
    <3> SUFFICES ASSUME NEW w \in Windows, NEW t \in DOMAIN known[w],
                        <<Client[w], t>> \in D, cards'[<<Client[w], t>>].version = known[w][t].version
                 PROVE  known[w][t] = Seen(cards'[<<Client[w], t>>])
      BY <1>1, Zenon DEF VersionNamesContent
    <3> QED BY <1>1, <2>2 DEF VersionNamesContent
  <2> QED BY <2>1, <2>3 DEF Remembered
<1> QED BY <1>7, <1>8

LEMMA PublishedFits ==
  ASSUME ActivityInv, NEW w \in Windows, NEW t \in Topics, NEW s \in CardScopes, NEW text \in Texts,
         NEW status \in CardStatuses \cup {Omitted}, NEW life \in Lifetimes, NEW told \in BOOLEAN,
         PublishActivity(w, t, s, text, status, life, told)
  PROVE  ActivityInv'
<1> DEFINE k == <<Client[w], t>>
           card == [scope |-> s, text |-> text, status |-> Stated(k, status), version |-> sequence + 1,
                    at |-> now, expires |-> now + life]
           kept == DOMAIN cards \ Reclaimed(k, s)
<1>1. /\ sequence' = sequence + 1 /\ now' = now
      /\ cards' = [j \in kept \cup {k} |-> IF j = k THEN card ELSE cards[j]]
      /\ IF told THEN Note(w, k, card) ELSE UNCHANGED known
      /\ Admitted(k, s)
      /\ UNCHANGED <<policies, granted, walk>>
  BY DEF PublishActivity
<1>2. k \in CardKeys
  BY ActivityAssumption DEF CardKeys, ActivityClients, Range
<1>3. sequence \in Nat /\ now \in Nat /\ life \in Nat \ {0} /\ MaxCards \in Nat
  BY ActivityAssumption DEF ActivityInv, CardsFit
<1>4. card \in CardRows
  <2>1. Stated(k, status) \in CardStatuses \cup {Unknown}
    <3>1. k \in DOMAIN cards => cards[k].status \in CardStatuses \cup {Unknown}
      BY DEF ActivityInv, CardsFit, CardRows
    <3> QED BY <3>1 DEF Stated
  <2> HIDE DEF k
  <2> QED BY <1>3, <2>1 DEF CardRows
<1>5. IsFiniteSet(kept \cup {k}) /\ Cardinality(kept \cup {k}) <= MaxCards
  <2>1. kept \in SUBSET DOMAIN cards /\ IsFiniteSet(DOMAIN cards) BY DEF ActivityInv, CardsFit
  <2>2. /\ IsFiniteSet(kept) /\ Cardinality(kept) <= Cardinality(DOMAIN cards)
        /\ Cardinality(kept) \in Nat /\ Cardinality(DOMAIN cards) \in Nat
    BY <2>1, FS_Subset, FS_CardinalityType
  <2>3. /\ IsFiniteSet(kept \cup {k})
        /\ Cardinality(kept \cup {k}) = IF k \in kept THEN Cardinality(kept) ELSE Cardinality(kept) + 1
    BY <2>2, FS_AddElement
  <2>4. CASE k \in DOMAIN cards
    <3>1. (kept \cup {k}) \in SUBSET DOMAIN cards BY <2>4
    <3>2. Cardinality(kept \cup {k}) <= Cardinality(DOMAIN cards) BY <2>1, <3>1, FS_Subset
    <3>3. Cardinality(DOMAIN cards) <= MaxCards BY DEF ActivityInv, CardsFit
    <3>4. Cardinality(kept \cup {k}) \in Nat BY <2>3, FS_CardinalityType
    <3> QED BY <1>3, <2>2, <2>3, <3>2, <3>3, <3>4
  <2>5. CASE k \notin DOMAIN cards
    <3>1. Cardinality(kept) < MaxCards BY <1>1, <2>5 DEF Admitted
    <3> QED BY <1>3, <2>2, <2>3, <3>1
  <2> QED BY <2>4, <2>5
<1>6. DOMAIN cards' = kept \cup {k} BY <1>1
<1>7. \A j \in DOMAIN cards' : cards'[j] = IF j = k THEN card ELSE cards[j] BY <1>1
<1>8. card.version = sequence + 1 /\ card.at = now /\ card.expires = now + life OBVIOUS
<1>9. \A j \in kept : cards[j] \in CardRows /\ cards[j].version \in 1..sequence
                        /\ cards[j].at <= now /\ cards[j].expires > now
  BY DEF ActivityInv, CardsFit
<1>10. \A i, j \in kept : cards[i].version = cards[j].version => i = j
  BY DEF ActivityInv, CardsFit
<1>11. kept \subseteq CardKeys BY DEF ActivityInv, CardsFit
<1>12. Remembered'
  <2>1. DOMAIN known = Windows /\ \A v \in Windows : \A u \in DOMAIN known[v] : known[v][u].version \in 1..sequence
    BY DEF ActivityInv, Remembered
  <2>2. DOMAIN known' = Windows
    BY <1>1, <2>1 DEF Note
  <2>3. ASSUME NEW v \in Windows, NEW u \in DOMAIN known'[v]
        PROVE  \/ v = w /\ u = t /\ known'[v][u] = Seen(card)
               \/ u \in DOMAIN known[v] /\ known'[v][u] = known[v][u]
    <3>1. CASE told
      <4> DEFINE row == [x \in DOMAIN known[w] \cup {t} |-> IF x = t THEN Seen(card) ELSE known[w][x]]
      <4>1. k[2] = t OBVIOUS
      <4> HIDE DEF card, k
      <4>2. known' = [known EXCEPT ![w] = row] BY <1>1, <3>1, <4>1 DEF Note
      <4>3. known'[v] = IF v = w THEN row ELSE known[v] BY <2>1, <4>2
      <4> QED BY <2>3, <4>3
    <3>2. CASE ~told
      BY <1>1, <2>3, <3>2
    <3> QED BY <3>1, <3>2
  <2>4. Seen(card).version = sequence + 1 BY DEF Seen
  <2> HIDE DEF card
  <2>5. \A v \in Windows : \A u \in DOMAIN known'[v] : known'[v][u].version \in 1..(sequence + 1)
    BY <1>3, <2>1, <2>3, <2>4
  <2>6. VersionNamesContent'
    <3> SUFFICES ASSUME NEW v \in Windows, NEW u \in DOMAIN known'[v],
                        <<Client[v], u>> \in DOMAIN cards',
                        cards'[<<Client[v], u>>].version = known'[v][u].version
                 PROVE  known'[v][u] = Seen(cards'[<<Client[v], u>>])
      BY Zenon DEF VersionNamesContent
    <3> DEFINE j == <<Client[v], u>>
    <3>1. CASE v = w /\ u = t /\ known'[v][u] = Seen(card)
      BY <1>7, <3>1
    <3>2. CASE u \in DOMAIN known[v] /\ known'[v][u] = known[v][u]
      <4>1. j # k
        <5>1. known[v][u].version # card.version BY <1>3, <1>8, <2>1, <3>2
        <5> QED BY <1>7, <3>2, <5>1
      <4>2. cards'[j] = cards[j] /\ j \in DOMAIN cards BY <1>6, <1>7, <4>1
      <4> QED BY <3>2, <4>2 DEF ActivityInv, Remembered, VersionNamesContent
    <3> QED BY <2>3, <3>1, <3>2
  <2> QED BY <1>1, <2>2, <2>5, <2>6 DEF Remembered
<1> HIDE DEF card, kept, k
<1>13. CardsFit'
  <2>1. sequence' \in Nat /\ now' \in Nat BY <1>1, <1>3
  <2>2. \A j \in DOMAIN cards' : /\ cards'[j] \in CardRows /\ cards'[j].version \in 1..sequence'
                                 /\ cards'[j].at <= now' /\ cards'[j].expires > now'
    BY <1>1, <1>3, <1>4, <1>6, <1>7, <1>8, <1>9
  <2>3. \A i, j \in DOMAIN cards' : cards'[i].version = cards'[j].version => i = j
    BY <1>3, <1>6, <1>7, <1>8, <1>9, <1>10
  <2>4. DOMAIN cards' \subseteq CardKeys BY <1>2, <1>6, <1>11
  <2>5. IsFiniteSet(DOMAIN cards') /\ Cardinality(DOMAIN cards') <= MaxCards BY <1>5, <1>6
  <2> QED BY <2>1, <2>2, <2>3, <2>4, <2>5 DEF CardsFit
<1>14. PermissionsFit' /\ WalksFit' BY <1>1 DEF ActivityInv, PermissionsFit, WalksFit
<1> QED BY <1>12, <1>13, <1>14 DEF ActivityInv

LEMMA RepublishedFits ==
  ASSUME ActivityInv, NEW w \in Windows, NEW t \in Topics, NEW s \in CardScopes, NEW text \in Texts,
         NEW status \in CardStatuses \cup {Omitted}, Republish(w, t, s, text, status)
  PROVE  ActivityInv'
<1> DEFINE k == <<Client[w], t>>
           row == [x \in DOMAIN known[w] \cup {t} |-> IF x = t THEN Seen(cards[k]) ELSE known[w][x]]
<1>1. /\ k \in DOMAIN cards /\ Note(w, k, cards[k])
      /\ UNCHANGED <<cards, sequence, policies, granted, walk, now, changes>>
  BY DEF Republish, Same
<1>2. k[2] = t OBVIOUS
<1>3. known' = [known EXCEPT ![w] = row] BY <1>1, <1>2 DEF Note
<1>4. DOMAIN known = Windows /\ \A v \in Windows : \A u \in DOMAIN known[v] : known[v][u].version \in 1..sequence
  BY DEF ActivityInv, Remembered
<1>5. DOMAIN known' = Windows /\ \A v \in Windows : known'[v] = IF v = w THEN row ELSE known[v]
  BY <1>3, <1>4
<1>6. Seen(cards[k]).version \in 1..sequence BY <1>1 DEF ActivityInv, CardsFit, Seen
<1>7. ASSUME NEW v \in Windows, NEW u \in DOMAIN known'[v]
      PROVE  \/ v = w /\ u = t /\ known'[v][u] = Seen(cards[k])
             \/ u \in DOMAIN known[v] /\ known'[v][u] = known[v][u]
  BY <1>5, <1>7
<1>8. \A v \in Windows : \A u \in DOMAIN known'[v] : known'[v][u].version \in 1..sequence'
  BY <1>1, <1>4, <1>6, <1>7
<1>9. VersionNamesContent'
  <2> SUFFICES ASSUME NEW v \in Windows, NEW u \in DOMAIN known'[v],
                      <<Client[v], u>> \in DOMAIN cards,
                      cards[<<Client[v], u>>].version = known'[v][u].version
               PROVE  known'[v][u] = Seen(cards[<<Client[v], u>>])
    BY <1>1, Zenon DEF VersionNamesContent
  <2>1. CASE v = w /\ u = t /\ known'[v][u] = Seen(cards[k]) BY <2>1
  <2>2. CASE u \in DOMAIN known[v] /\ known'[v][u] = known[v][u]
    BY <2>2 DEF ActivityInv, Remembered, VersionNamesContent
  <2> QED BY <1>7, <2>1, <2>2
<1> QED BY <1>1, <1>5, <1>8, <1>9 DEF ActivityInv, Remembered, CardsFit, PermissionsFit, WalksFit

LEMMA AnswersTell ==
  ASSUME ActivityInv, NEW c, NEW q, NEW from \in 0..Len(Visible(c, q))
  PROVE  \A i \in Range(Slice(Visible(c, q), from)) : i.key \in DOMAIN cards /\ i.card = cards[i.key]
<1> DEFINE visible == Visible(c, q)
           items == Slice(visible, from)
<1>1. visible \in Seq(Items) BY AnswersAreCards DEF ActivityInv
<1>2. items \in Seq(Items) /\ \A n \in 1..Len(items) : \E m \in 1..Len(visible) : items[n] = visible[m]
  <2>1. from \in 0..Len(visible) OBVIOUS
  <2> HIDE DEF visible
  <2>2. Slice(visible, from) \in Seq(Items) BY <1>1, <2>1, PagesAreParts
  <2>3. \A n \in 1..Len(Slice(visible, from)) : \E m \in 1..Len(visible) : Slice(visible, from)[n] = visible[m]
    BY <1>1, <2>1, PagesAreParts
  <2> QED BY <2>2, <2>3
<1>3. \A n \in 1..Len(visible) : visible[n].key \in DOMAIN cards /\ visible[n].card = cards[visible[n].key]
  BY AnswersAreCards DEF ActivityInv
<1> HIDE DEF visible, items
<1>4. DOMAIN items = 1..Len(items) BY <1>2
<1>5. Range(items) = {items[n] : n \in 1..Len(items)} BY <1>4 DEF Range
<1> QED BY <1>2, <1>3, <1>5 DEF items, visible

LEMMA ReadFits ==
  ASSUME ActivityInv, NEW w \in Windows, NEW q \in Queries, NEW checks \in BOOLEAN, ReadActivity(w, q, checks)
  PROVE  ActivityInv'
<1> DEFINE c == Client[w]
           cursor == Cursor(c, q)
           visible == Visible(c, q)
           items == Slice(visible, 0)
           h == [page |-> 1, cursor |-> cursor, items |-> items, next |-> Following(visible, 0)]
<1>1. UNCHANGED <<cards, sequence, policies, granted, now, changes>> BY DEF ReadActivity
<1>2. cursor.visible = visible /\ cursor = [client |-> c, granted |-> granted[c], query |-> q, visible |-> visible]
  BY DEF Cursor
<1>3. \/ UNCHANGED <<walk, known>>
      \/ walk' = [walk EXCEPT ![w] = h] /\ Learn(w, items)
  BY <1>2 DEF ReadActivity
<1>4. CASE UNCHANGED <<walk, known>>
  BY <1>1, <1>4 DEF ActivityInv, CardsFit, PermissionsFit, Remembered, VersionNamesContent, WalksFit
<1>5. CASE walk' = [walk EXCEPT ![w] = h] /\ Learn(w, items)
  <2>1. visible \in Seq(Items) BY AnswersAreCards DEF ActivityInv
  <2>2. 0 \in 0..Len(visible) BY <2>1
  <2>3. Remembered'
    <3>1. \A i \in Range(items) : i.key \in DOMAIN cards /\ i.card = cards[i.key] BY <2>2, AnswersTell
    <3> HIDE DEF items
    <3> QED BY <1>1, <1>5, <3>1, LearntIsSaid
  <2>4. SubSeq(visible, 1, 0) = <<>> BY <2>1, SubSeqEmpty
  <2>5. /\ items \in Seq(Items)
        /\ SubSeq(visible, 1, 0) \o items = items
        /\ items = SubSeq(visible, 1, Len(items))
        /\ Following(visible, 0) = 0 => items = visible
        /\ Following(visible, 0) > 0 => Following(visible, 0) = Len(items) /\ Len(items) < Len(visible)
        /\ Following(visible, 0) \in Nat
    <3>1. items \in Seq(Items) BY <2>1, <2>2, PagesAdjoin
    <3>2. SubSeq(visible, 1, 0) \o items = items BY <2>4, <3>1, ConcatEmptySeq
    <3> QED BY <2>1, <2>2, <3>1, <3>2, PagesAdjoin
  <2>6. c \in ActivityClients BY ActivityAssumption DEF ActivityClients, Range
  <2>7. granted[c] \in ClientGrants BY <2>6 DEF ActivityInv, PermissionsFit
  <2> HIDE DEF c, visible, items
  <2>8. cursor \in Cursors BY <1>2, <2>1, <2>6, <2>7 DEF Cursors
  <2>9. h \in Walks BY <2>5, <2>8 DEF Walks
  <2>10. Walked(h) BY <1>2, <2>5 DEF Walked
  <2> HIDE DEF h
  <2>11. WalksFit' BY <1>5, <2>9, <2>10 DEF ActivityInv, WalksFit
  <2> QED BY <1>1, <2>3, <2>11 DEF ActivityInv, CardsFit, PermissionsFit
<1> QED BY <1>3, <1>4, <1>5

GoneOn(held, more, next) == [held EXCEPT !.page = @ + 1, !.items = more, !.next = next]

LEMMA WalkGoesOn ==
  ASSUME NEW held \in Walks, NEW more \in Seq(Items), NEW next \in Nat
  PROVE  /\ GoneOn(held, more, next) \in Walks
         /\ GoneOn(held, more, next).cursor = held.cursor
         /\ GoneOn(held, more, next).items = more
         /\ GoneOn(held, more, next).next = next
<1> DEFINE g == GoneOn(held, more, next)
<1>1. PICK p \in Nat \ {0}, u \in Cursors, i \in Seq(Items), n \in Nat :
        held = [page |-> p, cursor |-> u, items |-> i, next |-> n]
  BY DEF Walks
<1>2. /\ DOMAIN g = {"page", "cursor", "items", "next"}
      /\ g["page"] = p + 1 /\ g["cursor"] = u /\ g["items"] = more /\ g["next"] = next
  BY <1>1 DEF GoneOn
<1>3. g = [x \in DOMAIN g |-> g[x]] BY DEF GoneOn
<1> HIDE DEF g
<1>4. g = [page |-> p + 1, cursor |-> u, items |-> more, next |-> next] BY <1>2, <1>3
<1> QED BY <1>1, <1>4 DEF Walks, g

LEMMA ContinuedFits ==
  ASSUME ActivityInv, NEW w \in Windows, Continue(w)
  PROVE  ActivityInv'
<1> DEFINE c == Client[w]
           held == walk[w]
           cursor == Cursor(c, held.cursor.query)
           visible == Visible(c, held.cursor.query)
           items == Slice(visible, held.next)
           h == [walk[w] EXCEPT !.page = @ + 1, !.items = @ \o items, !.next = Following(visible, held.next)]
<1>1. UNCHANGED <<cards, sequence, policies, granted, now, changes>> /\ held.page > 0 /\ held.next > 0
  BY DEF Continue
<1>2. cursor.visible = visible BY DEF Cursor
<1>3. held \in Walks /\ Walked(held)
  BY <1>1 DEF ActivityInv, WalksFit, NoWalk
<1>4. \/ walk' = [walk EXCEPT ![w] = NoWalk] /\ UNCHANGED known
      \/ /\ walk' = [walk EXCEPT ![w].page = @ + 1, ![w].items = @ \o items,
                                 ![w].next = Following(visible, held.next)]
         /\ ValidToken(cursor, held.cursor, held.next) /\ Learn(w, items)
  BY <1>2 DEF Continue
<1>5. CASE walk' = [walk EXCEPT ![w] = NoWalk] /\ UNCHANGED known
  <2>1. WalksFit'
    <3>1. walk' \in [Windows -> {NoWalk} \cup Walks] BY <1>5 DEF ActivityInv, WalksFit
    <3>2. Walked(NoWalk) BY DEF Walked, NoWalk
    <3>3. \A v \in Windows : walk'[v] = NoWalk \/ walk'[v] = walk[v] BY <1>5 DEF ActivityInv, WalksFit
    <3> QED BY <3>1, <3>2, <3>3 DEF ActivityInv, WalksFit
  <2> QED BY <1>1, <1>5, <2>1 DEF ActivityInv, CardsFit, PermissionsFit, Remembered, VersionNamesContent
<1>6. CASE /\ walk' = [walk EXCEPT ![w].page = @ + 1, ![w].items = @ \o items,
                                   ![w].next = Following(visible, held.next)]
           /\ ValidToken(cursor, held.cursor, held.next) /\ Learn(w, items)
  <2>1. visible \in Seq(Items) BY AnswersAreCards DEF ActivityInv
  <2>2. held.cursor = cursor /\ held.next \in 1..(Len(visible) - 1) BY <1>2, <1>6 DEF ValidToken
  <2>3. held.next \in 0..Len(visible) BY <2>1, <2>2
  <2>4. held.next = Len(held.items) /\ held.items = SubSeq(visible, 1, held.next)
    BY <1>1, <1>2, <1>3, <2>2 DEF Walked
  <2>5. Remembered'
    <3>1. \A i \in Range(items) : i.key \in DOMAIN cards /\ i.card = cards[i.key] BY <2>3, AnswersTell
    <3> HIDE DEF items
    <3> QED BY <1>1, <1>6, <3>1, LearntIsSaid
  <2> DEFINE more == held.items \o items
  <2>6. /\ more \in Seq(Items)
        /\ more = SubSeq(visible, 1, Len(more))
        /\ Following(visible, held.next) = 0 => more = visible
        /\ Following(visible, held.next) > 0
             => Following(visible, held.next) = Len(more) /\ Len(more) < Len(visible)
        /\ Following(visible, held.next) \in Nat
    <3>1. more = SubSeq(visible, 1, held.next) \o Slice(visible, held.next) BY <2>4
    <3> HIDE DEF more, visible
    <3> QED BY <2>1, <2>3, <3>1, PagesAdjoin
  <2>7. walk' = [walk EXCEPT ![w] = h]
    BY <1>6 DEF ActivityInv, WalksFit
  <2>8. /\ h \in Walks /\ h.cursor = held.cursor /\ h.items = more /\ h.next = Following(visible, held.next)
    <3> DEFINE next == Following(visible, held.next)
    <3>1. more \in Seq(Items) /\ next \in Nat /\ held \in Walks BY <1>3, <2>6
    <3>2. h = GoneOn(held, more, next) BY DEF GoneOn
    <3> HIDE DEF h, more, next, held
    <3>3. h \in Walks /\ h.cursor = held.cursor /\ h.items = more /\ h.next = next
      BY <3>1, <3>2, WalkGoesOn
    <3> QED BY <3>3 DEF next
  <2> HIDE DEF h, more, visible, cursor
  <2>9. Walked(h) BY <1>2, <2>2, <2>6, <2>8 DEF Walked
  <2>10. WalksFit' BY <2>7, <2>8, <2>9 DEF ActivityInv, WalksFit
  <2> QED BY <1>1, <2>5, <2>10 DEF ActivityInv, CardsFit, PermissionsFit
<1> QED BY <1>4, <1>5, <1>6

LEMMA MergedCardsFit ==
  ASSUME ActivityInv, NEW pair \in Merges, Merge(pair[1], pair[2])
  PROVE  ActivityInv'
<1> DEFINE moved(k) == [cards[k] EXCEPT !.scope = pair[2]]
<1>1. UNCHANGED <<sequence, policies, granted, known, walk, now, changes>> BY DEF Merge
<1>2. /\ DOMAIN cards' = DOMAIN cards
      /\ \A k \in DOMAIN cards : cards'[k] = cards[k] \/ cards'[k] = moved(k)
  BY DEF Merge
<1>3. pair[2] \in CardScopes BY ActivityAssumption
<1>4. ASSUME NEW k \in DOMAIN cards
      PROVE  /\ cards'[k] \in CardRows
             /\ cards'[k].version = cards[k].version /\ cards'[k].at = cards[k].at
             /\ cards'[k].expires = cards[k].expires /\ Seen(cards'[k]) = Seen(cards[k])
  <2>1. cards[k] \in CardRows BY DEF ActivityInv, CardsFit
  <2>2. /\ moved(k) \in CardRows
        /\ moved(k).version = cards[k].version /\ moved(k).at = cards[k].at
        /\ moved(k).expires = cards[k].expires
        /\ moved(k).text = cards[k].text /\ moved(k).status = cards[k].status
    BY <1>3, <2>1 DEF CardRows
  <2> HIDE DEF moved
  <2> QED BY <1>2, <2>1, <2>2 DEF Seen
<1>5. CardsFit' BY <1>1, <1>2, <1>4 DEF ActivityInv, CardsFit
<1>6. VersionNamesContent'
  <2> SUFFICES ASSUME NEW v \in Windows, NEW u \in DOMAIN known[v],
                      <<Client[v], u>> \in DOMAIN cards,
                      cards'[<<Client[v], u>>].version = known[v][u].version
               PROVE  known[v][u] = Seen(cards'[<<Client[v], u>>])
    BY <1>1, <1>2, Zenon DEF VersionNamesContent
  <2>1. cards[<<Client[v], u>>].version = known[v][u].version BY <1>4
  <2>2. known[v][u] = Seen(cards[<<Client[v], u>>])
    BY <2>1 DEF ActivityInv, Remembered, VersionNamesContent
  <2> QED BY <1>4, <2>2
<1> QED BY <1>1, <1>5, <1>6 DEF ActivityInv, Remembered, PermissionsFit, WalksFit

LEMMA ActivityStep ==
  ASSUME ActivityInv, [ActivityNext]_activityVars
  PROVE  ActivityInv'
<1>1. ASSUME NEW w \in Windows, NEW t \in Topics, NEW s \in CardScopes, NEW text \in Texts,
             NEW status \in CardStatuses \cup {Omitted}, NEW life \in Lifetimes, NEW told \in BOOLEAN,
             PublishActivity(w, t, s, text, status, life, told)
      PROVE  ActivityInv'
  BY <1>1, PublishedFits
<1>2. ASSUME NEW w \in Windows, NEW t \in Topics, NEW s \in CardScopes, NEW text \in Texts,
             NEW status \in CardStatuses \cup {Omitted}, Republish(w, t, s, text, status)
      PROVE  ActivityInv'
  BY <1>2, RepublishedFits
<1>3. ASSUME NEW w \in Windows, NEW q \in Queries, NEW checks \in BOOLEAN, ReadActivity(w, q, checks)
      PROVE  ActivityInv'
  BY <1>3, ReadFits
<1>4. ASSUME NEW w \in Windows, Continue(w)
      PROVE  ActivityInv'
  BY <1>4, ContinuedFits
<1>5. ASSUME NEW k \in CardKeys, RemoveCard(k)
      PROVE  ActivityInv'
  <2>1. CardsFit' /\ Remembered'
    <3>1. (DOMAIN cards \ {k}) \in SUBSET DOMAIN cards OBVIOUS
    <3>2. cards' = Restrict(cards, DOMAIN cards \ {k}) /\ UNCHANGED <<sequence, known, now>>
      BY <1>5 DEF RemoveCard
    <3>3. now \in Nat /\ \A j \in DOMAIN cards : cards[j].expires > now BY DEF ActivityInv, CardsFit
    <3>4. now' \in Nat /\ now <= now' /\ \A j \in DOMAIN cards \ {k} : cards[j].expires > now'
      BY <3>2, <3>3
    <3> QED BY <3>1, <3>2, <3>4, CardsThatGo
  <2>2. UNCHANGED <<policies, granted, walk>> BY <1>5 DEF RemoveCard
  <2> QED BY <2>1, <2>2 DEF ActivityInv, PermissionsFit, WalksFit
<1>6. ASSUME NEW c \in ActivityClients, NEW policy \in SUBSET {"publish", "read"}, SetClientPolicy(c, policy)
      PROVE  ActivityInv'
  BY <1>6 DEF SetClientPolicy, ActivityInv, CardsFit, PermissionsFit, Remembered, VersionNamesContent, WalksFit
<1>7. ASSUME NEW c \in ActivityClients, NEW grant \in ClientGrants, Regrant(c, grant)
      PROVE  ActivityInv'
  BY <1>7 DEF Regrant, ActivityInv, CardsFit, PermissionsFit, Remembered, VersionNamesContent, WalksFit
<1>8. ASSUME NEW pair \in Merges, Merge(pair[1], pair[2])
      PROVE  ActivityInv'
  BY <1>8, MergedCardsFit
<1>9. ASSUME Tick PROVE ActivityInv'
  <2> DEFINE D == {k \in DOMAIN cards : cards[k].expires > now'}
  <2>1. D \in SUBSET DOMAIN cards OBVIOUS
  <2>2. cards' = Restrict(cards, D) /\ UNCHANGED <<sequence, known>> /\ now' = now + 1
    BY <1>9 DEF Tick
  <2>3. now \in Nat BY DEF ActivityInv, CardsFit
  <2>4. now' \in Nat /\ now <= now' /\ \A j \in D : cards[j].expires > now' BY <2>2, <2>3
  <2> HIDE DEF D
  <2>5. CardsFit' /\ Remembered' BY <2>1, <2>2, <2>4, CardsThatGo
  <2>6. UNCHANGED <<policies, granted, walk>> BY <1>9 DEF Tick
  <2> QED BY <2>5, <2>6 DEF ActivityInv, PermissionsFit, WalksFit
<1>10. ASSUME UNCHANGED activityVars PROVE ActivityInv'
  BY <1>10 DEF activityVars, ActivityInv, CardsFit, PermissionsFit, Remembered, VersionNamesContent, WalksFit
<1> QED BY <1>1, <1>2, <1>3, <1>4, <1>5, <1>6, <1>7, <1>8, <1>9, <1>10 DEF ActivityNext

(* The parts of the invariant hold together in every reachable state.      *)
THEOREM ActivityInvariant == ActivitySpec => []ActivityInv
<1>1. ActivityInit => ActivityInv
  <2> SUFFICES ASSUME ActivityInit PROVE ActivityInv OBVIOUS
  <2>1. IsFiniteSet({}) /\ Cardinality({}) = 0 BY FS_EmptySet
  <2>2. DOMAIN cards = {} /\ sequence = 0 /\ now = 0 BY DEF ActivityInit
  <2>3. CardsFit BY <2>1, <2>2, ActivityAssumption DEF CardsFit
  <2>4. PermissionsFit BY DEF ActivityInit, PermissionsFit
  <2>5. Remembered BY DEF ActivityInit, Remembered, VersionNamesContent
  <2>6. Walked(NoWalk) BY DEF Walked, NoWalk
  <2>7. WalksFit BY <2>6 DEF ActivityInit, WalksFit
  <2> QED BY <2>3, <2>4, <2>5, <2>7 DEF ActivityInv
<1>2. ActivityInv /\ [ActivityNext]_activityVars => ActivityInv' BY ActivityStep
<1> QED BY <1>1, <1>2, PTL DEF ActivitySpec

(* What the hub keeps of handoffs has its type: cards have versions that   *)
(* were given out, and there is room for them (ActivityCard, persistence). *)
THEOREM ActivityIsTyped == ActivitySpec => []ActivityTypeOK
<1>1. ActivityInv => ActivityTypeOK
  <2> SUFFICES ASSUME ActivityInv PROVE ActivityTypeOK OBVIOUS
  <2>1. \A k \in DOMAIN cards :
          cards[k] \in [scope : CardScopes, text : Texts, status : CardStatuses \cup {Unknown},
                        version : 1..sequence, at : 0..now, expires : Nat]
    BY DEF ActivityInv, CardsFit, CardRows
  <2>2. ASSUME NEW w \in Windows PROVE walk[w] = NoWalk \/ walk[w].next \in 0..Len(walk[w].cursor.visible)
    <3>1. CASE walk[w] \in Walks
      <4>1. /\ walk[w].page > 0 /\ walk[w].next \in Nat /\ walk[w].cursor.visible \in Seq(Items)
        BY <3>1 DEF Walks, Cursors
      <4> QED BY <4>1 DEF ActivityInv, WalksFit, Walked
    <3> QED BY <3>1 DEF ActivityInv, WalksFit
  <2> QED BY <2>1, <2>2 DEF ActivityTypeOK, ActivityInv, CardsFit, PermissionsFit
<1> QED BY <1>1, ActivityInvariant, PTL

-----------------------------------------------------------------------------
(* Whom a publication takes room from.                                     *)
LEMMA PublicationTakesWhatItNeeds ==
  ASSUME ActivityInv, NEW w \in Windows, NEW t \in Topics, NEW s \in CardScopes, NEW text \in Texts,
         NEW status \in CardStatuses \cup {Omitted}, NEW life \in Lifetimes, NEW told \in BOOLEAN,
         PublishActivity(w, t, s, text, status, life, told)
  PROVE  \E k \in DOMAIN cards' :
           /\ cards'[k].version = sequence'
           /\ LET gone == DOMAIN cards \ DOMAIN cards'
              IN /\ \A j \in gone : j[1] = k[1] /\ cards[j].status = "completed"
                 /\ gone # {} => \/ Cardinality(DOMAIN cards') = MaxCards
                                 \/ Cardinality({j \in DOMAIN cards' : j[1] = k[1] /\ cards'[j].scope = cards'[k].scope})
                                      >= TopicsPerScope
<1> DEFINE k == <<Client[w], t>>
           card == [scope |-> s, text |-> text, status |-> Stated(k, status), version |-> sequence + 1,
                    at |-> now, expires |-> now + life]
           kept == DOMAIN cards \ Reclaimed(k, s)
           inScope == ReclaimedInScope(k, s)
           rest == Reclaimed(k, s) \ inScope
           mine == InScope(k[1], s)
           gone == DOMAIN cards \ DOMAIN cards'
           beside == {j \in DOMAIN cards' : j[1] = k[1] /\ cards'[j].scope = cards'[k].scope}
<1>1. /\ sequence' = sequence + 1
      /\ cards' = [j \in kept \cup {k} |-> IF j = k THEN card ELSE cards[j]]
  BY DEF PublishActivity
<1>2. DOMAIN cards' = kept \cup {k} /\ cards'[k] = card /\ \A j \in kept \ {k} : cards'[j] = cards[j]
  BY <1>1
<1>3. card.version = sequence + 1 /\ card.scope = s OBVIOUS
<1>4. /\ Reclaimed(k, s) \subseteq Completed(k) /\ inScope \subseteq Reclaimed(k, s)
      /\ inScope \subseteq mine
      /\ k \in DOMAIN cards => rest = {}
      /\ Cardinality(inScope) <= Excess(Cardinality(mine), TopicsPerScope)
      /\ Cardinality(rest) <= Excess(Cardinality(DOMAIN cards) - Cardinality(inScope), MaxCards)
  BY ReclaimedAreFew DEF ActivityInv
<1>5. Completed(k) \subseteq {j \in DOMAIN cards : j[1] = k[1] /\ j # k /\ cards[j].status = "completed"}
  BY DEF Completed
<1>6. ActivityInv' BY PublishedFits
<1>7. TopicsPerScope \in Nat \ {0} /\ MaxCards \in Nat \ {0} BY ActivityAssumption
<1>8. IsFiniteSet(DOMAIN cards) /\ IsFiniteSet(DOMAIN cards') /\ Cardinality(DOMAIN cards') <= MaxCards
  BY <1>6 DEF ActivityInv, CardsFit
<1>9. \A D \in SUBSET DOMAIN cards : IsFiniteSet(D) /\ Cardinality(D) \in Nat
  BY <1>8, FS_Subset, FS_CardinalityType
<1>10. \A D \in SUBSET DOMAIN cards' : IsFiniteSet(D) /\ Cardinality(D) \in Nat
  BY <1>8, FS_Subset, FS_CardinalityType
<1>11. mine = {j \in DOMAIN cards : j[1] = k[1] /\ cards[j].scope = s} BY DEF InScope
<1>12. k \in DOMAIN cards /\ cards[k].scope = s => inScope = {} BY DEF ReclaimedInScope
<1>13. Reclaimed(k, s) = inScope \cup rest /\ inScope \cap rest = {} BY <1>4
<1>14. gone = Reclaimed(k, s)
  BY <1>2, <1>4, <1>5
<1>15. \A S : IsFiniteSet(S) => (Cardinality(S) = 0 <=> S = {}) BY FS_EmptySet
<1>16. CASE rest # {}
  <2> HIDE DEF card, kept, inScope, rest, mine, k
  <2>1. k \notin DOMAIN cards BY <1>4, <1>16
  <2>2. rest \in SUBSET DOMAIN cards /\ inScope \in SUBSET DOMAIN cards BY <1>4, <1>5, <1>13
  <2>3. Cardinality(rest) \in Nat /\ Cardinality(inScope) \in Nat /\ Cardinality(DOMAIN cards) \in Nat
        /\ Cardinality(rest) # 0
    BY <1>9, <1>15, <1>16, <2>2
  <2>4. Cardinality(inScope \cup rest) = Cardinality(inScope) + Cardinality(rest)
    <3>1. Cardinality(inScope \cup rest)
            = Cardinality(inScope) + Cardinality(rest) - Cardinality(inScope \cap rest)
      BY <1>9, <2>2, FS_Union
    <3>2. Cardinality(inScope \cap rest) = 0 BY <1>13, FS_EmptySet
    <3> QED BY <2>3, <3>1, <3>2
  <2>5. Cardinality(kept) = Cardinality(DOMAIN cards) - Cardinality(inScope \cup rest)
    <3> DEFINE D == DOMAIN cards
               R == inScope \cup rest
    <3>1. D \cap R = R BY <2>2
    <3>2. kept = D \ R BY <1>13 DEF kept
    <3>3. IsFiniteSet(D) BY <1>8
    <3> HIDE DEF D, R
    <3>4. Cardinality(D \ R) = Cardinality(D) - Cardinality(D \cap R) BY <3>3, FS_Difference
    <3>5. Cardinality(kept) = Cardinality(D) - Cardinality(R) BY <3>1, <3>2, <3>4
    <3> QED BY <3>5 DEF D, R
  <2>6. Cardinality(DOMAIN cards') = Cardinality(kept) + 1
    <3>1. kept \in SUBSET DOMAIN cards /\ k \notin kept BY <2>1 DEF kept
    <3>2. IsFiniteSet(kept) BY <1>9, <3>1
    <3> QED BY <1>2, <3>1, <3>2, FS_AddElement
  <2>7. Cardinality(DOMAIN cards') >= MaxCards
    BY <1>4, <1>7, <2>3, <2>4, <2>5, <2>6 DEF Excess
  <2>8. Cardinality(DOMAIN cards') \in Nat BY <1>10
  <2>9. Cardinality(DOMAIN cards') = MaxCards BY <1>7, <1>8, <2>7, <2>8
  <2>10. k \in DOMAIN cards' /\ cards'[k].version = sequence' BY <1>1, <1>2, <1>3
  <2>11. \A j \in gone : j[1] = k[1] /\ cards[j].status = "completed" BY <1>4, <1>5, <1>14
  <2> QED BY <2>9, <2>10, <2>11
<1>17. CASE rest = {}
  <2>1. gone = inScope BY <1>13, <1>14, <1>17
  <2>2. ASSUME gone # {} PROVE Cardinality(beside) >= TopicsPerScope
    <3>1. k \notin mine BY <1>11, <1>12, <2>1, <2>2
    <3>2. beside = (mine \ inScope) \cup {k}
      <4>1. \A j \in kept \ {k} : j \in beside <=> j \in mine BY <1>2, <1>3, <1>11
      <4>2. k \in beside BY <1>2
      <4>3. kept = DOMAIN cards \ inScope BY <1>13, <1>17
      <4>4. beside \subseteq kept \cup {k} BY <1>2
      <4>5. mine \subseteq DOMAIN cards BY <1>11
      <4> HIDE DEF beside, kept, mine, inScope, k
      <4> QED BY <3>1, <4>1, <4>2, <4>3, <4>4, <4>5
    <3> HIDE DEF beside, kept, mine, inScope, k
    <3>3. mine \in SUBSET DOMAIN cards /\ inScope \in SUBSET DOMAIN cards BY <1>4, <1>11
    <3>4. Cardinality(mine) \in Nat /\ Cardinality(inScope) \in Nat /\ Cardinality(inScope) # 0
      BY <1>9, <1>15, <2>1, <2>2, <3>3
    <3>5. IsFiniteSet(mine \ inScope) /\ Cardinality(mine \ inScope) = Cardinality(mine) - Cardinality(inScope)
      <4>1. mine \cap inScope = inScope BY <1>4
      <4> QED BY <1>9, <3>3, <4>1, FS_Difference
    <3>6. Cardinality(beside) = Cardinality(mine \ inScope) + 1
      BY <3>1, <3>2, <3>5, FS_AddElement
    <3> QED BY <1>4, <1>7, <3>4, <3>5, <3>6 DEF Excess
  <2> HIDE DEF card, kept, inScope, rest, mine
  <2>3. k \in DOMAIN cards' /\ cards'[k].version = sequence' BY <1>1, <1>2, <1>3
  <2>4. \A j \in gone : j[1] = k[1] /\ cards[j].status = "completed" BY <1>4, <1>5, <1>14
  <2> QED BY <2>2, <2>3, <2>4
<1> QED BY <1>16, <1>17

(* Windows and readers of handoffs see what cards say: a version names one *)
(* content, an answer of several pages is one snapshot (publish, activity),*)
(* and a publication takes no card but completed ones of its client, for   *)
(* want of room.                                                           *)
THEOREM HandoffsAreRead == ActivitySpec => HandoffsRead
<1>1. ActivityInv => VersionNamesContent /\ WalkIsOneSnapshot
  BY DEF ActivityInv, Remembered, WalksFit, Walked, WalkIsOneSnapshot
<1>2. ASSUME ActivityInv, [ActivityNext]_activityVars, sequence' # sequence
      PROVE  \E k \in DOMAIN cards' :
               /\ cards'[k].version = sequence'
               /\ LET gone == DOMAIN cards \ DOMAIN cards'
                  IN /\ \A j \in gone : j[1] = k[1] /\ cards[j].status = "completed"
                     /\ gone # {} => \/ Cardinality(DOMAIN cards') = MaxCards
                                     \/ Cardinality({j \in DOMAIN cards' : j[1] = k[1] /\ cards'[j].scope = cards'[k].scope})
                                          >= TopicsPerScope
  <2>1. \E w \in Windows, t \in Topics, s \in CardScopes, text \in Texts, status \in CardStatuses \cup {Omitted},
           life \in Lifetimes, told \in BOOLEAN : PublishActivity(w, t, s, text, status, life, told)
    BY <1>2 DEF ActivityNext, activityVars, Republish, ReadActivity, Continue, RemoveCard, SetClientPolicy,
                Regrant, Merge, Tick
  <2> QED BY <1>2, <2>1, PublicationTakesWhatItNeeds
<1>3. ActivityInv /\ [ActivityNext]_activityVars => [sequence' # sequence =>
       \E k \in DOMAIN cards' :
         /\ cards'[k].version = sequence'
         /\ LET gone == DOMAIN cards \ DOMAIN cards'
            IN /\ \A j \in gone : j[1] = k[1] /\ cards[j].status = "completed"
               /\ gone # {} => \/ Cardinality(DOMAIN cards') = MaxCards
                               \/ Cardinality({j \in DOMAIN cards' : j[1] = k[1] /\ cards'[j].scope = cards'[k].scope})
                                    >= TopicsPerScope]_activityVars
  BY <1>2
<1>4. ActivitySpec => []ActivityInv BY ActivityInvariant
<1> QED BY <1>1, <1>3, <1>4, PTL DEF ActivitySpec, HandoffsRead, OthersKept

=============================================================================
