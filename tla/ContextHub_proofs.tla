-------------------------- MODULE ContextHub_proofs --------------------------
(***************************************************************************)
(* What ContextHub promises for every number of candidates, drafts, plans  *)
(* and Pages, also when the operator sends exactly the plan that a review  *)
(* approved.  An operation changes a copy of the hub and saves it one or   *)
(* more times, so the argument is about hubs and not about steps: HubOK is *)
(* what every hub keeps, in the file or in memory, and Later is what may   *)
(* have changed between two of them.  Each operation gets a lemma that its *)
(* result is a hub and later than what it was given; the invariant then    *)
(* says that the file and the copy are such hubs, and that what an         *)
(* operation or the cycle remembers of the hub still holds of the copy.    *)
(* The same is then done for types: what a hub names is in the store.      *)
(***************************************************************************)
EXTENDS ContextHub, FiniteSetTheorems, WellFoundedInduction, TLAPS

GroupFields == {"version", "members", "outputs", "offered", "updateable", "status",
                "plan", "results", "auto"}
ReviewFields == {"state", "authorized", "input", "decisions", "retain"}
CandidateFields == {"version", "organized", "outputs", "status", "result", "key"}

IsCandidate(x) ==
    /\ DOMAIN x = CandidateFields
    /\ x.version \in Nat /\ (x.status = "absent" => x.version = 0)
IsGroup(g) ==
    /\ DOMAIN g = GroupFields
    /\ DOMAIN g.auto = ReviewFields /\ g.auto.authorized \in BOOLEAN
    /\ DOMAIN g.members \subseteq Evidence
IsHub(h) ==
    /\ DOMAIN h = {"groups", "candidates"}
    /\ DOMAIN h.candidates = Evidence
    /\ \A c \in Evidence : IsCandidate(h.candidates[c])
    /\ h.groups \in Seq(Range(h.groups))
    /\ \A i \in DOMAIN h.groups : IsGroup(h.groups[i])

Settled(x) == x.status \in {"promoted", "represented", "rejected"}
PlanCovers(h, i) == Covered(h.groups[i].plan.outputs)

\* Evidence that is being written is held by a request of the operator, which
\* it has the key of, or else by one plan in progress, at the version that the
\* plan was made for.
KeysAreHeld(h) == \A c \in Evidence : h.candidates[c].key # NoKey =>
    h.candidates[c].status = "promoting" \/ Settled(h.candidates[c])
PlansHold(h) == \A i \in GroupsIn(h, "promoting") : \A c \in PlanCovers(h, i) :
    /\ c \in Evidence
    /\ h.candidates[c].status = "promoting"
    /\ h.candidates[c].key = NoKey
    /\ h.candidates[c].version = h.groups[i].members[c]
PromotingIsHeld(h) == \A c \in Evidence :
    h.candidates[c].status = "promoting" /\ h.candidates[c].key = NoKey =>
        \E i \in GroupsIn(h, "promoting") : c \in PlanCovers(h, i)
PlansApart(h) == \A i, j \in GroupsIn(h, "promoting") : i # j =>
    PlanCovers(h, i) \cap PlanCovers(h, j) = {}

\* A pending draft shares no evidence with another one, nor with what a plan in
\* progress covers: without this a retried approval could decide evidence that
\* another plan holds.
DraftsApart(h) == \A i \in GroupsIn(h, "pending"), j \in DOMAIN h.groups : i # j =>
    /\ h.groups[j].status = "pending" =>
          DOMAIN h.groups[i].members \cap DOMAIN h.groups[j].members = {}
    /\ h.groups[j].status = "promoting" =>
          DOMAIN h.groups[i].members \cap PlanCovers(h, j) = {}

\* A review's authority lasts as long as its plan, or is left without effect on
\* a draft whose plan was taken away.
MatchesReview(g) ==
    /\ g.plan # NoPlan
    /\ g.plan.outputs = ApprovedOutputs(g.outputs, g.auto.decisions)
    /\ g.plan.wording = "drafted"
ApprovedGroup(g) == g.auto.authorized =>
    \/ MatchesReview(g)
    \/ /\ g.status \in {"pending", "superseded"} /\ g.plan = NoPlan
       /\ g.auto.state \notin {"approved", "applying"}
ApprovalsMatch(h) == \A i \in DOMAIN h.groups : ApprovedGroup(h.groups[i])

HubOK(h) ==
    /\ IsHub(h)
    /\ KeysAreHeld(h) /\ PlansHold(h) /\ PromotingIsHeld(h) /\ PlansApart(h)
    /\ DraftsApart(h)
    /\ ApprovalsMatch(h)

\* What an operation may have done between two hubs.
CandidateLater(x, y) ==
    /\ x.version <= y.version
    /\ Settled(x) => y = x
    /\ Settled(y) /\ ~Settled(x) => x.version < y.version
GroupLater(g, g2) == g.status # "pending" =>
    /\ g2.status # "pending"
    /\ g2.outputs = g.outputs
    /\ g2.auto.authorized = g.auto.authorized
    /\ g2.auto.decisions = g.auto.decisions
Later(h, h2) ==
    /\ \A c \in Evidence : CandidateLater(h.candidates[c], h2.candidates[c])
    /\ DOMAIN h.groups \subseteq DOMAIN h2.groups
    /\ \A i \in DOMAIN h.groups : GroupLater(h.groups[i], h2.groups[i])

Fine(h, h2) == HubOK(h2) /\ Later(h, h2)

\* Changes that start and end no plan.
CandidateQuiet(x, y) ==
    /\ IsCandidate(y) /\ CandidateLater(x, y)
    /\ x.status = "promoting" \/ y.status = "promoting" =>
          y.status = x.status /\ y.key = x.key /\ y.version = x.version
    /\ y.key # NoKey => y.status = "promoting" \/ Settled(y)
GroupQuiet(g, g2) ==
    /\ IsGroup(g2) /\ ApprovedGroup(g2) /\ GroupLater(g, g2)
    /\ g.status = "promoting" \/ g2.status = "promoting" =>
          g2.status = g.status /\ g2.plan = g.plan /\ g2.members = g.members
    /\ g2.status = "pending" =>
          g.status = "pending" /\ DOMAIN g2.members = DOMAIN g.members

-----------------------------------------------------------------------------
(* Hubs and what is later *)

LEMMA LaterReflexive ==
    ASSUME NEW h, IsHub(h)
    PROVE  Later(h, h)
BY DEF Later, IsHub, IsCandidate, CandidateLater, GroupLater

LEMMA LaterTransitive ==
    ASSUME NEW h, IsHub(h), NEW h2, IsHub(h2), NEW h3, IsHub(h3),
           Later(h, h2), Later(h2, h3)
    PROVE  Later(h, h3)
<1>1. ASSUME NEW c \in Evidence
      PROVE  CandidateLater(h.candidates[c], h3.candidates[c])
  <2> DEFINE x == h.candidates[c]  y == h2.candidates[c]  z == h3.candidates[c]
  <2>1. CandidateLater(x, y) /\ CandidateLater(y, z)
      BY DEF Later
  <2>2. x.version \in Nat /\ y.version \in Nat /\ z.version \in Nat
      BY DEF IsHub, IsCandidate
  <2> HIDE DEF x, y, z
  <2>3. CandidateLater(x, z)
      BY <2>1, <2>2 DEF CandidateLater
  <2> QED BY <2>3 DEF x, z
<1>2. ASSUME NEW i \in DOMAIN h.groups
      PROVE  i \in DOMAIN h3.groups /\ GroupLater(h.groups[i], h3.groups[i])
    BY DEF Later, GroupLater
<1> QED BY <1>1, <1>2 DEF Later

\* Evidence that is changed without beginning or ending to be written.
LEMMA CandidatesChange ==
    ASSUME NEW h, HubOK(h), NEW new, DOMAIN new = Evidence,
           \A c \in Evidence : CandidateQuiet(h.candidates[c], new[c])
    PROVE  Fine(h, [h EXCEPT !.candidates = new])
<1> DEFINE h2 == [h EXCEPT !.candidates = new]
<1>1. h2.groups = h.groups /\ h2.candidates = new /\ DOMAIN h2 = {"groups", "candidates"}
    BY DEF HubOK, IsHub
<1> HIDE DEF h2
<1>2. IsHub(h2)
    BY <1>1 DEF HubOK, IsHub, CandidateQuiet
<1>3. KeysAreHeld(h2)
    BY <1>1 DEF KeysAreHeld, CandidateQuiet
<1>4. PlansHold(h2)
    BY <1>1 DEF HubOK, PlansHold, CandidateQuiet, GroupsIn, PlanCovers
<1>5. PromotingIsHeld(h2)
    BY <1>1 DEF HubOK, PromotingIsHeld, CandidateQuiet, GroupsIn, PlanCovers
<1>6. PlansApart(h2) /\ DraftsApart(h2) /\ ApprovalsMatch(h2)
    BY <1>1 DEF HubOK, PlansApart, DraftsApart, ApprovalsMatch, GroupsIn, PlanCovers
<1>7. Later(h, h2)
    BY <1>1 DEF Later, CandidateQuiet, GroupLater
<1> QED BY <1>2, <1>3, <1>4, <1>5, <1>6, <1>7 DEF Fine, HubOK, h2

\* A sequence is one whatever its elements are replaced by.
LEMMA SequenceKept ==
    ASSUME NEW s, s \in Seq(Range(s)), NEW t, t = [i \in DOMAIN s |-> t[i]]
    PROVE  t \in Seq(Range(t)) /\ Len(t) = Len(s)
<1>1. DOMAIN s = 1..Len(s) /\ Len(s) \in Nat
    OBVIOUS
<1>2. t \in [1..Len(s) -> Range(t)]
    BY <1>1 DEF Range
<1> QED BY <1>1, <1>2

\* Drafts that are changed without a plan beginning or ending.
LEMMA GroupsChange ==
    ASSUME NEW h, HubOK(h), NEW new, new = [i \in DOMAIN h.groups |-> new[i]],
           \A i \in DOMAIN h.groups : GroupQuiet(h.groups[i], new[i])
    PROVE  Fine(h, [h EXCEPT !.groups = new])
<1> DEFINE h2 == [h EXCEPT !.groups = new]
<1>1. h2.groups = new /\ h2.candidates = h.candidates /\ DOMAIN h2 = {"groups", "candidates"}
    BY DEF HubOK, IsHub
<1>a. DOMAIN new = DOMAIN h.groups
    OBVIOUS
<1> HIDE DEF h2
<1>2. IsHub(h2)
  <2>1. new \in Seq(Range(new))
      BY SequenceKept DEF HubOK, IsHub
  <2> QED BY <2>1, <1>1, <1>a DEF HubOK, IsHub, GroupQuiet
<1>b. ASSUME NEW i \in GroupsIn(h2, "promoting")
      PROVE  i \in GroupsIn(h, "promoting") /\ PlanCovers(h2, i) = PlanCovers(h, i)
               /\ h2.groups[i].members = h.groups[i].members
    BY <1>1, <1>a DEF GroupsIn, PlanCovers, GroupQuiet
<1>c. ASSUME NEW i \in GroupsIn(h, "promoting")
      PROVE  i \in GroupsIn(h2, "promoting") /\ PlanCovers(h2, i) = PlanCovers(h, i)
    BY <1>1, <1>a DEF GroupsIn, PlanCovers, GroupQuiet
<1>3. KeysAreHeld(h2)
    BY <1>1 DEF HubOK, KeysAreHeld
<1>4. PlansHold(h2)
    BY <1>1, <1>b DEF HubOK, PlansHold
<1>5. PromotingIsHeld(h2)
    BY <1>1, <1>c DEF HubOK, PromotingIsHeld
<1>6. PlansApart(h2)
    BY <1>b DEF HubOK, PlansApart
<1>7. DraftsApart(h2)
  <2> SUFFICES ASSUME NEW i \in GroupsIn(h2, "pending"), NEW j \in DOMAIN h2.groups, i # j
               PROVE  /\ h2.groups[j].status = "pending" =>
                          DOMAIN h2.groups[i].members \cap DOMAIN h2.groups[j].members = {}
                      /\ h2.groups[j].status = "promoting" =>
                          DOMAIN h2.groups[i].members \cap PlanCovers(h2, j) = {}
      BY DEF DraftsApart
  <2>1. i \in GroupsIn(h, "pending") /\ DOMAIN h2.groups[i].members = DOMAIN h.groups[i].members
      BY <1>1, <1>a DEF GroupsIn, GroupQuiet
  <2>2. CASE h2.groups[j].status = "pending"
    <3>1. j \in GroupsIn(h, "pending") /\ DOMAIN h2.groups[j].members = DOMAIN h.groups[j].members
        BY <1>1, <1>a, <2>2 DEF GroupsIn, GroupQuiet
    <3>2. h.groups[j].status = "pending" /\ j \in DOMAIN h.groups
        BY <3>1 DEF GroupsIn
    <3> QED BY <2>1, <2>2, <3>1, <3>2 DEF HubOK, DraftsApart
  <2>3. CASE h2.groups[j].status = "promoting"
    <3>1. j \in GroupsIn(h2, "promoting")
        BY <2>3 DEF GroupsIn
    <3>2. h.groups[j].status = "promoting" /\ j \in DOMAIN h.groups
        BY <1>b, <3>1 DEF GroupsIn
    <3> QED BY <1>b, <2>1, <2>3, <3>1, <3>2 DEF HubOK, DraftsApart
  <2> QED BY <2>2, <2>3
<1>8. ApprovalsMatch(h2)
    BY <1>1, <1>a DEF ApprovalsMatch, GroupQuiet
<1>9. Later(h, h2)
    BY <1>1, <1>a DEF HubOK, IsHub, IsCandidate, Later, CandidateLater, GroupQuiet
<1> QED BY <1>2, <1>3, <1>4, <1>5, <1>6, <1>7, <1>8, <1>9 DEF Fine, HubOK, h2

LEMMA QuietByDefault ==
    ASSUME NEW h, HubOK(h)
    PROVE  /\ \A c \in Evidence : CandidateQuiet(h.candidates[c], h.candidates[c])
           /\ \A i \in DOMAIN h.groups : GroupQuiet(h.groups[i], h.groups[i])
BY DEF HubOK, IsHub, IsCandidate, KeysAreHeld, ApprovalsMatch, CandidateQuiet,
       CandidateLater, GroupQuiet, GroupLater

LEMMA OneGroupChanges ==
    ASSUME NEW h, HubOK(h), NEW i \in DOMAIN h.groups, NEW g, GroupQuiet(h.groups[i], g)
    PROVE  Fine(h, [h EXCEPT !.groups[i] = g])
<1> DEFINE new == [h.groups EXCEPT ![i] = g]
<1>1. [h EXCEPT !.groups[i] = g] = [h EXCEPT !.groups = new]
    BY DEF HubOK, IsHub
<1>2. h.groups = [j \in DOMAIN h.groups |-> h.groups[j]]
    BY DEF HubOK, IsHub
<1>3. new = [j \in DOMAIN h.groups |-> new[j]]
    BY <1>2
<1>4. \A j \in DOMAIN h.groups : GroupQuiet(h.groups[j], new[j])
    BY QuietByDefault
<1> HIDE DEF new
<1> QED BY <1>1, <1>3, <1>4, GroupsChange

LEMMA FineReflexive ==
    ASSUME NEW h, HubOK(h)
    PROVE  Fine(h, h)
BY LaterReflexive DEF Fine, HubOK

LEMMA FineTransitive ==
    ASSUME NEW h, HubOK(h), NEW h2, Fine(h, h2), NEW h3, Fine(h2, h3)
    PROVE  Fine(h, h3)
BY LaterTransitive DEF Fine, HubOK

\* What a later hub is at least.
LEMMA FineGroups ==
    ASSUME NEW h, HubOK(h), NEW h2, Fine(h, h2), NEW i \in DOMAIN h.groups
    PROVE  HubOK(h2) /\ i \in DOMAIN h2.groups
BY DEF Fine, Later

-----------------------------------------------------------------------------
(* Operations that begin and end no plan                                    *)

\* A pending draft that keeps its evidence, or is taken out of review.
LEMMA DraftQuiet ==
    ASSUME NEW g, IsGroup(g), g.status = "pending", NEW g2, IsGroup(g2), ApprovedGroup(g2),
           g2.status # "promoting",
           g2.status = "pending" => DOMAIN g2.members = DOMAIN g.members
    PROVE  GroupQuiet(g, g2)
BY DEF GroupQuiet, GroupLater

LEMMA SupersededFine ==
    ASSUME NEW h, HubOK(h), NEW I, I \subseteq GroupsIn(h, "pending")
    PROVE  Fine(h, OnGroups(h, I, LAMBDA g : [g EXCEPT !.status = "superseded"]))
<1> DEFINE new == [i \in DOMAIN h.groups |->
        IF i \in I THEN [h.groups[i] EXCEPT !.status = "superseded"] ELSE h.groups[i]]
<1>1. OnGroups(h, I, LAMBDA g : [g EXCEPT !.status = "superseded"])
          = [h EXCEPT !.groups = new]
    BY DEF OnGroups
<1>2. ASSUME NEW i \in DOMAIN h.groups
      PROVE  GroupQuiet(h.groups[i], new[i])
  <2>1. CASE i \in I
    <3> DEFINE g == h.groups[i]  g2 == [g EXCEPT !.status = "superseded"]
    <3>1. g.status = "pending" /\ IsGroup(g) /\ ApprovedGroup(g)
        BY <2>1 DEF GroupsIn, HubOK, IsHub, ApprovalsMatch
    <3>2. new[i] = g2
        BY <2>1
    <3> HIDE DEF g
    <3>3. IsGroup(g2) /\ g2.status = "superseded" /\ g2.plan = g.plan
              /\ g2.outputs = g.outputs /\ g2.auto = g.auto
        BY <3>1 DEF IsGroup, GroupFields
    <3> HIDE DEF g2
    <3>4. ApprovedGroup(g2)
        BY <3>1, <3>3 DEF ApprovedGroup, MatchesReview
    <3>5. GroupQuiet(g, g2)
        BY <3>1, <3>3, <3>4, DraftQuiet
    <3> QED BY <3>2, <3>5 DEF g
  <2>2. CASE i \notin I
      BY <2>2, QuietByDefault
  <2> QED BY <2>1, <2>2
<1>3. new = [i \in DOMAIN h.groups |-> new[i]]
    OBVIOUS
<1> HIDE DEF new
<1> QED BY <1>1, <1>2, <1>3, GroupsChange

LEMMA InvalidateStaleFine ==
    ASSUME NEW h, HubOK(h)
    PROVE  Fine(h, InvalidateStale(h))
<1> DEFINE I == {i \in GroupsIn(h, "pending") : ~Current(h, h.groups[i])}
<1>1. I \subseteq GroupsIn(h, "pending")
    OBVIOUS
<1> HIDE DEF I
<1>2. Fine(h, OnGroups(h, I, LAMBDA g : [g EXCEPT !.status = "superseded"]))
    BY <1>1, SupersededFine
<1> QED BY <1>2 DEF InvalidateStale, I

LEMMA FineThenStale ==
    ASSUME NEW h, HubOK(h), NEW h2, Fine(h, h2)
    PROVE  Fine(h, InvalidateStale(h2))
BY InvalidateStaleFine, FineTransitive DEF Fine

\* Evidence that nobody is writing, and that nobody begins to write.
LEMMA ActiveQuiet ==
    ASSUME NEW x, IsCandidate(x), x.status \in {"absent", "pending", "deferred"},
           NEW y, IsCandidate(y), y.status # "promoting",
           x.version <= y.version, Settled(y) => x.version < y.version,
           y.key = NoKey
    PROVE  CandidateQuiet(x, y)
BY DEF CandidateQuiet, CandidateLater, Settled

LEMMA ActiveHasNoKey ==
    ASSUME NEW h, HubOK(h), NEW c \in Evidence,
           h.candidates[c].status \in {"absent", "pending", "deferred"}
    PROVE  h.candidates[c].key = NoKey /\ IsCandidate(h.candidates[c])
BY DEF HubOK, KeysAreHeld, Settled, IsHub

LEMMA RequeuedFine ==
    ASSUME NEW h, HubOK(h), NEW S
    PROVE  Fine(h, Requeued(h, S))
<1> DEFINE new == [c \in Evidence |->
        IF c \in {b \in S : Active(h, b)} THEN [h.candidates[c] EXCEPT !.organized = 0]
        ELSE h.candidates[c]]
<1>1. Requeued(h, S) = [h EXCEPT !.candidates = new]
    BY DEF Requeued, OnCandidates
<1>2. ASSUME NEW c \in Evidence
      PROVE  CandidateQuiet(h.candidates[c], new[c])
  <2>1. CASE c \in S /\ Active(h, c)
    <3> DEFINE x == h.candidates[c]  y == [x EXCEPT !.organized = 0]
    <3>1. x.status \in {"absent", "pending", "deferred"}
        BY <2>1 DEF Active
    <3>2. x.key = NoKey /\ IsCandidate(x)
        BY <3>1, ActiveHasNoKey
    <3>3. new[c] = y
        BY <2>1
    <3> HIDE DEF x
    <3>4. IsCandidate(y) /\ y.version = x.version /\ y.status = x.status /\ y.key = x.key
        BY <3>2 DEF IsCandidate, CandidateFields
    <3> HIDE DEF y
    <3>5. CandidateQuiet(x, y)
        BY <3>1, <3>2, <3>4, ActiveQuiet DEF Settled, IsCandidate
    <3> QED BY <3>3, <3>5 DEF x
  <2>2. CASE ~(c \in S /\ Active(h, c))
      BY <2>2, QuietByDefault
  <2> QED BY <2>1, <2>2
<1>3. DOMAIN new = Evidence
    OBVIOUS
<1> HIDE DEF new
<1> QED BY <1>1, <1>2, <1>3, CandidatesChange

\* Only the mark of the organized version changes: of any evidence that is not
\* settled, or whose mark is its version already.
LEMMA MarkedFine ==
    ASSUME NEW h, HubOK(h), NEW S, \A c \in S \cap Evidence : ~Settled(h.candidates[c])
    PROVE  Fine(h, OnCandidates(h, S, LAMBDA x : [x EXCEPT !.organized = x.version]))
<1> DEFINE mark(x) == [x EXCEPT !.organized = x.version]
           new == [c \in Evidence |->
                      IF c \in S THEN mark(h.candidates[c]) ELSE h.candidates[c]]
<1>1. OnCandidates(h, S, LAMBDA x : [x EXCEPT !.organized = x.version])
          = [h EXCEPT !.candidates = new]
    BY DEF OnCandidates
<1>2. ASSUME NEW c \in Evidence
      PROVE  CandidateQuiet(h.candidates[c], new[c])
  <2>1. CASE c \in S
    <3> DEFINE x == h.candidates[c]  y == mark(x)
    <3>1. IsCandidate(x) /\ ~Settled(x) /\ CandidateQuiet(x, x)
        BY <2>1, QuietByDefault DEF HubOK, IsHub
    <3>2. new[c] = y
        BY <2>1
    <3> HIDE DEF x
    <3>3. IsCandidate(y) /\ y.version = x.version /\ y.status = x.status /\ y.key = x.key
        BY <3>1 DEF IsCandidate, CandidateFields
    <3> HIDE DEF y
    <3>4. CandidateQuiet(x, y)
        BY <3>1, <3>3 DEF CandidateQuiet, CandidateLater, Settled
    <3> QED BY <3>2, <3>4 DEF x
  <2>2. CASE c \notin S
      BY <2>2, QuietByDefault
  <2> QED BY <2>1, <2>2
<1>3. DOMAIN new = Evidence
    OBVIOUS
<1> HIDE DEF new
<1> QED BY <1>1, <1>2, <1>3, CandidatesChange

LEMMA SubmittedFine ==
    ASSUME NEW h, HubOK(h), NEW c \in Evidence, h.candidates[c].status = "absent"
    PROVE  Fine(h, [h EXCEPT !.candidates[c] =
                       [@ EXCEPT !.status = "pending", !.version = 1]])
<1> DEFINE x == h.candidates[c]
           y == [x EXCEPT !.status = "pending", !.version = 1]
           new == [h.candidates EXCEPT ![c] = y]
<1>1. [h EXCEPT !.candidates[c] = [@ EXCEPT !.status = "pending", !.version = 1]]
          = [h EXCEPT !.candidates = new]
    BY DEF HubOK, IsHub
<1>2. CandidateQuiet(x, y)
  <2>1. x.status = "absent" /\ x.key = NoKey /\ IsCandidate(x)
      BY ActiveHasNoKey
  <2> HIDE DEF x
  <2>2. IsCandidate(y) /\ y.version = 1 /\ y.status = "pending" /\ y.key = x.key
      BY <2>1 DEF IsCandidate, CandidateFields
  <2>3. x.version = 0
      BY <2>1 DEF IsCandidate
  <2> HIDE DEF y
  <2> QED BY <2>1, <2>2, <2>3, ActiveQuiet DEF Settled
<1>3. DOMAIN new = Evidence
    BY DEF HubOK, IsHub
<1>4. \A b \in Evidence : CandidateQuiet(h.candidates[b], new[b])
    BY <1>2, QuietByDefault DEF HubOK, IsHub
<1> HIDE DEF new, x, y
<1> QED BY <1>1, <1>3, <1>4, CandidatesChange DEF y, x

LEMMA DecidedFine ==
    ASSUME NEW h, HubOK(h), NEW S, \A c \in S \cap Evidence : Active(h, c),
           NEW status, status \notin {"promoting", "absent"}, NEW outputs
    PROVE  Fine(h, Decided(h, S, status, outputs))
<1> DEFINE decide(x) == [x EXCEPT !.version = @ + 1, !.status = status,
                                  !.result = status, !.outputs = outputs, !.key = NoKey]
           new == [c \in Evidence |->
                      IF c \in S THEN decide(h.candidates[c]) ELSE h.candidates[c]]
<1>1. Decided(h, S, status, outputs) = [h EXCEPT !.candidates = new]
    BY DEF Decided, OnCandidates
<1>2. ASSUME NEW c \in Evidence
      PROVE  CandidateQuiet(h.candidates[c], new[c])
  <2>1. CASE c \in S
    <3> DEFINE x == h.candidates[c]  y == decide(x)
    <3>1. x.status \in {"absent", "pending", "deferred"}
        BY <2>1 DEF Active
    <3>2. IsCandidate(x)
        BY <3>1, ActiveHasNoKey
    <3>3. new[c] = y
        BY <2>1
    <3> HIDE DEF x
    <3>4. IsCandidate(y) /\ y.version = x.version + 1 /\ y.status = status /\ y.key = NoKey
        BY <3>2 DEF IsCandidate, CandidateFields
    <3> HIDE DEF y
    <3>5. CandidateQuiet(x, y)
        BY <3>1, <3>2, <3>4, ActiveQuiet DEF IsCandidate
    <3> QED BY <3>3, <3>5 DEF x
  <2>2. CASE c \notin S
      BY <2>2, QuietByDefault
  <2> QED BY <2>1, <2>2
<1>3. DOMAIN new = Evidence
    OBVIOUS
<1> HIDE DEF new
<1> QED BY <1>1, <1>2, <1>3, CandidatesChange

\* The drafts of deferred evidence keep it, at its new version.
LEMMA DeferredFine ==
    ASSUME NEW h, HubOK(h), NEW S, \A c \in S \cap Evidence : Active(h, c)
    PROVE  Fine(h, Deferred(h, S))
<1> DEFINE put1 == Decided(h, S, "deferred", FALSE)
           put == OnCandidates(put1, S, LAMBDA x : [x EXCEPT !.organized = x.version])
           I == {i \in GroupsIn(h, "pending") : DOMAIN h.groups[i].members \cap S # {}}
           moved(g) == [g EXCEPT !.version = @ + 1,
                    !.members = [c \in DOMAIN g.members |-> put.candidates[c].version]]
           new == [i \in DOMAIN put.groups |->
                      IF i \in I THEN moved(put.groups[i]) ELSE put.groups[i]]
<1>1. Fine(h, put1)
    BY DecidedFine
<1>2. \A c \in S \cap Evidence : ~Settled(put1.candidates[c])
  <2> SUFFICES ASSUME NEW c \in Evidence, c \in S
               PROVE  put1.candidates[c].status = "deferred"
      BY DEF Settled
  <2>1. IsCandidate(h.candidates[c])
      BY DEF HubOK, IsHub
  <2> QED BY <2>1 DEF Decided, OnCandidates, HubOK, IsHub, IsCandidate, CandidateFields
<1>3. put1.groups = h.groups
    BY DEF Decided, OnCandidates, HubOK, IsHub
<1>4. HubOK(put1) /\ IsHub(put1)
    BY <1>1 DEF Fine, HubOK
<1> HIDE DEF put1
<1>5. Fine(put1, put)
    BY <1>2, <1>4, MarkedFine
<1>6. put.groups = h.groups
    BY <1>3, <1>4 DEF OnCandidates, IsHub
<1>7. HubOK(put) /\ Fine(h, put)
    BY <1>1, <1>5, FineTransitive DEF Fine
<1>8. Deferred(h, S) = [put EXCEPT !.groups = new]
    BY DEF Deferred, OnGroups, put1
<1> HIDE DEF put
<1>9. ASSUME NEW i \in DOMAIN put.groups
      PROVE  GroupQuiet(put.groups[i], new[i])
  <2>1. CASE i \in I
    <3> DEFINE g == put.groups[i]  g2 == moved(g)
    <3>1. g.status = "pending" /\ IsGroup(g) /\ ApprovedGroup(g)
        BY <2>1, <1>6, <1>7 DEF GroupsIn, HubOK, IsHub, ApprovalsMatch
    <3>2. new[i] = g2
        BY <2>1
    <3> HIDE DEF g
    <3>3. IsGroup(g2) /\ g2.status = g.status /\ g2.plan = g.plan
              /\ g2.outputs = g.outputs /\ g2.auto = g.auto
              /\ DOMAIN g2.members = DOMAIN g.members
        BY <3>1 DEF IsGroup, GroupFields
    <3> HIDE DEF g2
    <3>4. ApprovedGroup(g2)
        BY <3>1, <3>3 DEF ApprovedGroup, MatchesReview
    <3>5. GroupQuiet(g, g2)
        BY <3>1, <3>3, <3>4, DraftQuiet
    <3> QED BY <3>2, <3>5 DEF g
  <2>2. CASE i \notin I
      BY <1>7, <2>2, QuietByDefault
  <2> QED BY <2>1, <2>2
<1>10. new = [i \in DOMAIN put.groups |-> new[i]]
    OBVIOUS
<1> HIDE DEF new
<1>11. Fine(put, [put EXCEPT !.groups = new])
    BY <1>7, <1>9, <1>10, GroupsChange
<1> QED BY <1>7, <1>8, <1>11, FineTransitive

\* The cycle notes how far a review is; this is no plan's business.
LEMMA ReviewStateQuiet ==
    ASSUME NEW g, IsGroup(g), ApprovedGroup(g), NEW s,
           s \notin {"approved", "applying"} \/ g.plan # NoPlan
    PROVE  GroupQuiet(g, [g EXCEPT !.auto.state = s])
<1> DEFINE g2 == [g EXCEPT !.auto.state = s]
<1>1. IsGroup(g2) /\ g2.status = g.status /\ g2.plan = g.plan
          /\ g2.outputs = g.outputs /\ g2.members = g.members
          /\ g2.auto.authorized = g.auto.authorized
          /\ g2.auto.decisions = g.auto.decisions /\ g2.auto.state = s
    BY DEF IsGroup, GroupFields, ReviewFields
<1> HIDE DEF g2
<1>2. ApprovedGroup(g2)
    BY <1>1 DEF ApprovedGroup, MatchesReview
<1>3. GroupQuiet(g, g2)
    BY <1>1, <1>2 DEF GroupQuiet, GroupLater
<1> QED BY <1>3 DEF g2

LEMMA ReviewStateFine ==
    ASSUME NEW h, HubOK(h), NEW i \in DOMAIN h.groups, NEW s,
           s \notin {"approved", "applying"} \/ h.groups[i].plan # NoPlan
    PROVE  Fine(h, [h EXCEPT !.groups[i].auto.state = s])
<1> DEFINE g2 == [h.groups[i] EXCEPT !.auto.state = s]
<1>1. [h EXCEPT !.groups[i].auto.state = s] = [h EXCEPT !.groups[i] = g2]
    OBVIOUS
<1>2. GroupQuiet(h.groups[i], g2)
    BY ReviewStateQuiet DEF HubOK, IsHub, ApprovalsMatch
<1> HIDE DEF g2
<1> QED BY <1>1, <1>2, OneGroupChanges

LEMMA InterruptedFine ==
    ASSUME NEW h, HubOK(h), NEW i \in DOMAIN h.groups
    PROVE  Fine(h, Interrupted(h, i))
BY ReviewStateFine DEF Interrupted

LEMMA StaleFine ==
    ASSUME NEW h, HubOK(h), NEW i \in DOMAIN h.groups
    PROVE  Fine(h, Stale(h, i))
<1> DEFINE h2 == [h EXCEPT !.groups[i].auto.state = "stale"]
<1>1. Fine(h, h2)
    BY ReviewStateFine
<1> HIDE DEF h2
<1>2. Fine(h2, Requeued(h2, DOMAIN h.groups[i].members))
    BY <1>1, RequeuedFine DEF Fine
<1> QED BY <1>1, <1>2, FineTransitive DEF Stale, h2

\* What the hub keeps of a draft when only its evidence is queued again.
LEMMA StaleGroup ==
    ASSUME NEW h, HubOK(h), NEW i \in DOMAIN h.groups
    PROVE  Stale(h, i).groups[i] = [h.groups[i] EXCEPT !.auto.state = "stale"]
BY DEF Stale, Requeued, OnCandidates, HubOK, IsHub

\* An approval that is taken back leaves a draft without a plan.
LEMMA RevokedFine ==
    ASSUME NEW h, HubOK(h), NEW i \in GroupsIn(h, "pending")
    PROVE  Fine(h, Revoked(h, i))
<1> DEFINE h2 == Stale(h, i)
           g == h2.groups[i]
           g2 == [g EXCEPT !.auto.authorized = FALSE, !.plan = NoPlan]
<1>0. i \in DOMAIN h.groups
    BY DEF GroupsIn
<1>1. Fine(h, h2)
    BY <1>0, StaleFine
<1>2. HubOK(h2) /\ i \in DOMAIN h2.groups
    BY <1>0, <1>1, FineGroups
<1>3. g.status = "pending" /\ IsGroup(g)
  <2>1. IsGroup(h.groups[i]) /\ h.groups[i].status = "pending"
      BY <1>0 DEF GroupsIn, HubOK, IsHub
  <2>2. g = [h.groups[i] EXCEPT !.auto.state = "stale"]
      BY <1>0, StaleGroup
  <2>3. g.status = h.groups[i].status
      BY <2>1, <2>2 DEF IsGroup, GroupFields
  <2> QED BY <1>2, <2>1, <2>3 DEF HubOK, IsHub
<1>4. Revoked(h, i) = [h2 EXCEPT !.groups[i] = g2]
    BY DEF Revoked
<1> HIDE DEF h2, g
<1>5. IsGroup(g2) /\ g2.status = "pending" /\ g2.members = g.members
          /\ g2.auto.authorized = FALSE
    BY <1>3 DEF IsGroup, GroupFields, ReviewFields
<1> HIDE DEF g2
<1>6. GroupQuiet(g, g2)
    BY <1>3, <1>5, DraftQuiet DEF ApprovedGroup
<1>7. Fine(h2, [h2 EXCEPT !.groups[i] = g2])
    BY <1>2, <1>6, OneGroupChanges DEF g
<1> QED BY <1>1, <1>4, <1>7, FineTransitive

\* Whatever a review stores with a draft, short of a plan.
LEMMA UnauthorizedFine ==
    ASSUME NEW h, HubOK(h), NEW i \in GroupsIn(h, "pending"), NEW auto,
           DOMAIN auto = ReviewFields, auto.authorized = FALSE
    PROVE  Fine(h, [h EXCEPT !.groups[i].auto = auto])
<1> DEFINE g == h.groups[i]  g2 == [g EXCEPT !.auto = auto]
<1>1. i \in DOMAIN h.groups /\ g.status = "pending" /\ IsGroup(g)
    BY DEF GroupsIn, HubOK, IsHub
<1>2. [h EXCEPT !.groups[i].auto = auto] = [h EXCEPT !.groups[i] = g2]
    OBVIOUS
<1> HIDE DEF g
<1>3. IsGroup(g2) /\ g2.status = "pending" /\ g2.members = g.members /\ g2.auto = auto
    BY <1>1 DEF IsGroup, GroupFields
<1> HIDE DEF g2
<1>4. GroupQuiet(g, g2)
    BY <1>1, <1>3, DraftQuiet DEF ApprovedGroup
<1> QED BY <1>1, <1>2, <1>4, OneGroupChanges DEF g

LEMMA UnreviewedFields == DOMAIN Unreviewed = ReviewFields /\ Unreviewed.authorized = FALSE
BY DEF Unreviewed, ReviewFields

\* The verdict of a review closes evidence that nobody writes.
LEMMA SettleNoChangeFine ==
    ASSUME NEW h, HubOK(h), NEW i
    PROVE  Fine(h, SettleNoChange(h, i))
<1> DEFINE S == {c \in NoChange(h.groups[i]) : h.candidates[c].status = "pending"}
           close(x) == [x EXCEPT !.status = "promoted", !.version = @ + 1,
                                 !.result = "no_change"]
           new == [c \in Evidence |->
                      IF c \in S THEN close(h.candidates[c]) ELSE h.candidates[c]]
<1>1. SettleNoChange(h, i) = InvalidateStale([h EXCEPT !.candidates = new])
    BY DEF SettleNoChange, OnCandidates
<1>2. ASSUME NEW c \in Evidence
      PROVE  CandidateQuiet(h.candidates[c], new[c])
  <2>1. CASE c \in S
    <3> DEFINE x == h.candidates[c]  y == close(x)
    <3>1. x.status = "pending"
        BY <2>1
    <3>2. x.key = NoKey /\ IsCandidate(x)
        BY <3>1, ActiveHasNoKey
    <3>3. new[c] = y
        BY <2>1
    <3> HIDE DEF x
    <3>4. IsCandidate(y) /\ y.version = x.version + 1 /\ y.status = "promoted" /\ y.key = x.key
        BY <3>2 DEF IsCandidate, CandidateFields
    <3> HIDE DEF y
    <3>5. CandidateQuiet(x, y)
        BY <3>1, <3>2, <3>4, ActiveQuiet DEF IsCandidate
    <3> QED BY <3>3, <3>5 DEF x
  <2>2. CASE c \notin S
      BY <2>2, QuietByDefault
  <2> QED BY <2>1, <2>2
<1>3. DOMAIN new = Evidence
    OBVIOUS
<1> HIDE DEF new
<1>4. Fine(h, [h EXCEPT !.candidates = new])
    BY <1>2, <1>3, CandidatesChange
<1> QED BY <1>1, <1>4, FineThenStale

LEMMA AssessedFine ==
    ASSUME NEW h, HubOK(h), NEW i \in GroupsIn(h, "pending"), NEW decisions
    PROVE  Fine(h, Assessed(h, i, decisions))
<1> DEFINE g == h.groups[i]
           approved == ApprovedOutputs(g.outputs, decisions)
           open == {k \in DOMAIN g.outputs : decisions[k] \in {"accumulating", "needs_input"}}
           state == CASE approved # <<>> -> "approved"
                   [] approved = <<>> /\ "needs_input" \in Range(decisions) -> "needs_input"
                   [] approved = <<>> /\ Range(decisions) = {"no_change"}
                          /\ DOMAIN g.members = Covered(g.outputs) -> "no_change"
                   [] OTHER -> "accumulating"
           retain == UNION {g.outputs[k].evidence : k \in open}
           auto == [g.auto EXCEPT !.state = state, !.decisions = decisions,
                                  !.authorized = approved # <<>>, !.retain = retain]
           reviewed == [h EXCEPT !.groups[i].auto = auto]
           plan == [version |-> g.auto.input.version, outputs |-> approved,
                    wording |-> "drafted"]
<1>1. i \in DOMAIN h.groups /\ g.status = "pending" /\ IsGroup(g)
    BY DEF GroupsIn, HubOK, IsHub
<1>2. /\ approved # <<>> => Assessed(h, i, decisions) = [reviewed EXCEPT !.groups[i].plan = plan]
      /\ approved = <<>> => Assessed(h, i, decisions) \in {reviewed, SettleNoChange(reviewed, i)}
  <2>1. reviewed = [h EXCEPT !.groups[i].auto = [@ EXCEPT
                         !.state = state, !.decisions = decisions,
                         !.authorized = approved # <<>>, !.retain = retain]]
      BY <1>1
  <2> HIDE DEF approved
  <2> QED BY <2>1 DEF Assessed, approved
<1> HIDE DEF state, retain, approved
<1>3. CASE approved # <<>>
  <2> DEFINE g2 == [g EXCEPT !.auto = auto, !.plan = plan]
  <2>1. Assessed(h, i, decisions) = [h EXCEPT !.groups[i] = g2]
    <3>1. Assessed(h, i, decisions) = [reviewed EXCEPT !.groups[i].plan = plan]
        BY <1>2, <1>3
    <3> HIDE DEF auto, plan
    <3> QED BY <3>1, <1>1 DEF HubOK, IsHub
  <2>2. plan # NoPlan /\ plan.outputs = approved /\ plan.wording = "drafted"
    <3>1. DOMAIN plan # DOMAIN NoPlan
      <4>1. "wording" \in DOMAIN plan /\ DOMAIN NoPlan = {}
          BY DEF NoPlan
      <4> QED BY <4>1
    <3> QED BY <3>1
  <2> HIDE DEF g, plan
  <2>3. DOMAIN auto = ReviewFields /\ auto.authorized = TRUE /\ auto.decisions = decisions
      BY <1>1, <1>3 DEF IsGroup, ReviewFields
  <2> HIDE DEF auto
  <2>4. IsGroup(g2) /\ g2.status = "pending" /\ g2.members = g.members
           /\ g2.outputs = g.outputs /\ g2.plan = plan /\ g2.auto = auto
      BY <1>1, <2>3 DEF IsGroup, GroupFields
  <2> HIDE DEF g2
  <2>5. approved = ApprovedOutputs(g2.outputs, g2.auto.decisions)
      BY <2>3, <2>4 DEF approved
  <2>6. ApprovedGroup(g2)
      BY <2>2, <2>4, <2>5 DEF ApprovedGroup, MatchesReview
  <2>7. GroupQuiet(g, g2)
      BY <1>1, <2>4, <2>6, DraftQuiet
  <2> QED BY <1>1, <2>1, <2>7, OneGroupChanges DEF g
<1>4. CASE approved = <<>>
  <2>1. DOMAIN auto = ReviewFields /\ auto.authorized = FALSE
      BY <1>1, <1>4 DEF IsGroup, ReviewFields
  <2> HIDE DEF auto
  <2>2. Fine(h, reviewed)
      BY <2>1, UnauthorizedFine
  <2> HIDE DEF reviewed
  <2>3. Fine(reviewed, SettleNoChange(reviewed, i))
      BY <2>2, SettleNoChangeFine DEF Fine
  <2>4. Fine(h, SettleNoChange(reviewed, i))
      BY <2>2, <2>3, FineTransitive
  <2> QED BY <1>2, <1>4, <2>2, <2>4
<1> QED BY <1>3, <1>4

-----------------------------------------------------------------------------
(* Plans: started, completed, stopped; the operator's own promotions        *)

\* What a plan needs to be started.
MayStart(h, i, plan) ==
    /\ i \in GroupsIn(h, "pending")
    /\ \A c \in Covered(plan.outputs) :
          /\ c \in DOMAIN h.groups[i].members
          /\ Active(h, c) /\ h.candidates[c].version = h.groups[i].members[c]
    /\ h.groups[i].auto.authorized =>
          /\ plan # NoPlan
          /\ plan.outputs = ApprovedOutputs(h.groups[i].outputs, h.groups[i].auto.decisions)
          /\ plan.wording = "drafted"
WithPlan(h, i, plan) ==
    OnCandidates([h EXCEPT !.groups[i].status = "promoting", !.groups[i].plan = plan],
                 Covered(plan.outputs), LAMBDA x : [x EXCEPT !.status = "promoting"])

LEMMA WithPlanFine ==
    ASSUME NEW h, HubOK(h), NEW i, NEW plan, MayStart(h, i, plan)
    PROVE  /\ Fine(h, WithPlan(h, i, plan))
           /\ WithPlan(h, i, plan).groups[i].status = "promoting"
           /\ WithPlan(h, i, plan).groups[i].plan = plan
           /\ WithPlan(h, i, plan).groups[i].auto = h.groups[i].auto
           /\ WithPlan(h, i, plan).groups[i].outputs = h.groups[i].outputs
<1> DEFINE h2 == WithPlan(h, i, plan)
           covered == Covered(plan.outputs)
           g == h.groups[i]
           g2 == [g EXCEPT !.status = "promoting", !.plan = plan]
           start(x) == [x EXCEPT !.status = "promoting"]
<1>1. i \in DOMAIN h.groups /\ g.status = "pending" /\ IsGroup(g)
    BY DEF MayStart, GroupsIn, HubOK, IsHub
<1>2. h2.groups = [h.groups EXCEPT ![i] = g2] /\ DOMAIN h2 = {"groups", "candidates"}
          /\ h2.candidates = [c \in Evidence |->
                  IF c \in covered THEN start(h.candidates[c]) ELSE h.candidates[c]]
    BY <1>1 DEF WithPlan, OnCandidates, HubOK, IsHub
<1>3. h2.groups[i] = g2 /\ DOMAIN h2.groups = DOMAIN h.groups
          /\ \A j \in DOMAIN h.groups : j # i => h2.groups[j] = h.groups[j]
    BY <1>1, <1>2 DEF HubOK, IsHub
<1>4. IsGroup(g2) /\ g2.status = "promoting" /\ g2.plan = plan /\ g2.members = g.members
          /\ g2.auto = g.auto /\ g2.outputs = g.outputs
  <2> HIDE DEF g
  <2> QED BY <1>1 DEF IsGroup, GroupFields
<1>5. ASSUME NEW c \in covered
      PROVE  /\ c \in Evidence /\ c \in DOMAIN g.members
             /\ Active(h, c) /\ h.candidates[c].key = NoKey
             /\ h.candidates[c].version = g.members[c]
             /\ IsCandidate(h2.candidates[c])
             /\ h2.candidates[c].status = "promoting"
             /\ h2.candidates[c].key = NoKey
             /\ h2.candidates[c].version = g.members[c]
  <2>1. c \in DOMAIN g.members /\ Active(h, c) /\ h.candidates[c].version = g.members[c]
      BY DEF MayStart
  <2>2. c \in Evidence
      BY <1>1, <2>1 DEF IsGroup
  <2>3. h.candidates[c].key = NoKey /\ IsCandidate(h.candidates[c])
      BY <2>1, <2>2, ActiveHasNoKey DEF Active
  <2>4. h2.candidates[c] = start(h.candidates[c])
      BY <1>2, <2>2
  <2> HIDE DEF h2, g, covered
  <2> QED BY <2>1, <2>2, <2>3, <2>4 DEF IsCandidate, CandidateFields
<1>6. ASSUME NEW c \in Evidence, c \notin covered
      PROVE  h2.candidates[c] = h.candidates[c]
  <2> HIDE DEF h2, g, g2, covered
  <2> QED BY <1>2, <1>6
<1>7. DOMAIN h2.candidates = Evidence
    BY <1>2
<1>8. h2.groups \in Seq(Range(h2.groups))
  <2>1. h2.groups = [j \in DOMAIN h.groups |-> h2.groups[j]]
      BY <1>2 DEF HubOK, IsHub
  <2> QED BY <2>1, SequenceKept DEF HubOK, IsHub
<1> HIDE DEF h2
<1>9. IsHub(h2)
  <2>1. \A c \in Evidence : IsCandidate(h2.candidates[c])
      BY <1>5, <1>6 DEF HubOK, IsHub
  <2>2. \A j \in DOMAIN h2.groups : IsGroup(h2.groups[j])
      BY <1>3, <1>4 DEF HubOK, IsHub
  <2> QED BY <1>2, <1>7, <1>8, <2>1, <2>2 DEF IsHub
<1>10. GroupsIn(h2, "promoting") = GroupsIn(h, "promoting") \cup {i}
    BY <1>1, <1>3, <1>4 DEF GroupsIn
<1>11. PlanCovers(h2, i) = covered
    BY <1>3, <1>4 DEF PlanCovers
<1>12. ASSUME NEW j \in GroupsIn(h, "promoting")
       PROVE  /\ j # i /\ h2.groups[j] = h.groups[j]
              /\ PlanCovers(h2, j) = PlanCovers(h, j)
              /\ PlanCovers(h, j) \cap covered = {}
  <2>1. j # i /\ h2.groups[j] = h.groups[j]
      BY <1>1, <1>3 DEF GroupsIn
  <2>2. \A c \in PlanCovers(h, j) : h.candidates[c].status = "promoting"
      BY DEF HubOK, PlansHold
  <2>3. \A c \in covered : h.candidates[c].status # "promoting"
      BY <1>5 DEF Active
  <2> QED BY <2>1, <2>2, <2>3 DEF PlanCovers
<1>13. KeysAreHeld(h2)
    BY <1>5, <1>6 DEF HubOK, KeysAreHeld
<1>14. PlansHold(h2)
  <2> SUFFICES ASSUME NEW j \in GroupsIn(h2, "promoting"), NEW c \in PlanCovers(h2, j)
               PROVE  c \in Evidence /\ h2.candidates[c].status = "promoting"
                        /\ h2.candidates[c].key = NoKey
                        /\ h2.candidates[c].version = h2.groups[j].members[c]
      BY DEF PlansHold
  <2>1. CASE j = i
    <3>1. c \in covered /\ h2.groups[j] = g2
        BY <1>3, <1>11, <2>1
    <3> HIDE DEF g, g2, covered
    <3> QED BY <1>4, <1>5, <3>1
  <2>2. CASE j \in GroupsIn(h, "promoting")
    <3>1. c \in PlanCovers(h, j) /\ c \notin covered /\ h2.groups[j] = h.groups[j]
        BY <1>12, <2>2
    <3>2. c \in Evidence
        BY <2>2, <3>1 DEF HubOK, PlansHold
    <3> QED BY <1>6, <2>2, <3>1, <3>2 DEF HubOK, PlansHold
  <2> QED BY <1>10, <2>1, <2>2
<1>15. PromotingIsHeld(h2)
  <2> SUFFICES ASSUME NEW c \in Evidence, h2.candidates[c].status = "promoting",
                      h2.candidates[c].key = NoKey
               PROVE  \E j \in GroupsIn(h2, "promoting") : c \in PlanCovers(h2, j)
      BY DEF PromotingIsHeld
  <2>1. CASE c \in covered
      BY <1>10, <1>11, <2>1
  <2>2. CASE c \notin covered
    <3>1. PICK j \in GroupsIn(h, "promoting") : c \in PlanCovers(h, j)
        BY <1>6, <2>2 DEF HubOK, PromotingIsHeld
    <3> QED BY <1>10, <1>12, <3>1
  <2> QED BY <2>1, <2>2
<1>16. PlansApart(h2)
  <2> SUFFICES ASSUME NEW j \in GroupsIn(h2, "promoting"), NEW k \in GroupsIn(h2, "promoting"),
                      j # k
               PROVE  PlanCovers(h2, j) \cap PlanCovers(h2, k) = {}
      BY DEF PlansApart
  <2>1. CASE j = i
      BY <1>10, <1>11, <1>12, <2>1
  <2>2. CASE k = i
      BY <1>10, <1>11, <1>12, <2>2
  <2>3. CASE j # i /\ k # i
      BY <1>10, <1>12, <2>3 DEF HubOK, PlansApart
  <2> QED BY <2>1, <2>2, <2>3
<1>17. DraftsApart(h2)
  <2> SUFFICES ASSUME NEW j \in GroupsIn(h2, "pending"), NEW k \in DOMAIN h2.groups, j # k
               PROVE  /\ h2.groups[k].status = "pending" =>
                          DOMAIN h2.groups[j].members \cap DOMAIN h2.groups[k].members = {}
                      /\ h2.groups[k].status = "promoting" =>
                          DOMAIN h2.groups[j].members \cap PlanCovers(h2, k) = {}
      BY DEF DraftsApart
  <2>1. j \in GroupsIn(h, "pending") /\ j # i /\ h2.groups[j] = h.groups[j]
      BY <1>3, <1>4 DEF GroupsIn
  <2>2. CASE k = i
    <3>1. DOMAIN h.groups[j].members \cap DOMAIN g.members = {}
        BY <1>1, <2>1 DEF HubOK, DraftsApart
    <3>2. covered \subseteq DOMAIN g.members
        BY <1>5
    <3> QED BY <1>3, <1>4, <1>11, <2>1, <2>2, <3>1, <3>2
  <2>3. CASE k # i
    <3>1. k \in DOMAIN h.groups /\ h2.groups[k] = h.groups[k] /\ PlanCovers(h2, k) = PlanCovers(h, k)
        BY <1>3, <2>3 DEF PlanCovers
    <3> QED BY <2>1, <3>1 DEF HubOK, DraftsApart
  <2> QED BY <2>2, <2>3
<1>18. ApprovalsMatch(h2)
  <2>1. ApprovedGroup(g2)
    <3> HIDE DEF g2
    <3> QED BY <1>4 DEF MayStart, ApprovedGroup, MatchesReview
  <2> QED BY <1>3, <2>1 DEF HubOK, ApprovalsMatch
<1>19. Later(h, h2)
  <2>1. ASSUME NEW c \in Evidence
        PROVE  CandidateLater(h.candidates[c], h2.candidates[c])
    <3>1. CASE c \in covered
      <4>1. h.candidates[c].version \in Nat
          BY DEF HubOK, IsHub, IsCandidate
      <4> QED BY <1>5, <3>1, <4>1 DEF CandidateLater, Settled, Active
    <3>2. CASE c \notin covered
        BY <1>6, <3>2, QuietByDefault DEF CandidateQuiet
    <3> QED BY <3>1, <3>2
  <2>2. \A j \in DOMAIN h.groups : GroupLater(h.groups[j], h2.groups[j])
      BY <1>1, <1>3 DEF GroupLater
  <2> QED BY <1>3, <2>1, <2>2 DEF Later
<1>20. HubOK(h2)
    BY <1>9, <1>13, <1>14, <1>15, <1>16, <1>17, <1>18 DEF HubOK
<1> QED BY <1>3, <1>4, <1>19, <1>20 DEF Fine, h2

\* A plan ends, as it was started or, when the operator repeated an approval,
\* without ever having been.
LEMMA PlanEnds ==
    ASSUME NEW h, HubOK(h), NEW i \in DOMAIN h.groups, NEW covered, NEW new, NEW g2,
           \/ h.groups[i].status = "promoting" /\ covered = PlanCovers(h, i)
           \/ /\ h.groups[i].status = "pending" /\ ~h.groups[i].auto.authorized
              /\ covered \subseteq DOMAIN h.groups[i].members,
           DOMAIN new = Evidence,
           \A c \in Evidence \ covered : new[c] = h.candidates[c],
           \A c \in covered : /\ ~Settled(h.candidates[c]) /\ IsCandidate(new[c])
                              /\ new[c].status # "promoting"
                              /\ new[c].key # NoKey => Settled(new[c])
                              /\ h.candidates[c].version < new[c].version,
           IsGroup(g2), g2.status \in {"promoted", "interrupted"},
           g2.outputs = h.groups[i].outputs, g2.plan = h.groups[i].plan,
           g2.auto = h.groups[i].auto
    PROVE  Fine(h, [h EXCEPT !.candidates = new, !.groups[i] = g2])
<1> DEFINE h2 == [h EXCEPT !.candidates = new, !.groups[i] = g2]
           g == h.groups[i]
<1>1. h2.groups = [h.groups EXCEPT ![i] = g2] /\ DOMAIN h2 = {"groups", "candidates"}
          /\ h2.candidates = new
    BY DEF HubOK, IsHub
<1>2. h2.groups[i] = g2 /\ DOMAIN h2.groups = DOMAIN h.groups
          /\ \A j \in DOMAIN h.groups : j # i => h2.groups[j] = h.groups[j]
    BY <1>1 DEF HubOK, IsHub
<1>3. h2.groups \in Seq(Range(h2.groups))
  <2>1. h2.groups = [j \in DOMAIN h.groups |-> h2.groups[j]]
      BY <1>1 DEF HubOK, IsHub
  <2> QED BY <2>1, SequenceKept DEF HubOK, IsHub
<1> HIDE DEF h2
<1>4. IsHub(h2)
  <2>1. \A c \in Evidence : IsCandidate(h2.candidates[c])
      BY <1>1 DEF HubOK, IsHub
  <2>2. \A j \in DOMAIN h2.groups : IsGroup(h2.groups[j])
      BY <1>2 DEF HubOK, IsHub
  <2> QED BY <1>1, <1>3, <2>1, <2>2 DEF IsHub
<1>5. ASSUME NEW j \in GroupsIn(h2, "promoting")
      PROVE  /\ j \in GroupsIn(h, "promoting") /\ j # i
             /\ h2.groups[j] = h.groups[j] /\ PlanCovers(h2, j) = PlanCovers(h, j)
             /\ PlanCovers(h, j) \cap covered = {}
  <2>1. j \in DOMAIN h.groups /\ j # i /\ h2.groups[j] = h.groups[j]
            /\ h.groups[j].status = "promoting"
      BY <1>2 DEF GroupsIn
  <2>2. j \in GroupsIn(h, "promoting")
      BY <2>1 DEF GroupsIn
  <2>3. CASE g.status = "promoting" /\ covered = PlanCovers(h, i)
    <3>1. i \in GroupsIn(h, "promoting")
        BY <2>3 DEF GroupsIn
    <3> QED BY <2>1, <2>2, <2>3, <3>1 DEF HubOK, PlansApart, PlanCovers
  <2>4. CASE g.status = "pending" /\ covered \subseteq DOMAIN g.members
    <3>1. i \in GroupsIn(h, "pending")
        BY <2>4 DEF GroupsIn
    <3>2. DOMAIN g.members \cap PlanCovers(h, j) = {}
        BY <2>1, <3>1 DEF HubOK, DraftsApart
    <3> QED BY <2>1, <2>2, <2>4, <3>2 DEF PlanCovers
  <2> QED BY <2>3, <2>4
<1>6. KeysAreHeld(h2)
  <2> SUFFICES ASSUME NEW c \in Evidence, new[c].key # NoKey
               PROVE  new[c].status = "promoting" \/ Settled(new[c])
      BY <1>1 DEF KeysAreHeld
  <2>1. CASE c \in covered
      BY <2>1
  <2>2. CASE c \notin covered
      BY <2>2 DEF HubOK, KeysAreHeld
  <2> QED BY <2>1, <2>2
<1>7. PlansHold(h2)
  <2> SUFFICES ASSUME NEW j \in GroupsIn(h2, "promoting"), NEW c \in PlanCovers(h2, j)
               PROVE  c \in Evidence /\ new[c].status = "promoting"
                        /\ new[c].key = NoKey
                        /\ new[c].version = h2.groups[j].members[c]
      BY <1>1 DEF PlansHold
  <2>1. j \in GroupsIn(h, "promoting") /\ c \in PlanCovers(h, j) /\ c \notin covered
            /\ h2.groups[j] = h.groups[j]
      BY <1>5
  <2>2. c \in Evidence
      BY <2>1 DEF HubOK, PlansHold
  <2>3. new[c] = h.candidates[c]
      BY <2>1, <2>2
  <2> QED BY <2>1, <2>2, <2>3 DEF HubOK, PlansHold
<1>8. PromotingIsHeld(h2)
  <2> SUFFICES ASSUME NEW c \in Evidence, new[c].status = "promoting", new[c].key = NoKey
               PROVE  \E j \in GroupsIn(h2, "promoting") : c \in PlanCovers(h2, j)
      BY <1>1 DEF PromotingIsHeld
  <2>1. c \notin covered /\ new[c] = h.candidates[c]
      OBVIOUS
  <2>2. PICK j \in GroupsIn(h, "promoting") : c \in PlanCovers(h, j)
      BY <2>1 DEF HubOK, PromotingIsHeld
  <2>3. j # i
      BY <2>1, <2>2 DEF GroupsIn
  <2>4. j \in DOMAIN h.groups /\ h2.groups[j] = h.groups[j]
      BY <1>2, <2>2, <2>3 DEF GroupsIn
  <2>5. j \in GroupsIn(h2, "promoting") /\ PlanCovers(h2, j) = PlanCovers(h, j)
      BY <1>2, <2>2, <2>4 DEF GroupsIn, PlanCovers
  <2> QED BY <2>2, <2>5
<1>9. PlansApart(h2)
    BY <1>5 DEF HubOK, PlansApart
<1>10. DraftsApart(h2)
  <2> SUFFICES ASSUME NEW j \in GroupsIn(h2, "pending"), NEW k \in DOMAIN h2.groups, j # k
               PROVE  /\ h2.groups[k].status = "pending" =>
                          DOMAIN h2.groups[j].members \cap DOMAIN h2.groups[k].members = {}
                      /\ h2.groups[k].status = "promoting" =>
                          DOMAIN h2.groups[j].members \cap PlanCovers(h2, k) = {}
      BY DEF DraftsApart
  <2>1. j \in GroupsIn(h, "pending") /\ h2.groups[j] = h.groups[j]
      BY <1>2 DEF GroupsIn
  <2>2. CASE k = i
      BY <1>2, <2>2
  <2>3. CASE k # i
    <3>1. k \in DOMAIN h.groups /\ h2.groups[k] = h.groups[k] /\ PlanCovers(h2, k) = PlanCovers(h, k)
        BY <1>2, <2>3 DEF PlanCovers
    <3> QED BY <2>1, <3>1 DEF HubOK, DraftsApart
  <2> QED BY <2>2, <2>3
<1>11. ApprovalsMatch(h2)
  <2>1. ApprovedGroup(g)
      BY DEF HubOK, ApprovalsMatch
  <2>2. ApprovedGroup(g2)
      BY <2>1 DEF ApprovedGroup, MatchesReview
  <2> QED BY <1>2, <2>2 DEF HubOK, ApprovalsMatch
<1>12. Later(h, h2)
  <2>1. ASSUME NEW c \in Evidence
        PROVE  CandidateLater(h.candidates[c], new[c])
    <3>1. CASE c \in covered
      <4>1. h.candidates[c].version \in Nat /\ new[c].version \in Nat
                /\ h.candidates[c].version < new[c].version /\ ~Settled(h.candidates[c])
          BY <3>1 DEF HubOK, IsHub, IsCandidate
      <4> QED BY <4>1 DEF CandidateLater
    <3>2. CASE c \notin covered
        BY <3>2, QuietByDefault DEF CandidateQuiet
    <3> QED BY <3>1, <3>2
  <2>2. \A j \in DOMAIN h.groups : GroupLater(h.groups[j], h2.groups[j])
      BY <1>2 DEF GroupLater
  <2> QED BY <1>1, <1>2, <2>1, <2>2 DEF Later
<1> QED BY <1>4, <1>6, <1>7, <1>8, <1>9, <1>10, <1>11, <1>12 DEF HubOK, Fine, h2

\* What the writer of a plan knows of the hub in its memory.
InHand(h, i, plan, automatic) ==
    /\ i \in DOMAIN h.groups
    /\ h.groups[i].plan = plan
    /\ \/ h.groups[i].status = "promoting"
       \/ h.groups[i].status = "pending" /\ ~h.groups[i].auto.authorized /\ ~automatic
    /\ \A c \in Covered(plan.outputs) :
          /\ c \in DOMAIN h.groups[i].members
          /\ Active(h, c) \/ h.candidates[c].status = "promoting"

LEMMA CompletedFine ==
    ASSUME NEW h, HubOK(h), NEW i, NEW automatic \in BOOLEAN,
           InHand(h, i, op.plan, automatic)
    PROVE  Fine(h, Completed(h, i, automatic))
<1> DEFINE g == h.groups[i]
           covered == Covered(op.plan.outputs)
           retained == IF automatic THEN covered \cap g.auto.retain ELSE {}
           promote(x) == [x EXCEPT !.status = "promoted", !.version = @ + 1,
                                   !.result = "promoted", !.outputs = TRUE]
           keep(x) == [[x EXCEPT !.status = "pending", !.version = @ + 1,
                                 !.result = "partially_represented", !.outputs = TRUE]
                          EXCEPT !.organized = x.version + 1]
           new == [c \in Evidence |-> IF c \in retained THEN keep(h.candidates[c])
                                      ELSE IF c \in covered THEN promote(h.candidates[c])
                                      ELSE h.candidates[c]]
           g2 == [g EXCEPT !.status = "promoted", !.version = @ + 1]
           done == [h EXCEPT !.candidates = new, !.groups[i] = g2]
           promoted == OnCandidates(h, covered \ retained, LAMBDA x : promote(x))
           kept == OnCandidates(promoted, retained, LAMBDA x : keep(x))
<1>1. i \in DOMAIN h.groups /\ g.plan = op.plan /\ IsGroup(g)
    BY DEF InHand, HubOK, IsHub
<1>2. retained \subseteq covered
    OBVIOUS
<1>3. Completed(h, i, automatic) = InvalidateStale(
          [kept EXCEPT !.groups[i].status = "promoted", !.groups[i].version = @ + 1])
    BY DEF Completed, EvidenceOf
<1>4. [kept EXCEPT !.groups[i].status = "promoted", !.groups[i].version = @ + 1] = done
  <2>1. promoted.groups = h.groups /\ DOMAIN promoted = {"groups", "candidates"}
            /\ promoted.candidates = [c \in Evidence |->
                  IF c \in covered \ retained THEN promote(h.candidates[c]) ELSE h.candidates[c]]
            /\ promoted = [h EXCEPT !.candidates = promoted.candidates]
      BY DEF OnCandidates, HubOK, IsHub
  <2> HIDE DEF promoted
  <2>2. kept = [promoted EXCEPT !.candidates = [c \in Evidence |->
                  IF c \in retained THEN keep(promoted.candidates[c])
                  ELSE promoted.candidates[c]]]
      BY DEF OnCandidates
  <2>3. [c \in Evidence |-> IF c \in retained THEN keep(promoted.candidates[c])
                            ELSE promoted.candidates[c]] = new
    <3>1. \A c \in Evidence :
            (IF c \in retained THEN keep(promoted.candidates[c]) ELSE promoted.candidates[c])
              = new[c]
      <4> SUFFICES ASSUME NEW c \in Evidence
                   PROVE  (IF c \in retained THEN keep(promoted.candidates[c])
                           ELSE promoted.candidates[c]) = new[c]
          OBVIOUS
      <4> HIDE DEF keep, promote, retained, covered
      <4> QED BY <2>1, <1>2
    <3> HIDE DEF keep, promote
    <3> QED BY <3>1
  <2>4. kept = [h EXCEPT !.candidates = new]
    <3> HIDE DEF new, keep, kept
    <3> QED BY <2>1, <2>2, <2>3 DEF HubOK, IsHub
  <2> HIDE DEF kept, new
  <2> QED BY <2>4, <1>1 DEF HubOK, IsHub
<1>5. ASSUME NEW c \in covered
      PROVE  /\ c \in Evidence /\ ~Settled(h.candidates[c]) /\ IsCandidate(new[c])
             /\ new[c].status # "promoting"
             /\ new[c].key # NoKey => Settled(new[c])
             /\ h.candidates[c].version < new[c].version
  <2> DEFINE x == h.candidates[c]
  <2>1. c \in DOMAIN g.members /\ x.status \in {"pending", "deferred", "promoting"}
      BY DEF InHand, Active
  <2>2. c \in Evidence
      BY <1>1, <2>1 DEF IsGroup
  <2>3. IsCandidate(x)
      BY <2>2 DEF HubOK, IsHub
  <2>4. CASE c \in retained
    <3>1. automatic
        BY <2>4
    <3>2. i \in GroupsIn(h, "promoting") /\ c \in PlanCovers(h, i)
        BY <1>1, <3>1 DEF InHand, GroupsIn, PlanCovers
    <3>3. x.key = NoKey
        BY <3>2 DEF HubOK, PlansHold
    <3>4. new[c] = keep(x)
        BY <2>2, <2>4
    <3> HIDE DEF x, new, retained, covered
    <3>5. IsCandidate(keep(x)) /\ keep(x).version = x.version + 1
              /\ keep(x).status = "pending" /\ keep(x).key = x.key
        BY <2>3 DEF IsCandidate, CandidateFields
    <3> HIDE DEF keep
    <3>6. x.version \in Nat
        BY <2>3 DEF IsCandidate
    <3>7. h.candidates[c] = x
        BY DEF x
    <3> QED BY <2>1, <2>2, <3>3, <3>4, <3>5, <3>6, <3>7 DEF Settled
  <2>5. CASE c \notin retained
    <3>1. new[c] = promote(x)
        BY <2>2, <2>5
    <3> HIDE DEF x, new, retained, covered
    <3>2. IsCandidate(promote(x)) /\ promote(x).version = x.version + 1
              /\ promote(x).status = "promoted"
        BY <2>3 DEF IsCandidate, CandidateFields
    <3> HIDE DEF promote
    <3>3. x.version \in Nat
        BY <2>3 DEF IsCandidate
    <3>4. h.candidates[c] = x
        BY DEF x
    <3> QED BY <2>1, <2>2, <3>1, <3>2, <3>3, <3>4 DEF Settled
  <2> QED BY <2>4, <2>5
<1>6. DOMAIN new = Evidence /\ \A c \in Evidence \ covered : new[c] = h.candidates[c]
  <2> HIDE DEF keep, promote, covered
  <2> QED OBVIOUS
<1>7. IsGroup(g2) /\ g2.status = "promoted" /\ g2.outputs = g.outputs /\ g2.plan = g.plan
          /\ g2.auto = g.auto
  <2> HIDE DEF g
  <2> QED BY <1>1 DEF IsGroup, GroupFields
<1>8. \/ g.status = "promoting" /\ covered = PlanCovers(h, i)
      \/ /\ g.status = "pending" /\ ~g.auto.authorized
         /\ covered \subseteq DOMAIN g.members
    BY DEF InHand, PlanCovers
<1> HIDE DEF new, g2, covered, keep, promote
<1>9. Fine(h, done)
    BY <1>1, <1>5, <1>6, <1>7, <1>8, PlanEnds
<1> HIDE DEF done
<1> QED BY <1>3, <1>4, <1>9, FineThenStale

LEMMA StoppedFine ==
    ASSUME NEW h, HubOK(h), NEW i \in GroupsIn(h, "promoting")
    PROVE  Fine(h, Stopped(h, i))
<1> DEFINE g == h.groups[i]
           covered == PlanCovers(h, i)
           back(x) == [x EXCEPT !.status = "pending", !.version = @ + 1,
                             !.organized = 0, !.key = NoKey,
                             !.result = "interrupted", !.outputs = FALSE]
           new == [c \in Evidence |-> IF c \in covered THEN back(h.candidates[c])
                                      ELSE h.candidates[c]]
           g2 == [g EXCEPT !.status = "interrupted", !.version = @ + 1]
           done == [h EXCEPT !.candidates = new, !.groups[i] = g2]
<1>1. i \in DOMAIN h.groups /\ g.status = "promoting" /\ IsGroup(g)
    BY DEF GroupsIn, HubOK, IsHub
<1>2. ASSUME NEW c \in covered
      PROVE  c \in Evidence /\ h.candidates[c].status = "promoting"
    BY DEF HubOK, PlansHold
<1>3. {c \in covered : h.candidates[c].status = "promoting"} = covered
    BY <1>2
<1>4. Stopped(h, i) = done
  <2> DEFINE h1 == [h EXCEPT !.groups[i].status = "interrupted", !.groups[i].version = @ + 1]
  <2>1. Stopped(h, i) = OnCandidates(h1, covered, LAMBDA x : back(x))
      BY <1>3 DEF Stopped, PlanCovers
  <2>2. h1 = [h EXCEPT !.groups[i] = g2] /\ h1.candidates = h.candidates
      BY <1>1 DEF HubOK, IsHub
  <2> HIDE DEF h1
  <2>3. Stopped(h, i) = [h1 EXCEPT !.candidates = new]
      BY <2>1, <2>2 DEF OnCandidates
  <2> HIDE DEF new, g2
  <2> QED BY <2>2, <2>3 DEF HubOK, IsHub
<1>5. ASSUME NEW c \in covered
      PROVE  /\ ~Settled(h.candidates[c]) /\ IsCandidate(new[c])
             /\ new[c].status # "promoting"
             /\ new[c].key # NoKey => Settled(new[c])
             /\ h.candidates[c].version < new[c].version
  <2> DEFINE x == h.candidates[c]
  <2>1. IsCandidate(x) /\ x.status = "promoting" /\ new[c] = back(x)
      BY <1>2 DEF HubOK, IsHub
  <2> HIDE DEF x, new
  <2>2. IsCandidate(back(x)) /\ back(x).version = x.version + 1
            /\ back(x).status = "pending" /\ back(x).key = NoKey
      BY <2>1 DEF IsCandidate, CandidateFields
  <2> HIDE DEF back
  <2>3. x.version \in Nat
      BY <2>1 DEF IsCandidate
  <2>4. h.candidates[c] = x
      BY DEF x
  <2> QED BY <2>1, <2>2, <2>3, <2>4 DEF Settled
<1>6. DOMAIN new = Evidence /\ \A c \in Evidence \ covered : new[c] = h.candidates[c]
  <2> HIDE DEF back, covered
  <2> QED OBVIOUS
<1>7. IsGroup(g2) /\ g2.status = "interrupted" /\ g2.outputs = g.outputs /\ g2.plan = g.plan
          /\ g2.auto = g.auto
  <2> HIDE DEF g
  <2> QED BY <1>1 DEF IsGroup, GroupFields
<1>8. covered = PlanCovers(h, i)
    OBVIOUS
<1> HIDE DEF new, g2, covered, back
<1>9. Fine(h, done)
    BY <1>1, <1>5, <1>6, <1>7, <1>8, PlanEnds
<1> QED BY <1>4, <1>9

\* The operator's own requests only touch evidence that no plan holds.
LEMMA RequestChange ==
    ASSUME NEW h, HubOK(h), NEW S, NEW new, DOMAIN new = Evidence,
           \A c \in Evidence \ S : new[c] = h.candidates[c],
           \A c \in S \cap Evidence :
              /\ \/ Active(h, c)
                 \/ h.candidates[c].status = "promoting" /\ h.candidates[c].key # NoKey
              /\ IsCandidate(new[c]) /\ CandidateLater(h.candidates[c], new[c])
              /\ new[c].status = "promoting" => new[c].key # NoKey
              /\ new[c].key # NoKey => new[c].status = "promoting"
    PROVE  Fine(h, [h EXCEPT !.candidates = new])
<1> DEFINE h2 == [h EXCEPT !.candidates = new]
<1>1. h2.groups = h.groups /\ h2.candidates = new /\ DOMAIN h2 = {"groups", "candidates"}
    BY DEF HubOK, IsHub
<1> HIDE DEF h2
<1>2. IsHub(h2)
    BY <1>1 DEF HubOK, IsHub
<1>3. KeysAreHeld(h2)
    BY <1>1 DEF HubOK, KeysAreHeld
<1>4. PlansHold(h2)
  <2> SUFFICES ASSUME NEW i \in GroupsIn(h, "promoting"), NEW c \in PlanCovers(h, i)
               PROVE  c \in Evidence /\ new[c] = h.candidates[c]
      BY <1>1 DEF HubOK, PlansHold, GroupsIn, PlanCovers
  <2>1. c \in Evidence /\ h.candidates[c].status = "promoting" /\ h.candidates[c].key = NoKey
      BY DEF HubOK, PlansHold
  <2> QED BY <2>1 DEF Active
<1>5. PromotingIsHeld(h2)
    BY <1>1 DEF HubOK, PromotingIsHeld, GroupsIn, PlanCovers
<1>6. PlansApart(h2) /\ DraftsApart(h2) /\ ApprovalsMatch(h2)
    BY <1>1 DEF HubOK, PlansApart, DraftsApart, ApprovalsMatch, GroupsIn, PlanCovers
<1>7. Later(h, h2)
  <2>1. \A c \in Evidence : CandidateLater(h.candidates[c], new[c])
      BY QuietByDefault DEF CandidateQuiet
  <2> QED BY <1>1, <2>1 DEF Later, GroupLater
<1> QED BY <1>2, <1>3, <1>4, <1>5, <1>6, <1>7 DEF Fine, HubOK, h2

\* The evidence of a promotion as it is saved before the Page is written.
Saved(h, S, key) ==
    OnCandidates(h, S, LAMBDA x : [x EXCEPT !.status = "promoting", !.key = key])

MayRequest(h, S, key) == \A c \in S \cap Evidence :
    \/ Active(h, c)
    \/ h.candidates[c].status = "promoting" /\ h.candidates[c].key = key

LEMMA RequestSavedFine ==
    ASSUME NEW h, HubOK(h), NEW S, NEW key, key # NoKey, MayRequest(h, S, key)
    PROVE  Fine(h, Saved(h, S, key))
<1> DEFINE save(x) == [x EXCEPT !.status = "promoting", !.key = key]
           new == [c \in Evidence |-> IF c \in S THEN save(h.candidates[c])
                                      ELSE h.candidates[c]]
<1>1. Saved(h, S, key) = [h EXCEPT !.candidates = new]
    BY DEF Saved, OnCandidates
<1>2. ASSUME NEW c \in S \cap Evidence
      PROVE  /\ IsCandidate(new[c]) /\ CandidateLater(h.candidates[c], new[c])
             /\ new[c].status = "promoting" /\ new[c].key # NoKey
  <2> DEFINE x == h.candidates[c]
  <2>1. IsCandidate(x) /\ ~Settled(x) /\ new[c] = save(x)
      BY DEF HubOK, IsHub, MayRequest, Active, Settled
  <2> HIDE DEF x, new
  <2>2. IsCandidate(save(x)) /\ save(x).version = x.version
            /\ save(x).status = "promoting" /\ save(x).key = key
      BY <2>1 DEF IsCandidate, CandidateFields
  <2> HIDE DEF save
  <2>3. CandidateLater(x, save(x))
      BY <2>1, <2>2 DEF CandidateLater, IsCandidate, Settled
  <2> QED BY <2>1, <2>2, <2>3 DEF x
<1>3. DOMAIN new = Evidence /\ \A c \in Evidence \ S : new[c] = h.candidates[c]
    OBVIOUS
<1> HIDE DEF new
<1>4. \A c \in S \cap Evidence : \/ Active(h, c)
                                 \/ h.candidates[c].status = "promoting"
                                       /\ h.candidates[c].key # NoKey
    BY DEF MayRequest
<1>5. Fine(h, [h EXCEPT !.candidates = new])
    BY <1>2, <1>3, <1>4, RequestChange
<1> QED BY <1>1, <1>5

LEMMA RequestDecidedFine ==
    ASSUME NEW h, HubOK(h), NEW S,
           \A c \in S \cap Evidence :
              h.candidates[c].status = "promoting" /\ h.candidates[c].key # NoKey
    PROVE  Fine(h, Decided(h, S, "promoted", FALSE))
<1> DEFINE decide(x) == [x EXCEPT !.version = @ + 1, !.status = "promoted",
                                  !.result = "promoted", !.outputs = FALSE, !.key = NoKey]
           new == [c \in Evidence |-> IF c \in S THEN decide(h.candidates[c])
                                      ELSE h.candidates[c]]
<1>1. Decided(h, S, "promoted", FALSE) = [h EXCEPT !.candidates = new]
    BY DEF Decided, OnCandidates
<1>2. ASSUME NEW c \in S \cap Evidence
      PROVE  /\ IsCandidate(new[c]) /\ CandidateLater(h.candidates[c], new[c])
             /\ new[c].status = "promoted" /\ new[c].key = NoKey
  <2> DEFINE x == h.candidates[c]
  <2>1. IsCandidate(x) /\ ~Settled(x) /\ new[c] = decide(x)
      BY DEF HubOK, IsHub, Settled
  <2> HIDE DEF x, new
  <2>2. IsCandidate(decide(x)) /\ decide(x).version = x.version + 1
            /\ decide(x).status = "promoted" /\ decide(x).key = NoKey
      BY <2>1 DEF IsCandidate, CandidateFields
  <2> HIDE DEF decide
  <2>3. CandidateLater(x, decide(x))
      BY <2>1, <2>2 DEF CandidateLater, IsCandidate
  <2> QED BY <2>1, <2>2, <2>3 DEF x
<1>3. DOMAIN new = Evidence /\ \A c \in Evidence \ S : new[c] = h.candidates[c]
    OBVIOUS
<1> HIDE DEF new
<1>4. Fine(h, [h EXCEPT !.candidates = new])
    BY <1>2, <1>3, RequestChange
<1> QED BY <1>1, <1>4

\* A receipt changes nothing that the argument is about.
LEMMA ReceiptFine ==
    ASSUME NEW h, HubOK(h), NEW i \in DOMAIN h.groups, NEW r
    PROVE  Fine(h, [h EXCEPT !.groups[i].results = Append(@, r)])
<1> DEFINE g == h.groups[i]  results == Append(g.results, r)
           g2 == [g EXCEPT !.results = results]
<1>1. [h EXCEPT !.groups[i].results = Append(@, r)] = [h EXCEPT !.groups[i] = g2]
    OBVIOUS
<1>2. IsGroup(g) /\ ApprovedGroup(g)
    BY DEF HubOK, IsHub, ApprovalsMatch
<1> HIDE DEF results, g
<1>3. IsGroup(g2) /\ g2.status = g.status /\ g2.plan = g.plan /\ g2.outputs = g.outputs
          /\ g2.members = g.members /\ g2.auto = g.auto
    BY <1>2 DEF IsGroup, GroupFields
<1> HIDE DEF g2
<1>4. GroupQuiet(g, g2)
    BY <1>2, <1>3 DEF GroupQuiet, GroupLater, ApprovedGroup, MatchesReview
<1> QED BY <1>1, <1>4, OneGroupChanges DEF g

LEMMA OwnRange ==
    ASSUME NEW S, NEW s \in Seq(S)
    PROVE  s \in Seq(Range(s))
<1>1. Len(s) \in Nat /\ s \in [1..Len(s) -> S]
    OBVIOUS
<1>2. s \in [1..Len(s) -> Range(s)]
    BY <1>1 DEF Range
<1> QED BY <1>1, <1>2

\* New drafts of evidence that no other draft has and no plan holds.
LEMMA DraftsAddedFine ==
    ASSUME NEW h, HubOK(h), NEW t, t \in Seq(Range(t)),
           \A k \in DOMAIN t :
              /\ IsGroup(t[k]) /\ t[k].status = "pending" /\ t[k].auto.authorized = FALSE
              /\ \A c \in DOMAIN t[k].members :
                    /\ Active(h, c)
                    /\ \A i \in GroupsIn(h, "pending") : c \notin DOMAIN h.groups[i].members,
           \A k, l \in DOMAIN t : k # l => DOMAIN t[k].members \cap DOMAIN t[l].members = {}
    PROVE  Fine(h, [h EXCEPT !.groups = @ \o t])
<1> DEFINE s == h.groups
           h2 == [h EXCEPT !.groups = @ \o t]
<1>1. h2.groups = s \o t /\ h2.candidates = h.candidates /\ DOMAIN h2 = {"groups", "candidates"}
    BY DEF HubOK, IsHub
<1>2. s \in Seq(Range(s)) /\ Len(s) \in Nat /\ DOMAIN s = 1..Len(s)
          /\ Len(t) \in Nat /\ DOMAIN t = 1..Len(t)
    BY DEF HubOK, IsHub
<1>3. /\ DOMAIN h2.groups = 1..(Len(s) + Len(t))
      /\ \A i \in DOMAIN s : i \in DOMAIN h2.groups /\ h2.groups[i] = s[i]
      /\ \A i \in DOMAIN h2.groups \ DOMAIN s :
            i - Len(s) \in DOMAIN t /\ h2.groups[i] = t[i - Len(s)]
      /\ h2.groups \in Seq(Range(h2.groups))
  <2>1. s \in Seq(Range(s) \cup Range(t)) /\ t \in Seq(Range(s) \cup Range(t))
    <3>1. \A i \in 1..Len(s) : s[i] \in Range(s) \cup Range(t)
        BY <1>2 DEF Range
    <3>2. \A i \in 1..Len(t) : t[i] \in Range(s) \cup Range(t)
        BY <1>2 DEF Range
    <3> HIDE DEF s
    <3> QED BY <1>2, <3>1, <3>2
  <2> HIDE DEF s, h2
  <2>2. /\ s \o t \in Seq(Range(s) \cup Range(t))
        /\ Len(s \o t) = Len(s) + Len(t)
        /\ \A i \in 1..(Len(s) + Len(t)) :
              (s \o t)[i] = IF i <= Len(s) THEN s[i] ELSE t[i - Len(s)]
      BY <2>1
  <2>3. DOMAIN (s \o t) = 1..(Len(s) + Len(t))
      BY <2>2
  <2>5. s \o t \in Seq(Range(s \o t))
      BY <2>2, OwnRange
  <2> QED BY <1>1, <1>2, <2>2, <2>3, <2>5
<1> HIDE DEF h2
<1>4. IsHub(h2)
  <2>1. \A i \in DOMAIN h2.groups : IsGroup(h2.groups[i])
      BY <1>3 DEF HubOK, IsHub
  <2> QED BY <1>1, <1>3, <2>1 DEF HubOK, IsHub
<1>5. GroupsIn(h2, "promoting") = GroupsIn(h, "promoting")
          /\ \A i \in GroupsIn(h, "promoting") :
                h2.groups[i] = h.groups[i] /\ PlanCovers(h2, i) = PlanCovers(h, i)
  <2>1. \A i \in DOMAIN h2.groups \ DOMAIN s : h2.groups[i].status = "pending"
      BY <1>3
  <2> QED BY <1>3, <2>1 DEF GroupsIn, PlanCovers
<1>6. KeysAreHeld(h2) /\ PromotingIsHeld(h2) /\ PlansApart(h2)
    BY <1>1, <1>5 DEF HubOK, KeysAreHeld, PromotingIsHeld, PlansApart
<1>7. PlansHold(h2)
  <2> SUFFICES ASSUME NEW i \in GroupsIn(h2, "promoting"), NEW c \in PlanCovers(h2, i)
               PROVE  /\ c \in Evidence /\ h.candidates[c].status = "promoting"
                      /\ h.candidates[c].key = NoKey
                      /\ h.candidates[c].version = h2.groups[i].members[c]
    <3>1. h2.candidates = h.candidates
        BY <1>1
    <3> QED BY <3>1 DEF PlansHold
  <2>1. i \in GroupsIn(h, "promoting")
      BY <1>5
  <2>2. c \in PlanCovers(h, i) /\ h2.groups[i] = h.groups[i]
      BY <1>5, <2>1
  <2> QED BY <2>1, <2>2 DEF HubOK, PlansHold
<1>8. DraftsApart(h2)
  <2> SUFFICES ASSUME NEW i \in GroupsIn(h2, "pending"), NEW j \in DOMAIN h2.groups, i # j
               PROVE  /\ h2.groups[j].status = "pending" =>
                          DOMAIN h2.groups[i].members \cap DOMAIN h2.groups[j].members = {}
                      /\ h2.groups[j].status = "promoting" =>
                          DOMAIN h2.groups[i].members \cap PlanCovers(h2, j) = {}
      BY DEF DraftsApart
  <2>0. i \in DOMAIN h2.groups
      BY DEF GroupsIn
  <2>1. CASE i \in DOMAIN s /\ j \in DOMAIN s
    <3>1. h2.groups[i] = s[i] /\ h2.groups[j] = s[j] /\ PlanCovers(h2, j) = PlanCovers(h, j)
        BY <1>3, <2>1 DEF PlanCovers
    <3>2. i \in GroupsIn(h, "pending")
        BY <2>1, <3>1 DEF GroupsIn
    <3> QED BY <2>1, <3>1, <3>2 DEF HubOK, DraftsApart
  <2>2. CASE i \notin DOMAIN s /\ j \in DOMAIN s
    <3>1. i - Len(s) \in DOMAIN t /\ h2.groups[i] = t[i - Len(s)] /\ h2.groups[j] = s[j]
        BY <1>3, <2>0, <2>2
    <3>2. CASE h2.groups[j].status = "pending"
      <4>1. j \in GroupsIn(h, "pending")
          BY <2>2, <3>1, <3>2 DEF GroupsIn
      <4> QED BY <3>1, <3>2, <4>1
    <3>3. CASE h2.groups[j].status = "promoting"
      <4>1. j \in GroupsIn(h, "promoting") /\ PlanCovers(h2, j) = PlanCovers(h, j)
          BY <2>2, <3>1, <3>3 DEF GroupsIn, PlanCovers
      <4>2. \A c \in PlanCovers(h, j) : h.candidates[c].status = "promoting"
          BY <4>1 DEF HubOK, PlansHold
      <4> QED BY <3>1, <3>3, <4>1, <4>2 DEF Active
    <3> QED BY <3>2, <3>3
  <2>3. CASE i \in DOMAIN s /\ j \notin DOMAIN s
    <3>1. j - Len(s) \in DOMAIN t /\ h2.groups[j] = t[j - Len(s)] /\ h2.groups[i] = s[i]
        BY <1>3, <2>3
    <3>2. i \in GroupsIn(h, "pending")
        BY <2>3, <3>1 DEF GroupsIn
    <3> QED BY <3>1, <3>2
  <2>4. CASE i \notin DOMAIN s /\ j \notin DOMAIN s
    <3>1. j - Len(s) \in DOMAIN t /\ h2.groups[j] = t[j - Len(s)]
             /\ i - Len(s) \in DOMAIN t /\ h2.groups[i] = t[i - Len(s)]
        BY <1>3, <2>0, <2>4
    <3>2. i - Len(s) # j - Len(s)
        BY <1>2, <1>3, <2>0
    <3>3. h2.groups[j].status = "pending"
        BY <3>1
    <3> QED BY <3>1, <3>2, <3>3
  <2> QED BY <2>1, <2>2, <2>3, <2>4
<1>9. ApprovalsMatch(h2)
  <2>1. \A k \in DOMAIN t : ApprovedGroup(t[k])
      BY DEF ApprovedGroup
  <2> QED BY <1>3, <2>1 DEF HubOK, ApprovalsMatch
<1>10. Later(h, h2)
  <2>1. Later(h, h)
      BY LaterReflexive DEF HubOK
  <2> QED BY <1>1, <1>3, <2>1 DEF Later
<1> QED BY <1>4, <1>6, <1>7, <1>8, <1>9, <1>10 DEF HubOK, Fine, h2

\* What a plan that is accepted covers.
LEMMA AcceptedCovers ==
    ASSUME NEW h, NEW i, NEW plan, Accepted(h, i, plan), NEW c \in Covered(plan.outputs)
    PROVE  /\ c \in DOMAIN h.groups[i].members
           /\ h.candidates[c].version = h.groups[i].members[c]
           /\ \/ Active(h, c)
              \/ SameRequest(h.groups[i], plan) /\ h.candidates[c].status = "promoting"
<1> DEFINE g == h.groups[i]
<1>1. PICK k \in DOMAIN plan.outputs : c \in plan.outputs[k].evidence
    BY DEF Covered
<1>2. plan.outputs[k] \in OutputsFrom(DOMAIN g.members, g.offered, g.updateable)
    BY DEF Accepted, Range
<1>3. plan.outputs[k].evidence \subseteq DOMAIN g.members
    BY <1>2 DEF OutputsFrom
<1> QED BY <1>1, <1>3 DEF Accepted

\* A page may be attributed to the review of a draft whose plan is in progress,
\* or is over, as the review approved it.
Attributable(h, i, plan) ==
    /\ i \in DOMAIN h.groups
    /\ h.groups[i].status # "pending" /\ h.groups[i].auto.authorized
    /\ plan.outputs = ApprovedOutputs(h.groups[i].outputs, h.groups[i].auto.decisions)
    /\ plan.wording = "drafted"

LEMMA AttributableLater ==
    ASSUME NEW h, NEW h2, Later(h, h2), NEW i, NEW plan, Attributable(h, i, plan)
    PROVE  Attributable(h2, i, plan)
BY DEF Attributable, Later, GroupLater

LEMMA OperatorStartsFine ==
    ASSUME NEW h, HubOK(h), NEW i \in DOMAIN h.groups, NEW plan, Accepted(h, i, plan),
           NEW automatic, automatic = Attributed(h.groups[i], plan, FALSE)
    PROVE  /\ Fine(h, Started(h, i, plan, automatic))
           /\ InHand(Started(h, i, plan, automatic), i, plan, automatic)
           /\ automatic => Attributable(h, i, plan)
<1> DEFINE g == h.groups[i]
           own == IF ~automatic /\ g.status = "pending"
                  THEN [h EXCEPT !.groups[i].auto = Unreviewed] ELSE h
<1>1. IsGroup(g) /\ ApprovedGroup(g) /\ automatic \in BOOLEAN
    BY DEF HubOK, IsHub, ApprovalsMatch, Attributed
<1>2. Fine(h, own)
  <2>1. CASE ~automatic /\ g.status = "pending"
      BY <2>1, UnauthorizedFine, UnreviewedFields DEF GroupsIn
  <2>2. CASE ~(~automatic /\ g.status = "pending")
      BY <2>2, FineReflexive
  <2> QED BY <2>1, <2>2
<1>3. /\ own.candidates = h.candidates /\ i \in DOMAIN own.groups
      /\ own.groups[i].status = g.status /\ own.groups[i].plan = g.plan
      /\ own.groups[i].members = g.members
      /\ ~automatic /\ g.status = "pending" => own.groups[i].auto.authorized = FALSE
  <2>1. CASE ~automatic /\ g.status = "pending"
    <3>1. own.groups[i] = [g EXCEPT !.auto = Unreviewed] /\ own.candidates = h.candidates
              /\ i \in DOMAIN own.groups
        BY <2>1 DEF HubOK, IsHub
    <3> HIDE DEF g, own
    <3> QED BY <1>1, <3>1, UnreviewedFields DEF IsGroup, GroupFields
  <2>2. CASE ~(~automatic /\ g.status = "pending")
      BY <2>2
  <2> QED BY <2>1, <2>2
<1>4. Started(h, i, plan, automatic) =
          IF SameRequest(g, plan) THEN own ELSE WithPlan(own, i, plan)
    BY DEF Started, WithPlan
<1> HIDE DEF own
<1>5. HubOK(own)
    BY <1>2 DEF Fine
<1>6. CASE SameRequest(g, plan)
  <2>1. Started(h, i, plan, automatic) = own
      BY <1>4, <1>6
  <2>2. g.plan = plan /\ g.status \in {"pending", "promoting"}
      BY <1>6 DEF SameRequest, Accepted
  <2>3. automatic => g.status = "promoting" /\ g.auto.authorized
      BY DEF Attributed
  <2>4. InHand(own, i, plan, automatic)
    <3>1. \A c \in Covered(plan.outputs) : c \in DOMAIN own.groups[i].members
              /\ (Active(own, c) \/ own.candidates[c].status = "promoting")
        BY <1>3, AcceptedCovers DEF Active
    <3> QED BY <1>3, <2>2, <2>3, <3>1 DEF InHand
  <2>5. automatic => Attributable(h, i, plan)
      BY <1>1, <2>2, <2>3 DEF Attributable, ApprovedGroup, MatchesReview
  <2> QED BY <1>2, <2>1, <2>4, <2>5
<1>7. CASE ~SameRequest(g, plan)
  <2>1. Started(h, i, plan, automatic) = WithPlan(own, i, plan)
      BY <1>4, <1>7
  <2>2. g.status = "pending" /\ ~automatic
      BY <1>7 DEF Accepted, Attributed
  <2>3. MayStart(own, i, plan)
    <3>1. \A c \in Covered(plan.outputs) : c \in DOMAIN own.groups[i].members
              /\ Active(own, c) /\ own.candidates[c].version = own.groups[i].members[c]
        BY <1>3, <1>7, AcceptedCovers DEF Active
    <3> QED BY <1>3, <2>2, <3>1 DEF MayStart, GroupsIn
  <2> DEFINE h2 == WithPlan(own, i, plan)
  <2>4. Fine(own, h2) /\ h2.groups[i].status = "promoting" /\ h2.groups[i].plan = plan
      BY <1>5, <2>3, WithPlanFine
  <2>5. Fine(h, h2)
      BY <1>2, <2>4, FineTransitive
  <2>6. InHand(h2, i, plan, automatic)
    <3>1. i \in DOMAIN h2.groups
        BY <1>3, <1>5, <2>4, FineGroups
    <3>2. i \in GroupsIn(h2, "promoting") /\ PlanCovers(h2, i) = Covered(plan.outputs)
        BY <2>4, <3>1 DEF GroupsIn, PlanCovers
    <3>3. \A c \in Covered(plan.outputs) : h2.candidates[c].status = "promoting"
        BY <2>4, <3>2 DEF Fine, HubOK, PlansHold
    <3>4. h2.groups[i].members = own.groups[i].members
      <4>1. i \in DOMAIN own.groups /\ DOMAIN own = {"groups", "candidates"}
              /\ IsGroup(own.groups[i])
          BY <1>3, <1>5 DEF HubOK, IsHub
      <4> QED BY <4>1 DEF WithPlan, OnCandidates, IsGroup, GroupFields
    <3>5. \A c \in Covered(plan.outputs) : c \in DOMAIN own.groups[i].members
        BY <2>3 DEF MayStart
    <3> HIDE DEF h2
    <3> QED BY <2>4, <3>1, <3>3, <3>4, <3>5 DEF InHand
  <2> QED BY <2>1, <2>2, <2>5, <2>6
<1> QED BY <1>6, <1>7

\* What ResumeAutomaticWrite makes of the draft in memory before it writes.
Applying(h, i) ==
    IF h.groups[i].status = "pending"
    THEN [h EXCEPT !.groups[i].plan = NoPlan, !.groups[i].auto.state = "applying"]
    ELSE [h EXCEPT !.groups[i].auto.state = "applying"]

LEMMA ResumableMatches ==
    ASSUME NEW h, HubOK(h), NEW i \in DOMAIN h.groups, Resumable(h, i)
    PROVE  MatchesReview(h.groups[i])
<1>1. ApprovedGroup(h.groups[i])
    BY DEF HubOK, ApprovalsMatch
<1> QED BY <1>1 DEF Resumable, ApprovedGroup

LEMMA ResumeStartsFine ==
    ASSUME NEW h, HubOK(h), NEW i \in DOMAIN h.groups, Resumable(h, i),
           Accepted(Applying(h, i), i, h.groups[i].plan)
    PROVE  LET plan == h.groups[i].plan
               started == Started(Applying(h, i), i, plan, TRUE)
           IN /\ Fine(h, started)
              /\ InHand(started, i, plan, TRUE)
              /\ Attributable(started, i, plan)
              /\ SameRequest(Applying(h, i).groups[i], plan) => Attributable(h, i, plan)
<1> DEFINE g == h.groups[i]
           plan == g.plan
           h1 == [h EXCEPT !.groups[i].auto.state = "applying"]
           fresh == Applying(h, i)
           started == Started(fresh, i, plan, TRUE)
<1>1. MatchesReview(g) /\ IsGroup(g) /\ g.auto.authorized
          /\ g.status \in {"pending", "promoting"}
    BY ResumableMatches DEF HubOK, IsHub, Resumable
<1>2. Fine(h, h1)
    BY <1>1, ReviewStateFine DEF MatchesReview
<1>3. /\ h1.candidates = h.candidates /\ i \in DOMAIN h1.groups
      /\ h1.groups[i].status = g.status /\ h1.groups[i].plan = plan
      /\ h1.groups[i].members = g.members /\ h1.groups[i].outputs = g.outputs
      /\ h1.groups[i].auto.authorized = g.auto.authorized
      /\ h1.groups[i].auto.decisions = g.auto.decisions
  <2> DEFINE g1 == [g EXCEPT !.auto.state = "applying"]
  <2>1. h1.groups[i] = g1 /\ h1.candidates = h.candidates /\ i \in DOMAIN h1.groups
      BY DEF HubOK, IsHub
  <2>2. /\ g1.status = g.status /\ g1.plan = plan /\ g1.members = g.members
        /\ g1.outputs = g.outputs /\ g1.auto.authorized = g.auto.authorized
        /\ g1.auto.decisions = g.auto.decisions
    <3>1. IsGroup(g)
        BY <1>1
    <3> HIDE DEF g
    <3> QED BY <3>1 DEF IsGroup, GroupFields, ReviewFields, plan
  <2> HIDE DEF h1, g1
  <2> QED BY <2>1, <2>2
<1>4. HubOK(h1)
    BY <1>2 DEF Fine
<1>5. CASE g.status = "promoting"
  <2>1. fresh = h1
      BY <1>5 DEF Applying
  <2> HIDE DEF h1, fresh
  <2>2. SameRequest(fresh.groups[i], plan)
      BY <1>3, <2>1 DEF SameRequest
  <2>3. started = h1
      BY <2>1, <2>2 DEF Started
  <2>4. InHand(h1, i, plan, TRUE)
    <3>1. \A c \in Covered(plan.outputs) : c \in DOMAIN h1.groups[i].members
              /\ (Active(h1, c) \/ h1.candidates[c].status = "promoting")
      <4>1. Accepted(h1, i, plan)
          BY <2>1 DEF fresh
      <4> QED BY <4>1, AcceptedCovers
    <3> HIDE DEF g
    <3> QED BY <1>3, <1>5, <3>1 DEF InHand
  <2>5. Attributable(h1, i, plan) /\ Attributable(h, i, plan)
    <3> HIDE DEF plan
    <3>1. plan = g.plan
        BY DEF plan
    <3> HIDE DEF g
    <3>2. plan.outputs = ApprovedOutputs(g.outputs, g.auto.decisions)
              /\ plan.wording = "drafted"
        BY <1>1, <3>1 DEF MatchesReview
    <3>3. Attributable(h1, i, plan)
        BY <1>1, <1>3, <1>5, <3>2 DEF Attributable
    <3>4. Attributable(h, i, plan)
        BY <1>1, <1>5, <3>2 DEF Attributable, g
    <3> QED BY <3>3, <3>4
  <2> QED BY <1>2, <2>3, <2>4, <2>5 DEF fresh
<1>6. CASE g.status = "pending"
  <2>1. fresh = [h EXCEPT !.groups[i].plan = NoPlan, !.groups[i].auto.state = "applying"]
      BY <1>6 DEF Applying
  <2>2. fresh.groups[i].plan = NoPlan /\ fresh.candidates = h.candidates
           /\ fresh.groups[i].members = g.members /\ fresh.groups[i].status = "pending"
    <3>1. fresh.groups[i] = [g EXCEPT !.plan = NoPlan, !.auto.state = "applying"]
             /\ fresh.candidates = h.candidates
        BY <2>1 DEF HubOK, IsHub
    <3> HIDE DEF fresh, g
    <3> QED BY <1>1, <1>6, <3>1 DEF IsGroup, GroupFields
  <2>3. ~SameRequest(fresh.groups[i], plan)
      BY <1>1, <2>2 DEF SameRequest, MatchesReview
  <2>4. started = WithPlan(h1, i, plan)
    <3>1. [fresh EXCEPT !.groups[i].status = "promoting", !.groups[i].plan = plan]
            = [h1 EXCEPT !.groups[i].status = "promoting", !.groups[i].plan = plan]
      <4> DEFINE applying == [g EXCEPT !.auto.state = "applying"]
                 x == [[applying EXCEPT !.plan = NoPlan] EXCEPT !.status = "promoting", !.plan = plan]
                 y == [applying EXCEPT !.status = "promoting", !.plan = plan]
      <4>1. x = y
        <5> HIDE DEF plan, applying
        <5> QED OBVIOUS
      <4>2. fresh = [h EXCEPT !.groups[i] = [applying EXCEPT !.plan = NoPlan]]
        <5> DEFINE u == [g EXCEPT !.plan = NoPlan, !.auto.state = "applying"]
                   v == [applying EXCEPT !.plan = NoPlan]
        <5>1. fresh = [h EXCEPT !.groups[i] = u]
            BY <2>1
        <5>2. u = v
          <6>1. DOMAIN g = GroupFields
              BY <1>1 DEF IsGroup
          <6> HIDE DEF g
          <6>2. DOMAIN u = GroupFields /\ DOMAIN v = GroupFields
              BY <6>1
          <6>3. \A f \in GroupFields : u[f] = v[f]
              BY <6>1 DEF GroupFields
          <6>4. u = [f \in GroupFields |-> u[f]] /\ v = [f \in GroupFields |-> v[f]]
              BY <6>1
          <6> HIDE DEF u, v
          <6> QED BY <6>3, <6>4
        <5> HIDE DEF u, v, fresh
        <5> QED BY <5>1, <5>2 DEF v
      <4>3. h1 = [h EXCEPT !.groups[i] = applying]
          OBVIOUS
      <4>4. [fresh EXCEPT !.groups[i].status = "promoting", !.groups[i].plan = plan]
                = [h EXCEPT !.groups[i] = x]
        <5> HIDE DEF plan, applying, fresh
        <5> QED BY <4>2 DEF HubOK, IsHub
      <4>5. [h1 EXCEPT !.groups[i].status = "promoting", !.groups[i].plan = plan]
                = [h EXCEPT !.groups[i] = y]
        <5> HIDE DEF plan, applying, h1
        <5> QED BY <4>3 DEF HubOK, IsHub
      <4> HIDE DEF x, y, h1, fresh, plan
      <4> QED BY <4>1, <4>4, <4>5
    <3>2. started = OnCandidates([fresh EXCEPT !.groups[i].status = "promoting",
                                               !.groups[i].plan = plan],
                                 Covered(plan.outputs),
                                 LAMBDA x : [x EXCEPT !.status = "promoting"])
      <4> HIDE DEF fresh, plan
      <4> QED BY <2>3 DEF Started, started
    <3> HIDE DEF fresh, h1, plan
    <3> QED BY <3>1, <3>2 DEF WithPlan
  <2>5. MayStart(h1, i, plan)
    <3>1. Accepted(fresh, i, plan)
        OBVIOUS
    <3> HIDE DEF fresh, h1
    <3>2. \A c \in Covered(plan.outputs) : c \in DOMAIN h1.groups[i].members
              /\ Active(h1, c) /\ h1.candidates[c].version = h1.groups[i].members[c]
        BY <1>3, <2>2, <2>3, <3>1, AcceptedCovers DEF Active
    <3> QED BY <1>1, <1>3, <1>6, <3>2 DEF MayStart, GroupsIn, MatchesReview
  <2> DEFINE h2 == WithPlan(h1, i, plan)
  <2>6. /\ Fine(h1, h2) /\ h2.groups[i].status = "promoting" /\ h2.groups[i].plan = plan
        /\ h2.groups[i].auto = h1.groups[i].auto /\ h2.groups[i].outputs = h1.groups[i].outputs
    <3> HIDE DEF h1, plan
    <3> QED BY <1>4, <2>5, WithPlanFine
  <2>7. Fine(h, h2)
      BY <1>2, <2>6, FineTransitive
  <2>8. i \in DOMAIN h2.groups /\ HubOK(h2)
      BY <2>7, FineGroups
  <2>9. h2.groups[i].members = h1.groups[i].members
    <3>1. i \in DOMAIN h1.groups /\ DOMAIN h1 = {"groups", "candidates"}
            /\ IsGroup(h1.groups[i])
        BY <1>3, <1>4 DEF HubOK, IsHub
    <3> HIDE DEF h1, plan
    <3> QED BY <3>1 DEF WithPlan, OnCandidates, IsGroup, GroupFields
  <2> HIDE DEF h1, h2, plan
  <2>10. InHand(h2, i, plan, TRUE)
    <3>1. i \in GroupsIn(h2, "promoting") /\ PlanCovers(h2, i) = Covered(plan.outputs)
        BY <2>6, <2>8 DEF GroupsIn, PlanCovers
    <3>2. \A c \in Covered(plan.outputs) : h2.candidates[c].status = "promoting"
        BY <2>8, <3>1 DEF HubOK, PlansHold
    <3>3. \A c \in Covered(plan.outputs) : c \in DOMAIN h1.groups[i].members
        BY <2>5 DEF MayStart
    <3> QED BY <2>6, <2>8, <2>9, <3>2, <3>3 DEF InHand
  <2>11. Attributable(h2, i, plan)
    <3>1. plan.outputs = ApprovedOutputs(g.outputs, g.auto.decisions)
              /\ plan.wording = "drafted"
        BY <1>1 DEF MatchesReview, plan
    <3> HIDE DEF g
    <3> QED BY <1>1, <1>3, <2>6, <2>8, <3>1 DEF Attributable
  <2> HIDE DEF fresh, started
  <2> QED BY <2>3, <2>4, <2>7, <2>10, <2>11 DEF fresh, started, h2, plan
<1> QED BY <1>1, <1>5, <1>6

\* The parts of a batch, and the drafts that are made of them.
LEMMA PartsOfBatch ==
    ASSUME NEW batch, batch \subseteq Evidence, NEW parts \in Partitions(batch)
    PROVE  /\ parts \in Seq(SUBSET batch)
           /\ \A k \in DOMAIN parts : parts[k] \subseteq batch
           /\ \A k, l \in DOMAIN parts : k # l => parts[k] \cap parts[l] = {}
<1>1. Cardinality(batch) \in Nat
    BY HubAssumption, FS_Subset, FS_CardinalityType DEF HubAssumption
<1>2. PICK m \in 0..Cardinality(batch) : parts \in [1..m -> (SUBSET batch) \ {{}}]
    BY DEF Partitions, SeqOf
<1>3. m \in Nat
    BY <1>1
<1>4. parts \in Seq(SUBSET batch)
    BY <1>2, <1>3
<1> QED BY <1>2, <1>4 DEF Partitions

LEMMA OrganizedFine ==
    ASSUME NEW h, HubOK(h), NEW input, DOMAIN input.versions \subseteq Evidence,
           \A c \in DOMAIN input.versions : Active(h, c),
           NEW parts \in Partitions(DOMAIN input.versions), NEW outputs
    PROVE  Fine(h, Organized(h, input, parts, outputs))
<1> DEFINE batch == DOMAIN input.versions
           old == {i \in GroupsIn(h, "pending") : DOMAIN h.groups[i].members \cap batch # {}}
           left == (UNION {DOMAIN h.groups[i].members : i \in old}) \ batch
           h1 == OnGroups(h, old, LAMBDA g : [g EXCEPT !.status = "superseded"])
           h2 == Requeued(h1, left)
           h3 == OnCandidates(h2, batch, LAMBDA x : [x EXCEPT !.organized = x.version])
           drafts == [k \in DOMAIN parts |-> NewGroup(parts[k], outputs[k], input)]
<1>1. Organized(h, input, parts, outputs) = [h3 EXCEPT !.groups = @ \o drafts]
    BY DEF Organized
<1>2. Fine(h, h1)
  <2>1. old \subseteq GroupsIn(h, "pending")
      OBVIOUS
  <2> HIDE DEF old
  <2> QED BY <2>1, SupersededFine
<1>3. h1.candidates = h.candidates
         /\ h1.groups = [i \in DOMAIN h.groups |-> IF i \in old
                            THEN [h.groups[i] EXCEPT !.status = "superseded"] ELSE h.groups[i]]
  <2> HIDE DEF old
  <2> QED BY DEF OnGroups, HubOK, IsHub
<1> HIDE DEF h1
<1>4. Fine(h1, h2) /\ h2.groups = h1.groups /\ Fine(h, h2)
  <2>1. Fine(h1, h2)
      BY <1>2, RequeuedFine DEF Fine
  <2>2. h2.groups = h1.groups
      BY <1>2 DEF Requeued, OnCandidates, Fine, HubOK, IsHub
  <2> QED BY <1>2, <2>1, <2>2, FineTransitive
<1>5. ASSUME NEW c \in batch
      PROVE  h2.candidates[c].status \in {"pending", "deferred"}
  <2>1. IsCandidate(h.candidates[c]) /\ c \in Evidence
            /\ h.candidates[c].status \in {"pending", "deferred"}
      BY DEF HubOK, IsHub, Active
  <2>2. h2.candidates[c] \in {h.candidates[c], [h.candidates[c] EXCEPT !.organized = 0]}
    <3>1. IsHub(h1)
        BY <1>2 DEF Fine, HubOK
    <3> HIDE DEF left, batch
    <3> QED BY <1>3, <2>1, <3>1 DEF Requeued, OnCandidates, IsHub
  <2> HIDE DEF h2
  <2> QED BY <2>1, <2>2 DEF IsCandidate, CandidateFields
<1> HIDE DEF h2
<1>6. Fine(h2, h3)
  <2>1. \A c \in batch \cap Evidence : ~Settled(h2.candidates[c])
      BY <1>5 DEF Settled
  <2> HIDE DEF batch
  <2> QED BY <1>4, <2>1, MarkedFine DEF Fine
<1>7. h3.groups = h1.groups
    BY <1>4 DEF OnCandidates, Fine, HubOK, IsHub
<1>8. ASSUME NEW c \in batch
      PROVE  Active(h3, c)
  <2>1. IsCandidate(h2.candidates[c]) /\ c \in Evidence
            /\ h2.candidates[c].status \in {"pending", "deferred"}
      BY <1>4, <1>5 DEF Fine, HubOK, IsHub
  <2>2. h3.candidates[c] = [h2.candidates[c] EXCEPT !.organized = h2.candidates[c].version]
    <3>1. IsHub(h2)
        BY <1>4 DEF Fine, HubOK
    <3> HIDE DEF batch
    <3> QED BY <2>1, <3>1 DEF OnCandidates, IsHub
  <2> HIDE DEF h3
  <2> QED BY <2>1, <2>2 DEF IsCandidate, CandidateFields, Active
<1>9. HubOK(h3) /\ Fine(h, h3)
    BY <1>4, <1>6, FineTransitive DEF Fine
<1> HIDE DEF h3
<1>10. ASSUME NEW i \in GroupsIn(h3, "pending")
       PROVE  DOMAIN h3.groups[i].members \cap batch = {}
  <2>1. i \in DOMAIN h.groups /\ h3.groups[i].status = "pending"
            /\ h3.groups[i] = IF i \in old
                  THEN [h.groups[i] EXCEPT !.status = "superseded"] ELSE h.groups[i]
    <3> HIDE DEF old
    <3> QED BY <1>3, <1>7 DEF GroupsIn
  <2>2. IsGroup(h.groups[i])
      BY <2>1 DEF HubOK, IsHub
  <2>3. i \notin old
    <3> HIDE DEF old
    <3> QED BY <2>1, <2>2 DEF IsGroup, GroupFields
  <2> QED BY <2>1, <2>3 DEF GroupsIn
<1>11. /\ \A k \in DOMAIN parts : parts[k] \subseteq batch
       /\ \A k, l \in DOMAIN parts : k # l => parts[k] \cap parts[l] = {}
       /\ parts \in Seq(SUBSET batch)
    BY PartsOfBatch
<1>12. ASSUME NEW k \in DOMAIN drafts
       PROVE  /\ k \in DOMAIN parts /\ IsGroup(drafts[k]) /\ drafts[k].status = "pending"
              /\ drafts[k].auto.authorized = FALSE
              /\ DOMAIN drafts[k].members = parts[k]
  <2>1. drafts[k] = NewGroup(parts[k], outputs[k], input)
      OBVIOUS
  <2>2. k \in DOMAIN parts /\ parts[k] \subseteq Evidence
      BY <1>11
  <2> DEFINE new == NewGroup(parts[k], outputs[k], input)
  <2>3. DOMAIN new = GroupFields /\ new.status = "pending" /\ new.auto = Unreviewed
      BY DEF NewGroup, GroupFields
  <2>4. new.members = [c \in parts[k] |-> input.versions[c]]
      BY DEF NewGroup
  <2>5. DOMAIN new.members = parts[k]
      BY <2>4
  <2> HIDE DEF drafts, new
  <2> QED BY <2>1, <2>2, <2>3, <2>5, UnreviewedFields DEF IsGroup, new
<1>13. drafts \in Seq(Range(drafts))
  <2>1. parts \in Seq(Range(parts)) /\ drafts = [k \in DOMAIN parts |-> drafts[k]]
      BY <1>11, OwnRange
  <2> HIDE DEF drafts
  <2> QED BY <2>1, SequenceKept
<1>14. Fine(h3, [h3 EXCEPT !.groups = @ \o drafts])
  <2>1. \A k \in DOMAIN drafts : \A c \in DOMAIN drafts[k].members :
            /\ Active(h3, c)
            /\ \A i \in GroupsIn(h3, "pending") : c \notin DOMAIN h3.groups[i].members
    <3> SUFFICES ASSUME NEW k \in DOMAIN drafts, NEW c \in DOMAIN drafts[k].members
                 PROVE  /\ Active(h3, c)
                        /\ \A i \in GroupsIn(h3, "pending") :
                               c \notin DOMAIN h3.groups[i].members
        OBVIOUS
    <3>1. c \in batch
        BY <1>11, <1>12
    <3> HIDE DEF batch, drafts
    <3> QED BY <1>8, <1>10, <3>1
  <2>2. \A k, l \in DOMAIN drafts : k # l =>
            DOMAIN drafts[k].members \cap DOMAIN drafts[l].members = {}
      BY <1>11, <1>12
  <2> HIDE DEF drafts
  <2> QED BY <1>9, <1>12, <1>13, <2>1, <2>2, DraftsAddedFine
<1> HIDE DEF drafts
<1> QED BY <1>1, <1>9, <1>14, FineTransitive

\* The earliest of some drafts is one of them.
LEMMA EarliestIsOne ==
    ASSUME NEW S \in SUBSET Nat, S # {}
    PROVE  Min(S) \in S
<1>1. IsWellFoundedOn(OpToRel(<, Nat), Nat)
    BY NatLessThanWellFounded
<1>2. \E x \in S : \A y \in S : ~(<<y, x>> \in OpToRel(<, Nat))
    BY <1>1, WFMin
<1>3. PICK x \in S : \A y \in S : ~(<<y, x>> \in OpToRel(<, Nat))
    BY <1>2
<1>4. \A y \in S : x <= y
  <2> TAKE y \in S
  <2>1. x \in Nat /\ y \in Nat /\ ~(y < x)
      BY <1>3 DEF OpToRel
  <2> QED BY <2>1
<1> QED BY <1>4 DEF Min

-----------------------------------------------------------------------------
(* The invariant: the file is a hub; the store attributes to a review only   *)
(* what its hub answers for; and what the operation that holds the lock and  *)
(* the cycle remember is still true of the hub.                              *)

StoreFits(h) ==
    /\ revs \in Seq(Range(revs))
    /\ \A r \in SynthesisWrites : revs[r].automatic => Attributable(h, GroupOf(r), PlanOf(r))
WriterFits(h) ==
    /\ DOMAIN op = {"at", "group", "plan", "actor", "automatic", "mem", "result"}
    /\ op.automatic \in BOOLEAN
    /\ Fine(h, op.mem)
    /\ InHand(op.mem, op.group, op.plan, op.automatic)
    /\ op.automatic => Attributable(h, op.group, op.plan)
RequestFits(h) ==
    /\ DOMAIN op = {"at", "members", "key", "mem"}
    /\ op.mem = h
    /\ \A c \in op.members \cap Evidence :
          h.candidates[c].status = "promoting" /\ h.candidates[c].key # NoKey
OpFits(h) ==
    \/ op.at = "free"
    \/ op.at \in {"write", "record"} /\ WriterFits(h)
    \/ op.at \in {"ingest", "decide"} /\ RequestFits(h)
    \/ op.at = "settle" /\ op.mem = h /\ op.group \in DOMAIN h.groups
BatchFits(h) ==
    /\ "versions" \in DOMAIN cycle
    /\ DOMAIN cycle.versions \subseteq Evidence
    /\ \A c \in DOMAIN cycle.versions :
          /\ cycle.versions[c] \in Nat
          /\ cycle.versions[c] <= h.candidates[c].version
          /\ Settled(h.candidates[c]) => cycle.versions[c] < h.candidates[c].version
CycleFits(h) ==
    /\ "at" \in DOMAIN cycle
    /\ cycle.at \in {"organizing", "refusing"} => BatchFits(h)
    /\ cycle.at = "reviewing" => cycle.group \in DOMAIN h.groups
IInv == HubOK(hub) /\ StoreFits(hub) /\ OpFits(hub) /\ CycleFits(hub)

\* Every step makes a later hub.
Kept == IInv' /\ Later(hub, hub')

LEMMA StoreFitsLater ==
    ASSUME NEW h, NEW h2, Later(h, h2), StoreFits(h)
    PROVE  StoreFits(h2)
BY AttributableLater DEF StoreFits

LEMMA CycleFitsLater ==
    ASSUME NEW h, HubOK(h), NEW h2, HubOK(h2), Later(h, h2), CycleFits(h)
    PROVE  CycleFits(h2)
<1>1. ASSUME BatchFits(h)
      PROVE  BatchFits(h2)
  <2> SUFFICES ASSUME NEW c \in DOMAIN cycle.versions
               PROVE  /\ cycle.versions[c] <= h2.candidates[c].version
                      /\ Settled(h2.candidates[c]) =>
                            cycle.versions[c] < h2.candidates[c].version
      BY <1>1 DEF BatchFits
  <2> DEFINE v == cycle.versions[c]  x == h.candidates[c]  y == h2.candidates[c]
  <2>1. c \in Evidence /\ v \in Nat /\ v <= x.version /\ (Settled(x) => v < x.version)
      BY <1>1 DEF BatchFits
  <2>2. CandidateLater(x, y) /\ x.version \in Nat /\ y.version \in Nat
      BY <2>1 DEF Later, HubOK, IsHub, IsCandidate
  <2> HIDE DEF v, x, y
  <2>3. v <= y.version /\ (Settled(y) => v < y.version)
      BY <2>1, <2>2 DEF CandidateLater
  <2> QED BY <2>3 DEF v, y
<1> QED BY <1>1 DEF CycleFits, Later

LEMMA CycleStays ==
    ASSUME IInv, HubOK(hub'), Later(hub, hub'), cycle' = cycle
    PROVE  CycleFits(hub)'
<1>1. CycleFits(hub')
    BY CycleFitsLater DEF IInv
<1> QED BY <1>1 DEF CycleFits, BatchFits

LEMMA CycleElsewhere ==
    ASSUME "at" \in DOMAIN cycle', cycle'.at \notin {"organizing", "refusing", "reviewing"}
    PROVE  CycleFits(hub)'
BY DEF CycleFits

LEMMA CycleBecomes ==
    ASSUME IInv, NEW at, at \notin {"organizing", "refusing", "reviewing"}, Become(at)
    PROVE  CycleFits(hub)'
BY DEF IInv, CycleFits, Become

LEMMA IdleFits ==
    ASSUME cycle' = Idle
    PROVE  CycleFits(hub)'
BY DEF CycleFits, Idle

LEMMA ToOrganizeFits ==
    ASSUME ToOrganize
    PROVE  CycleFits(hub)'
BY DEF CycleFits, ToOrganize

\* One transaction of the hub: the lock is free before and after.
LEMMA Transaction ==
    ASSUME IInv, LockFree, Fine(hub, hub'), op' = op, revs' = revs, CycleFits(hub)'
    PROVE  Kept
<1>1. HubOK(hub') /\ Later(hub, hub')
    BY DEF Fine
<1>2. StoreFits(hub)'
  <2>1. StoreFits(hub')
      BY <1>1, StoreFitsLater DEF IInv
  <2> QED BY <2>1 DEF StoreFits, SynthesisWrites, GroupOf, PlanOf
<1>3. OpFits(hub)'
    BY DEF OpFits, LockFree
<1>4. HubOK(hub)'
    BY <1>1 DEF HubOK, IsHub, KeysAreHeld, PlansHold, PromotingIsHeld, PlansApart, DraftsApart, ApprovalsMatch, GroupsIn, PlanCovers, IsCandidate, IsGroup
<1> QED BY <1>1, <1>2, <1>3, <1>4 DEF Kept, IInv

LEMMA TransactionAlone ==
    ASSUME IInv, LockFree, Fine(hub, hub'), UNCHANGED <<revs, archived, op, cycle>>
    PROVE  Kept
BY Transaction, CycleStays DEF Fine

\* The hub is not touched.
LEMMA HubStays ==
    ASSUME IInv, hub' = hub, StoreFits(hub)', OpFits(hub)', CycleFits(hub)'
    PROVE  Kept
BY LaterReflexive DEF IInv, Kept, HubOK

-----------------------------------------------------------------------------
(* Operations of one transaction *)

LEMMA SubmitKeeps ==
    ASSUME IInv, NEW c \in Evidence, Submit(c)
    PROVE  Kept
<1>1. Fine(hub, hub')
    BY SubmittedFine DEF Submit, IInv
<1> QED BY <1>1, TransactionAlone DEF Submit

LEMMA InspectKeeps ==
    ASSUME IInv, Inspect
    PROVE  Kept
<1>1. Fine(hub, hub')
    BY InvalidateStaleFine DEF Inspect, IInv
<1> QED BY <1>1, TransactionAlone DEF Inspect

LEMMA OrganizeCandidatesKeeps ==
    ASSUME IInv, OrganizeCandidates
    PROVE  Kept
<1>1. Fine(hub, hub')
    BY RequeuedFine DEF OrganizeCandidates, IInv
<1> QED BY <1>1, TransactionAlone DEF OrganizeCandidates

LEMMA StopSynthesisKeeps ==
    ASSUME IInv, NEW i \in DOMAIN hub.groups, StopSynthesis(i)
    PROVE  Kept
<1>1. Fine(hub, Stopped(hub, i))
    BY StoppedFine DEF StopSynthesis, IInv, GroupsIn
<1>2. Fine(hub, hub')
    BY <1>1, FineThenStale DEF StopSynthesis, IInv
<1> QED BY <1>2, TransactionAlone DEF StopSynthesis

LEMMA ReviewKeeps ==
    ASSUME IInv, NEW S \in SUBSET Evidence, NEW action \in Decisions \ {"promoted"},
           Review(S, action)
    PROVE  Kept
<1>1. action \in {"represented", "deferred", "rejected"}
    BY HubAssumption DEF HubAssumption
<1>2. \A c \in S \cap Evidence : Active(hub, c)
    BY DEF Review
<1>3. Fine(hub, Deferred(hub, S))
    BY <1>2, DeferredFine DEF IInv
<1>4. Fine(hub, Decided(hub, S, action, FALSE))
    BY <1>1, <1>2, DecidedFine DEF IInv
<1>5. Fine(hub, hub')
    BY <1>3, <1>4, FineThenStale DEF Review, IInv
<1> QED BY <1>5, TransactionAlone DEF Review

LEMMA FinishOrganizationKeeps ==
    ASSUME IInv, FinishOrganization
    PROVE  Kept
<1>1. BatchFits(hub)
    BY DEF IInv, CycleFits, FinishOrganization
<1>2. PICK parts \in Partitions(DOMAIN cycle.versions) :
          \E outputs \in Drafts(parts, cycle) : hub' = Organized(hub, cycle, parts, outputs)
    BY DEF FinishOrganization
<1>a. PICK outputs : hub' = Organized(hub, cycle, parts, outputs)
    BY <1>2
<1>3. \A c \in DOMAIN cycle.versions : Active(hub, c)
    BY DEF FinishOrganization, StillCurrent, At
<1>4. Fine(hub, hub')
    BY <1>1, <1>a, <1>3, OrganizedFine DEF IInv, BatchFits
<1>5. CycleFits(hub)'
    BY IdleFits DEF FinishOrganization
<1> QED BY <1>4, <1>5, Transaction DEF FinishOrganization

\* Evidence that was decided since it went to the model has another version.
LEMMA OrganizationRejectedKeeps ==
    ASSUME IInv, OrganizationRejected
    PROVE  Kept
<1> DEFINE S == {c \in DOMAIN cycle.versions : hub.candidates[c].version = cycle.versions[c]}
<1>1. BatchFits(hub)
    BY DEF IInv, CycleFits, OrganizationRejected
<1>2. \A c \in S \cap Evidence : ~Settled(hub.candidates[c])
    BY <1>1 DEF BatchFits
<1>3. hub' = OnCandidates(hub, S, LAMBDA x : [x EXCEPT !.organized = x.version])
    BY DEF OrganizationRejected
<1> HIDE DEF S
<1>4. Fine(hub, hub')
    BY <1>2, <1>3, MarkedFine DEF IInv
<1>5. CycleFits(hub)'
    BY IdleFits DEF OrganizationRejected
<1> QED BY <1>4, <1>5, Transaction DEF OrganizationRejected

LEMMA PrepareAutomaticReviewKeeps ==
    ASSUME IInv, PrepareAutomaticReview
    PROVE  Kept
<1>0. LockFree /\ op' = op /\ revs' = revs
    BY DEF PrepareAutomaticReview
<1>1. CASE ToOrganize /\ UNCHANGED hub
    BY <1>0, <1>1, ToOrganizeFits, FineReflexive, Transaction DEF IInv
<1>2. ASSUME NEW i \in DOMAIN hub.groups,
             LET g == hub.groups[i]
                 input == IF g.auto.input = NoInput THEN NewInput(g) ELSE g.auto.input
             IN /\ Awaiting(i)
                /\ \/ /\ g.auto.input = NoInput
                      /\ hub' = [hub EXCEPT !.groups[i].auto =
                                    [Unreviewed EXCEPT !.state = "needs_review"]]
                      /\ ToOrganize
                   \/ /\ g.auto.input # NoInput
                      /\ ReviewInputChanged(hub, input, cycle.inventory)
                      /\ hub' = Stale(hub, i)
                      /\ ToOrganize
                   \/ /\ IF g.auto.input = NoInput THEN g.offered \subseteq cycle.inventory
                         ELSE ~ReviewInputChanged(hub, input, cycle.inventory)
                      /\ hub' = [hub EXCEPT !.groups[i].auto.state = "running",
                                            !.groups[i].auto.input = input]
                      /\ cycle' = [at |-> "reviewing", seen |-> cycle.seen,
                                   group |-> i, input |-> input]
      PROVE  Kept
  <2> DEFINE g == hub.groups[i]
             input == IF g.auto.input = NoInput THEN NewInput(g) ELSE g.auto.input
  <2>0. i \in GroupsIn(hub, "pending") /\ HubOK(hub)
      BY <1>2 DEF Awaiting, GroupsIn, IInv
  <2>1. CASE /\ hub' = [hub EXCEPT !.groups[i].auto =
                            [Unreviewed EXCEPT !.state = "needs_review"]]
             /\ ToOrganize
    <3> DEFINE auto == [Unreviewed EXCEPT !.state = "needs_review"]
    <3>1. DOMAIN auto = ReviewFields /\ auto.authorized = FALSE
        BY DEF Unreviewed, ReviewFields
    <3> HIDE DEF auto
    <3>2. Fine(hub, [hub EXCEPT !.groups[i].auto = auto])
        BY <2>0, <3>1, UnauthorizedFine
    <3>3. Fine(hub, hub')
        BY <2>1, <3>2 DEF auto
    <3> QED BY <1>0, <2>1, <3>3, ToOrganizeFits, Transaction
  <2>2. CASE hub' = Stale(hub, i) /\ ToOrganize
      BY <1>0, <2>0, <2>2, StaleFine, ToOrganizeFits, Transaction
  <2>3. CASE /\ hub' = [hub EXCEPT !.groups[i].auto.state = "running",
                                   !.groups[i].auto.input = input]
             /\ cycle' = [at |-> "reviewing", seen |-> cycle.seen,
                          group |-> i, input |-> input]
    <3> HIDE DEF input
    <3> DEFINE g2 == [g EXCEPT !.auto.state = "running", !.auto.input = input]
    <3>1. IsGroup(g) /\ ApprovedGroup(g) /\ g.status = "pending"
        BY <2>0 DEF HubOK, IsHub, ApprovalsMatch, GroupsIn
    <3>2. hub' = [hub EXCEPT !.groups[i] = g2]
      <4> DEFINE g1 == [g EXCEPT !.auto.state = "running"]
                 h1 == [hub EXCEPT !.groups[i] = g1]
      <4>1. hub' = [h1 EXCEPT !.groups[i].auto.input = input]
          BY <2>3
      <4>2. h1.groups[i] = g1 /\ DOMAIN h1 = DOMAIN hub /\ DOMAIN hub = {"groups", "candidates"}
          BY <2>0 DEF HubOK, IsHub, GroupsIn
      <4>3. [g1 EXCEPT !.auto.input = input] = g2
        <5> HIDE DEF g
        <5> QED BY <3>1 DEF IsGroup, GroupFields, ReviewFields
      <4>4. hub' = [h1 EXCEPT !.groups[i] = g2]
        <5>1. [h1 EXCEPT !.groups[i].auto.input = input]
                  = [h1 EXCEPT !.groups[i] = [h1.groups[i] EXCEPT !.auto.input = input]]
          <6> HIDE DEF h1, g1, g2
          <6> QED OBVIOUS
        <5> HIDE DEF h1, g1, g2
        <5> QED BY <4>1, <4>2, <4>3, <5>1
      <4>5. [h1 EXCEPT !.groups[i] = g2] = [hub EXCEPT !.groups[i] = g2]
        <5> HIDE DEF g1, g2
        <5> QED BY <4>2
      <4> QED BY <4>4, <4>5
    <3> HIDE DEF g
    <3>3. IsGroup(g2) /\ g2.status = g.status /\ g2.plan = g.plan
              /\ g2.outputs = g.outputs /\ g2.members = g.members
              /\ g2.auto.authorized = g.auto.authorized
              /\ g2.auto.decisions = g.auto.decisions /\ g2.auto.state = "running"
        BY <3>1 DEF IsGroup, GroupFields, ReviewFields
    <3> HIDE DEF g2
    <3>4. ApprovedGroup(g2)
        BY <3>1, <3>3 DEF ApprovedGroup, MatchesReview
    <3>5. GroupQuiet(g, g2)
        BY <3>1, <3>3, <3>4, DraftQuiet
    <3>6. Fine(hub, hub')
        BY <2>0, <3>2, <3>5, OneGroupChanges DEF g
    <3>7. CycleFits(hub)'
      <4>1. i \in DOMAIN hub'.groups
          BY <2>0, <3>6, FineGroups
      <4>2. cycle'.at = "reviewing" /\ cycle'.group = i /\ "at" \in DOMAIN cycle'
          BY <2>3
      <4> QED BY <4>1, <4>2 DEF CycleFits
    <3> QED BY <1>0, <3>6, <3>7, Transaction
  <2> QED BY <1>2, <2>1, <2>2, <2>3
<1> QED BY <1>1, <1>2 DEF PrepareAutomaticReview

LEMMA FinishAutomaticReviewKeeps ==
    ASSUME IInv, FinishAutomaticReview
    PROVE  Kept
<1> DEFINE i == cycle.group  g == hub.groups[i]
<1>0. LockFree /\ op' = op /\ revs' = revs /\ HubOK(hub) /\ i \in DOMAIN hub.groups
    BY DEF FinishAutomaticReview, IInv, CycleFits
<1>1. CycleFits(hub)'
  <2>1. cycle' = [at |-> "reviewed", seen |-> cycle.seen]
      BY DEF FinishAutomaticReview
  <2> QED BY <2>1, CycleElsewhere
<1>2. \/ hub' = hub
      \/ /\ g.status = "pending"
         /\ \/ \E state \in {"waiting_budget", "needs_review"} :
                  hub' = [hub EXCEPT !.groups[i].auto.state = state]
            \/ \E decisions \in [DOMAIN g.outputs -> Verdicts] :
                  hub' = Assessed(hub, i, decisions)
    BY DEF FinishAutomaticReview
<1>3. CASE hub' = hub
    BY <1>0, <1>1, <1>3, FineReflexive, Transaction
<1>4. ASSUME NEW state \in {"waiting_budget", "needs_review"},
             hub' = [hub EXCEPT !.groups[i].auto.state = state]
      PROVE  Kept
  <2>1. Fine(hub, hub')
      BY <1>0, <1>4, ReviewStateFine
  <2> QED BY <1>0, <1>1, <2>1, Transaction
<1>5. ASSUME g.status = "pending", NEW decisions, hub' = Assessed(hub, i, decisions)
      PROVE  Kept
  <2>1. Fine(hub, hub')
      BY <1>0, <1>5, AssessedFine DEF GroupsIn
  <2> QED BY <1>0, <1>1, <2>1, Transaction
<1> QED BY <1>2, <1>3, <1>4, <1>5

-----------------------------------------------------------------------------
(* The writer of a plan *)

\* An operation begins or goes on with the hub that it saved.
LEMMA Continued ==
    ASSUME IInv, HubOK(hub'), Later(hub, hub'), revs' = revs, cycle' = cycle, OpFits(hub)'
    PROVE  Kept
<1>1. StoreFits(hub)'
  <2>1. StoreFits(hub')
      BY StoreFitsLater DEF IInv
  <2> QED BY <2>1 DEF StoreFits, SynthesisWrites, GroupOf, PlanOf
<1>2. CycleFits(hub)'
    BY CycleStays
<1>3. HubOK(hub)'
    BY DEF HubOK, IsHub, KeysAreHeld, PlansHold, PromotingIsHeld, PlansApart,
           DraftsApart, ApprovalsMatch, GroupsIn, PlanCovers, IsCandidate, IsGroup
<1> QED BY <1>1, <1>2, <1>3 DEF Kept, IInv

\* What a plan's writer holds when it begins.
LEMMA BeginFits ==
    ASSUME IInv, NEW i \in DOMAIN hub.groups, NEW plan, NEW actor, NEW automatic \in BOOLEAN,
           NEW started, Fine(hub, started), InHand(started, i, plan, automatic),
           op' = [at |-> "write", group |-> i, plan |-> plan, actor |-> actor,
                  automatic |-> automatic, mem |-> started, result |-> NoTarget],
           \/ hub' = hub /\ (automatic => Attributable(hub, i, plan))
           \/ hub' = started /\ (automatic => Attributable(started, i, plan))
    PROVE  HubOK(hub') /\ Later(hub, hub') /\ OpFits(hub)'
<1>1. HubOK(started) /\ Fine(hub', started)
    BY FineReflexive DEF Fine
<1>2. HubOK(hub') /\ Later(hub, hub')
    BY <1>1, FineReflexive DEF Fine, IInv
<1>3. automatic => Attributable(hub', i, plan)
    OBVIOUS
<1>4. /\ op'.at = "write" /\ op'.automatic = automatic /\ op'.group = i /\ op'.plan = plan
      /\ op'.mem = started
      /\ DOMAIN op' = {"at", "group", "plan", "actor", "automatic", "mem", "result"}
    OBVIOUS
<1>5. OpFits(hub)'
    BY <1>1, <1>3, <1>4 DEF OpFits, WriterFits
<1> QED BY <1>2, <1>5

LEMMA ReviewSynthesisKeeps ==
    ASSUME IInv, NEW i \in DOMAIN hub.groups, NEW plan, ReviewSynthesis(i, plan)
    PROVE  Kept
<1> DEFINE automatic == Attributed(hub.groups[i], plan, FALSE)
           started == Started(hub, i, plan, automatic)
<1>1. HubOK(hub) /\ Accepted(hub, i, plan)
    BY DEF IInv, ReviewSynthesis
<1>2. automatic \in BOOLEAN
  <2>1. IsGroup(hub.groups[i])
      BY <1>1 DEF HubOK, IsHub
  <2> QED BY <2>1 DEF IsGroup, Attributed
<1>3. /\ op' = [at |-> "write", group |-> i, plan |-> plan, actor |-> "operator",
                automatic |-> automatic, mem |-> started, result |-> NoTarget]
      /\ hub' = IF SameRequest(hub.groups[i], plan) THEN hub ELSE started
    BY DEF ReviewSynthesis, Begin
<1> HIDE DEF automatic, started
<1>4. /\ Fine(hub, started)
      /\ InHand(started, i, plan, automatic)
      /\ automatic => Attributable(hub, i, plan)
    BY <1>1, OperatorStartsFine DEF started, automatic
<1>5. automatic => Attributable(started, i, plan)
    BY <1>4, AttributableLater DEF Fine
<1>6. HubOK(hub') /\ Later(hub, hub') /\ OpFits(hub)'
    BY <1>2, <1>3, <1>4, <1>5, BeginFits
<1> QED BY <1>6, Continued DEF ReviewSynthesis

\* A Revision that is appended is attributed as its writer is.
LEMMA RevisionAppended ==
    ASSUME IInv, hub' = hub, NEW revision, revs' = Append(revs, revision),
           Len(revision.key) = 3 /\ revision.automatic =>
               Attributable(hub, revision.key[1], revision.key[2])
    PROVE  StoreFits(hub)'
<1>1. revs \in Seq(Range(revs)) /\ Len(revs) \in Nat /\ DOMAIN revs = 1..Len(revs)
    BY DEF IInv, StoreFits
<1>2. revs \in Seq(Range(revs) \cup {revision})
  <2>1. \A r \in 1..Len(revs) : revs[r] \in Range(revs) \cup {revision}
      BY <1>1 DEF Range
  <2> QED BY <1>1, <2>1
<1>3. /\ revs' \in Seq(Range(revs) \cup {revision})
      /\ DOMAIN revs' = 1..(Len(revs) + 1)
      /\ \A r \in 1..Len(revs) : revs'[r] = revs[r]
      /\ revs'[Len(revs) + 1] = revision
    BY <1>1, <1>2
<1>4. revs' \in Seq(Range(revs'))
    BY <1>3, OwnRange
<1>5. ASSUME NEW r \in DOMAIN revs', Len(revs'[r].key) = 3, revs'[r].automatic
      PROVE  Attributable(hub, revs'[r].key[1], revs'[r].key[2])
  <2>1. CASE r \in DOMAIN revs
    <3>1. revs'[r] = revs[r] /\ r \in SynthesisWrites
        BY <1>1, <1>3, <1>5, <2>1 DEF SynthesisWrites
    <3> QED BY <1>5, <3>1 DEF IInv, StoreFits, GroupOf, PlanOf
  <2>2. CASE r \notin DOMAIN revs
    <3>1. revs'[r] = revision
        BY <1>1, <1>3, <2>2
    <3> QED BY <1>5, <3>1
  <2> QED BY <2>1, <2>2
<1>6. ASSUME NEW r \in SynthesisWrites', revs'[r].automatic
      PROVE  Attributable(hub, GroupOf(r), PlanOf(r))'
  <2>1. r \in DOMAIN revs' /\ Len(revs'[r].key) = 3
      BY DEF SynthesisWrites
  <2>2. Attributable(hub', revs'[r].key[1], revs'[r].key[2])
      BY <1>5, <1>6, <2>1
  <2> QED BY <2>2 DEF GroupOf, PlanOf, Attributable
<1> QED BY <1>4, <1>6 DEF StoreFits

LEMMA StoreStays ==
    ASSUME IInv, hub' = hub, revs' = revs
    PROVE  StoreFits(hub)'
BY DEF IInv, StoreFits, SynthesisWrites, GroupOf, PlanOf, Attributable

LEMMA CycleUntouched ==
    ASSUME IInv, hub' = hub, cycle' = cycle
    PROVE  CycleFits(hub)'
BY CycleStays, LaterReflexive DEF IInv, HubOK

LEMMA WriteOutputKeeps ==
    ASSUME IInv, WriteOutput
    PROVE  Kept
<1> DEFINE o == op.plan.outputs[NextOutput]
           key == OutputKey(NextOutput)
<1>1. WriterFits(hub) /\ hub' = hub /\ cycle' = cycle
    BY DEF WriteOutput, IInv, OpFits
<1>2. PICK r : /\ op' = [op EXCEPT !.at = "record", !.result = r]
               /\ \/ revs' = revs
                  \/ \E page, sealed : revs' = Append(revs,
                        Revision(page, op.actor, key, o.evidence, op.automatic, sealed))
  <2>1. PICK r \in 1..(Len(revs) + 1) :
            /\ \/ Ingest(op.actor, key, o.evidence, op.automatic, r)
               \/ Revise(op.actor, key, o.evidence, op.automatic, o.target, r)
               \/ revs' = revs
            /\ op' = [op EXCEPT !.at = "record", !.result = r]
      BY DEF WriteOutput
  <2> HIDE DEF o, key
  <2>2. CASE Ingest(op.actor, key, o.evidence, op.automatic, r)
    <3>1. \/ revs' = revs
          \/ revs' = Append(revs, Revision(r, op.actor, key, o.evidence, op.automatic, TRUE))
        BY <2>2 DEF Ingest
    <3> QED BY <2>1, <3>1
  <2>3. CASE Revise(op.actor, key, o.evidence, op.automatic, o.target, r)
    <3>1. \/ revs' = revs
          \/ revs' = Append(revs, Revision(PageOf(o.target), op.actor, key, o.evidence,
                                           op.automatic, FALSE))
        BY <2>3 DEF Revise
    <3> QED BY <2>1, <3>1
  <2> QED BY <2>1, <2>2, <2>3 DEF o, key
<1>3. StoreFits(hub)'
  <2>1. CASE revs' = revs
      BY <1>1, <2>1, StoreStays
  <2>2. ASSUME NEW page, NEW sealed, revs' = Append(revs,
                    Revision(page, op.actor, key, o.evidence, op.automatic, sealed))
        PROVE  StoreFits(hub)'
    <3> DEFINE revision == Revision(page, op.actor, key, o.evidence, op.automatic, sealed)
    <3>1. revision.key[1] = op.group /\ revision.key[2] = op.plan
              /\ revision.automatic = op.automatic
        BY DEF Revision, OutputKey
    <3> HIDE DEF revision
    <3>2. revision.automatic => Attributable(hub, revision.key[1], revision.key[2])
        BY <1>1, <3>1 DEF WriterFits
    <3> QED BY <1>1, <2>2, <3>2, RevisionAppended DEF revision
  <2> QED BY <1>2, <2>1, <2>2
<1>4. OpFits(hub)'
  <2>1. /\ op'.at = "record" /\ DOMAIN op' = DOMAIN op /\ op'.mem = op.mem
        /\ op'.group = op.group /\ op'.plan = op.plan /\ op'.automatic = op.automatic
      BY <1>1, <1>2 DEF WriterFits
  <2>2. /\ DOMAIN op' = {"at", "group", "plan", "actor", "automatic", "mem", "result"}
        /\ op'.automatic \in BOOLEAN
        /\ Fine(hub', op'.mem)
        /\ InHand(op'.mem, op'.group, op'.plan, op'.automatic)
        /\ op'.automatic => Attributable(hub', op'.group, op'.plan)
      BY <1>1, <2>1 DEF WriterFits
  <2> QED BY <2>1, <2>2 DEF OpFits, WriterFits
<1>5. CycleFits(hub)'
    BY <1>1, CycleUntouched
<1> QED BY <1>1, <1>3, <1>4, <1>5, HubStays

\* A hub that only has one receipt more is in the same hands.
LEMMA ReceiptInHand ==
    ASSUME NEW h, HubOK(h), NEW i, NEW plan, NEW automatic, InHand(h, i, plan, automatic),
           NEW r
    PROVE  InHand([h EXCEPT !.groups[i].results = Append(@, r)], i, plan, automatic)
<1> DEFINE g == h.groups[i]
           results == Append(g.results, r)
           g2 == [g EXCEPT !.results = results]
           h2 == [h EXCEPT !.groups[i].results = Append(@, r)]
<1>1. i \in DOMAIN h.groups /\ IsGroup(g)
    BY DEF InHand, HubOK, IsHub
<1>2. h2.groups[i] = g2 /\ h2.candidates = h.candidates /\ DOMAIN h2.groups = DOMAIN h.groups
    BY <1>1 DEF HubOK, IsHub
<1> HIDE DEF h2, results
<1>3. g2.status = g.status /\ g2.plan = g.plan /\ g2.members = g.members /\ g2.auto = g.auto
  <2> HIDE DEF g
  <2> QED BY <1>1 DEF IsGroup, GroupFields
<1> HIDE DEF g2
<1>4. InHand(h2, i, plan, automatic)
    BY <1>1, <1>2, <1>3 DEF InHand, Active
<1> QED BY <1>4 DEF h2

LEMMA RecordOutputKeeps ==
    ASSUME IInv, RecordOutput
    PROVE  Kept
<1> DEFINE mem == [op.mem EXCEPT !.groups[op.group].results = Append(@, op.result)]
<1>1. WriterFits(hub) /\ HubOK(op.mem) /\ op.group \in DOMAIN op.mem.groups
    BY DEF RecordOutput, IInv, OpFits, WriterFits, InHand, Fine
<1>2. hub' = mem /\ op' = [op EXCEPT !.at = "write", !.mem = mem]
    BY DEF RecordOutput
<1>3. Fine(op.mem, mem)
    BY <1>1, ReceiptFine
<1>4. InHand(mem, op.group, op.plan, op.automatic)
    BY <1>1, ReceiptInHand DEF WriterFits
<1> HIDE DEF mem
<1>5. Fine(hub, mem) /\ HubOK(mem) /\ Fine(mem, mem)
    BY <1>1, <1>3, FineTransitive, FineReflexive DEF WriterFits, IInv, Fine
<1>6. /\ op'.at = "write" /\ DOMAIN op' = DOMAIN op /\ op'.mem = mem
      /\ op'.group = op.group /\ op'.plan = op.plan /\ op'.automatic = op.automatic
    BY <1>1, <1>2 DEF WriterFits
<1>7. op'.automatic => Attributable(hub', op'.group, op'.plan)
    BY <1>1, <1>2, <1>5, <1>6, AttributableLater DEF WriterFits, Fine
<1>8. OpFits(hub)'
  <2>1. /\ DOMAIN op' = {"at", "group", "plan", "actor", "automatic", "mem", "result"}
        /\ op'.automatic \in BOOLEAN
        /\ Fine(hub', op'.mem)
        /\ InHand(op'.mem, op'.group, op'.plan, op'.automatic)
      BY <1>1, <1>2, <1>4, <1>5, <1>6 DEF WriterFits
  <2> QED BY <1>6, <1>7, <2>1 DEF OpFits, WriterFits
<1>9. HubOK(hub') /\ Later(hub, hub')
    BY <1>2, <1>5 DEF Fine
<1> QED BY <1>8, <1>9, Continued DEF RecordOutput

LEMMA CompletePlanKeeps ==
    ASSUME IInv, CompletePlan
    PROVE  Kept
<1> DEFINE done == Completed(op.mem, op.group, op.automatic)
<1>1. WriterFits(hub) /\ HubOK(op.mem) /\ HubOK(hub)
    BY DEF CompletePlan, IInv, OpFits, WriterFits, Fine
<1>2. op.group \in DOMAIN op.mem.groups /\ op.automatic \in BOOLEAN
          /\ InHand(op.mem, op.group, op.plan, op.automatic)
    BY <1>1 DEF WriterFits, InHand
<1>3. hub' = done
    BY DEF CompletePlan
<1>a. \/ op' = Free
      \/ op' = [op EXCEPT !.at = "settle", !.mem = done]
    BY DEF CompletePlan
<1>4. Fine(op.mem, done)
    BY <1>1, <1>2, CompletedFine
<1> HIDE DEF done
<1>5. Fine(hub, hub')
    BY <1>1, <1>3, <1>4, FineTransitive DEF WriterFits
<1>6. op.group \in DOMAIN hub'.groups
    BY <1>1, <1>2, <1>3, <1>4, FineGroups
<1>7. OpFits(hub)'
  <2>1. CASE op' = Free
      BY <2>1 DEF OpFits, Free
  <2>2. CASE op' = [op EXCEPT !.at = "settle", !.mem = done]
    <3>1. op'.at = "settle" /\ op'.mem = hub' /\ op'.group = op.group
        BY <1>1, <1>3, <2>2 DEF WriterFits
    <3> QED BY <1>6, <3>1 DEF OpFits
  <2> QED BY <1>a, <2>1, <2>2
<1>8. HubOK(hub') /\ Later(hub, hub')
    BY <1>5 DEF Fine
<1> QED BY <1>7, <1>8, Continued DEF CompletePlan

\* The operation ends: its hub is saved, or what it had saved stays.
LEMMA OperationEnds ==
    ASSUME IInv, Fine(hub, hub'), op' = Free, revs' = revs, CycleFits(hub)'
    PROVE  Kept
<1>1. HubOK(hub') /\ Later(hub, hub')
    BY DEF Fine
<1>2. StoreFits(hub)'
  <2>1. StoreFits(hub')
      BY <1>1, StoreFitsLater DEF IInv
  <2> QED BY <2>1 DEF StoreFits, SynthesisWrites, GroupOf, PlanOf
<1>3. OpFits(hub)'
    BY DEF OpFits, Free
<1>4. HubOK(hub)'
    BY <1>1 DEF HubOK, IsHub, KeysAreHeld, PlansHold, PromotingIsHeld, PlansApart,
                DraftsApart, ApprovalsMatch, GroupsIn, PlanCovers, IsCandidate, IsGroup
<1> QED BY <1>1, <1>2, <1>3, <1>4 DEF Kept, IInv

LEMMA WriteFailsKeeps ==
    ASSUME IInv, WriteFails
    PROVE  Kept
<1>1. WriterFits(hub) /\ HubOK(op.mem) /\ HubOK(hub) /\ op.group \in DOMAIN op.mem.groups
    BY DEF WriteFails, IInv, OpFits, WriterFits, InHand, Fine
<1>2. op' = Free /\ revs' = revs
    BY DEF WriteFails
<1>3. CASE hub' = Interrupted(op.mem, op.group) /\ Become("organize")
  <2>1. Fine(op.mem, hub')
      BY <1>1, <1>3, InterruptedFine
  <2>2. Fine(hub, hub')
      BY <1>1, <2>1, FineTransitive DEF WriterFits
  <2>3. CycleFits(hub)'
      BY <1>3, CycleBecomes
  <2> QED BY <1>2, <2>2, <2>3, OperationEnds
<1>4. CASE hub' = hub /\ cycle' = cycle
    BY <1>1, <1>2, <1>4, FineReflexive, CycleUntouched, OperationEnds
<1> QED BY <1>3, <1>4 DEF WriteFails

LEMMA SettleAppliedPlanKeeps ==
    ASSUME IInv, SettleAppliedPlan
    PROVE  Kept
<1> DEFINE i == op.group
           h2 == SettleNoChange(hub, i)
<1>1. HubOK(hub) /\ op.mem = hub /\ i \in DOMAIN hub.groups
    BY DEF SettleAppliedPlan, IInv, OpFits
<1>2. hub' = [h2 EXCEPT !.groups[i].auto.state = "written"]
    BY <1>1 DEF SettleAppliedPlan
<1>3. Fine(hub, h2)
    BY <1>1, SettleNoChangeFine
<1> HIDE DEF h2
<1>4. HubOK(h2) /\ i \in DOMAIN h2.groups
    BY <1>1, <1>3, FineGroups
<1>5. Fine(h2, hub')
    BY <1>2, <1>4, ReviewStateFine
<1>6. Fine(hub, hub')
    BY <1>1, <1>3, <1>5, FineTransitive
<1> QED BY <1>6, ToOrganizeFits, OperationEnds DEF SettleAppliedPlan

-----------------------------------------------------------------------------
(* The operator's promotion *)

LEMMA PromoteKeeps ==
    ASSUME IInv, NEW S \in SUBSET Evidence, Promote(S)
    PROVE  Kept
<1> DEFINE key == Versions(S)
           saved == Saved(hub, S, key)
<1>1. HubOK(hub) /\ hub' = saved
          /\ op' = [at |-> "ingest", members |-> S, key |-> key, mem |-> saved]
    BY DEF IInv, Promote, Saved
<1>2. key # NoKey
  <2>1. DOMAIN key = S /\ S # {} /\ DOMAIN NoKey = {}
      BY DEF Versions, Promote, NoKey
  <2> HIDE DEF key
  <2> QED BY <2>1
<1>3. MayRequest(hub, S, key)
    BY DEF MayRequest, Promote, Reviewable, Requested
<1> HIDE DEF key
<1>4. Fine(hub, saved)
    BY <1>1, <1>2, <1>3, RequestSavedFine
<1>5. \A c \in S : saved.candidates[c].status = "promoting" /\ saved.candidates[c].key # NoKey
  <2> SUFFICES ASSUME NEW c \in S
               PROVE  saved.candidates[c].status = "promoting"
                         /\ saved.candidates[c].key # NoKey
      OBVIOUS
  <2> DEFINE x == hub.candidates[c]
             y == [x EXCEPT !.status = "promoting", !.key = key]
  <2>1. saved.candidates[c] = y /\ IsCandidate(x)
      BY <1>1 DEF Saved, OnCandidates, HubOK, IsHub
  <2> HIDE DEF x, saved
  <2>2. y.status = "promoting" /\ y.key = key
      BY <2>1 DEF IsCandidate, CandidateFields
  <2> HIDE DEF y
  <2> QED BY <1>2, <2>1, <2>2
<1> HIDE DEF saved
<1>6. /\ op'.at = "ingest" /\ op'.members = S /\ op'.mem = hub'
      /\ DOMAIN op' = {"at", "members", "key", "mem"}
    BY <1>1
<1>7. OpFits(hub)'
    BY <1>1, <1>5, <1>6 DEF OpFits, RequestFits
<1>8. HubOK(hub') /\ Later(hub, hub')
    BY <1>1, <1>4 DEF Fine
<1> QED BY <1>7, <1>8, Continued DEF Promote

LEMMA IngestReviewedKeeps ==
    ASSUME IInv, IngestReviewed
    PROVE  Kept
<1>1. RequestFits(hub) /\ hub' = hub /\ cycle' = cycle /\ op' = [op EXCEPT !.at = "decide"]
    BY DEF IngestReviewed, IInv, OpFits
<1>2. \/ revs' = revs
      \/ \E page : revs' = Append(revs,
            Revision(page, "operator", <<op.key>>, op.members, FALSE, TRUE))
  <2>1. PICK r : Ingest("operator", <<op.key>>, op.members, FALSE, r)
      BY DEF IngestReviewed
  <2> QED BY <2>1 DEF Ingest
<1>3. StoreFits(hub)'
  <2>1. CASE revs' = revs
      BY <1>1, <2>1, StoreStays
  <2>2. ASSUME NEW page, revs' = Append(revs,
                    Revision(page, "operator", <<op.key>>, op.members, FALSE, TRUE))
        PROVE  StoreFits(hub)'
    <3> DEFINE revision == Revision(page, "operator", <<op.key>>, op.members, FALSE, TRUE)
    <3>1. ~revision.automatic
        BY DEF Revision
    <3> HIDE DEF revision
    <3> QED BY <1>1, <2>2, <3>1, RevisionAppended DEF revision
  <2> QED BY <1>2, <2>1, <2>2
<1>4. OpFits(hub)'
  <2>1. /\ op'.at = "decide" /\ DOMAIN op' = DOMAIN op /\ op'.mem = op.mem
        /\ op'.members = op.members
      BY <1>1 DEF RequestFits
  <2> QED BY <1>1, <2>1 DEF OpFits, RequestFits
<1>5. CycleFits(hub)'
    BY <1>1, CycleUntouched
<1> QED BY <1>1, <1>3, <1>4, <1>5, HubStays

LEMMA CompletePromotionKeeps ==
    ASSUME IInv, CompletePromotion
    PROVE  Kept
<1>1. RequestFits(hub) /\ HubOK(hub)
    BY DEF CompletePromotion, IInv, OpFits
<1>2. hub' = InvalidateStale(Decided(hub, op.members, "promoted", FALSE))
    BY <1>1 DEF CompletePromotion, RequestFits
<1>3. Fine(hub, Decided(hub, op.members, "promoted", FALSE))
    BY <1>1, RequestDecidedFine DEF RequestFits
<1>4. Fine(hub, hub')
    BY <1>1, <1>2, <1>3, FineThenStale
<1>5. CycleFits(hub)'
    BY <1>4, CycleStays DEF CompletePromotion, Fine
<1> QED BY <1>4, <1>5, OperationEnds DEF CompletePromotion

LEMMA PromotionFailsKeeps ==
    ASSUME IInv, PromotionFails
    PROVE  Kept
BY FineReflexive, CycleUntouched, OperationEnds DEF PromotionFails, IInv

-----------------------------------------------------------------------------
(* Steps of the cycle and of the tenants that leave the hub alone *)

LEMMA AtRest ==
    ASSUME IInv, hub' = hub, revs' = revs, op' = op, CycleFits(hub)'
    PROVE  Kept
<1>1. OpFits(hub)'
    BY DEF IInv, OpFits, WriterFits, RequestFits
<1> QED BY <1>1, StoreStays, HubStays

LEMMA CycleKeeps ==
    ASSUME IInv,
           \/ BeginCycle \/ SkipCandidateReview \/ ReadInventory \/ EndCycle
           \/ CycleFails \/ OrganizationFailed
    PROVE  Kept
<1>1. hub' = hub /\ revs' = revs /\ op' = op
    BY DEF BeginCycle, SkipCandidateReview, ReadInventory, EndCycle, CycleFails,
           OrganizationFailed
<1>2. CASE BeginCycle
  <2>1. "at" \in DOMAIN cycle' /\ cycle'.at = "started"
      BY <1>2 DEF BeginCycle
  <2> QED BY <1>1, <2>1, CycleElsewhere, AtRest
<1>3. CASE SkipCandidateReview
  <2>1. CycleFits(hub)'
      BY <1>3, CycleBecomes DEF SkipCandidateReview
  <2> QED BY <1>1, <2>1, AtRest
<1>4. CASE ReadInventory
  <2>1. "at" \in DOMAIN cycle' /\ cycle'.at \in {"resume", "apply"}
      BY <1>4 DEF ReadInventory
  <2> QED BY <1>1, <2>1, CycleElsewhere, AtRest
<1>5. CASE EndCycle \/ CycleFails \/ OrganizationFailed
  <2>1. cycle' = Idle
      BY <1>5 DEF EndCycle, CycleFails, OrganizationFailed
  <2> QED BY <1>1, <2>1, IdleFits, AtRest
<1> QED BY <1>2, <1>3, <1>4, <1>5

LEMMA PrepareOrganizationKeeps ==
    ASSUME IInv, PrepareOrganization
    PROVE  Kept
<1>1. hub' = hub /\ revs' = revs /\ op' = op /\ HubOK(hub)
    BY DEF PrepareOrganization, IInv
<1>2. PICK batch \in Batches(cycle.seen) : \E offered :
          cycle' = [at |-> "organizing", offered |-> offered,
                    updateable |-> {r \in offered : ~revs[r].sealed},
                    versions |-> [c \in batch |-> hub.candidates[c].version]]
    BY DEF PrepareOrganization
<1>3. batch \subseteq {c \in Evidence : Active(hub, c)}
    BY DEF Batches
<1> DEFINE versions == [c \in batch |-> hub.candidates[c].version]
<1>4. DOMAIN versions = batch /\ \A c \in batch : versions[c] = hub.candidates[c].version
    OBVIOUS
<1>5. /\ "at" \in DOMAIN cycle' /\ "versions" \in DOMAIN cycle'
      /\ cycle'.at = "organizing" /\ cycle'.versions = versions
  <2> HIDE DEF versions
  <2> QED BY <1>2 DEF versions
<1> HIDE DEF versions
<1>6. ASSUME NEW c \in batch
      PROVE  /\ c \in Evidence /\ versions[c] \in Nat
             /\ versions[c] <= hub.candidates[c].version
             /\ ~Settled(hub.candidates[c])
    BY <1>1, <1>3, <1>4 DEF HubOK, IsHub, IsCandidate, Active, Settled
<1>7. BatchFits(hub)'
    BY <1>1, <1>4, <1>5, <1>6 DEF BatchFits
<1>8. CycleFits(hub)'
    BY <1>5, <1>7 DEF CycleFits
<1> QED BY <1>1, <1>8, AtRest

LEMMA RefuseOrganizationKeeps ==
    ASSUME IInv, RefuseOrganization
    PROVE  Kept
<1>1. hub' = hub /\ revs' = revs /\ op' = op
    BY DEF RefuseOrganization
<1>2. BatchFits(hub) /\ "at" \in DOMAIN cycle
    BY DEF RefuseOrganization, IInv, CycleFits
<1>3. /\ cycle'.at = "refusing" /\ DOMAIN cycle' = DOMAIN cycle
      /\ cycle'.versions = cycle.versions
    BY <1>2 DEF RefuseOrganization, Become
<1>4. BatchFits(hub)'
    BY <1>1, <1>2, <1>3 DEF BatchFits
<1>5. CycleFits(hub)'
    BY <1>2, <1>3, <1>4 DEF CycleFits
<1> QED BY <1>1, <1>5, AtRest

LEMMA TenantsKeep ==
    ASSUME IInv, TenantWrites \/ TenantArchives
    PROVE  Kept
<1>1. hub' = hub /\ op' = op /\ cycle' = cycle
    BY DEF TenantWrites, TenantArchives
<1>2. StoreFits(hub)'
  <2>1. CASE TenantWrites
    <3>1. PICK page : revs' = Append(revs, Revision(page, "tenant", NoKey, {}, FALSE, FALSE))
        BY <2>1 DEF TenantWrites
    <3> DEFINE revision == Revision(page, "tenant", NoKey, {}, FALSE, FALSE)
    <3>2. ~revision.automatic
        BY DEF Revision
    <3> HIDE DEF revision
    <3> QED BY <1>1, <3>1, <3>2, RevisionAppended DEF revision
  <2>2. CASE TenantArchives
      BY <1>1, <2>2, StoreStays DEF TenantArchives
  <2> QED BY <2>1, <2>2
<1>3. OpFits(hub)'
    BY <1>1 DEF IInv, OpFits, WriterFits, RequestFits
<1>4. CycleFits(hub)'
    BY <1>1, CycleUntouched
<1> QED BY <1>1, <1>2, <1>3, <1>4, HubStays

LEMMA CrashKeeps ==
    ASSUME IInv, Crash
    PROVE  Kept
BY FineReflexive, IdleFits, OperationEnds DEF Crash, IInv

-----------------------------------------------------------------------------
(* The cycle applies an approval *)

\* An approval that is not accepted when it is applied leaves its draft as it
\* is, but without the plan when nothing was begun.
LEMMA NotAppliedFine ==
    ASSUME NEW h, HubOK(h), NEW i \in DOMAIN h.groups, Resumable(h, i)
    PROVE  Fine(h, Interrupted(Applying(h, i), i))
<1> DEFINE g == h.groups[i]
           fresh == Applying(h, i)
<1>1. MatchesReview(g) /\ IsGroup(g) /\ g.status \in {"pending", "promoting"}
    BY ResumableMatches DEF HubOK, IsHub, Resumable
<1>2. CASE g.status = "promoting"
  <2>1. fresh = [h EXCEPT !.groups[i].auto.state = "applying"]
      BY <1>2 DEF Applying
  <2> HIDE DEF fresh
  <2>a. h.groups[i].plan # NoPlan
      BY <1>1 DEF MatchesReview
  <2>2. Fine(h, fresh)
      BY <2>1, <2>a, ReviewStateFine
  <2>3. HubOK(fresh) /\ i \in DOMAIN fresh.groups
      BY <2>2, FineGroups
  <2>4. Fine(fresh, Interrupted(fresh, i))
      BY <2>3, InterruptedFine
  <2> QED BY <2>2, <2>4, FineTransitive DEF fresh
<1>3. CASE g.status = "pending"
  <2> DEFINE g1 == [g EXCEPT !.plan = NoPlan, !.auto.state = "applying"]
             g2 == [g1 EXCEPT !.auto.state = "write_interrupted"]
  <2>0. fresh = [h EXCEPT !.groups[i].plan = NoPlan, !.groups[i].auto.state = "applying"]
      BY <1>3 DEF Applying
  <2>1. fresh = [h EXCEPT !.groups[i] = g1]
      BY <2>0
  <2>2. Interrupted(fresh, i) = [h EXCEPT !.groups[i] = g2]
    <3>1. fresh.groups[i] = g1
      <4> HIDE DEF g1, fresh
      <4> QED BY <2>1 DEF HubOK, IsHub
    <3>2. Interrupted(fresh, i) = [fresh EXCEPT !.groups[i] = g2]
      <4>1. Interrupted(fresh, i) = [fresh EXCEPT !.groups[i] =
                [fresh.groups[i] EXCEPT !.auto.state = "write_interrupted"]]
        <5> HIDE DEF fresh
        <5> QED BY DEF Interrupted
      <4> HIDE DEF fresh, g1
      <4> QED BY <3>1, <4>1
    <3> HIDE DEF fresh, g1, g2
    <3> QED BY <2>1, <3>2 DEF HubOK, IsHub
  <2> HIDE DEF g
  <2>3. IsGroup(g1) /\ g1.status = "pending" /\ g1.plan = NoPlan /\ g1.members = g.members
      BY <1>1, <1>3 DEF IsGroup, GroupFields, ReviewFields
  <2> HIDE DEF g1
  <2>4. /\ IsGroup(g2) /\ g2.status = "pending" /\ g2.plan = NoPlan /\ g2.members = g.members
        /\ g2.auto.state = "write_interrupted"
      BY <2>3 DEF IsGroup, GroupFields, ReviewFields
  <2> HIDE DEF g2
  <2>5. ApprovedGroup(g2)
      BY <2>4 DEF ApprovedGroup
  <2>6. GroupQuiet(g, g2)
      BY <1>1, <1>3, <2>4, <2>5, DraftQuiet
  <2> QED BY <2>2, <2>6, OneGroupChanges DEF g, fresh
<1> QED BY <1>1, <1>2, <1>3

LEMMA ResumeAutomaticWriteKeeps ==
    ASSUME IInv, ResumeAutomaticWrite
    PROVE  Kept
<1> DEFINE todo == {i \in DOMAIN hub.groups : Resumable(hub, i)}
           i == Min(todo)
           g == hub.groups[i]
           fresh == Applying(hub, i)
           started == Started(fresh, i, g.plan, TRUE)
<1>0. LockFree /\ revs' = revs /\ HubOK(hub)
    BY DEF ResumeAutomaticWrite, IInv
<1>1. \/ /\ IF cycle.at = "resume" THEN Become("prepare") ELSE ToOrganize
         /\ hub' = hub /\ op' = op
      \/ /\ todo # {} /\ g.status = "pending"
         /\ hub' = Revoked(hub, i)
         /\ ToOrganize
         /\ op' = op
      \/ /\ todo # {}
         /\ IF Accepted(fresh, i, g.plan)
            THEN /\ Begin(fresh, i, g.plan, TRUE, "maintainer")
                 /\ Become("writing")
            ELSE /\ hub' = Interrupted(fresh, i)
                 /\ ToOrganize
                 /\ op' = op
    BY DEF ResumeAutomaticWrite, Applying
<1>2. ASSUME todo # {}
      PROVE  i \in DOMAIN hub.groups /\ Resumable(hub, i)
  <2>1. DOMAIN hub.groups \subseteq Nat
      BY <1>0 DEF HubOK, IsHub
  <2>2. todo \in SUBSET Nat
      BY <2>1
  <2> HIDE DEF todo
  <2>3. i \in todo
      BY <1>2, <2>2, EarliestIsOne
  <2> QED BY <2>3 DEF todo
<1> HIDE DEF todo, i, fresh, started
<1>3. CASE /\ IF cycle.at = "resume" THEN Become("prepare") ELSE ToOrganize
           /\ hub' = hub /\ op' = op
  <2>1. CycleFits(hub)'
      BY <1>3, CycleBecomes, ToOrganizeFits
  <2> QED BY <1>0, <1>3, <2>1, AtRest
<1>4. CASE todo # {} /\ g.status = "pending" /\ hub' = Revoked(hub, i) /\ ToOrganize /\ op' = op
  <2>1. i \in GroupsIn(hub, "pending")
      BY <1>2, <1>4 DEF GroupsIn
  <2>2. Fine(hub, hub')
      BY <1>0, <1>4, <2>1, RevokedFine
  <2> QED BY <1>0, <1>4, <2>2, ToOrganizeFits, Transaction
<1>5. CASE todo # {} /\ hub' = Interrupted(fresh, i) /\ ToOrganize /\ op' = op
  <2>1. Fine(hub, hub')
      BY <1>0, <1>2, <1>5, NotAppliedFine DEF fresh
  <2> QED BY <1>0, <1>5, <2>1, ToOrganizeFits, Transaction
<1>6. CASE /\ todo # {} /\ Accepted(fresh, i, g.plan)
           /\ Begin(fresh, i, g.plan, TRUE, "maintainer") /\ Become("writing")
  <2>1. /\ Fine(hub, started)
        /\ InHand(started, i, g.plan, TRUE)
        /\ Attributable(started, i, g.plan)
        /\ SameRequest(fresh.groups[i], g.plan) => Attributable(hub, i, g.plan)
      BY <1>0, <1>2, <1>6, ResumeStartsFine DEF fresh, started
  <2>2. Attributed(fresh.groups[i], g.plan, TRUE) = TRUE
      BY DEF Attributed
  <2>3. /\ op' = [at |-> "write", group |-> i, plan |-> g.plan, actor |-> "maintainer",
                  automatic |-> TRUE, mem |-> started, result |-> NoTarget]
        /\ hub' = IF SameRequest(fresh.groups[i], g.plan) THEN hub ELSE started
      BY <1>6, <2>2 DEF Begin, started
  <2>4. HubOK(hub') /\ Later(hub, hub') /\ OpFits(hub)'
    <3> HIDE DEF g
    <3>1. CASE SameRequest(fresh.groups[i], g.plan)
        BY <1>2, <1>6, <2>1, <2>3, <3>1, BeginFits
    <3>2. CASE ~SameRequest(fresh.groups[i], g.plan)
        BY <1>2, <1>6, <2>1, <2>3, <3>2, BeginFits
    <3> QED BY <3>1, <3>2
  <2>5. StoreFits(hub)'
    <3>1. StoreFits(hub')
        BY <2>4, StoreFitsLater DEF IInv
    <3> QED BY <1>0, <3>1 DEF StoreFits, SynthesisWrites, GroupOf, PlanOf
  <2>6. CycleFits(hub)'
      BY <1>6, CycleBecomes
  <2>7. HubOK(hub)'
      BY <2>4 DEF HubOK, IsHub, KeysAreHeld, PlansHold, PromotingIsHeld, PlansApart,
                  DraftsApart, ApprovalsMatch, GroupsIn, PlanCovers, IsCandidate, IsGroup
  <2> QED BY <2>4, <2>5, <2>6, <2>7 DEF Kept, IInv
<1> QED BY <1>1, <1>3, <1>4, <1>5, <1>6

-----------------------------------------------------------------------------
(* The theorems *)

LEMMA InitIsFine ==
    ASSUME Init
    PROVE  IInv
<1>1. hub = [groups |-> <<>>,
             candidates |-> [c \in Evidence |->
                 [version |-> 0, organized |-> 0, status |-> "absent",
                  result |-> "none", outputs |-> FALSE, key |-> NoKey]]]
    BY DEF Init
<1>2. /\ DOMAIN hub = {"groups", "candidates"} /\ hub.groups = <<>>
      /\ DOMAIN hub.candidates = Evidence
      /\ \A c \in Evidence : hub.candidates[c] =
             [version |-> 0, organized |-> 0, status |-> "absent",
              result |-> "none", outputs |-> FALSE, key |-> NoKey]
    BY <1>1
<1>3. \A c \in Evidence : /\ IsCandidate(hub.candidates[c])
                          /\ hub.candidates[c].status = "absent"
                          /\ hub.candidates[c].key = NoKey
    BY <1>2 DEF IsCandidate, CandidateFields
<1>4. DOMAIN hub.groups = {} /\ hub.groups \in Seq(Range(hub.groups))
    BY <1>2
<1>5. GroupsIn(hub, "promoting") = {} /\ GroupsIn(hub, "pending") = {}
    BY <1>4 DEF GroupsIn
<1>6. HubOK(hub)
    BY <1>2, <1>3, <1>4, <1>5 DEF HubOK, IsHub, KeysAreHeld, PlansHold, PromotingIsHeld,
       PlansApart, DraftsApart, ApprovalsMatch
<1>7. StoreFits(hub)
  <2>1. revs = [p \in 1..Memories |-> Revision(p, "tenant", NoKey, {}, FALSE, FALSE)]
      BY DEF Init
  <2>2. Memories \in Nat
      BY HubAssumption DEF HubAssumption
  <2>3. DOMAIN revs = 1..Memories /\ \A r \in 1..Memories : revs[r].automatic = FALSE
      BY <2>1 DEF Revision
  <2>4. revs \in [1..Memories -> Range(revs)]
      BY <2>1, <2>3 DEF Range
  <2>5. revs \in Seq(Range(revs))
      BY <2>2, <2>4
  <2> QED BY <2>3, <2>5 DEF StoreFits, SynthesisWrites
<1>8. OpFits(hub) /\ CycleFits(hub)
    BY DEF Init, OpFits, CycleFits, Free, Idle
<1> QED BY <1>6, <1>7, <1>8 DEF IInv

LEMMA OperatorKeeps ==
    ASSUME IInv, OperatorActs
    PROVE  Kept
<1>1. CASE Inspect \/ OrganizeCandidates
    BY <1>1, InspectKeeps, OrganizeCandidatesKeeps
<1>2. ASSUME NEW i \in DOMAIN hub.groups,
             StopSynthesis(i) \/ \E plan : ReviewSynthesis(i, plan)
      PROVE  Kept
    BY <1>2, StopSynthesisKeeps, ReviewSynthesisKeeps
<1>3. ASSUME NEW S \in SUBSET Evidence,
             Promote(S) \/ \E action \in Decisions \ {"promoted"} : Review(S, action)
      PROVE  Kept
    BY <1>3, PromoteKeeps, ReviewKeeps
<1> QED BY <1>1, <1>2, <1>3 DEF OperatorActs

LEMMA StepKeeps ==
    ASSUME IInv, [Next]_vars
    PROVE  Kept
<1>1. CASE \E c \in Evidence : Submit(c)
    BY <1>1, SubmitKeeps
<1>2. CASE OperatorActs
    BY <1>2, OperatorKeeps
<1>3. CASE Writing
    BY <1>3, WriteOutputKeeps, RecordOutputKeeps, CompletePlanKeeps, WriteFailsKeeps,
       IngestReviewedKeeps, CompletePromotionKeeps, PromotionFailsKeeps,
       SettleAppliedPlanKeeps DEF Writing
<1>4. CASE CycleSteps
    BY <1>4, CycleKeeps, ResumeAutomaticWriteKeeps, PrepareAutomaticReviewKeeps,
       FinishAutomaticReviewKeeps, PrepareOrganizationKeeps, FinishOrganizationKeeps,
       RefuseOrganizationKeeps, OrganizationRejectedKeeps DEF CycleSteps
<1>5. CASE TenantWrites \/ TenantArchives \/ Crash
    BY <1>5, TenantsKeep, CrashKeeps
<1>6. CASE UNCHANGED vars
  <2>1. hub' = hub /\ revs' = revs /\ op' = op /\ cycle' = cycle
      BY <1>6 DEF vars
  <2> QED BY <2>1, CycleUntouched, AtRest
<1> QED BY <1>1, <1>2, <1>3, <1>4, <1>5, <1>6 DEF Next

\* The file and the copy of the operation that holds the lock stay hubs, in
\* which plans, drafts and the operator's requests keep their evidence apart.
THEOREM HubInvariant == Spec => []IInv
<1>1. Init => IInv
    BY InitIsFine
<1>2. IInv /\ [Next]_vars => IInv'
    BY StepKeeps DEF Kept
<1> QED BY <1>1, <1>2, PTL DEF Spec

\* Evidence in writing belongs to exactly one plan of a synthesis or request of
\* the operator, at the version that was approved (reserve_synthesis,
\* stop_synthesis, complete_synthesis and the operator's promotion).
THEOREM EvidenceHasOneWriter == Spec => []PromotingIsOwned
<1>1. IInv => PromotingIsOwned
  <2> SUFFICES ASSUME IInv
               PROVE  PromotingIsOwned
      OBVIOUS
  <2>0. HubOK(hub)
      BY DEF IInv
  <2>1. ASSUME NEW c \in Evidence, hub.candidates[c].status = "promoting"
        PROVE  LET plans == {i \in GroupsIn(hub, "promoting") :
                                c \in Covered(hub.groups[i].plan.outputs)}
                   manual == IF hub.candidates[c].key # NoKey THEN 1 ELSE 0
               IN Cardinality(plans) + manual = 1
    <3> DEFINE plans == {i \in GroupsIn(hub, "promoting") : c \in PlanCovers(hub, i)}
    <3>1. CASE hub.candidates[c].key # NoKey
      <4>1. plans = {}
          BY <2>0, <3>1 DEF HubOK, PlansHold
      <4>2. Cardinality(plans) = 0
          BY <4>1, FS_EmptySet
      <4> QED BY <3>1, <4>2 DEF PlanCovers
    <3>2. CASE hub.candidates[c].key = NoKey
      <4>1. PICK i \in GroupsIn(hub, "promoting") : c \in PlanCovers(hub, i)
          BY <2>0, <2>1, <3>2 DEF HubOK, PromotingIsHeld
      <4>2. plans = {i}
          BY <2>0, <4>1 DEF HubOK, PlansApart
      <4>3. Cardinality(plans) = 1
          BY <4>2, FS_Singleton
      <4> QED BY <3>2, <4>3 DEF PlanCovers
    <3> QED BY <3>1, <3>2
  <2>2. \A i \in GroupsIn(hub, "promoting") : \A c \in Covered(hub.groups[i].plan.outputs) :
            /\ hub.candidates[c].status = "promoting"
            /\ hub.candidates[c].version = hub.groups[i].members[c]
      BY <2>0 DEF HubOK, PlansHold, PlanCovers
  <2> QED BY <2>1, <2>2 DEF PromotingIsOwned
<1> QED BY <1>1, HubInvariant, PTL

\* No step changes evidence that was promoted, represented or rejected: neither
\* a late answer of the model nor a resumed plan, a stop or a second decision.
THEOREM DecidedStaysDecided == Spec => DecisionsAreFinal
<1>1. IInv /\ [Next]_vars =>
          [\A c \in Evidence : Terminal(c) => hub'.candidates[c] = hub.candidates[c]]_hub
  <2> SUFFICES ASSUME IInv, [Next]_vars, NEW c \in Evidence, Terminal(c)
               PROVE  hub'.candidates[c] = hub.candidates[c]
      OBVIOUS
  <2>1. CandidateLater(hub.candidates[c], hub'.candidates[c])
      BY StepKeeps DEF Kept, Later
  <2> QED BY <2>1 DEF CandidateLater, Settled, Terminal
<1> QED BY <1>1, HubInvariant, PTL DEF Spec, DecisionsAreFinal

\* A Page is attributed to the automatic review only if the review approved
\* exactly the plan that was written, whoever resumed it.
THEOREM ReviewAnswersForItsPages == Spec => []AutomaticAsApproved
<1>1. IInv => AutomaticAsApproved
    BY DEF IInv, StoreFits, Attributable, AutomaticAsApproved
<1> QED BY <1>1, HubInvariant, PTL

-----------------------------------------------------------------------------
(* Types.  What a draft, a plan, a receipt or a model's input names exists   *)
(* in the store: Typed is what a hub that knows the first n Revisions is,    *)
(* each operation keeps it, and the store only grows.                        *)

CandidateStatuses == {"absent", "pending", "deferred", "promoting", "promoted",
                      "represented", "rejected"}
CandidateResults == {"none", "deferred", "promoted", "represented", "rejected",
                     "partially_represented", "interrupted", "no_change"}
GroupStatuses == {"pending", "promoting", "promoted", "superseded", "interrupted"}

\* An output that names one of the first n Revisions, an update one of them surely.
Named(o, n) ==
    /\ o \in [action: Actions, evidence: (SUBSET Evidence) \ {{}}, target: 0..n]
    /\ o.action = "update" => o.target # NoTarget

TypedCandidate(x) ==
    /\ IsCandidate(x)
    /\ x.organized \in Nat /\ x.outputs \in BOOLEAN
    /\ x.status \in CandidateStatuses /\ x.result \in CandidateResults
    /\ DOMAIN x.key \subseteq Evidence
    /\ x.organized <= x.version
Listed(outputs) == \E m \in Nat : DOMAIN outputs = 1..m
TypedPlan(outputs, n) == \A k \in DOMAIN outputs : Named(outputs[k], n)

\* A draft has outputs of its own evidence; what else it names is in the store.
TypedGroup(g, n) ==
    /\ IsGroup(g)
    /\ g.version \in Nat /\ g.status \in GroupStatuses
    /\ Listed(g.outputs) /\ TypedPlan(g.outputs, n)
    /\ \A k \in DOMAIN g.outputs : g.outputs[k].evidence \subseteq DOMAIN g.members
    /\ g.plan # NoPlan => TypedPlan(g.plan.outputs, n)
    /\ g.offered \subseteq 1..n /\ g.updateable \subseteq 1..n
    /\ g.results \in Seq(1..n)
    /\ g.auto.retain \subseteq DOMAIN g.members
    /\ g.auto.input # NoInput => g.auto.input.pages \subseteq 1..n
TypedHub(h, n) ==
    /\ IsHub(h)
    /\ \A c \in Evidence : TypedCandidate(h.candidates[c])
    /\ \A i \in DOMAIN h.groups : TypedGroup(h.groups[i], n)

LEMMA TypedLater ==
    ASSUME NEW n \in Nat, NEW m \in Nat, n <= m, NEW h, TypedHub(h, n)
    PROVE  TypedHub(h, m)
<1>1. 1..n \subseteq 1..m /\ 0..n \subseteq 0..m
    OBVIOUS
<1>2. ASSUME NEW outputs, TypedPlan(outputs, n)
      PROVE  TypedPlan(outputs, m)
    BY <1>1, <1>2 DEF TypedPlan, Named
<1>3. \A s \in Seq(1..n) : s \in Seq(1..m)
    BY <1>1
<1>4. ASSUME NEW g, TypedGroup(g, n)
      PROVE  TypedGroup(g, m)
    BY <1>1, <1>2, <1>3, <1>4, Zenon DEF TypedGroup
<1> QED BY <1>4 DEF TypedHub

LEMMA CandidatesTyped ==
    ASSUME NEW n, NEW h, TypedHub(h, n), NEW new, DOMAIN new = Evidence,
           \A c \in Evidence : TypedCandidate(new[c])
    PROVE  TypedHub([h EXCEPT !.candidates = new], n)
<1> DEFINE h2 == [h EXCEPT !.candidates = new]
<1>1. h2.groups = h.groups /\ h2.candidates = new /\ DOMAIN h2 = {"groups", "candidates"}
    BY DEF TypedHub, IsHub
<1> HIDE DEF h2
<1>2. IsHub(h2)
    BY <1>1 DEF TypedHub, IsHub, TypedCandidate
<1> QED BY <1>1, <1>2 DEF TypedHub, h2

LEMMA GroupsTyped ==
    ASSUME NEW n, NEW h, TypedHub(h, n), NEW new, new = [i \in DOMAIN h.groups |-> new[i]],
           \A i \in DOMAIN h.groups : TypedGroup(new[i], n)
    PROVE  TypedHub([h EXCEPT !.groups = new], n)
<1> DEFINE h2 == [h EXCEPT !.groups = new]
<1>1. h2.groups = new /\ h2.candidates = h.candidates /\ DOMAIN h2 = {"groups", "candidates"}
    BY DEF TypedHub, IsHub
<1>a. DOMAIN new = DOMAIN h.groups
    OBVIOUS
<1> HIDE DEF h2
<1>2. new \in Seq(Range(new))
    BY SequenceKept DEF TypedHub, IsHub
<1>3. IsHub(h2)
    BY <1>1, <1>a, <1>2 DEF TypedHub, IsHub, TypedGroup
<1> QED BY <1>1, <1>a, <1>3 DEF TypedHub, h2

LEMMA OneGroupTyped ==
    ASSUME NEW n, NEW h, TypedHub(h, n), NEW i \in DOMAIN h.groups, NEW g, TypedGroup(g, n)
    PROVE  TypedHub([h EXCEPT !.groups[i] = g], n)
<1> DEFINE new == [h.groups EXCEPT ![i] = g]
<1>1. [h EXCEPT !.groups[i] = g] = [h EXCEPT !.groups = new]
    BY DEF TypedHub, IsHub
<1>2. h.groups = [j \in DOMAIN h.groups |-> h.groups[j]]
    BY DEF TypedHub, IsHub
<1>3. new = [j \in DOMAIN h.groups |-> new[j]]
    BY <1>2
<1>4. \A j \in DOMAIN h.groups : TypedGroup(new[j], n)
    BY DEF TypedHub
<1> HIDE DEF new
<1> QED BY <1>1, <1>3, <1>4, GroupsTyped

LEMMA NamedOutputs ==
    ASSUME NEW n \in Nat, NEW members, members \subseteq Evidence, NEW offered, offered \subseteq 1..n,
           NEW updateable, updateable \subseteq 1..n,
           NEW o \in OutputsFrom(members, offered, updateable)
    PROVE  Named(o, n) /\ o.evidence \subseteq members
<1>1. /\ o \in [action: Actions, evidence: (SUBSET members) \ {{}}, target: offered \cup {NoTarget}]
      /\ o.action = "update" => o.target \in updateable
    BY DEF OutputsFrom
<1>2. 1..n \subseteq 0..n /\ NoTarget \in 0..n /\ NoTarget \notin 1..n
    BY DEF NoTarget
<1> QED BY <1>1, <1>2 DEF Named

-----------------------------------------------------------------------------
(* Review and organization keep the types of a hub *)

LEMMA InvalidateStaleTyped ==
    ASSUME NEW n, NEW h, TypedHub(h, n), NEW I
    PROVE  /\ TypedHub(OnGroups(h, I, LAMBDA g : [g EXCEPT !.status = "superseded"]), n)
           /\ TypedHub(InvalidateStale(h), n)
<1>1. ASSUME NEW J
      PROVE  TypedHub(OnGroups(h, J, LAMBDA g : [g EXCEPT !.status = "superseded"]), n)
  <2> DEFINE new == [i \in DOMAIN h.groups |->
        IF i \in J THEN [h.groups[i] EXCEPT !.status = "superseded"] ELSE h.groups[i]]
  <2>1. OnGroups(h, J, LAMBDA g : [g EXCEPT !.status = "superseded"])
            = [h EXCEPT !.groups = new]
      BY DEF OnGroups
  <2>2. ASSUME NEW g, TypedGroup(g, n)
        PROVE  TypedGroup([g EXCEPT !.status = "superseded"], n)
    <3> DEFINE g2 == [g EXCEPT !.status = "superseded"]
    <3>1. /\ IsGroup(g2) /\ g2.status = "superseded" /\ g2.version = g.version
          /\ g2.outputs = g.outputs /\ g2.members = g.members /\ g2.plan = g.plan
          /\ g2.offered = g.offered /\ g2.updateable = g.updateable
          /\ g2.results = g.results /\ g2.auto = g.auto
        BY <2>2 DEF TypedGroup, IsGroup, GroupFields
    <3> HIDE DEF g2
    <3>2. TypedGroup(g2, n)
        BY <2>2, <3>1 DEF TypedGroup, GroupStatuses
    <3> QED BY <3>2 DEF g2
  <2>3. \A i \in DOMAIN h.groups : TypedGroup(new[i], n)
      BY <2>2 DEF TypedHub
  <2>4. new = [i \in DOMAIN h.groups |-> new[i]]
      OBVIOUS
  <2> HIDE DEF new
  <2> QED BY <2>1, <2>3, <2>4, GroupsTyped
<1> QED BY <1>1 DEF InvalidateStale

LEMMA RequeuedTyped ==
    ASSUME NEW n, NEW h, TypedHub(h, n), NEW S
    PROVE  TypedHub(Requeued(h, S), n)
<1> DEFINE new == [c \in Evidence |-> IF c \in {d \in S : Active(h, d)}
                THEN [h.candidates[c] EXCEPT !.organized = 0] ELSE h.candidates[c]]
<1>1. Requeued(h, S) = [h EXCEPT !.candidates = new]
    BY DEF Requeued, OnCandidates
<1>2. ASSUME NEW x, TypedCandidate(x)
      PROVE  TypedCandidate([x EXCEPT !.organized = 0])
    BY <1>2 DEF TypedCandidate, IsCandidate, CandidateFields
<1>3. DOMAIN new = Evidence /\ \A c \in Evidence : TypedCandidate(new[c])
    BY <1>2 DEF TypedHub
<1> HIDE DEF new
<1> QED BY <1>1, <1>3, CandidatesTyped

LEMMA MarkedTyped ==
    ASSUME NEW n, NEW h, TypedHub(h, n), NEW S
    PROVE  TypedHub(OnCandidates(h, S, LAMBDA x : [x EXCEPT !.organized = x.version]), n)
<1> DEFINE new == [c \in Evidence |-> IF c \in S
                THEN [h.candidates[c] EXCEPT !.organized = h.candidates[c].version]
                ELSE h.candidates[c]]
<1>1. OnCandidates(h, S, LAMBDA x : [x EXCEPT !.organized = x.version])
          = [h EXCEPT !.candidates = new]
    BY DEF OnCandidates
<1>2. ASSUME NEW x, TypedCandidate(x)
      PROVE  TypedCandidate([x EXCEPT !.organized = x.version])
    BY <1>2 DEF TypedCandidate, IsCandidate, CandidateFields
<1>3. DOMAIN new = Evidence /\ \A c \in Evidence : TypedCandidate(new[c])
    BY <1>2 DEF TypedHub
<1> HIDE DEF new
<1> QED BY <1>1, <1>3, CandidatesTyped

LEMMA SubmittedTyped ==
    ASSUME NEW n, NEW h, TypedHub(h, n), NEW c \in Evidence, h.candidates[c].status = "absent"
    PROVE  TypedHub([h EXCEPT !.candidates[c] =
                        [@ EXCEPT !.status = "pending", !.version = 1]], n)
<1> DEFINE x == h.candidates[c]
           y == [x EXCEPT !.status = "pending", !.version = 1]
           new == [h.candidates EXCEPT ![c] = y]
<1>1. [h EXCEPT !.candidates[c] = [@ EXCEPT !.status = "pending", !.version = 1]]
          = [h EXCEPT !.candidates = new]
    BY DEF TypedHub, IsHub
<1>2. TypedCandidate(y)
  <2>1. TypedCandidate(x) /\ x.status = "absent"
      BY DEF TypedHub
  <2> HIDE DEF x
  <2> QED BY <2>1 DEF TypedCandidate, IsCandidate, CandidateFields, CandidateStatuses
<1>3. DOMAIN new = Evidence /\ \A b \in Evidence : TypedCandidate(new[b])
    BY <1>2 DEF TypedHub, IsHub
<1> HIDE DEF new, y
<1> QED BY <1>1, <1>3, CandidatesTyped DEF y

LEMMA DecidedTyped ==
    ASSUME NEW n, NEW h, TypedHub(h, n), NEW S, NEW outputs \in BOOLEAN,
           NEW status \in {"deferred", "promoted", "represented", "rejected"}
    PROVE  TypedHub(Decided(h, S, status, outputs), n)
<1> DEFINE decide(x) == [x EXCEPT !.version = @ + 1, !.status = status,
                                  !.result = status, !.outputs = outputs, !.key = NoKey]
           new == [c \in Evidence |-> IF c \in S THEN decide(h.candidates[c])
                                      ELSE h.candidates[c]]
<1>1. Decided(h, S, status, outputs) = [h EXCEPT !.candidates = new]
    BY DEF Decided, OnCandidates
<1>2. ASSUME NEW x, TypedCandidate(x)
      PROVE  TypedCandidate(decide(x))
  <2>1. DOMAIN NoKey = {}
      BY DEF NoKey
  <2> QED BY <1>2, <2>1 DEF TypedCandidate, IsCandidate, CandidateFields, CandidateStatuses,
                            CandidateResults
<1>3. DOMAIN new = Evidence /\ \A c \in Evidence : TypedCandidate(new[c])
  <2> HIDE DEF decide
  <2> QED BY <1>2 DEF TypedHub
<1> HIDE DEF new
<1> QED BY <1>1, <1>3, CandidatesTyped

LEMMA DeferredTyped ==
    ASSUME NEW n, NEW h, TypedHub(h, n), NEW S
    PROVE  TypedHub(Deferred(h, S), n)
<1> DEFINE put1 == Decided(h, S, "deferred", FALSE)
           put == OnCandidates(put1, S, LAMBDA x : [x EXCEPT !.organized = x.version])
           I == {i \in GroupsIn(h, "pending") : DOMAIN h.groups[i].members \cap S # {}}
           moved(g) == [g EXCEPT !.version = @ + 1,
                    !.members = [c \in DOMAIN g.members |-> put.candidates[c].version]]
           new == [i \in DOMAIN put.groups |->
                      IF i \in I THEN moved(put.groups[i]) ELSE put.groups[i]]
<1>1. TypedHub(put1, n)
    BY DecidedTyped
<1>2. Deferred(h, S) = [put EXCEPT !.groups = new]
    BY DEF Deferred, OnGroups
<1> HIDE DEF put1, I
<1>3. TypedHub(put, n)
    BY <1>1, MarkedTyped
<1> HIDE DEF put
<1>4. ASSUME NEW g, TypedGroup(g, n)
      PROVE  TypedGroup(moved(g), n)
  <2> DEFINE g2 == moved(g)
  <2>1. /\ IsGroup(g2) /\ g2.status = g.status /\ g2.version = g.version + 1
        /\ g2.outputs = g.outputs /\ g2.plan = g.plan /\ DOMAIN g2.members = DOMAIN g.members
        /\ g2.offered = g.offered /\ g2.updateable = g.updateable
        /\ g2.results = g.results /\ g2.auto = g.auto
      BY <1>4 DEF TypedGroup, IsGroup, GroupFields
  <2> HIDE DEF g2, moved
  <2>2. TypedGroup(g2, n)
      BY <1>4, <2>1 DEF TypedGroup
  <2> QED BY <2>2 DEF g2
<1> HIDE DEF moved
<1>5. \A i \in DOMAIN put.groups : TypedGroup(new[i], n)
    BY <1>3, <1>4 DEF TypedHub
<1>6. new = [i \in DOMAIN put.groups |-> new[i]]
    OBVIOUS
<1> HIDE DEF new
<1> QED BY <1>2, <1>3, <1>5, <1>6, GroupsTyped

LEMMA ReviewStateTyped ==
    ASSUME NEW n, NEW h, TypedHub(h, n), NEW i \in DOMAIN h.groups, NEW s
    PROVE  TypedHub([h EXCEPT !.groups[i].auto.state = s], n)
<1> DEFINE g == h.groups[i]
           g2 == [g EXCEPT !.auto.state = s]
<1>1. [h EXCEPT !.groups[i].auto.state = s] = [h EXCEPT !.groups[i] = g2]
    OBVIOUS
<1>2. TypedGroup(g, n)
    BY DEF TypedHub
<1> HIDE DEF g
<1>3. /\ IsGroup(g2) /\ g2.status = g.status /\ g2.version = g.version
      /\ g2.outputs = g.outputs /\ g2.plan = g.plan /\ g2.members = g.members
      /\ g2.offered = g.offered /\ g2.updateable = g.updateable
      /\ g2.results = g.results
      /\ g2.auto.retain = g.auto.retain /\ g2.auto.input = g.auto.input
    BY <1>2 DEF TypedGroup, IsGroup, GroupFields, ReviewFields
<1> HIDE DEF g2
<1>4. TypedGroup(g2, n)
    BY <1>2, <1>3 DEF TypedGroup
<1> QED BY <1>1, <1>4, OneGroupTyped DEF g

LEMMA StaleTyped ==
    ASSUME NEW n, NEW h, TypedHub(h, n), NEW i \in DOMAIN h.groups
    PROVE  TypedHub(Stale(h, i), n) /\ i \in DOMAIN Stale(h, i).groups
<1> DEFINE h2 == [h EXCEPT !.groups[i].auto.state = "stale"]
<1>1. TypedHub(h2, n) /\ i \in DOMAIN h2.groups
    BY ReviewStateTyped DEF TypedHub, IsHub
<1> HIDE DEF h2
<1>2. TypedHub(Requeued(h2, DOMAIN h.groups[i].members), n)
    BY <1>1, RequeuedTyped
<1>3. Requeued(h2, DOMAIN h.groups[i].members).groups = h2.groups
    BY <1>1 DEF Requeued, OnCandidates, TypedHub, IsHub
<1> QED BY <1>1, <1>2, <1>3 DEF Stale, h2

\* The plan of a draft and what its review says of it: a plan of known Pages, its own
\* evidence retained, and known Pages read.
LEMMA ReviewTyped ==
    ASSUME NEW n, NEW g, TypedGroup(g, n), NEW plan, plan # NoPlan => TypedPlan(plan.outputs, n),
           NEW auto, DOMAIN auto = ReviewFields, auto.authorized \in BOOLEAN,
           auto.retain \subseteq DOMAIN g.members,
           auto.input # NoInput => auto.input.pages \subseteq 1..n
    PROVE  TypedGroup([g EXCEPT !.plan = plan, !.auto = auto], n)
<1> DEFINE g2 == [g EXCEPT !.plan = plan, !.auto = auto]
<1>1. /\ DOMAIN g2 = GroupFields /\ g2.status = g.status /\ g2.version = g.version
      /\ g2.outputs = g.outputs /\ g2.plan = plan /\ g2.members = g.members
      /\ g2.offered = g.offered /\ g2.updateable = g.updateable
      /\ g2.results = g.results /\ g2.auto = auto
    BY DEF TypedGroup, IsGroup, GroupFields
<1> HIDE DEF g2
<1>2. TypedGroup(g2, n)
    BY <1>1 DEF TypedGroup, IsGroup
<1> QED BY <1>2 DEF g2

LEMMA HubReviewTyped ==
    ASSUME NEW n, NEW h, TypedHub(h, n), NEW i \in DOMAIN h.groups,
           NEW plan, plan # NoPlan => TypedPlan(plan.outputs, n),
           NEW auto, DOMAIN auto = ReviewFields, auto.authorized \in BOOLEAN,
           auto.retain \subseteq DOMAIN h.groups[i].members,
           auto.input # NoInput => auto.input.pages \subseteq 1..n,
           NEW g, g = [h.groups[i] EXCEPT !.plan = plan, !.auto = auto]
    PROVE  TypedHub([h EXCEPT !.groups[i] = g], n)
<1>1. TypedGroup(h.groups[i], n)
    BY DEF TypedHub
<1>2. TypedGroup(g, n)
    BY <1>1, ReviewTyped
<1> QED BY <1>2, OneGroupTyped

LEMMA RevokedTyped ==
    ASSUME NEW n, NEW h, TypedHub(h, n), NEW i \in DOMAIN h.groups
    PROVE  TypedHub(Revoked(h, i), n)
<1> DEFINE h2 == Stale(h, i)
           g == h2.groups[i]
           auto == [g.auto EXCEPT !.authorized = FALSE]
           g2 == [g EXCEPT !.plan = NoPlan, !.auto = auto]
<1>1. TypedHub(h2, n) /\ i \in DOMAIN h2.groups
    BY StaleTyped
<1>2. TypedGroup(g, n)
    BY <1>1 DEF TypedHub
<1>3. Revoked(h, i) = [h2 EXCEPT !.groups[i] = [g EXCEPT !.auto.authorized = FALSE, !.plan = NoPlan]]
    BY DEF Revoked
<1> HIDE DEF h2, g
<1>4. [g EXCEPT !.auto.authorized = FALSE, !.plan = NoPlan] = g2
    BY <1>2 DEF TypedGroup, IsGroup, GroupFields, ReviewFields
<1>5. DOMAIN auto = ReviewFields /\ auto.authorized = FALSE
          /\ auto.retain = g.auto.retain /\ auto.input = g.auto.input
    BY <1>2 DEF TypedGroup, IsGroup, ReviewFields
<1> HIDE DEF auto
<1>6. TypedGroup(g2, n)
    BY <1>2, <1>5, ReviewTyped DEF TypedGroup
<1> HIDE DEF g2
<1> QED BY <1>1, <1>3, <1>4, <1>6, OneGroupTyped

LEMMA SettledTyped ==
    ASSUME NEW n, NEW h, TypedHub(h, n), NEW i
    PROVE  TypedHub(SettleNoChange(h, i), n)
<1> DEFINE S == {c \in NoChange(h.groups[i]) : h.candidates[c].status = "pending"}
           close(x) == [x EXCEPT !.status = "promoted", !.version = @ + 1,
                                 !.result = "no_change"]
           new == [c \in Evidence |->
                      IF c \in S THEN close(h.candidates[c]) ELSE h.candidates[c]]
<1>1. SettleNoChange(h, i) = InvalidateStale([h EXCEPT !.candidates = new])
    BY DEF SettleNoChange, OnCandidates
<1>2. ASSUME NEW x, TypedCandidate(x)
      PROVE  TypedCandidate(close(x))
    BY <1>2 DEF TypedCandidate, IsCandidate, CandidateFields, CandidateStatuses, CandidateResults
<1>3. DOMAIN new = Evidence /\ \A c \in Evidence : TypedCandidate(new[c])
  <2> HIDE DEF close, S
  <2> QED BY <1>2 DEF TypedHub
<1> HIDE DEF new
<1>4. TypedHub([h EXCEPT !.candidates = new], n)
    BY <1>3, CandidatesTyped
<1> QED BY <1>1, <1>4, InvalidateStaleTyped

\* What is approved is some of the outputs, in their order.
LEMMA PlacesTaken ==
    ASSUME NEW S, IsFiniteSet(S), S \subseteq Int, NEW m \in 1..Cardinality(S)
    PROVE  \E k \in S : Cardinality({j \in S : j <= k}) = m
<1> DEFINE place(k) == Cardinality({j \in S : j <= k})
           N == Cardinality(S)
           P == 1..N
           f == [k \in S |-> place(k)]
<1>1. N \in Nat
    BY FS_CardinalityType
<1>2. ASSUME NEW k \in S
      PROVE  place(k) \in P
  <2> DEFINE B == {j \in S : j <= k}
  <2>1. B \in SUBSET S /\ k \in B
      OBVIOUS
  <2> HIDE DEF B
  <2>2. IsFiniteSet(B) /\ Cardinality(B) <= N /\ Cardinality(B) \in Nat
      BY <2>1, FS_Subset, FS_CardinalityType
  <2>3. Cardinality(B) # 0
      BY <2>1, <2>2, FS_EmptySet
  <2>4. Cardinality(B) \in P
      BY <1>1, <2>2, <2>3
  <2> QED BY <2>4 DEF B
<1>3. ASSUME NEW a \in S, NEW b \in S, a < b
      PROVE  place(a) # place(b)
  <2> DEFINE A == {j \in S : j <= a}
             B == {j \in S : j <= b}
  <2>1. A \subseteq B
    <3>1. \A j \in S : j \in Int /\ (j <= a => j <= b)
        BY <1>3
    <3> QED BY <3>1
  <2>2. b \in B /\ b \notin A
      BY <1>3
  <2>3. IsFiniteSet(B)
      BY FS_Subset
  <2>4. Cardinality(A) # Cardinality(B)
      BY <2>1, <2>2, <2>3, FS_Subset
  <2> QED BY <2>4
<1>4. ASSUME NEW a \in S, NEW b \in S, place(a) = place(b)
      PROVE  a = b
  <2>1. a < b \/ b < a \/ a = b
      OBVIOUS
  <2> HIDE DEF place
  <2> QED BY <1>3, <1>4, <2>1
<1> HIDE DEF place
<1>5. f \in Injection(S, P)
  <2>1. f \in [S -> P]
      BY <1>2
  <2>2. \A a, b \in S : f[a] = f[b] => a = b
      BY <1>4
  <2> QED BY <2>1, <2>2, Zenon DEF Injection, IsInjective
<1>6. IsFiniteSet(P) /\ Cardinality(P) = N
  <2>1. 1 \in Int /\ N \in Int
      BY <1>1
  <2>2. IsFiniteSet(P) /\ Cardinality(P) = IF 1 > N THEN 0 ELSE N - 1 + 1
      BY <2>1, FS_Interval
  <2> QED BY <1>1, <2>2
<1>7. f \in Surjection(S, P)
    BY <1>5, <1>6, FS_Injection
<1>8. \E k \in S : f[k] = m
    BY <1>7 DEF Surjection
<1> QED BY <1>8 DEF place

LEMMA ApprovedAreOutputs ==
    ASSUME NEW outputs, Listed(outputs), NEW decisions,
           NEW m \in DOMAIN ApprovedOutputs(outputs, decisions)
    PROVE  \E k \in DOMAIN outputs : ApprovedOutputs(outputs, decisions)[m] = outputs[k]
<1> DEFINE kept == {k \in DOMAIN outputs : decisions[k] = "approve"}
<1>1. IsFiniteSet(kept) /\ kept \subseteq Int
  <2>1. PICK l \in Nat : DOMAIN outputs = 1..l
      BY DEF Listed
  <2>2. IsFiniteSet(1..l)
      BY <2>1, FS_Interval
  <2> QED BY <2>1, <2>2, FS_Subset
<1>2. m \in 1..Cardinality(kept)
    BY DEF ApprovedOutputs
<1>3. ApprovedOutputs(outputs, decisions)[m]
          = outputs[CHOOSE k \in kept : Cardinality({j \in kept : j <= k}) = m]
    BY <1>2 DEF ApprovedOutputs
<1>4. kept \subseteq DOMAIN outputs
    OBVIOUS
<1> HIDE DEF kept
<1>5. \E k \in kept : Cardinality({j \in kept : j <= k}) = m
    BY <1>1, <1>2, PlacesTaken
<1> QED BY <1>3, <1>4, <1>5

LEMMA AssessedTyped ==
    ASSUME NEW n, NEW h, TypedHub(h, n), NEW i \in DOMAIN h.groups, NEW decisions
    PROVE  TypedHub(Assessed(h, i, decisions), n)
<1> DEFINE g == h.groups[i]
           approved == ApprovedOutputs(g.outputs, decisions)
           open == {k \in DOMAIN g.outputs : decisions[k] \in {"accumulating", "needs_input"}}
           state == CASE approved # <<>> -> "approved"
                   [] approved = <<>> /\ "needs_input" \in Range(decisions) -> "needs_input"
                   [] approved = <<>> /\ Range(decisions) = {"no_change"}
                          /\ DOMAIN g.members = Covered(g.outputs) -> "no_change"
                   [] OTHER -> "accumulating"
           retain == UNION {g.outputs[k].evidence : k \in open}
           auto == [g.auto EXCEPT !.state = state, !.decisions = decisions,
                                  !.authorized = approved # <<>>, !.retain = retain]
           reviewed == [h EXCEPT !.groups[i].auto = auto]
           plan == [version |-> g.auto.input.version, outputs |-> approved,
                    wording |-> "drafted"]
<1>1. TypedGroup(g, n)
    BY DEF TypedHub
<1>2. /\ approved # <<>> => Assessed(h, i, decisions) = [reviewed EXCEPT !.groups[i].plan = plan]
      /\ approved = <<>> => Assessed(h, i, decisions) \in {reviewed, SettleNoChange(reviewed, i)}
  <2>1. reviewed = [h EXCEPT !.groups[i].auto = [@ EXCEPT
                         !.state = state, !.decisions = decisions,
                         !.authorized = approved # <<>>, !.retain = retain]]
      OBVIOUS
  <2> HIDE DEF approved
  <2> QED BY <2>1 DEF Assessed, approved
<1>3. retain \subseteq DOMAIN g.members
    BY <1>1 DEF TypedGroup
<1>4. TypedPlan(approved, n)
  <2> SUFFICES ASSUME NEW m \in DOMAIN approved
               PROVE  Named(approved[m], n)
      BY DEF TypedPlan
  <2>1. Listed(g.outputs) /\ TypedPlan(g.outputs, n)
      BY <1>1 DEF TypedGroup
  <2>2. \E k \in DOMAIN g.outputs : approved[m] = g.outputs[k]
      BY <2>1, ApprovedAreOutputs
  <2> QED BY <2>1, <2>2 DEF TypedPlan
<1> HIDE DEF state, retain, approved
<1>5. /\ DOMAIN auto = ReviewFields /\ auto.authorized \in BOOLEAN
      /\ auto.retain = retain /\ auto.input = g.auto.input
    BY <1>1 DEF TypedGroup, IsGroup, ReviewFields
<1>6. plan.outputs = approved
    OBVIOUS
<1>7. /\ g.plan # NoPlan => TypedPlan(g.plan.outputs, n)
      /\ auto.input # NoInput => auto.input.pages \subseteq 1..n
    BY <1>1, <1>5 DEF TypedGroup
<1> HIDE DEF auto, plan
<1>8. CASE approved # <<>>
  <2> DEFINE g2 == [g EXCEPT !.plan = plan, !.auto = auto]
  <2>1. Assessed(h, i, decisions) = [h EXCEPT !.groups[i] = g2]
    <3>1. Assessed(h, i, decisions) = [h EXCEPT !.groups[i] = [g EXCEPT !.auto = auto, !.plan = plan]]
        BY <1>2, <1>8 DEF TypedHub, IsHub
    <3>2. [g EXCEPT !.auto = auto, !.plan = plan] = g2
      <4> HIDE DEF g
      <4> QED BY <1>1 DEF TypedGroup, IsGroup, GroupFields
    <3> HIDE DEF g2
    <3> QED BY <3>1, <3>2
  <2> HIDE DEF g2
  <2>2. TypedHub([h EXCEPT !.groups[i] = g2], n)
      BY <1>3, <1>4, <1>5, <1>6, <1>7, HubReviewTyped DEF g2
  <2> QED BY <2>1, <2>2
<1>9. CASE approved = <<>>
  <2> DEFINE g2 == [g EXCEPT !.plan = g.plan, !.auto = auto]
  <2>1. g2 = [g EXCEPT !.auto = auto]
    <3> HIDE DEF g
    <3> QED BY <1>1 DEF TypedGroup, IsGroup
  <2>2. reviewed = [h EXCEPT !.groups[i] = g2]
      BY <2>1
  <2> HIDE DEF g2, reviewed
  <2>3. TypedHub([h EXCEPT !.groups[i] = g2], n)
      BY <1>3, <1>5, <1>7, HubReviewTyped DEF g2
  <2>4. TypedHub(reviewed, n)
      BY <2>2, <2>3
  <2>5. TypedHub(SettleNoChange(reviewed, i), n)
      BY <2>4, SettledTyped
  <2> QED BY <1>2, <1>9, <2>4, <2>5
<1> QED BY <1>8, <1>9

-----------------------------------------------------------------------------
(* A plan that is written keeps the types of a hub *)

\* A plan that is accepted names Pages that its draft was compared with.
LEMMA AcceptedTyped ==
    ASSUME NEW n \in Nat, NEW h, TypedHub(h, n), NEW i \in DOMAIN h.groups, NEW plan,
           Accepted(h, i, plan)
    PROVE  TypedPlan(plan.outputs, n)
<1> DEFINE g == h.groups[i]
<1>1. TypedGroup(g, n)
    BY DEF TypedHub
<1> SUFFICES ASSUME NEW k \in DOMAIN plan.outputs
             PROVE  Named(plan.outputs[k], n)
    BY DEF TypedPlan
<1>2. plan.outputs[k] \in OutputsFrom(DOMAIN g.members, g.offered, g.updateable)
    BY DEF Accepted, Range
<1> HIDE DEF g
<1> QED BY <1>1, <1>2, NamedOutputs DEF TypedGroup, IsGroup

LEMMA WithPlanTyped ==
    ASSUME NEW n, NEW h, TypedHub(h, n), NEW i \in DOMAIN h.groups, NEW plan,
           TypedPlan(plan.outputs, n)
    PROVE  TypedHub(WithPlan(h, i, plan), n)
<1> DEFINE g == h.groups[i]
           g2 == [g EXCEPT !.status = "promoting", !.plan = plan]
           h2 == [h EXCEPT !.groups[i] = g2]
           start(x) == [x EXCEPT !.status = "promoting"]
           S == Covered(plan.outputs)
           new == [c \in Evidence |-> IF c \in S THEN start(h2.candidates[c])
                                      ELSE h2.candidates[c]]
<1>1. [h EXCEPT !.groups[i].status = "promoting", !.groups[i].plan = plan] = h2
    BY DEF TypedHub, IsHub
<1>2. TypedGroup(g2, n)
  <2>1. TypedGroup(g, n)
      BY DEF TypedHub
  <2> HIDE DEF g
  <2>2. /\ IsGroup(g2) /\ g2.status = "promoting" /\ g2.version = g.version
        /\ g2.outputs = g.outputs /\ g2.members = g.members /\ g2.plan = plan
        /\ g2.offered = g.offered /\ g2.updateable = g.updateable
        /\ g2.results = g.results /\ g2.auto = g.auto
      BY <2>1 DEF TypedGroup, IsGroup, GroupFields
  <2> HIDE DEF g2
  <2> QED BY <2>1, <2>2 DEF TypedGroup, GroupStatuses
<1> HIDE DEF g2
<1>3. TypedHub(h2, n)
    BY <1>2, OneGroupTyped
<1>4. WithPlan(h, i, plan) = [h2 EXCEPT !.candidates = new]
    BY <1>1 DEF WithPlan, OnCandidates
<1> HIDE DEF h2, S
<1>5. ASSUME NEW x, TypedCandidate(x), x.status # "absent" \/ x.version = 0
      PROVE  TypedCandidate(start(x))
    BY <1>5 DEF TypedCandidate, IsCandidate, CandidateFields, CandidateStatuses
<1>6. DOMAIN new = Evidence /\ \A c \in Evidence : TypedCandidate(new[c])
  <2> HIDE DEF start
  <2> QED BY <1>3, <1>5 DEF TypedHub, TypedCandidate, IsCandidate
<1> HIDE DEF new
<1> QED BY <1>3, <1>4, <1>6, CandidatesTyped

LEMMA StartedTyped ==
    ASSUME NEW n, NEW h, TypedHub(h, n), NEW i \in DOMAIN h.groups, NEW plan,
           TypedPlan(plan.outputs, n), NEW automatic
    PROVE  TypedHub(Started(h, i, plan, automatic), n)
<1> DEFINE g == h.groups[i]
           own == IF ~automatic /\ g.status = "pending"
                  THEN [h EXCEPT !.groups[i].auto = Unreviewed] ELSE h
<1>1. TypedHub(own, n) /\ i \in DOMAIN own.groups
  <2>1. TypedGroup(g, n)
      BY DEF TypedHub
  <2> DEFINE g2 == [g EXCEPT !.plan = g.plan, !.auto = Unreviewed]
  <2>2. [h EXCEPT !.groups[i].auto = Unreviewed] = [h EXCEPT !.groups[i] = g2]
    <3>1. g2 = [g EXCEPT !.auto = Unreviewed]
      <4> HIDE DEF g
      <4> QED BY <2>1 DEF TypedGroup, IsGroup
    <3> HIDE DEF g2
    <3> QED BY <3>1
  <2>3. TypedGroup(g2, n)
    <3>1. /\ DOMAIN Unreviewed = ReviewFields /\ Unreviewed.authorized = FALSE
          /\ Unreviewed.retain = {} /\ Unreviewed.input = NoInput
        BY DEF Unreviewed, ReviewFields
    <3> QED BY <2>1, <3>1, ReviewTyped DEF TypedGroup
  <2> HIDE DEF g2
  <2>4. TypedHub([h EXCEPT !.groups[i] = g2], n) /\ i \in DOMAIN [h EXCEPT !.groups[i] = g2].groups
      BY <2>3, OneGroupTyped DEF TypedHub, IsHub
  <2> QED BY <2>2, <2>4
<1>2. Started(h, i, plan, automatic) =
          IF SameRequest(g, plan) THEN own ELSE WithPlan(own, i, plan)
    BY DEF Started, WithPlan
<1> HIDE DEF own
<1>3. TypedHub(WithPlan(own, i, plan), n)
    BY <1>1, WithPlanTyped
<1> QED BY <1>1, <1>2, <1>3

\* What ResumeAutomaticWrite makes of the draft in memory.
LEMMA ApplyingTyped ==
    ASSUME NEW n, NEW h, TypedHub(h, n), NEW i \in DOMAIN h.groups
    PROVE  TypedHub(Applying(h, i), n) /\ i \in DOMAIN Applying(h, i).groups
<1> DEFINE g == h.groups[i]
           auto == [g.auto EXCEPT !.state = "applying"]
           g2 == [g EXCEPT !.plan = NoPlan, !.auto = auto]
           h2 == [h EXCEPT !.groups[i] = g2]
<1>1. TypedGroup(g, n)
    BY DEF TypedHub
<1>2. CASE g.status = "pending"
  <2>1. Applying(h, i) = h2
    <3>1. Applying(h, i) = [h EXCEPT !.groups[i].plan = NoPlan, !.groups[i].auto.state = "applying"]
        BY <1>2 DEF Applying
    <3>2. [g EXCEPT !.plan = NoPlan, !.auto.state = "applying"] = g2
      <4> HIDE DEF g
      <4> QED BY <1>1 DEF TypedGroup, IsGroup, GroupFields
    <3>3. Applying(h, i) = [h EXCEPT !.groups[i] = [g EXCEPT !.plan = NoPlan, !.auto.state = "applying"]]
        BY <3>1
    <3> HIDE DEF g2
    <3> QED BY <3>2, <3>3
  <2> HIDE DEF g
  <2>2. DOMAIN auto = ReviewFields /\ auto.authorized \in BOOLEAN
            /\ auto.retain = g.auto.retain /\ auto.input = g.auto.input
      BY <1>1 DEF TypedGroup, IsGroup, ReviewFields
  <2> HIDE DEF auto
  <2>3. TypedGroup(g2, n)
      BY <1>1, <2>2, ReviewTyped DEF TypedGroup
  <2> HIDE DEF g2
  <2>4. TypedHub(h2, n)
      BY <2>3, OneGroupTyped
  <2>5. i \in DOMAIN h2.groups
      BY DEF TypedHub, IsHub
  <2> QED BY <2>1, <2>4, <2>5
<1>3. CASE g.status # "pending"
  <2>1. Applying(h, i) = [h EXCEPT !.groups[i].auto.state = "applying"]
      BY <1>3 DEF Applying
  <2>2. i \in DOMAIN [h EXCEPT !.groups[i].auto.state = "applying"].groups
      BY DEF TypedHub, IsHub
  <2> QED BY <2>1, <2>2, ReviewStateTyped
<1> QED BY <1>2, <1>3

\* A plan is over: its draft has another status and version.
LEMMA GroupEndsTyped ==
    ASSUME NEW n, NEW h, TypedHub(h, n), NEW i \in DOMAIN h.groups, NEW status \in GroupStatuses
    PROVE  TypedHub([h EXCEPT !.groups[i].status = status, !.groups[i].version = @ + 1], n)
<1> DEFINE g == h.groups[i]
           g2 == [g EXCEPT !.status = status, !.version = @ + 1]
<1>1. [h EXCEPT !.groups[i].status = status, !.groups[i].version = @ + 1]
          = [h EXCEPT !.groups[i] = g2]
    BY DEF TypedHub, IsHub
<1>2. TypedGroup(g, n)
    BY DEF TypedHub
<1> HIDE DEF g
<1>3. /\ IsGroup(g2) /\ g2.status = status /\ g2.version = g.version + 1
      /\ g2.outputs = g.outputs /\ g2.members = g.members /\ g2.plan = g.plan
      /\ g2.offered = g.offered /\ g2.updateable = g.updateable
      /\ g2.results = g.results /\ g2.auto = g.auto
    BY <1>2 DEF TypedGroup, IsGroup, GroupFields
<1> HIDE DEF g2
<1>4. TypedGroup(g2, n)
    BY <1>2, <1>3 DEF TypedGroup
<1> QED BY <1>1, <1>4, OneGroupTyped

LEMMA CompletedTyped ==
    ASSUME NEW n, NEW h, TypedHub(h, n), NEW i \in DOMAIN h.groups, NEW automatic
    PROVE  TypedHub(Completed(h, i, automatic), n) /\ i \in DOMAIN Completed(h, i, automatic).groups
<1> DEFINE covered == Covered(op.plan.outputs)
           retained == IF automatic THEN covered \cap h.groups[i].auto.retain ELSE {}
           promote(x) == [x EXCEPT !.status = "promoted", !.version = @ + 1,
                                   !.result = "promoted", !.outputs = TRUE]
           keep(x) == [[x EXCEPT !.status = "pending", !.version = @ + 1,
                                 !.result = "partially_represented", !.outputs = TRUE]
                          EXCEPT !.organized = x.version + 1]
           S == covered \ retained
           new1 == [c \in Evidence |-> IF c \in S THEN promote(h.candidates[c])
                                       ELSE h.candidates[c]]
           h1 == [h EXCEPT !.candidates = new1]
           new2 == [c \in Evidence |-> IF c \in retained THEN keep(h1.candidates[c])
                                       ELSE h1.candidates[c]]
           h2 == [h1 EXCEPT !.candidates = new2]
           h3 == [h2 EXCEPT !.groups[i].status = "promoted", !.groups[i].version = @ + 1]
<1>1. Completed(h, i, automatic) = InvalidateStale(h3)
    BY DEF Completed, EvidenceOf, OnCandidates
<1> HIDE DEF S, retained
<1>2. TypedHub(h1, n) /\ i \in DOMAIN h1.groups
  <2>1. ASSUME NEW x, TypedCandidate(x)
        PROVE  TypedCandidate(promote(x))
      BY <2>1 DEF TypedCandidate, IsCandidate, CandidateFields, CandidateStatuses, CandidateResults
  <2>2. DOMAIN new1 = Evidence /\ \A c \in Evidence : TypedCandidate(new1[c])
    <3> HIDE DEF promote
    <3> QED BY <2>1 DEF TypedHub
  <2> HIDE DEF new1
  <2> QED BY <2>2, CandidatesTyped DEF TypedHub, IsHub
<1> HIDE DEF h1
<1>3. TypedHub(h2, n) /\ i \in DOMAIN h2.groups
  <2>1. ASSUME NEW x, TypedCandidate(x)
        PROVE  TypedCandidate(keep(x))
    <3> DEFINE y == keep(x)
    <3>1. /\ DOMAIN y = CandidateFields /\ y.version = x.version + 1 /\ y.organized = x.version + 1
          /\ y.status = "pending" /\ y.result = "partially_represented" /\ y.outputs = TRUE
          /\ y.key = x.key
        BY <2>1 DEF TypedCandidate, IsCandidate, CandidateFields
    <3> HIDE DEF y
    <3>2. x.version \in Nat /\ DOMAIN x.key \subseteq Evidence
        BY <2>1 DEF TypedCandidate, IsCandidate
    <3>3. IsCandidate(y)
        BY <3>1, <3>2 DEF IsCandidate
    <3>4. /\ y.organized \in Nat /\ y.organized <= y.version
          /\ y.status \in CandidateStatuses /\ y.result \in CandidateResults
        BY <3>1, <3>2 DEF CandidateStatuses, CandidateResults
    <3>5. TypedCandidate(y)
        BY <3>1, <3>2, <3>3, <3>4 DEF TypedCandidate
    <3> QED BY <3>5 DEF y
  <2>2. DOMAIN new2 = Evidence /\ \A c \in Evidence : TypedCandidate(new2[c])
    <3> HIDE DEF keep
    <3> QED BY <1>2, <2>1 DEF TypedHub
  <2> HIDE DEF new2
  <2>3. TypedHub(h2, n)
      BY <1>2, <2>2, CandidatesTyped
  <2>4. i \in DOMAIN h2.groups
      BY <1>2 DEF TypedHub, IsHub
  <2> QED BY <2>3, <2>4
<1> HIDE DEF h2
<1>4. TypedHub(h3, n) /\ i \in DOMAIN h3.groups
  <2>1. TypedHub(h3, n)
      BY <1>3, GroupEndsTyped DEF GroupStatuses
  <2>2. i \in DOMAIN h3.groups
      BY <1>3 DEF TypedHub, IsHub
  <2> QED BY <2>1, <2>2
<1> HIDE DEF h3
<1>5. DOMAIN InvalidateStale(h3).groups = DOMAIN h3.groups
    BY <1>4 DEF InvalidateStale, OnGroups, TypedHub, IsHub
<1> QED BY <1>1, <1>4, <1>5, InvalidateStaleTyped

LEMMA StoppedTyped ==
    ASSUME NEW n, NEW h, TypedHub(h, n), NEW i \in DOMAIN h.groups
    PROVE  TypedHub(Stopped(h, i), n)
<1> DEFINE S == {c \in Covered(h.groups[i].plan.outputs) : h.candidates[c].status = "promoting"}
           back(x) == [x EXCEPT !.status = "pending", !.version = @ + 1,
                             !.organized = 0, !.key = NoKey,
                             !.result = "interrupted", !.outputs = FALSE]
           h1 == [h EXCEPT !.groups[i].status = "interrupted", !.groups[i].version = @ + 1]
           new == [c \in Evidence |-> IF c \in S THEN back(h1.candidates[c])
                                      ELSE h1.candidates[c]]
<1>1. Stopped(h, i) = [h1 EXCEPT !.candidates = new]
    BY DEF Stopped, OnCandidates
<1>2. TypedHub(h1, n)
    BY GroupEndsTyped DEF GroupStatuses
<1> HIDE DEF h1, S
<1>3. ASSUME NEW x, TypedCandidate(x)
      PROVE  TypedCandidate(back(x))
  <2>1. DOMAIN NoKey = {}
      BY DEF NoKey
  <2> QED BY <1>3, <2>1 DEF TypedCandidate, IsCandidate, CandidateFields, CandidateStatuses,
                            CandidateResults
<1>4. DOMAIN new = Evidence /\ \A c \in Evidence : TypedCandidate(new[c])
  <2> HIDE DEF back
  <2> QED BY <1>2, <1>3 DEF TypedHub
<1> HIDE DEF new
<1> QED BY <1>1, <1>2, <1>4, CandidatesTyped

LEMMA SavedTyped ==
    ASSUME NEW n, NEW h, TypedHub(h, n), NEW S, NEW key, DOMAIN key \subseteq Evidence
    PROVE  TypedHub(Saved(h, S, key), n)
<1> DEFINE save(x) == [x EXCEPT !.status = "promoting", !.key = key]
           new == [c \in Evidence |-> IF c \in S THEN save(h.candidates[c])
                                      ELSE h.candidates[c]]
<1>1. Saved(h, S, key) = [h EXCEPT !.candidates = new]
    BY DEF Saved, OnCandidates
<1>2. ASSUME NEW x, TypedCandidate(x)
      PROVE  TypedCandidate(save(x))
    BY <1>2 DEF TypedCandidate, IsCandidate, CandidateFields, CandidateStatuses
<1>3. DOMAIN new = Evidence /\ \A c \in Evidence : TypedCandidate(new[c])
  <2> HIDE DEF save
  <2> QED BY <1>2 DEF TypedHub
<1> HIDE DEF new
<1> QED BY <1>1, <1>3, CandidatesTyped

LEMMA ReceiptTyped ==
    ASSUME NEW n, NEW h, TypedHub(h, n), NEW i \in DOMAIN h.groups, NEW r \in 1..n
    PROVE  TypedHub([h EXCEPT !.groups[i].results = Append(@, r)], n)
<1> DEFINE g == h.groups[i]  results == Append(g.results, r)
           g2 == [g EXCEPT !.results = results]
<1>1. [h EXCEPT !.groups[i].results = Append(@, r)] = [h EXCEPT !.groups[i] = g2]
    OBVIOUS
<1>2. TypedGroup(g, n)
    BY DEF TypedHub
<1>3. results \in Seq(1..n)
  <2>1. g.results \in Seq(1..n)
      BY <1>2 DEF TypedGroup
  <2> HIDE DEF g
  <2> QED BY <2>1
<1> HIDE DEF g, results
<1>4. /\ IsGroup(g2) /\ g2.status = g.status /\ g2.version = g.version
      /\ g2.outputs = g.outputs /\ g2.members = g.members /\ g2.plan = g.plan
      /\ g2.offered = g.offered /\ g2.updateable = g.updateable
      /\ g2.results = results /\ g2.auto = g.auto
    BY <1>2 DEF TypedGroup, IsGroup, GroupFields
<1> HIDE DEF g2
<1>5. TypedGroup(g2, n)
    BY <1>2, <1>3, <1>4 DEF TypedGroup
<1> QED BY <1>1, <1>5, OneGroupTyped

LEMMA JoinedSequences ==
    ASSUME NEW s, s \in Seq(Range(s)), NEW t, t \in Seq(Range(t))
    PROVE  /\ s \o t \in Seq(Range(s \o t))
           /\ \A i \in DOMAIN (s \o t) : \/ i \in DOMAIN s /\ (s \o t)[i] = s[i]
                                         \/ \E j \in DOMAIN t : (s \o t)[i] = t[j]
<1> DEFINE S == Range(s) \cup Range(t)
<1>1. /\ Len(s) \in Nat /\ DOMAIN s = 1..Len(s) /\ Len(t) \in Nat /\ DOMAIN t = 1..Len(t)
      /\ s \in [1..Len(s) -> Range(s)] /\ t \in [1..Len(t) -> Range(t)]
    OBVIOUS
<1>2. s \in [1..Len(s) -> S] /\ t \in [1..Len(t) -> S]
    BY <1>1
<1> HIDE DEF S
<1>3. s \in Seq(S) /\ t \in Seq(S)
    BY <1>1, <1>2
<1>4. /\ s \o t \in Seq(S) /\ Len(s \o t) = Len(s) + Len(t)
      /\ \A i \in 1..(Len(s) + Len(t)) :
            (s \o t)[i] = IF i <= Len(s) THEN s[i] ELSE t[i - Len(s)]
    BY <1>3
<1>5. DOMAIN (s \o t) = 1..(Len(s) + Len(t))
    BY <1>4
<1>6. ASSUME NEW i \in 1..(Len(s) + Len(t))
      PROVE  \/ i \in DOMAIN s /\ (s \o t)[i] = s[i]
             \/ \E j \in DOMAIN t : (s \o t)[i] = t[j]
  <2>1. CASE i <= Len(s)
      BY <1>1, <1>4, <2>1
  <2>2. CASE ~(i <= Len(s))
    <3>1. i - Len(s) \in DOMAIN t
        BY <1>1, <2>2
    <3> QED BY <1>4, <2>2, <3>1
  <2> QED BY <2>1, <2>2
<1>7. s \o t \in Seq(Range(s \o t))
    BY <1>4, OwnRange
<1> QED BY <1>5, <1>6, <1>7

\* The drafts of a batch of evidence that was compared with known Pages.
LEMMA OrganizedTyped ==
    ASSUME NEW n \in Nat, NEW h, TypedHub(h, n), NEW input, DOMAIN input.versions \subseteq Evidence,
           input.offered \subseteq 1..n, input.updateable \subseteq 1..n,
           NEW parts \in Partitions(DOMAIN input.versions), NEW outputs \in Drafts(parts, input)
    PROVE  TypedHub(Organized(h, input, parts, outputs), n)
<1> DEFINE batch == DOMAIN input.versions
           old == {i \in GroupsIn(h, "pending") : DOMAIN h.groups[i].members \cap batch # {}}
           left == (UNION {DOMAIN h.groups[i].members : i \in old}) \ batch
           h1 == OnGroups(h, old, LAMBDA g : [g EXCEPT !.status = "superseded"])
           h2 == Requeued(h1, left)
           h3 == OnCandidates(h2, batch, LAMBDA x : [x EXCEPT !.organized = x.version])
           drafts == [k \in DOMAIN parts |-> NewGroup(parts[k], outputs[k], input)]
           h4 == [h3 EXCEPT !.groups = @ \o drafts]
<1>1. Organized(h, input, parts, outputs) = h4
    BY DEF Organized
<1> HIDE DEF old, left
<1>2. TypedHub(h1, n)
    BY InvalidateStaleTyped
<1> HIDE DEF h1
<1>3. TypedHub(h2, n)
    BY <1>2, RequeuedTyped
<1> HIDE DEF h2
<1>4. TypedHub(h3, n)
    BY <1>3, MarkedTyped
<1> HIDE DEF h3
<1>5. ASSUME NEW k \in DOMAIN parts
      PROVE  TypedGroup(drafts[k], n)
  <2> DEFINE g == NewGroup(parts[k], outputs[k], input)
  <2>1. parts[k] \subseteq batch
      BY PartsOfBatch
  <2>2. /\ outputs[k] \in SeqOf(OutputsFrom(batch, input.offered, input.updateable), MaxOutputs)
        /\ Covered(outputs[k]) \subseteq parts[k]
      BY DEF Drafts
  <2>3. PICK m \in 0..MaxOutputs :
            outputs[k] \in [1..m -> OutputsFrom(batch, input.offered, input.updateable)]
      BY <2>2 DEF SeqOf
  <2>4. m \in Nat
      BY <2>3, HubAssumption DEF HubAssumption
  <2>5. Listed(outputs[k])
      BY <2>3, <2>4 DEF Listed
  <2>6. TypedPlan(outputs[k], n)
      BY <2>3, NamedOutputs DEF TypedPlan
  <2>7. \A j \in DOMAIN outputs[k] : outputs[k][j].evidence \subseteq parts[k]
      BY <2>2 DEF Covered
  <2>8. /\ DOMAIN g = GroupFields /\ g.version = 1 /\ g.status = "pending"
        /\ g.outputs = outputs[k] /\ g.plan = NoPlan
        /\ g.offered = input.offered /\ g.updateable = input.updateable
        /\ g.results = <<>> /\ g.auto = Unreviewed
        /\ g.members = [c \in parts[k] |-> input.versions[c]]
      BY DEF NewGroup, GroupFields
  <2>9. DOMAIN g.members = parts[k]
      BY <2>8
  <2>10. drafts[k] = g
      OBVIOUS
  <2> HIDE DEF g, drafts
  <2>11. /\ DOMAIN Unreviewed = ReviewFields /\ Unreviewed.authorized = FALSE
         /\ Unreviewed.retain = {} /\ Unreviewed.input = NoInput
      BY DEF Unreviewed, ReviewFields
  <2>12. IsGroup(g)
      BY <2>1, <2>8, <2>9, <2>11 DEF IsGroup
  <2>13. g.results \in Seq(1..n)
      BY <2>8
  <2>14. TypedGroup(g, n)
      BY <2>5, <2>6, <2>7, <2>8, <2>9, <2>11, <2>12, <2>13 DEF TypedGroup, GroupStatuses
  <2> QED BY <2>10, <2>14
<1>6. drafts \in Seq(Range(drafts)) /\ DOMAIN drafts = DOMAIN parts
  <2>1. parts \in Seq(Range(parts)) /\ drafts = [k \in DOMAIN parts |-> drafts[k]]
      BY PartsOfBatch, OwnRange
  <2> HIDE DEF drafts
  <2> QED BY <2>1, SequenceKept
<1> HIDE DEF drafts
<1> DEFINE s == h3.groups
           t == s \o drafts
<1>7. h4.groups = t /\ h4.candidates = h3.candidates /\ DOMAIN h4 = {"groups", "candidates"}
    BY <1>4 DEF TypedHub, IsHub
<1>8. s \in Seq(Range(s)) /\ \A i \in DOMAIN s : TypedGroup(s[i], n)
    BY <1>4 DEF TypedHub, IsHub
<1> HIDE DEF h4, s
<1>9. t \in Seq(Range(t)) /\ \A i \in DOMAIN t : TypedGroup(t[i], n)
    BY <1>5, <1>6, <1>8, JoinedSequences
<1> HIDE DEF t
<1>10. \A i \in DOMAIN t : IsGroup(t[i])
    BY <1>9 DEF TypedGroup
<1>11. IsHub(h4)
    BY <1>4, <1>7, <1>9, <1>10 DEF TypedHub, IsHub
<1>12. TypedHub(h4, n)
    BY <1>4, <1>7, <1>9, <1>11 DEF TypedHub
<1> QED BY <1>1, <1>12

-----------------------------------------------------------------------------
(* The types of the file, of the store, and of what operations remember *)

HubTyped == TypedHub(hub, Len(revs))
StoreTyped ==
    /\ \A r \in DOMAIN revs : revs[r].page \in 1..r
    /\ archived \subseteq {revs[r].page : r \in DOMAIN revs}
MemTyped == TypedHub(op.mem, Len(revs)) /\ TypedPlan(op.plan.outputs, Len(revs))
OpTyped ==
    /\ op.at \in {"write", "record"} => MemTyped
    /\ op.at = "record" => op.result \in 1..Len(revs)
CycleTyped ==
    /\ cycle.at \in {"resume", "apply", "prepare"} =>
          "inventory" \in DOMAIN cycle /\ cycle.inventory \subseteq 1..Len(revs)
    /\ cycle.at = "organizing" =>
          cycle.offered \subseteq 1..Len(revs) /\ cycle.updateable \subseteq 1..Len(revs)
Typed == HubTyped /\ StoreTyped /\ OpTyped /\ CycleTyped
TInv == IInv /\ Typed

LEMMA HubTypedNext ==
    ASSUME TypedHub(hub', Len(revs'))
    PROVE  HubTyped'
BY DEF HubTyped, TypedHub, TypedCandidate, TypedGroup, TypedPlan, Named, Listed, IsHub,
       IsCandidate, IsGroup, CandidateStatuses, CandidateResults, GroupStatuses

LEMMA MemTypedNext ==
    ASSUME TypedHub(op'.mem, Len(revs')), TypedPlan(op'.plan.outputs, Len(revs'))
    PROVE  MemTyped'
BY DEF MemTyped, TypedHub, TypedCandidate, TypedGroup, TypedPlan, Named, Listed, IsHub,
       IsCandidate, IsGroup, CandidateStatuses, CandidateResults, GroupStatuses

LEMMA StoreIsSequence ==
    ASSUME TInv
    PROVE  revs \in Seq(Range(revs)) /\ Len(revs) \in Nat /\ DOMAIN revs = 1..Len(revs)
BY DEF TInv, IInv, StoreFits

LEMMA TypedTransaction ==
    ASSUME TInv, TypedHub(hub', Len(revs)), UNCHANGED <<revs, archived>>,
           op' = op \/ op'.at \notin {"write", "record"}, CycleTyped'
    PROVE  Typed'
<1>1. HubTyped'
    BY HubTypedNext
<1>2. StoreTyped'
    BY DEF TInv, Typed, StoreTyped
<1>3. OpTyped'
  <2>1. CASE op' = op
    <3>1. op.at \in {"write", "record"} => MemTyped'
        BY <2>1, MemTypedNext DEF TInv, Typed, OpTyped, MemTyped
    <3> QED BY <2>1, <3>1 DEF TInv, Typed, OpTyped
  <2>2. CASE op'.at \notin {"write", "record"}
      BY <2>2 DEF OpTyped
  <2> QED BY <2>1, <2>2
<1> QED BY <1>1, <1>2, <1>3 DEF Typed

LEMMA CycleTypedSame ==
    ASSUME TInv, UNCHANGED <<revs, cycle>>
    PROVE  CycleTyped'
BY DEF TInv, Typed, CycleTyped

LEMMA CycleTypedElsewhere ==
    ASSUME cycle'.at \notin {"resume", "apply", "prepare", "organizing"}
    PROVE  CycleTyped'
BY DEF CycleTyped

LEMMA CycleTypedEnds ==
    ASSUME cycle' = Idle \/ ToOrganize
    PROVE  CycleTyped'
BY DEF CycleTyped, Idle, ToOrganize

LEMMA CycleTypedBecomes ==
    ASSUME TInv, NEW at, Become(at), revs' = revs,
           at \notin {"resume", "apply", "organizing"},
           at = "prepare" => cycle.at = "resume"
    PROVE  CycleTyped'
<1>1. "at" \in DOMAIN cycle
    BY DEF TInv, IInv, CycleFits
<1>2. cycle'.at = at
    BY <1>1 DEF Become
<1>3. CASE at = "prepare"
  <2>1. "inventory" \in DOMAIN cycle /\ cycle.inventory \subseteq 1..Len(revs)
      BY <1>3 DEF TInv, Typed, CycleTyped
  <2>2. "inventory" \in DOMAIN cycle' /\ cycle'.inventory = cycle.inventory
      BY <2>1 DEF Become
  <2> QED BY <1>2, <1>3, <2>1, <2>2 DEF CycleTyped
<1>4. CASE at # "prepare"
    BY <1>2, <1>4 DEF CycleTyped
<1> QED BY <1>3, <1>4

-----------------------------------------------------------------------------
(* Every step keeps the types *)

LEMMA SubmitTypes ==
    ASSUME TInv, NEW c \in Evidence, Submit(c)
    PROVE  Typed'
<1>1. TypedHub(hub', Len(revs))
    BY SubmittedTyped DEF Submit, TInv, Typed, HubTyped
<1> QED BY <1>1, TypedTransaction, CycleTypedSame DEF Submit

LEMMA InspectTypes ==
    ASSUME TInv, Inspect
    PROVE  Typed'
<1>1. TypedHub(hub', Len(revs))
    BY InvalidateStaleTyped DEF Inspect, TInv, Typed, HubTyped
<1> QED BY <1>1, TypedTransaction, CycleTypedSame DEF Inspect

LEMMA OrganizeCandidatesTypes ==
    ASSUME TInv, OrganizeCandidates
    PROVE  Typed'
<1>1. TypedHub(hub', Len(revs))
    BY RequeuedTyped DEF OrganizeCandidates, TInv, Typed, HubTyped
<1> QED BY <1>1, TypedTransaction, CycleTypedSame DEF OrganizeCandidates

LEMMA StopSynthesisTypes ==
    ASSUME TInv, NEW i \in DOMAIN hub.groups, StopSynthesis(i)
    PROVE  Typed'
<1>1. TypedHub(Stopped(hub, i), Len(revs))
    BY StoppedTyped DEF TInv, Typed, HubTyped
<1>2. TypedHub(hub', Len(revs))
    BY <1>1, InvalidateStaleTyped DEF StopSynthesis
<1> QED BY <1>2, TypedTransaction, CycleTypedSame DEF StopSynthesis

LEMMA ReviewTypes ==
    ASSUME TInv, NEW S \in SUBSET Evidence, NEW action \in Decisions \ {"promoted"},
           Review(S, action)
    PROVE  Typed'
<1>1. action \in {"deferred", "promoted", "represented", "rejected"}
    BY HubAssumption DEF HubAssumption
<1>2. TypedHub(Deferred(hub, S), Len(revs)) /\ TypedHub(Decided(hub, S, action, FALSE), Len(revs))
    BY <1>1, DeferredTyped, DecidedTyped DEF TInv, Typed, HubTyped
<1>3. TypedHub(hub', Len(revs))
    BY <1>2, InvalidateStaleTyped DEF Review
<1> QED BY <1>3, TypedTransaction, CycleTypedSame DEF Review

LEMMA FinishOrganizationTypes ==
    ASSUME TInv, FinishOrganization
    PROVE  Typed'
<1>1. BatchFits(hub) /\ cycle.at = "organizing"
    BY DEF TInv, IInv, CycleFits, FinishOrganization
<1>2. cycle.offered \subseteq 1..Len(revs) /\ cycle.updateable \subseteq 1..Len(revs)
    BY <1>1 DEF TInv, Typed, CycleTyped
<1>3. PICK parts \in Partitions(DOMAIN cycle.versions) :
          \E outputs \in Drafts(parts, cycle) : hub' = Organized(hub, cycle, parts, outputs)
    BY DEF FinishOrganization
<1>4. PICK outputs \in Drafts(parts, cycle) : hub' = Organized(hub, cycle, parts, outputs)
    BY <1>3
<1>5. TypedHub(Organized(hub, cycle, parts, outputs), Len(revs))
    BY <1>1, <1>2, OrganizedTyped, StoreIsSequence DEF TInv, Typed, HubTyped, BatchFits
<1> QED BY <1>4, <1>5, TypedTransaction, CycleTypedEnds DEF FinishOrganization

LEMMA OrganizationRejectedTypes ==
    ASSUME TInv, OrganizationRejected
    PROVE  Typed'
<1>1. TypedHub(hub', Len(revs))
    BY MarkedTyped DEF OrganizationRejected, TInv, Typed, HubTyped
<1> QED BY <1>1, TypedTransaction, CycleTypedEnds DEF OrganizationRejected

LEMMA PrepareOrganizationTypes ==
    ASSUME TInv, PrepareOrganization
    PROVE  Typed'
<1>1. UNCHANGED <<hub, revs, archived, op>>
    BY DEF PrepareOrganization
<1>2. \E offered \in SUBSET DOMAIN revs :
          /\ cycle'.at = "organizing" /\ cycle'.offered = offered
          /\ cycle'.updateable = {r \in offered : ~revs[r].sealed}
    BY DEF PrepareOrganization, Inventory
<1>3. CycleTyped'
    BY <1>1, <1>2, StoreIsSequence DEF CycleTyped
<1> QED BY <1>1, <1>3, TypedTransaction DEF TInv, Typed, HubTyped

LEMMA CycleTypes ==
    ASSUME TInv,
           \/ BeginCycle \/ SkipCandidateReview \/ ReadInventory \/ EndCycle
           \/ CycleFails \/ OrganizationFailed \/ RefuseOrganization
    PROVE  Typed'
<1>1. UNCHANGED <<hub, revs, archived, op>>
    BY DEF BeginCycle, SkipCandidateReview, ReadInventory, EndCycle, CycleFails,
           OrganizationFailed, RefuseOrganization
<1>2. CycleTyped'
  <2>1. CASE BeginCycle
    <3>1. cycle'.at = "started"
        BY <2>1 DEF BeginCycle
    <3> QED BY <3>1, CycleTypedElsewhere
  <2>2. CASE SkipCandidateReview
      BY <1>1, <2>2, CycleTypedBecomes DEF SkipCandidateReview
  <2>3. CASE RefuseOrganization
      BY <1>1, <2>3, CycleTypedBecomes DEF RefuseOrganization
  <2>4. CASE EndCycle \/ CycleFails \/ OrganizationFailed
      BY <2>4, CycleTypedEnds DEF EndCycle, CycleFails, OrganizationFailed
  <2>5. CASE ReadInventory
    <3>1. "inventory" \in DOMAIN cycle' /\ cycle'.inventory = Inventory
              /\ cycle'.at \in {"resume", "apply"}
        BY <2>5 DEF ReadInventory
    <3>2. Inventory \subseteq 1..Len(revs)
        BY StoreIsSequence DEF Inventory
    <3> QED BY <1>1, <3>1, <3>2 DEF CycleTyped
  <2> QED BY <2>1, <2>2, <2>3, <2>4, <2>5
<1> QED BY <1>1, <1>2, TypedTransaction DEF TInv, Typed, HubTyped

LEMMA CrashTypes ==
    ASSUME TInv, Crash
    PROVE  Typed'
<1>1. op'.at = "free"
    BY DEF Crash, Free
<1> QED BY <1>1, TypedTransaction, CycleTypedEnds DEF Crash, TInv, Typed, HubTyped

\* An operation goes on with a copy of the hub and a plan of known Pages.
LEMMA TypedBegins ==
    ASSUME TInv, TypedHub(hub', Len(revs)), UNCHANGED <<revs, archived>>, op'.at = "write",
           TypedHub(op'.mem, Len(revs)), TypedPlan(op'.plan.outputs, Len(revs)), CycleTyped'
    PROVE  Typed'
<1>1. HubTyped'
    BY HubTypedNext
<1>2. StoreTyped'
    BY DEF TInv, Typed, StoreTyped
<1>3. MemTyped'
    BY MemTypedNext
<1>4. OpTyped'
    BY <1>3 DEF OpTyped
<1> QED BY <1>1, <1>2, <1>4 DEF Typed

LEMMA PlanTypedLater ==
    ASSUME NEW n \in Nat, NEW m \in Nat, n <= m, NEW outputs, TypedPlan(outputs, n)
    PROVE  TypedPlan(outputs, m)
<1>1. 0..n \subseteq 0..m
    OBVIOUS
<1> QED BY <1>1 DEF TypedPlan, Named

LEMMA AppendedFacts ==
    ASSUME NEW s, s \in Seq(Range(s)), NEW e
    PROVE  /\ Len(Append(s, e)) = Len(s) + 1 /\ DOMAIN Append(s, e) = 1..(Len(s) + 1)
           /\ \A r \in 1..Len(s) : Append(s, e)[r] = s[r]
           /\ Append(s, e)[Len(s) + 1] = e
<1>1. Len(s) \in Nat /\ DOMAIN s = 1..Len(s)
    OBVIOUS
<1>2. s \in Seq(Range(s) \cup {e})
  <2>1. \A r \in 1..Len(s) : s[r] \in Range(s) \cup {e}
      BY <1>1 DEF Range
  <2> QED BY <1>1, <2>1
<1> QED BY <1>1, <1>2

\* A Revision is appended, or Pages are archived: what was known stays known.
LEMMA TypedStoreStep ==
    ASSUME TInv, hub' = hub, cycle' = cycle,
           \/ revs' = revs
           \/ \E revision : /\ revs' = Append(revs, revision)
                            /\ revision.page \in 1..(Len(revs) + 1),
           archived' \subseteq {revs[r].page : r \in DOMAIN revs},
           \/ op' = op
           \/ op'.at \notin {"write", "record"}
           \/ /\ op.at = "write" /\ op'.at = "record" /\ op'.mem = op.mem /\ op'.plan = op.plan
              /\ op'.result \in 1..Len(revs')
    PROVE  Typed'
<1> DEFINE n == Len(revs)  m == Len(revs')
<1>1. revs \in Seq(Range(revs)) /\ n \in Nat /\ DOMAIN revs = 1..n
    BY StoreIsSequence
<1>2. /\ m \in Nat /\ n <= m /\ DOMAIN revs' = 1..m
      /\ \A r \in 1..n : revs'[r] = revs[r]
      /\ n < m => m = n + 1 /\ revs'[m].page \in 1..m
  <2>1. CASE revs' = revs
    <3>1. m = n
        BY <2>1
    <3> HIDE DEF n, m
    <3> QED BY <1>1, <2>1, <3>1
  <2>2. ASSUME NEW revision, revs' = Append(revs, revision), revision.page \in 1..(n + 1)
        PROVE  /\ m \in Nat /\ n <= m /\ DOMAIN revs' = 1..m
               /\ \A r \in 1..n : revs'[r] = revs[r]
               /\ n < m => m = n + 1 /\ revs'[m].page \in 1..m
    <3>1. /\ Len(revs') = Len(revs) + 1 /\ DOMAIN revs' = 1..(Len(revs) + 1)
          /\ \A r \in 1..Len(revs) : revs'[r] = revs[r]
          /\ revs'[Len(revs) + 1] = revision
      <4>1. revs \in Seq(Range(revs)) /\ revs' = Append(revs, revision)
          BY <1>1, <2>2
      <4> HIDE DEF n, m
      <4> QED BY <4>1, AppendedFacts, Zenon
    <3>2. /\ m = n + 1 /\ DOMAIN revs' = 1..(n + 1) /\ revs'[n + 1] = revision
          /\ \A r \in 1..n : revs'[r] = revs[r]
      <4>1. m = Len(revs') /\ n = Len(revs)
          OBVIOUS
      <4> HIDE DEF n, m
      <4>2. m = n + 1
          BY <1>1, <3>1, <4>1
      <4>3. /\ DOMAIN revs' = 1..(n + 1) /\ revs'[n + 1] = revision
            /\ \A r \in 1..n : revs'[r] = revs[r]
          BY <3>1, <4>1, Zenon
      <4> QED BY <4>2, <4>3
    <3> HIDE DEF n, m
    <3> QED BY <1>1, <2>2, <3>2
  <2> QED BY <2>1, <2>2
<1> HIDE DEF n, m
<1>3. HubTyped'
  <2>1. TypedHub(hub, m)
      BY <1>1, <1>2, TypedLater DEF TInv, Typed, HubTyped, n
  <2> QED BY <2>1, HubTypedNext DEF m
<1>4. StoreTyped'
  <2>1. \A r \in 1..n : revs[r].page \in 1..r
      BY <1>1 DEF TInv, Typed, StoreTyped
  <2>2. \A r \in DOMAIN revs' : revs'[r].page \in 1..r
    <3> SUFFICES ASSUME NEW r \in 1..m
                 PROVE  revs'[r].page \in 1..r
        BY <1>2
    <3>1. r \in 1..n \/ (r = m /\ n < m)
        BY <1>1, <1>2
    <3> QED BY <1>2, <2>1, <3>1
  <2>3. archived' \subseteq {revs'[r].page : r \in DOMAIN revs'}
    <3>1. \A r \in DOMAIN revs : r \in DOMAIN revs' /\ revs'[r].page = revs[r].page
        BY <1>1, <1>2
    <3> QED BY <3>1
  <2> QED BY <2>2, <2>3 DEF StoreTyped
<1>5. ASSUME op.at \in {"write", "record"}, op'.mem = op.mem, op'.plan = op.plan
      PROVE  MemTyped'
  <2>1. TypedHub(op.mem, n) /\ TypedPlan(op.plan.outputs, n)
      BY <1>5 DEF TInv, Typed, OpTyped, MemTyped, n
  <2>2. TypedHub(op.mem, m) /\ TypedPlan(op.plan.outputs, m)
      BY <1>1, <1>2, <2>1, TypedLater, PlanTypedLater
  <2> QED BY <1>5, <2>2, MemTypedNext DEF m
<1>6. OpTyped'
  <2>1. CASE op' = op
    <3>1. op.at = "record" => op.result \in 1..m
        BY <1>1, <1>2 DEF TInv, Typed, OpTyped, n
    <3> QED BY <1>5, <2>1, <3>1 DEF OpTyped, m
  <2>2. CASE op'.at \notin {"write", "record"}
      BY <2>2 DEF OpTyped
  <2>3. CASE /\ op.at = "write" /\ op'.at = "record" /\ op'.mem = op.mem /\ op'.plan = op.plan
             /\ op'.result \in 1..m
      BY <1>5, <2>3 DEF OpTyped, m
  <2> QED BY <2>1, <2>2, <2>3 DEF m
<1>7. CycleTyped'
  <2>1. 1..n \subseteq 1..m
      BY <1>1, <1>2
  <2> QED BY <2>1 DEF TInv, Typed, CycleTyped, n, m
<1> QED BY <1>3, <1>4, <1>6, <1>7 DEF Typed


LEMMA TenantsType ==
    ASSUME TInv, TenantWrites \/ TenantArchives
    PROVE  Typed'
<1>1. revs \in Seq(Range(revs)) /\ Len(revs) \in Nat /\ DOMAIN revs = 1..Len(revs)
          /\ StoreTyped
    BY StoreIsSequence DEF TInv, Typed
<1>2. CASE TenantWrites
  <2>1. PICK page \in {revs[r].page : r \in {s \in DOMAIN revs : ~revs[s].sealed}}
                          \cup {Len(revs) + 1} :
            revs' = Append(revs, Revision(page, "tenant", NoKey, {}, FALSE, FALSE))
      BY <1>2 DEF TenantWrites
  <2>2. page \in 1..(Len(revs) + 1)
    <3>1. CASE page = Len(revs) + 1
        BY <1>1, <3>1
    <3>2. ASSUME NEW r \in DOMAIN revs, page = revs[r].page
          PROVE  page \in 1..(Len(revs) + 1)
      <4>1. page \in 1..r /\ r \in 1..Len(revs)
          BY <1>1, <3>2 DEF StoreTyped
      <4> QED BY <1>1, <4>1
    <3> QED BY <2>1, <3>1, <3>2
  <2> DEFINE revision == Revision(page, "tenant", NoKey, {}, FALSE, FALSE)
  <2>3. revision.page = page
      BY DEF Revision
  <2> HIDE DEF revision
  <2>4. revs' = Append(revs, revision) /\ revision.page \in 1..(Len(revs) + 1)
      BY <2>1, <2>2, <2>3 DEF revision
  <2>5. archived' = archived
      BY <1>2 DEF TenantWrites
  <2>6. archived' \subseteq {revs[r].page : r \in DOMAIN revs}
      BY <1>1, <2>5 DEF StoreTyped
  <2> QED BY <1>2, <2>4, <2>6, TypedStoreStep DEF TenantWrites
<1>3. CASE TenantArchives
  <2>1. PICK r \in Inventory : archived' = archived \cup {PageOf(r)}
      BY <1>3 DEF TenantArchives
  <2>2. archived' \subseteq {revs[s].page : s \in DOMAIN revs}
      BY <1>1, <2>1 DEF StoreTyped, Inventory, PageOf
  <2> QED BY <1>3, <2>2, TypedStoreStep DEF TenantArchives
<1> QED BY <1>2, <1>3

\* A keyed write returns the Revision that it made, now or before.
LEMMA IngestTyped ==
    ASSUME TInv, NEW actor, NEW key, NEW evidence, NEW automatic, NEW r,
           Ingest(actor, key, evidence, automatic, r)
    PROVE  /\ r \in 1..Len(revs')
           /\ \/ revs' = revs
              \/ \E revision : /\ revs' = Append(revs, revision)
                               /\ revision.page \in 1..(Len(revs) + 1)
           /\ archived' \subseteq {revs[s].page : s \in DOMAIN revs}
<1>1. revs \in Seq(Range(revs)) /\ Len(revs) \in Nat /\ DOMAIN revs = 1..Len(revs)
          /\ StoreTyped
    BY StoreIsSequence DEF TInv, Typed
<1>2. archived' = archived
    BY DEF Ingest
<1>3. CASE Earlier(actor, key) # {}
  <2>1. Earlier(actor, key) \in SUBSET Nat /\ Earlier(actor, key) \subseteq 1..Len(revs)
      BY <1>1 DEF Earlier
  <2>2. Min(Earlier(actor, key)) \in Earlier(actor, key)
      BY <1>3, <2>1, EarliestIsOne
  <2>3. r \in 1..Len(revs) /\ revs' = revs
      BY <1>3, <2>1, <2>2 DEF Ingest
  <2> QED BY <1>1, <1>2, <2>3 DEF StoreTyped
<1>4. CASE Earlier(actor, key) = {}
  <2> DEFINE revision == Revision(r, actor, key, evidence, automatic, TRUE)
  <2>1. r = Len(revs) + 1 /\ revs' = Append(revs, revision)
      BY <1>4 DEF Ingest
  <2>2. revision.page = r
      BY DEF Revision
  <2> HIDE DEF revision
  <2>3. Len(Append(revs, revision)) = Len(revs) + 1
      BY <1>1, AppendedFacts
  <2>4. r \in 1..Len(revs')
      BY <1>1, <2>1, <2>3
  <2>5. r \in 1..(Len(revs) + 1)
      BY <1>1, <2>1
  <2> QED BY <1>1, <1>2, <2>1, <2>2, <2>4, <2>5 DEF StoreTyped
<1> QED BY <1>3, <1>4

LEMMA ReviseTyped ==
    ASSUME TInv, NEW actor, NEW key, NEW evidence, NEW automatic, NEW r,
           NEW target \in 1..Len(revs), Revise(actor, key, evidence, automatic, target, r)
    PROVE  /\ r \in 1..Len(revs')
           /\ \/ revs' = revs
              \/ \E revision : /\ revs' = Append(revs, revision)
                               /\ revision.page \in 1..(Len(revs) + 1)
           /\ archived' \subseteq {revs[s].page : s \in DOMAIN revs}
<1>1. revs \in Seq(Range(revs)) /\ Len(revs) \in Nat /\ DOMAIN revs = 1..Len(revs)
          /\ StoreTyped
    BY StoreIsSequence DEF TInv, Typed
<1>2. archived' \subseteq archived
    BY DEF Revise
<1>3. CASE Earlier(actor, key) # {}
  <2>1. Earlier(actor, key) \in SUBSET Nat /\ Earlier(actor, key) \subseteq 1..Len(revs)
      BY <1>1 DEF Earlier
  <2>2. Min(Earlier(actor, key)) \in Earlier(actor, key)
      BY <1>3, <2>1, EarliestIsOne
  <2>3. r \in 1..Len(revs) /\ revs' = revs
      BY <1>3, <2>1, <2>2 DEF Revise
  <2> QED BY <1>1, <1>2, <2>3 DEF StoreTyped
<1>4. CASE Earlier(actor, key) = {}
  <2> DEFINE page == PageOf(target)
             revision == Revision(page, actor, key, evidence, automatic, FALSE)
  <2>1. r = Len(revs) + 1 /\ revs' = Append(revs, revision)
      BY <1>4 DEF Revise
  <2>2. revision.page = page
      BY DEF Revision
  <2>3. page \in 1..target
      BY <1>1 DEF PageOf, StoreTyped
  <2> HIDE DEF revision, page
  <2>4. Len(Append(revs, revision)) = Len(revs) + 1
      BY <1>1, AppendedFacts
  <2>5. r \in 1..Len(revs')
      BY <1>1, <2>1, <2>4
  <2>6. page \in 1..(Len(revs) + 1)
      BY <1>1, <2>3
  <2> QED BY <1>1, <1>2, <2>1, <2>2, <2>5, <2>6 DEF StoreTyped
<1> QED BY <1>3, <1>4

LEMMA WriteOutputTypes ==
    ASSUME TInv, WriteOutput
    PROVE  Typed'
<1> DEFINE o == op.plan.outputs[NextOutput]
           key == OutputKey(NextOutput)
<1>1. WriterFits(hub) /\ op.at = "write" /\ hub' = hub /\ cycle' = cycle
    BY DEF WriteOutput, TInv, IInv, OpFits
<1>2. Named(o, Len(revs))
    BY <1>1 DEF WriteOutput, TInv, Typed, OpTyped, MemTyped, TypedPlan
<1> HIDE DEF o, key
<1>3. PICK r \in 1..(Len(revs) + 1) :
          /\ \/ /\ o.action = "create"
                /\ Ingest(op.actor, key, o.evidence, op.automatic, r)
             \/ /\ o.action = "update"
                /\ Revise(op.actor, key, o.evidence, op.automatic, o.target, r)
             \/ /\ o.action = "represented" /\ r = o.target /\ Live(r)
                /\ UNCHANGED <<revs, archived>>
          /\ op' = [op EXCEPT !.at = "record", !.result = r]
    BY DEF WriteOutput, o, key
<1>4. Len(revs) \in Nat /\ DOMAIN revs = 1..Len(revs) /\ StoreTyped
    BY StoreIsSequence DEF TInv, Typed
<1>5. o.target \in 0..Len(revs) /\ (o.action = "update" => o.target \in 1..Len(revs))
    BY <1>2, <1>4 DEF Named, NoTarget
<1>6. /\ r \in 1..Len(revs')
      /\ \/ revs' = revs
         \/ \E revision : /\ revs' = Append(revs, revision)
                          /\ revision.page \in 1..(Len(revs) + 1)
      /\ archived' \subseteq {revs[s].page : s \in DOMAIN revs}
  <2>1. CASE Ingest(op.actor, key, o.evidence, op.automatic, r)
      BY <2>1, IngestTyped
  <2>2. CASE o.action = "update" /\ Revise(op.actor, key, o.evidence, op.automatic, o.target, r)
      BY <1>5, <2>2, ReviseTyped
  <2>3. CASE r = o.target /\ UNCHANGED <<revs, archived>>
      BY <1>3, <1>4, <1>5, <2>3 DEF StoreTyped
  <2> QED BY <1>3, <2>1, <2>2, <2>3
<1>7. op'.at = "record" /\ op'.mem = op.mem /\ op'.plan = op.plan /\ op'.result = r
    BY <1>1, <1>3 DEF WriterFits
<1> QED BY <1>1, <1>6, <1>7, TypedStoreStep

LEMMA IngestReviewedTypes ==
    ASSUME TInv, IngestReviewed
    PROVE  Typed'
<1>1. PICK r : Ingest("operator", <<op.key>>, op.members, FALSE, r)
    BY DEF IngestReviewed
<1>2. /\ \/ revs' = revs
         \/ \E revision : /\ revs' = Append(revs, revision)
                          /\ revision.page \in 1..(Len(revs) + 1)
      /\ archived' \subseteq {revs[s].page : s \in DOMAIN revs}
    BY <1>1, IngestTyped
<1>3. RequestFits(hub) /\ op' = [op EXCEPT !.at = "decide"]
    BY DEF IngestReviewed, TInv, IInv, OpFits
<1>4. op'.at = "decide"
    BY <1>3 DEF RequestFits
<1> QED BY <1>2, <1>4, TypedStoreStep DEF IngestReviewed


LEMMA ReviewSynthesisTypes ==
    ASSUME TInv, NEW i \in DOMAIN hub.groups, NEW plan, ReviewSynthesis(i, plan)
    PROVE  Typed'
<1> DEFINE n == Len(revs)
           automatic == Attributed(hub.groups[i], plan, FALSE)
           started == Started(hub, i, plan, automatic)
<1>1. n \in Nat /\ TypedHub(hub, n)
    BY StoreIsSequence DEF TInv, Typed, HubTyped
<1>2. /\ op' = [at |-> "write", group |-> i, plan |-> plan, actor |-> "operator",
                automatic |-> automatic, mem |-> started, result |-> NoTarget]
      /\ hub' \in {hub, started} /\ UNCHANGED <<revs, archived, cycle>>
    BY DEF ReviewSynthesis, Begin
<1>3. TypedPlan(plan.outputs, n)
    BY <1>1, AcceptedTyped DEF ReviewSynthesis
<1>4. TypedHub(started, n)
    BY <1>1, <1>3, StartedTyped
<1> HIDE DEF started, automatic
<1>5. op'.at = "write" /\ op'.plan = plan /\ op'.mem = started
    BY <1>2
<1>6. CycleTyped'
    BY <1>2, CycleTypedSame
<1>7. TypedHub(hub', n)
    BY <1>1, <1>2, <1>4
<1> QED BY <1>2, <1>3, <1>4, <1>5, <1>6, <1>7, TypedBegins DEF n

LEMMA RecordOutputTypes ==
    ASSUME TInv, RecordOutput
    PROVE  Typed'
<1> DEFINE n == Len(revs)
           mem == [op.mem EXCEPT !.groups[op.group].results = Append(@, op.result)]
<1>1. WriterFits(hub) /\ op.group \in DOMAIN op.mem.groups /\ op.at = "record"
    BY DEF RecordOutput, TInv, IInv, OpFits, WriterFits, InHand
<1>2. TypedHub(op.mem, n) /\ TypedPlan(op.plan.outputs, n) /\ op.result \in 1..n
    BY <1>1 DEF TInv, Typed, OpTyped, MemTyped
<1>3. TypedHub(mem, n)
    BY <1>1, <1>2, ReceiptTyped
<1>4. hub' = mem /\ op' = [op EXCEPT !.at = "write", !.mem = mem]
          /\ UNCHANGED <<revs, archived, cycle>>
    BY DEF RecordOutput
<1> HIDE DEF mem
<1>5. op'.at = "write" /\ op'.plan = op.plan /\ op'.mem = mem
    BY <1>1, <1>4 DEF WriterFits
<1>6. CycleTyped'
    BY <1>4, CycleTypedSame
<1> QED BY <1>2, <1>3, <1>4, <1>5, <1>6, TypedBegins DEF n

LEMMA CompletePlanTypes ==
    ASSUME TInv, CompletePlan
    PROVE  Typed'
<1>1. WriterFits(hub) /\ op.group \in DOMAIN op.mem.groups /\ op.at = "write"
    BY DEF CompletePlan, TInv, IInv, OpFits, WriterFits, InHand
<1>2. TypedHub(op.mem, Len(revs))
    BY <1>1 DEF TInv, Typed, OpTyped, MemTyped
<1> DEFINE done == Completed(op.mem, op.group, op.automatic)
<1>3. TypedHub(done, Len(revs))
    BY <1>1, <1>2, CompletedTyped
<1>4. hub' = done /\ UNCHANGED <<revs, archived, cycle>>
    BY DEF CompletePlan
<1>a. op' = Free \/ op' = [op EXCEPT !.at = "settle", !.mem = done]
    BY DEF CompletePlan
<1> HIDE DEF done
<1>5. op'.at \in {"free", "settle"}
  <2>1. "at" \in DOMAIN op
      BY <1>1 DEF WriterFits
  <2>2. CASE op' = [op EXCEPT !.at = "settle", !.mem = done]
      BY <2>1, <2>2
  <2>3. CASE op' = Free
      BY <2>3 DEF Free
  <2> QED BY <1>a, <2>2, <2>3
<1>6. CycleTyped'
    BY <1>4, CycleTypedSame
<1> QED BY <1>3, <1>4, <1>5, <1>6, TypedTransaction

LEMMA WriteFailsTypes ==
    ASSUME TInv, WriteFails
    PROVE  Typed'
<1>1. WriterFits(hub) /\ op.group \in DOMAIN op.mem.groups /\ op.at = "write"
    BY DEF WriteFails, TInv, IInv, OpFits, WriterFits, InHand
<1>2. TypedHub(op.mem, Len(revs)) /\ TypedHub(hub, Len(revs))
    BY <1>1 DEF TInv, Typed, OpTyped, MemTyped, HubTyped
<1>3. UNCHANGED <<revs, archived>> /\ op'.at = "free"
    BY DEF WriteFails, Free
<1>4. TypedHub(Interrupted(op.mem, op.group), Len(revs))
    BY <1>1, <1>2, ReviewStateTyped DEF Interrupted
<1>5. TypedHub(hub', Len(revs)) /\ (Become("organize") \/ cycle' = cycle)
    BY <1>2, <1>4 DEF WriteFails
<1>6. CycleTyped'
    BY <1>3, <1>5, CycleTypedSame, CycleTypedBecomes
<1> QED BY <1>3, <1>5, <1>6, TypedTransaction

LEMMA SettleAppliedPlanTypes ==
    ASSUME TInv, SettleAppliedPlan
    PROVE  Typed'
<1> DEFINE h2 == SettleNoChange(hub, op.group)
<1>1. op.mem = hub /\ op.group \in DOMAIN hub.groups
    BY DEF SettleAppliedPlan, TInv, IInv, OpFits
<1>2. HubOK(hub) /\ TypedHub(hub, Len(revs))
    BY DEF TInv, IInv, Typed, HubTyped
<1>3. TypedHub(h2, Len(revs)) /\ op.group \in DOMAIN h2.groups
  <2>1. Fine(hub, h2)
      BY <1>2, SettleNoChangeFine
  <2>2. TypedHub(h2, Len(revs))
      BY <1>2, SettledTyped
  <2> HIDE DEF h2
  <2> QED BY <1>1, <1>2, <2>1, <2>2, FineGroups
<1>4. hub' = [h2 EXCEPT !.groups[op.group].auto.state = "written"]
    BY <1>1 DEF SettleAppliedPlan
<1> HIDE DEF h2
<1>5. TypedHub(hub', Len(revs))
    BY <1>3, <1>4, ReviewStateTyped
<1>6. UNCHANGED <<revs, archived>> /\ op'.at = "free" /\ ToOrganize
    BY DEF SettleAppliedPlan, Free
<1> QED BY <1>5, <1>6, TypedTransaction, CycleTypedEnds

LEMMA PromoteTypes ==
    ASSUME TInv, NEW S \in SUBSET Evidence, Promote(S)
    PROVE  Typed'
<1> DEFINE key == Versions(S)
<1>1. /\ hub' = Saved(hub, S, key) /\ UNCHANGED <<revs, archived, cycle>>
      /\ op' = [at |-> "ingest", members |-> S, key |-> key, mem |-> Saved(hub, S, key)]
    BY DEF Promote, Saved
<1>2. DOMAIN key \subseteq Evidence
    BY DEF Versions
<1> HIDE DEF key
<1>3. TypedHub(hub', Len(revs))
    BY <1>1, <1>2, SavedTyped DEF TInv, Typed, HubTyped
<1>4. op'.at = "ingest"
    BY <1>1
<1> QED BY <1>1, <1>3, <1>4, TypedTransaction, CycleTypedSame

LEMMA CompletePromotionTypes ==
    ASSUME TInv, CompletePromotion
    PROVE  Typed'
<1>1. op.mem = hub
    BY DEF CompletePromotion, TInv, IInv, OpFits, RequestFits
<1>2. TypedHub(Decided(hub, op.members, "promoted", FALSE), Len(revs))
    BY DecidedTyped DEF TInv, Typed, HubTyped
<1>3. TypedHub(hub', Len(revs))
    BY <1>1, <1>2, InvalidateStaleTyped DEF CompletePromotion
<1>4. UNCHANGED <<revs, archived, cycle>> /\ op'.at = "free"
    BY DEF CompletePromotion, Free
<1> QED BY <1>3, <1>4, TypedTransaction, CycleTypedSame

LEMMA PromotionFailsTypes ==
    ASSUME TInv, PromotionFails
    PROVE  Typed'
<1>1. UNCHANGED <<hub, revs, archived, cycle>> /\ op'.at = "free"
    BY DEF PromotionFails, Free
<1> QED BY <1>1, TypedTransaction, CycleTypedSame DEF TInv, Typed, HubTyped


LEMMA PrepareAutomaticReviewTypes ==
    ASSUME TInv, PrepareAutomaticReview
    PROVE  Typed'
<1> DEFINE n == Len(revs)
<1>0. /\ cycle.at = "prepare" /\ UNCHANGED <<revs, archived, op>> /\ TypedHub(hub, n)
    BY DEF PrepareAutomaticReview, TInv, Typed, HubTyped
<1>1. cycle.inventory \subseteq 1..n
    BY <1>0 DEF TInv, Typed, CycleTyped
<1>2. CASE ToOrganize /\ UNCHANGED hub
    BY <1>0, <1>2, TypedTransaction, CycleTypedEnds
<1>3. ASSUME NEW i \in DOMAIN hub.groups, NEW input,
             input = IF hub.groups[i].auto.input = NoInput THEN NewInput(hub.groups[i])
                     ELSE hub.groups[i].auto.input,
             \/ /\ hub' = [hub EXCEPT !.groups[i].auto =
                              [Unreviewed EXCEPT !.state = "needs_review"]]
                /\ ToOrganize
             \/ /\ hub' = Stale(hub, i)
                /\ ToOrganize
             \/ /\ hub' = [hub EXCEPT !.groups[i].auto.state = "running",
                                      !.groups[i].auto.input = input]
                /\ cycle' = [at |-> "reviewing", seen |-> cycle.seen,
                             group |-> i, input |-> input]
      PROVE  Typed'
  <2> DEFINE g == hub.groups[i]
  <2>0. TypedGroup(g, n)
      BY <1>0 DEF TypedHub
  <2>1. CASE /\ hub' = [hub EXCEPT !.groups[i].auto =
                            [Unreviewed EXCEPT !.state = "needs_review"]]
             /\ ToOrganize
    <3> DEFINE auto == [Unreviewed EXCEPT !.state = "needs_review"]
               g2 == [g EXCEPT !.plan = g.plan, !.auto = auto]
    <3>1. /\ DOMAIN auto = ReviewFields /\ auto.authorized = FALSE
          /\ auto.retain = {} /\ auto.input = NoInput
        BY DEF Unreviewed, ReviewFields
    <3>2. hub' = [hub EXCEPT !.groups[i].auto = auto]
        BY <2>1
    <3> HIDE DEF auto
    <3>3. [g EXCEPT !.auto = auto] = g2
      <4> HIDE DEF g
      <4> QED BY <2>0 DEF TypedGroup, IsGroup
    <3>4. hub' = [hub EXCEPT !.groups[i] = g2]
      <4>1. hub' = [hub EXCEPT !.groups[i] = [g EXCEPT !.auto = auto]]
          BY <3>2
      <4> HIDE DEF g2
      <4> QED BY <3>3, <4>1
    <3>5. TypedGroup(g2, n)
      <4> HIDE DEF g
      <4> QED BY <2>0, <3>1, ReviewTyped DEF TypedGroup
    <3> HIDE DEF g2
    <3>6. TypedHub(hub', n)
        BY <1>0, <3>4, <3>5, OneGroupTyped
    <3> QED BY <1>0, <2>1, <3>6, TypedTransaction, CycleTypedEnds DEF n
  <2>2. CASE hub' = Stale(hub, i) /\ ToOrganize
    <3>1. TypedHub(hub', n)
        BY <1>0, <2>2, StaleTyped
    <3> QED BY <1>0, <2>2, <3>1, TypedTransaction, CycleTypedEnds DEF n
  <2>3. CASE /\ hub' = [hub EXCEPT !.groups[i].auto.state = "running",
                                   !.groups[i].auto.input = input]
             /\ cycle' = [at |-> "reviewing", seen |-> cycle.seen,
                          group |-> i, input |-> input]
    <3> DEFINE h1 == [hub EXCEPT !.groups[i].auto.state = "running"]
               g1 == h1.groups[i]
               auto == [g1.auto EXCEPT !.input = input]
               g2 == [g1 EXCEPT !.plan = g1.plan, !.auto = auto]
    <3>1. input.pages \subseteq 1..n
      <4>1. NewInput(g).pages = cycle.inventory
          BY DEF NewInput
      <4> HIDE DEF g
      <4>2. input = (IF g.auto.input = NoInput THEN NewInput(g) ELSE g.auto.input)
          BY <1>3 DEF g
      <4> QED BY <1>1, <2>0, <4>1, <4>2 DEF TypedGroup
    <3>2. TypedHub(h1, n) /\ i \in DOMAIN h1.groups
      <4>1. TypedHub(h1, n)
          BY <1>0, ReviewStateTyped
      <4>2. i \in DOMAIN h1.groups
          BY <1>0 DEF TypedHub, IsHub
      <4> QED BY <4>1, <4>2
    <3>3. hub' = [h1 EXCEPT !.groups[i].auto.input = input]
        BY <2>3
    <3> HIDE DEF h1
    <3>4. TypedGroup(g1, n)
        BY <3>2 DEF TypedHub
    <3>5. hub' = [h1 EXCEPT !.groups[i] = [g1 EXCEPT !.auto = auto]]
        BY <3>3
    <3> HIDE DEF g1
    <3>6. [g1 EXCEPT !.auto = auto] = g2
      <4> HIDE DEF auto
      <4> QED BY <3>4 DEF TypedGroup, IsGroup
    <3>7. /\ DOMAIN auto = ReviewFields /\ auto.authorized \in BOOLEAN
          /\ auto.retain = g1.auto.retain /\ auto.input = input
        BY <3>4 DEF TypedGroup, IsGroup, ReviewFields
    <3> HIDE DEF auto
    <3>8. TypedGroup(g2, n)
        BY <3>1, <3>4, <3>7, ReviewTyped DEF TypedGroup
    <3>9. hub' = [h1 EXCEPT !.groups[i] = g2]
      <4> HIDE DEF g2
      <4> QED BY <3>5, <3>6
    <3> HIDE DEF g2
    <3>10. TypedHub(hub', n)
        BY <3>2, <3>8, <3>9, OneGroupTyped
    <3>11. CycleTyped'
      <4>1. cycle'.at = "reviewing"
          BY <2>3
      <4> QED BY <4>1, CycleTypedElsewhere
    <3> QED BY <1>0, <3>10, <3>11, TypedTransaction DEF n
  <2> QED BY <1>3, <2>1, <2>2, <2>3
<1> QED BY <1>2, <1>3 DEF PrepareAutomaticReview

LEMMA FinishAutomaticReviewTypes ==
    ASSUME TInv, FinishAutomaticReview
    PROVE  Typed'
<1> DEFINE i == cycle.group
<1>1. i \in DOMAIN hub.groups /\ TypedHub(hub, Len(revs))
  <2>1. cycle.at = "reviewing"
      BY DEF FinishAutomaticReview
  <2> QED BY <2>1 DEF TInv, IInv, CycleFits, Typed, HubTyped
<1>2. \/ hub' = hub
      \/ \E state \in {"waiting_budget", "needs_review"} :
             hub' = [hub EXCEPT !.groups[i].auto.state = state]
      \/ \E decisions \in [DOMAIN hub.groups[i].outputs -> Verdicts] :
             hub' = Assessed(hub, i, decisions)
    BY DEF FinishAutomaticReview
<1>3. TypedHub(hub', Len(revs))
  <2>1. ASSUME NEW state, hub' = [hub EXCEPT !.groups[i].auto.state = state]
        PROVE  TypedHub(hub', Len(revs))
      BY <1>1, <2>1, ReviewStateTyped
  <2>2. ASSUME NEW decisions, hub' = Assessed(hub, i, decisions)
        PROVE  TypedHub(hub', Len(revs))
      BY <1>1, <2>2, AssessedTyped
  <2> QED BY <1>1, <1>2, <2>1, <2>2
<1>4. /\ UNCHANGED <<revs, archived, op>>
      /\ cycle' = [at |-> "reviewed", seen |-> cycle.seen]
    BY DEF FinishAutomaticReview
<1>5. CycleTyped'
  <2>1. cycle'.at = "reviewed"
      BY <1>4
  <2> QED BY <2>1, CycleTypedElsewhere
<1> QED BY <1>3, <1>4, <1>5, TypedTransaction

LEMMA ResumeAutomaticWriteTypes ==
    ASSUME TInv, ResumeAutomaticWrite
    PROVE  Typed'
<1> DEFINE n == Len(revs)
           todo == {i \in DOMAIN hub.groups : Resumable(hub, i)}
           i == Min(todo)
           g == hub.groups[i]
           fresh == Applying(hub, i)
           started == Started(fresh, i, g.plan, TRUE)
<1>0. /\ UNCHANGED <<revs, archived>> /\ cycle.at \in {"resume", "apply"}
      /\ HubOK(hub) /\ TypedHub(hub, n) /\ n \in Nat
    BY StoreIsSequence DEF ResumeAutomaticWrite, TInv, IInv, Typed, HubTyped
<1>1. \/ /\ IF cycle.at = "resume" THEN Become("prepare") ELSE ToOrganize
         /\ hub' = hub /\ op' = op
      \/ /\ todo # {} /\ hub' = Revoked(hub, i) /\ ToOrganize /\ op' = op
      \/ /\ todo # {} /\ hub' = Interrupted(fresh, i) /\ ToOrganize /\ op' = op
      \/ /\ todo # {} /\ Accepted(fresh, i, g.plan)
         /\ Begin(fresh, i, g.plan, TRUE, "maintainer") /\ Become("writing")
    BY DEF ResumeAutomaticWrite, Applying
<1>2. ASSUME todo # {}
      PROVE  i \in DOMAIN hub.groups
  <2>1. DOMAIN hub.groups \subseteq Nat
      BY <1>0 DEF HubOK, IsHub
  <2>2. todo \in SUBSET Nat
      BY <2>1
  <2> HIDE DEF todo
  <2>3. i \in todo
      BY <1>2, <2>2, EarliestIsOne
  <2> QED BY <2>3 DEF todo
<1> HIDE DEF todo, i, fresh, started
<1>3. CASE /\ IF cycle.at = "resume" THEN Become("prepare") ELSE ToOrganize
           /\ hub' = hub /\ op' = op
  <2>1. CycleTyped'
      BY <1>0, <1>3, CycleTypedBecomes, CycleTypedEnds
  <2> QED BY <1>0, <1>3, <2>1, TypedTransaction DEF n
<1>4. CASE todo # {} /\ hub' = Revoked(hub, i) /\ ToOrganize /\ op' = op
  <2>1. TypedHub(hub', n)
      BY <1>0, <1>2, <1>4, RevokedTyped
  <2> QED BY <1>0, <1>4, <2>1, TypedTransaction, CycleTypedEnds DEF n
<1>5. CASE todo # {} /\ hub' = Interrupted(fresh, i) /\ ToOrganize /\ op' = op
  <2>1. TypedHub(fresh, n) /\ i \in DOMAIN fresh.groups
      BY <1>0, <1>2, <1>5, ApplyingTyped DEF fresh
  <2>2. TypedHub(hub', n)
      BY <1>5, <2>1, ReviewStateTyped DEF Interrupted
  <2> QED BY <1>0, <1>5, <2>2, TypedTransaction, CycleTypedEnds DEF n
<1>6. CASE /\ todo # {} /\ Accepted(fresh, i, g.plan)
           /\ Begin(fresh, i, g.plan, TRUE, "maintainer") /\ Become("writing")
  <2>1. TypedHub(fresh, n) /\ i \in DOMAIN fresh.groups
      BY <1>0, <1>2, <1>6, ApplyingTyped DEF fresh
  <2>2. TypedPlan(g.plan.outputs, n)
      BY <1>0, <1>6, <2>1, AcceptedTyped
  <2>3. TypedHub(started, n)
      BY <2>1, <2>2, StartedTyped DEF started
  <2>4. Attributed(fresh.groups[i], g.plan, TRUE) = TRUE
      BY DEF Attributed
  <2>5. /\ op' = [at |-> "write", group |-> i, plan |-> g.plan, actor |-> "maintainer",
                  automatic |-> TRUE, mem |-> started, result |-> NoTarget]
        /\ hub' \in {hub, started}
      BY <1>6, <2>4 DEF Begin, started
  <2>6. op'.at = "write" /\ op'.plan = g.plan /\ op'.mem = started
    <3> HIDE DEF g
    <3> QED BY <2>5
  <2>7. TypedHub(hub', n)
      BY <1>0, <2>3, <2>5
  <2>8. CycleTyped'
      BY <1>0, <1>6, CycleTypedBecomes
  <2> QED BY <1>0, <2>2, <2>3, <2>6, <2>7, <2>8, TypedBegins DEF n
<1> QED BY <1>1, <1>3, <1>4, <1>5, <1>6


LEMMA InitIsTyped ==
    ASSUME Init
    PROVE  Typed
<1>1. IInv
    BY InitIsFine
<1>2. /\ hub.groups = <<>>
      /\ \A c \in Evidence : hub.candidates[c] =
             [version |-> 0, organized |-> 0, status |-> "absent",
              result |-> "none", outputs |-> FALSE, key |-> NoKey]
    BY DEF Init
<1>3. \A c \in Evidence : TypedCandidate(hub.candidates[c])
  <2>1. DOMAIN NoKey = {}
      BY DEF NoKey
  <2> SUFFICES ASSUME NEW c \in Evidence
               PROVE  TypedCandidate(hub.candidates[c])
      OBVIOUS
  <2> DEFINE x == hub.candidates[c]
  <2>2. /\ DOMAIN x = CandidateFields /\ x.version = 0 /\ x.organized = 0 /\ x.key = NoKey
        /\ x.status = "absent" /\ x.result = "none" /\ x.outputs = FALSE
    <3>1. x = [version |-> 0, organized |-> 0, status |-> "absent",
               result |-> "none", outputs |-> FALSE, key |-> NoKey]
        BY <1>2
    <3> HIDE DEF x
    <3> QED BY <3>1 DEF CandidateFields
  <2> HIDE DEF x
  <2>3. IsCandidate(x)
      BY <2>2 DEF IsCandidate
  <2>4. x.outputs \in BOOLEAN /\ DOMAIN x.key \subseteq Evidence
      BY <2>1, <2>2, Zenon
  <2>5. /\ x.organized \in Nat /\ x.organized <= x.version
        /\ x.status \in CandidateStatuses /\ x.result \in CandidateResults
      BY <2>2 DEF CandidateStatuses, CandidateResults
  <2>6. TypedCandidate(x)
      BY <2>3, <2>4, <2>5 DEF TypedCandidate
  <2> QED BY <2>6 DEF x
<1>4. HubTyped
  <2>1. IsHub(hub)
      BY <1>1 DEF IInv, HubOK
  <2>2. DOMAIN hub.groups = {}
      BY <1>2
  <2> QED BY <1>3, <2>1, <2>2 DEF HubTyped, TypedHub
<1>5. StoreTyped
  <2>1. revs = [p \in 1..Memories |-> Revision(p, "tenant", NoKey, {}, FALSE, FALSE)]
            /\ archived = {}
      BY DEF Init
  <2>2. DOMAIN revs = 1..Memories /\ \A r \in 1..Memories : revs[r].page = r
      BY <2>1 DEF Revision
  <2>3. Memories \in Nat
      BY HubAssumption DEF HubAssumption
  <2>4. \A r \in DOMAIN revs : revs[r].page \in 1..r
    <3> SUFFICES ASSUME NEW r \in 1..Memories
                 PROVE  revs[r].page \in 1..r
        BY <2>2
    <3>1. revs[r].page = r
        BY <2>2
    <3> QED BY <2>3, <3>1
  <2> QED BY <2>1, <2>4 DEF StoreTyped
<1>6. OpTyped /\ CycleTyped
    BY DEF Init, OpTyped, CycleTyped, Free, Idle
<1> QED BY <1>4, <1>5, <1>6 DEF Typed

LEMMA OperatorTypes ==
    ASSUME TInv, OperatorActs
    PROVE  Typed'
<1>1. CASE Inspect \/ OrganizeCandidates
    BY <1>1, InspectTypes, OrganizeCandidatesTypes
<1>2. ASSUME NEW i \in DOMAIN hub.groups,
             StopSynthesis(i) \/ \E plan : ReviewSynthesis(i, plan)
      PROVE  Typed'
    BY <1>2, StopSynthesisTypes, ReviewSynthesisTypes
<1>3. ASSUME NEW S \in SUBSET Evidence,
             Promote(S) \/ \E action \in Decisions \ {"promoted"} : Review(S, action)
      PROVE  Typed'
    BY <1>3, PromoteTypes, ReviewTypes
<1> QED BY <1>1, <1>2, <1>3 DEF OperatorActs

LEMMA StepTypes ==
    ASSUME TInv, [Next]_vars
    PROVE  Typed'
<1>1. CASE \E c \in Evidence : Submit(c)
    BY <1>1, SubmitTypes
<1>2. CASE OperatorActs
    BY <1>2, OperatorTypes
<1>3. CASE Writing
    BY <1>3, WriteOutputTypes, RecordOutputTypes, CompletePlanTypes, WriteFailsTypes,
       IngestReviewedTypes, CompletePromotionTypes, PromotionFailsTypes,
       SettleAppliedPlanTypes DEF Writing
<1>4. CASE CycleSteps
    BY <1>4, CycleTypes, ResumeAutomaticWriteTypes, PrepareAutomaticReviewTypes,
       FinishAutomaticReviewTypes, PrepareOrganizationTypes, FinishOrganizationTypes,
       OrganizationRejectedTypes DEF CycleSteps
<1>5. CASE TenantWrites \/ TenantArchives \/ Crash
    BY <1>5, TenantsType, CrashTypes
<1>6. CASE UNCHANGED vars
  <2>1. UNCHANGED <<hub, revs, archived, op, cycle>>
      BY <1>6 DEF vars
  <2> QED BY <2>1, TypedTransaction, CycleTypedSame DEF TInv, Typed, HubTyped
<1> QED BY <1>1, <1>2, <1>3, <1>4, <1>5, <1>6 DEF Next

\* The file and the store keep their types, whatever was written, appended or archived
\* since an operation read them: what a draft, a plan, a receipt or a review's input
\* names are Revisions that exist (context_hub/synthesis.rs, automatic_review.rs).
THEOREM HubTypes == Spec => []TypeOK
<1>1. Init => TInv
    BY InitIsFine, InitIsTyped DEF TInv
<1>2. TInv /\ [Next]_vars => TInv'
    BY StepKeeps, StepTypes DEF TInv, Kept
<1>3. TInv => TypeOK
  <2> SUFFICES ASSUME TInv
               PROVE  TypeOK
      OBVIOUS
  <2> DEFINE n == Len(revs)
  <2>1. n \in Nat /\ DOMAIN revs = 1..n /\ TypedHub(hub, n)
      BY StoreIsSequence DEF TInv, Typed, HubTyped
  <2>2. ASSUME NEW c \in Evidence
        PROVE  LET x == hub.candidates[c]
               IN /\ [f \in DOMAIN x \ {"key"} |-> x[f]] \in Candidate
                  /\ DOMAIN x.key \subseteq Evidence
                  /\ x.organized <= x.version
    <3> DEFINE x == hub.candidates[c]
               y == [f \in DOMAIN x \ {"key"} |-> x[f]]
    <3>1. TypedCandidate(x)
        BY <2>1 DEF TypedHub
    <3> HIDE DEF x
    <3>2. /\ y = [version |-> x.version, organized |-> x.organized, outputs |-> x.outputs,
                  status |-> x.status, result |-> x.result]
          /\ x.version \in Nat /\ x.organized \in Nat /\ x.outputs \in BOOLEAN
        BY <3>1 DEF TypedCandidate, IsCandidate, CandidateFields
    <3> HIDE DEF y
    <3>3. y \in Candidate
        BY <3>1, <3>2 DEF Candidate, TypedCandidate, CandidateStatuses, CandidateResults
    <3> QED BY <3>1, <3>3 DEF TypedCandidate, x, y
  <2>3. ASSUME NEW outputs, TypedPlan(outputs, n)
        PROVE  Range(outputs) \subseteq Output
    <3>1. 0..n \subseteq DOMAIN revs \cup {NoTarget}
        BY <2>1 DEF NoTarget
    <3>2. ASSUME NEW o, Named(o, n)
          PROVE  o \in Output
        BY <3>1, <3>2 DEF Named, Output
    <3> QED BY <2>3, <3>2 DEF TypedPlan, Range
  <2>4. ASSUME NEW i \in DOMAIN hub.groups
        PROVE  LET g == hub.groups[i]
               IN /\ DOMAIN g.members \subseteq Evidence /\ g.version \in Nat
                  /\ g.status \in {"pending", "promoting", "promoted", "superseded",
                                   "interrupted"}
                  /\ Range(g.outputs) \subseteq Output
                  /\ g.plan # NoPlan => Range(g.plan.outputs) \subseteq Output
                  /\ {g.offered, g.updateable, Range(g.results)} \subseteq RevisionSet
                  /\ g.auto.retain \subseteq DOMAIN g.members
                  /\ g.auto.input # NoInput => g.auto.input.pages \in RevisionSet
    <3> DEFINE g == hub.groups[i]
    <3>1. TypedGroup(g, n)
        BY <2>1 DEF TypedHub
    <3> HIDE DEF g
    <3>2. g.offered \in RevisionSet /\ g.updateable \in RevisionSet
        BY <2>1, <3>1 DEF TypedGroup, RevisionSet
    <3>3. Range(g.results) \in RevisionSet
      <4>1. g.results \in Seq(1..n)
          BY <3>1 DEF TypedGroup
      <4>2. \A k \in DOMAIN g.results : g.results[k] \in 1..n
          BY <4>1
      <4> QED BY <2>1, <4>2 DEF Range, RevisionSet
    <3>4. g.auto.input # NoInput => g.auto.input.pages \in RevisionSet
        BY <2>1, <3>1 DEF TypedGroup, RevisionSet
    <3>5. Range(g.outputs) \subseteq Output
              /\ (g.plan # NoPlan => Range(g.plan.outputs) \subseteq Output)
        BY <2>3, <3>1 DEF TypedGroup
    <3>6. /\ DOMAIN g.members \subseteq Evidence /\ g.version \in Nat
          /\ g.status \in GroupStatuses /\ g.auto.retain \subseteq DOMAIN g.members
        BY <3>1 DEF TypedGroup, IsGroup
    <3> QED BY <3>2, <3>3, <3>4, <3>5, <3>6 DEF GroupStatuses, g
  <2>5. StoreTyped
      BY DEF TInv, Typed
  <2> QED BY <2>2, <2>4, <2>5 DEF TypeOK, StoreTyped
<1> QED BY <1>1, <1>2, <1>3, PTL DEF Spec
=============================================================================
