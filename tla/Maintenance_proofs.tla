------------------------- MODULE Maintenance_proofs -------------------------
(***************************************************************************)
(* Proofs about MaintenanceSchedule, for any Pages, regions, windows and   *)
(* limits.  A ledger tracks its Pages when no head that it observed is out *)
(* of sight: it is covered by a pass that ended, or kept by a dirty        *)
(* region.  The copy in memory and the file do, at every step, since each  *)
(* step replaces them by ledgers that still track, or touches neither what *)
(* was observed nor what is dirty.  They also account for the failed calls *)
(* of every window, so that these are bounded.                             *)
(*                                                                         *)
(* Proofs about ReviewInbox, for any items, sessions and bounds.  A copy   *)
(* of the ledger, the maintainer's or a session's, is Older than the file: *)
(* what it says of a Topic or a fusion is the file's word or was said      *)
(* before it, and what it says is decided of a relation the file says too. *)
(* So a merge takes nothing back.  The file only Advances: what it decided *)
(* stays, and what it changes otherwise is stamped later than every copy.  *)
(***************************************************************************)
EXTENDS MaintenanceSchedule, ReviewInbox, FiniteSetTheorems, TLAPS

-----------------------------------------------------------------------------
(* MaintenanceSchedule: the ledger's fields                                *)

LedgerShape(l) ==
    DOMAIN l = {"observed", "dirty", "entries", "issues", "delayed", "reviewDue"}
MarkShape(d) == DOMAIN d = {"new", "changed", "jobs", "quiet", "waited"}

\* What a change leaves alone of a ledger, as far as its Pages go.
SamePages(l, m) == LedgerShape(m) /\ m.observed = l.observed /\ m.dirty = l.dirty

LEMMA EntriesChange ==
    ASSUME NEW l, LedgerShape(l), NEW x
    PROVE  SamePages(l, [l EXCEPT !.entries = x])
BY DEF LedgerShape, SamePages

LEMMA IssuesChange ==
    ASSUME NEW l, LedgerShape(l), NEW x
    PROVE  SamePages(l, [l EXCEPT !.issues = x])
BY DEF LedgerShape, SamePages

LEMMA BothChange ==
    ASSUME NEW l, LedgerShape(l), NEW x, NEW y
    PROVE  SamePages(l, [l EXCEPT !.entries = x, !.issues = y])
BY DEF LedgerShape, SamePages

LEMMA ScheduleChange ==
    ASSUME NEW l, LedgerShape(l), NEW x, NEW y
    PROVE  SamePages(l, [l EXCEPT !.delayed = x, !.reviewDue = y])
BY DEF LedgerShape, SamePages

LEMMA MarkQuiet ==
    ASSUME NEW d, MarkShape(d), NEW e,
           \/ e = [d EXCEPT !.quiet = TRUE]
           \/ e = [d EXCEPT !.quiet = TRUE, !.waited = TRUE]
    PROVE  MarkShape(e) /\ e.changed = d.changed
BY DEF MarkShape

-----------------------------------------------------------------------------
(* The operations on a ledger                                              *)

LEMMA RecordSame ==
    ASSUME NEW l, LedgerShape(l), NEW k, NEW outcome
    PROVE  SamePages(l, Record(l, k, outcome)) /\ SamePages(l, [l EXCEPT !.issues = Without(@, {k})])
BY BothChange, IssuesChange DEF Record

LEMMA IsolateSame ==
    ASSUME NEW l, LedgerShape(l), NEW k, NEW n, NEW m \in IsolateJob(l, k, n)
    PROVE  SamePages(l, m)
<1>1. PICK x, y : m = [l EXCEPT !.entries = x, !.issues = y]
  BY DEF IsolateJob
<1>. QED  BY <1>1, BothChange

LEMMA ReconcileSame ==
    ASSUME NEW l, LedgerShape(l), NEW heads
    PROVE  SamePages(l, ReconcileJobIssues(l, heads))
BY IssuesChange DEF ReconcileJobIssues

LEMMA DeferSame ==
    ASSUME NEW l, LedgerShape(l)
    PROVE  SamePages(l, DeferUnselectedJobIssues(l))
<1>1. \E x : DeferUnselectedJobIssues(l) = [l EXCEPT !.entries = x]
  BY DEF DeferUnselectedJobIssues
<1>. QED  BY <1>1, EntriesChange

LEMMA SavedSame ==
    ASSUME NEW l, LedgerShape(l)
    PROVE  SamePages(l, Saved(l))
BY EntriesChange DEF Saved

LEMMA SameAgain ==
    ASSUME NEW l, NEW m, NEW n, SamePages(l, m), SamePages(m, n)
    PROVE  SamePages(l, n)
BY DEF SamePages

LEMMA ScheduledSame ==
    ASSUME NEW l, LedgerShape(l), NEW jobs, NEW periodic, NEW m \in Scheduled(l, jobs, periodic)
    PROVE  SamePages(l, m)
<1>1. PICK x, y : m = Saved([l EXCEPT !.delayed = x, !.reviewDue = y])
  BY DEF Scheduled
<1>2. SamePages(l, [l EXCEPT !.delayed = x, !.reviewDue = y])
  BY ScheduleChange
<1>3. LedgerShape([l EXCEPT !.delayed = x, !.reviewDue = y])
  BY <1>2 DEF SamePages
<1>. QED  BY <1>1, <1>2, <1>3, SavedSame, SameAgain

-----------------------------------------------------------------------------
(* What a ledger tracks                                                    *)

Tracked(dirty, p) == Region[p] \in DOMAIN dirty /\ p \in dirty[Region[p]].changed

\* C: the Pages that are covered.
Tracks(l, C) ==
    /\ LedgerShape(l)
    /\ \A r \in DOMAIN l.dirty : MarkShape(l.dirty[r])
    /\ \A p \in DOMAIN l.observed :
          /\ p \in Pages /\ l.observed[p] \in Nat /\ l.observed[p] <= rev[p]
          /\ l.observed[p] = rev[p] => p \in C \/ Tracked(l.dirty, p)

IInv ==
    /\ live \subseteq Pages /\ rev \in [Pages -> Nat]
    /\ Tracks(memory, covered) /\ Tracks(disk, covered)

LEMMA SameTracks ==
    ASSUME NEW C, NEW l, Tracks(l, C), NEW m, SamePages(l, m)
    PROVE  Tracks(m, C)
BY DEF Tracks, SamePages

\* After an observation every head is the one observed, and what changed, or was
\* dirty before, is kept by a dirty region; the first one takes all as given.
LEMMA ObserveTracks ==
    ASSUME live \subseteq Pages, rev \in [Pages -> Nat], NEW C, NEW l, Tracks(l, C)
    PROVE  Tracks(ObserveWrites(l, Heads), C \cup TakenAsGiven(l)) /\ ObserveWrites(l, Heads).observed = Heads
<1>. DEFINE heads == Heads
            m == ObserveWrites(l, heads)
            old == StillDirty(l, heads)
            changed == {p \in DOMAIN heads :
                           ~(p \in DOMAIN l.observed /\ l.observed[p] = heads[p])}
            new == changed \ DOMAIN l.observed
            touched == {Region[p] : p \in changed}
            before(r) == IF r \in DOMAIN old THEN old[r]
                         ELSE [new |-> {}, changed |-> {}, jobs |-> 0,
                               quiet |-> FALSE, waited |-> FALSE]
            here(r) == {p \in changed : Region[p] = r}
            marked(r) == [before(r) EXCEPT !.new = @ \cup (here(r) \cap new),
                                           !.changed = @ \cup here(r), !.jobs = 0, !.quiet = FALSE]
            dirty == IF l.observed = Empty THEN old ELSE Over([r \in touched |-> marked(r)], old)
<1>1. DOMAIN heads = live /\ \A p \in live : heads[p] = rev[p]
  BY DEF Heads, Restrict
<1>0. \A p \in live : p \in Pages /\ rev[p] \in Nat /\ rev[p] <= rev[p]
  OBVIOUS
<1>2. LedgerShape(m) /\ m.observed = heads /\ m.dirty = dirty
  <2>1. LedgerShape(l)
    BY DEF Tracks
  <2>2. PICK y, u : m = [l EXCEPT !.observed = heads, !.entries = y, !.dirty = dirty, !.delayed = u]
    BY DEF ObserveWrites
  <2>. HIDE DEF m, heads, dirty
  <2>. QED  BY ONLY <2>1, <2>2 DEF LedgerShape
<1>. HIDE DEF m, heads
\* Of the regions that were dirty those stay that have a tracked Page still.
<1>3. ASSUME NEW r \in DOMAIN old
      PROVE  /\ r \in DOMAIN l.dirty /\ MarkShape(old[r])
             /\ \A p \in live : p \in l.dirty[r].changed /\ Region[p] = r => p \in old[r].changed
  <2>. DEFINE There == {p \in DOMAIN heads : Region[p] = r}
              d == l.dirty[r]
  <2>1. /\ r \in DOMAIN l.dirty
        /\ old[r] = [d EXCEPT !.new = @ \cap There, !.changed = @ \cap There]
    BY <1>3 DEF StillDirty
  <2>2. MarkShape(d)
    BY <2>1 DEF Tracks
  <2>. HIDE DEF There, d, old
  <2>3. MarkShape(old[r]) /\ old[r].changed = d.changed \cap There
    BY ONLY <2>1, <2>2 DEF MarkShape
  <2>. QED  BY <1>1, <2>1, <2>3 DEF There, d
<1>4. \A p \in live : Tracked(l.dirty, p) => Tracked(old, p)
  <2>. SUFFICES ASSUME NEW p \in live, Tracked(l.dirty, p)
                PROVE  Tracked(old, p)
    OBVIOUS
  <2>1. Region[p] \in DOMAIN old
    BY <1>1 DEF StillDirty, Tracked
  <2>. HIDE DEF old
  <2>. QED  BY <1>3, <2>1 DEF Tracked
<1>. HIDE DEF old
<1>5. ASSUME NEW r \in touched
      PROVE  MarkShape(marked(r)) /\ here(r) \subseteq marked(r).changed
                /\ (r \in DOMAIN old => old[r].changed \subseteq marked(r).changed)
  <2>. DEFINE d == before(r)
              e == marked(r)
              n == d.new \cup (here(r) \cap new)
              c == d.changed \cup here(r)
  <2>1. MarkShape(d) /\ (r \in DOMAIN old => d = old[r])
    BY <1>3 DEF MarkShape
  <2>2. e = [d EXCEPT !.new = n, !.changed = c, !.jobs = 0, !.quiet = FALSE]
    OBVIOUS
  <2>. HIDE DEF d, e, n, c
  <2>3. MarkShape(e) /\ e.changed = c
    BY ONLY <2>1, <2>2 DEF MarkShape
  <2>. QED  BY <2>1, <2>3 DEF c, e
<1>6. \A p \in changed : Region[p] \in touched /\ p \in here(Region[p])
  OBVIOUS
<1>7. l.observed # Empty => /\ DOMAIN dirty = touched \cup DOMAIN old
                            /\ \A r \in touched : dirty[r] = marked(r)
                            /\ \A r \in DOMAIN old \ touched : dirty[r] = old[r]
  <2>. HIDE DEF marked, touched
  <2>. QED  BY DEF Over
<1>8. l.observed = Empty => dirty = old
  OBVIOUS
<1>9. \A p \in live : p \notin changed => p \in DOMAIN l.observed /\ l.observed[p] = rev[p]
  BY <1>1
<1>. HIDE DEF dirty, marked, before, here, touched, changed, new
<1>10. l.observed = Empty => Tracks(m, C \cup TakenAsGiven(l))
  <2>. HAVE l.observed = Empty
  <2>1. TakenAsGiven(l) = live /\ m.dirty = old
    BY <1>2, <1>8 DEF TakenAsGiven
  <2>. QED  BY <1>0, <1>1, <1>2, <1>3, <2>1 DEF Tracks
<1>11. l.observed # Empty => Tracks(m, C \cup TakenAsGiven(l))
  <2>. HAVE l.observed # Empty
  <2>1. \A r \in DOMAIN dirty : MarkShape(dirty[r])
    BY <1>3, <1>5, <1>7
  <2>2. ASSUME NEW p \in live
        PROVE  p \in C \/ Tracked(dirty, p)
    <3>1. CASE p \in changed
      BY <1>5, <1>6, <1>7, <3>1 DEF Tracked
    <3>2. CASE p \notin changed
      <4>1. p \in C \/ Tracked(old, p)
        BY <1>4, <1>9, <3>2 DEF Tracks
      <4>. QED  BY <1>5, <1>7, <4>1 DEF Tracked
    <3>. QED  BY <3>1, <3>2
  <2>. QED  BY <1>0, <1>1, <1>2, <2>1, <2>2 DEF Tracks
<1>12. m.observed = heads
  BY <1>2
<1>. QED  BY <1>10, <1>11, <1>12 DEF m, heads

\* A region leaves a pass when its Pages are as the pass found them: all are seen.
LEMMA FinishTracks ==
    ASSUME live \subseteq Pages, NEW C, NEW l, Tracks(l, C), l.observed = Heads,
           NEW jobs, NEW exhausted
    PROVE  LET expected == cycle.expected
               ended == PassEnded(l, expected, Heads, jobs, exhausted)
           IN  Tracks(FinishDiscoveryPass(l, expected, Heads, jobs, exhausted),
                      C \cup {p \in live : Region[p] \in ended /\ Seen(p)})
<1>. DEFINE expected == cycle.expected
            ended == PassEnded(l, expected, Heads, jobs, exhausted)
            kept == Without(l.dirty, ended)
            same == {r \in DOMAIN expected \cap {Region[p] : p \in DOMAIN Heads} :
                        r \in Unchanged(expected, Heads)}
            dirty == [r \in DOMAIN kept |->
                         IF r \in same THEN [kept[r] EXCEPT !.jobs = kept[r].jobs + jobs] ELSE kept[r]]
            m == FinishDiscoveryPass(l, expected, Heads, jobs, exhausted)
            seen == {p \in live : Region[p] \in ended /\ Seen(p)}
<1>1. DOMAIN Heads = live /\ \A p \in live : Heads[p] = rev[p]
  BY DEF Heads, Restrict
<1>2. m = [l EXCEPT !.dirty = dirty]
  BY DEF FinishDiscoveryPass
<1>3. LedgerShape(l)
  BY DEF Tracks
<1>. HIDE DEF m, dirty
<1>4. LedgerShape(m) /\ m.observed = l.observed /\ m.dirty = dirty
  BY ONLY <1>2, <1>3 DEF LedgerShape
<1>5. /\ DOMAIN dirty = DOMAIN l.dirty \ ended
      /\ \A r \in DOMAIN dirty :
            dirty[r] = l.dirty[r] \/ dirty[r] = [l.dirty[r] EXCEPT !.jobs = l.dirty[r].jobs + jobs]
  BY DEF dirty, Without, Restrict
<1>6. ASSUME NEW r \in DOMAIN dirty
      PROVE  MarkShape(dirty[r]) /\ dirty[r].changed = l.dirty[r].changed
  <2>. DEFINE d == l.dirty[r]
              e == dirty[r]
              n == d.jobs + jobs
  <2>1. MarkShape(d) /\ (e = d \/ e = [d EXCEPT !.jobs = n])
    BY <1>5 DEF Tracks
  <2>. HIDE DEF d, e, n
  <2>2. MarkShape(e) /\ e.changed = d.changed
    BY ONLY <2>1 DEF MarkShape
  <2>. QED  BY <2>2 DEF d, e
<1>7. ASSUME NEW p \in live, Region[p] \in ended
      PROVE  p \in seen
  <2>. DEFINE r == Region[p]
              there == {q \in DOMAIN Heads : Region[q] = r}
  <2>1. r \in DOMAIN expected /\ r \in Unchanged(expected, Heads)
    BY <1>7 DEF PassEnded
  <2>2. RegionSnapshot(Heads, DOMAIN expected)[r] = Restrict(Heads, there)
    BY <1>1, <2>1 DEF RegionSnapshot
  <2>3. expected[r] = Restrict(Heads, there)
    BY <2>1, <2>2 DEF Unchanged
  <2>4. p \in DOMAIN expected[r] /\ expected[r][p] = rev[p]
    BY <1>1, <2>3 DEF Restrict
  <2>. QED  BY <1>7, <2>4 DEF Seen
<1>. HIDE DEF ended, seen
<1>8. Tracks(m, C \cup seen)
  BY <1>1, <1>4, <1>5, <1>6, <1>7 DEF Tracks, Tracked
<1>. QED  BY <1>8 DEF m, seen, ended

\* Marks of time on dirty regions leave alone what is tracked.
LEMMA MarkedTracks ==
    ASSUME NEW C, NEW l, Tracks(l, C), NEW m, LedgerShape(m), m.observed = l.observed,
           NEW dirty, m.dirty = dirty, DOMAIN dirty = DOMAIN l.dirty,
           \A r \in DOMAIN dirty : MarkShape(dirty[r]) /\ dirty[r].changed = l.dirty[r].changed
    PROVE  Tracks(m, C)
BY DEF Tracks, Tracked

\* Time that passes changes neither what was observed nor what is dirty.
LEMMA PassedTracks ==
    ASSUME NEW C, NEW l, Tracks(l, C), NEW what \in {"quiet", "wait", "retention"}
    PROVE  Tracks(Passed(l, what), C)
<1>. DEFINE m == Passed(l, what)
<1>1. LedgerShape(l) /\ \A r \in DOMAIN l.dirty : MarkShape(l.dirty[r])
  BY DEF Tracks
<1>2. CASE what = "retention"
  <2>1. PICK x : m = [l EXCEPT !.entries = x]
    BY <1>2 DEF Passed
  <2>2. SamePages(l, m)
    BY <1>1, <2>1, EntriesChange
  <2>. QED  BY <2>2, SameTracks
<1>4. CASE what = "quiet"
  <2>. DEFINE dirty == [r \in DOMAIN l.dirty |-> [l.dirty[r] EXCEPT !.quiet = TRUE]]
  <2>1. PICK x : m = [l EXCEPT !.dirty = dirty, !.entries = x, !.delayed = FALSE]
    BY <1>4 DEF Passed
  <2>2. ASSUME NEW r \in DOMAIN dirty
        PROVE  MarkShape(dirty[r]) /\ dirty[r].changed = l.dirty[r].changed
    BY <1>1, MarkQuiet
  <2>3. DOMAIN dirty = DOMAIN l.dirty
    OBVIOUS
  <2>. HIDE DEF m, dirty
  <2>4. LedgerShape(m) /\ m.observed = l.observed /\ m.dirty = dirty
    BY ONLY <1>1, <2>1 DEF LedgerShape
  <2>5. Tracks(m, C)
    BY <2>2, <2>3, <2>4, MarkedTracks
  <2>. QED  BY <2>5 DEF m
<1>5. CASE what = "wait"
  <2>. DEFINE dirty == [r \in DOMAIN l.dirty |-> [l.dirty[r] EXCEPT !.quiet = TRUE, !.waited = TRUE]]
  <2>1. m = [l EXCEPT !.dirty = dirty, !.reviewDue = PeriodicReview]
    BY <1>5 DEF Passed
  <2>2. ASSUME NEW r \in DOMAIN dirty
        PROVE  MarkShape(dirty[r]) /\ dirty[r].changed = l.dirty[r].changed
    BY <1>1, MarkQuiet
  <2>3. DOMAIN dirty = DOMAIN l.dirty
    OBVIOUS
  <2>. HIDE DEF m, dirty
  <2>4. LedgerShape(m) /\ m.observed = l.observed /\ m.dirty = dirty
    BY ONLY <1>1, <2>1 DEF LedgerShape
  <2>5. Tracks(m, C)
    BY <2>2, <2>3, <2>4, MarkedTracks
  <2>. QED  BY <2>5 DEF m
<1>. QED  BY <1>2, <1>4, <1>5

-----------------------------------------------------------------------------
(* The invariant                                                           *)

LEMMA InitTracks == Init => IInv
<1>. SUFFICES ASSUME Init
              PROVE  IInv
  OBVIOUS
<1>1. ASSUME NEW p \in Pages
      PROVE  Cardinality({p} \cap live) \in Nat
  <2>1. {p} \cap live = {p} \/ {p} \cap live = {}
    OBVIOUS
  <2>2. Cardinality({p}) = 1 /\ Cardinality({}) = 0
    BY FS_Singleton, FS_EmptySet
  <2>3. CASE {p} \cap live = {p}
    BY <2>2, <2>3
  <2>4. CASE {p} \cap live = {}
    BY <2>2, <2>4
  <2>. QED  BY <2>1, <2>3, <2>4
<1>2. live \subseteq Pages /\ rev \in [Pages -> Nat]
  BY <1>1 DEF Init
<1>3. Tracks(NewLedger, covered)
  BY DEF Tracks, LedgerShape, NewLedger, Empty
<1>. QED  BY <1>2, <1>3 DEF Init, IInv

\* A step that leaves the store alone and replaces the ledgers by tracking ones.
LEMMA LedgersReplaced ==
    ASSUME IInv, UNCHANGED store, NEW C, NEW l, NEW m, Tracks(l, C), Tracks(m, C),
           covered' = C, memory' = l, disk' = m
    PROVE  IInv'
<1>1. (live \subseteq Pages /\ rev \in [Pages -> Nat])'
  BY DEF IInv, store
<1>2. rev' = rev
  BY DEF store
<1>3. Tracks(memory, covered)'
  BY <1>2 DEF Tracks, Tracked
<1>4. Tracks(disk, covered)'
  BY <1>2 DEF Tracks, Tracked
<1>. QED  BY <1>1, <1>3, <1>4 DEF IInv

\* The same, when all that changed is what SamePages leaves open.
LEMMA LedgersTouched ==
    ASSUME IInv, UNCHANGED <<store, covered>>, NEW l, NEW m, memory' = l, disk' = m,
           l = memory \/ l = disk \/ SamePages(memory, l),
           m = disk \/ SamePages(memory, m)
    PROVE  IInv'
<1>1. Tracks(l, covered) /\ Tracks(m, covered)
  BY SameTracks DEF IInv
<1>. QED  BY <1>1, LedgersReplaced

LEMMA WritePageTracks ==
    ASSUME IInv, NEW p \in Pages, WritePage(p)
    PROVE  IInv'
<1>1. /\ live' = live \cup {p} /\ rev' = [rev EXCEPT ![p] = @ + 1]
      /\ covered' = covered \ {p} /\ memory' = memory /\ disk' = disk
  BY DEF WritePage, Change
<1>2. (live \subseteq Pages /\ rev \in [Pages -> Nat])'
  BY <1>1 DEF IInv
<1>3. \A q \in Pages : q # p => rev'[q] = rev[q]
  BY <1>1 DEF IInv
<1>4. rev[p] \in Nat /\ rev'[p] = rev[p] + 1
  BY <1>1 DEF IInv
\* What was observed of p is older than its new head.
<1>5. ASSUME NEW l, Tracks(l, covered), NEW q \in DOMAIN l.observed
      PROVE  /\ q \in Pages /\ l.observed[q] \in Nat /\ l.observed[q] <= rev'[q]
             /\ l.observed[q] = rev'[q] => q \in covered' \/ Tracked(l.dirty, q)
  <2>1. CASE q = p
    BY <1>4, <1>5, <2>1 DEF Tracks
  <2>2. CASE q # p
    BY <1>1, <1>3, <1>5, <2>2 DEF Tracks
  <2>. QED  BY <2>1, <2>2
<1>6. Tracks(memory, covered)'
  BY <1>1, <1>5 DEF IInv, Tracks, Tracked
<1>7. Tracks(disk, covered)'
  BY <1>1, <1>5 DEF IInv, Tracks, Tracked
<1>. QED  BY <1>2, <1>6, <1>7 DEF IInv

LEMMA StartCycleTracks ==
    ASSUME IInv, StartCycle
    PROVE  IInv'
<1>. DEFINE C == covered \cup TakenAsGiven(memory)
            l == ObserveWrites(memory, Heads)
<1>1. Tracks(l, C)
  BY ObserveTracks DEF IInv
<1>2. memory' = Saved(l) /\ disk' = Saved(l) /\ covered' = C /\ UNCHANGED store
  BY DEF StartCycle
<1>. HIDE DEF l, C
<1>3. Tracks(Saved(l), C)
  BY <1>1, SavedSame, SameTracks DEF Tracks
<1>. QED  BY <1>2, <1>3, LedgersReplaced

LEMMA FinishCycleTracks ==
    ASSUME IInv, FinishCycle
    PROVE  IInv'
<1>. DEFINE C == covered \cup TakenAsGiven(memory)
            o == ObserveWrites(memory, Heads)
            r == ReconcileJobIssues(o, Heads)
            l == DeferUnselectedJobIssues(r)
            jobs == cycle.jobs - cycle.before
            exhausted == cycle.jobs < MaxJobs
            ended == PassEnded(l, cycle.expected, Heads, jobs, exhausted)
            D == C \cup {p \in live : Region[p] \in ended /\ Seen(p)}
            f == FinishDiscoveryPass(l, cycle.expected, Heads, jobs, exhausted)
<1>1. Tracks(o, C) /\ o.observed = Heads
  BY ObserveTracks DEF IInv
<1>2. PICK s \in Scheduled(f, cycle.jobs, cycle.periodic) : memory' = s /\ disk' = s
  BY DEF FinishCycle
<1>3. covered' = D /\ UNCHANGED store
  BY DEF FinishCycle
<1>4. live \subseteq Pages
  BY DEF IInv
<1>. HIDE DEF o, C
<1>5. SamePages(o, r)
  BY <1>1, ReconcileSame DEF Tracks
<1>. HIDE DEF r
<1>6. SamePages(r, l)
  BY <1>5, DeferSame DEF SamePages
<1>. HIDE DEF l
<1>7. Tracks(l, C) /\ l.observed = Heads
  BY <1>1, <1>5, <1>6, SameTracks DEF SamePages
<1>. HIDE DEF jobs, exhausted
<1>8. Tracks(f, D)
  BY <1>4, <1>7, FinishTracks
<1>. HIDE DEF f, D
<1>9. Tracks(s, D)
  BY <1>2, <1>8, ScheduledSame, SameTracks DEF Tracks
<1>. QED  BY <1>2, <1>3, <1>9, LedgersReplaced

LEMMA NextTracks ==
    ASSUME IInv, [Next]_vars
    PROVE  IInv'
<1>0. LedgerShape(memory) /\ LedgerShape(disk)
  BY DEF IInv, Tracks
<1>1. ASSUME NEW p \in Pages, WritePage(p)
      PROVE  IInv'
  BY <1>1, WritePageTracks
<1>2. ASSUME NEW p \in Pages, WithdrawPage(p) \/ RestorePage(p)
      PROVE  IInv'
  <2>1. live' \subseteq Pages /\ UNCHANGED <<rev, memory, disk, covered>>
    BY <1>2 DEF WithdrawPage, RestorePage, Change, IInv
  <2>. QED  BY <2>1 DEF IInv, Tracks, Tracked
<1>3. ASSUME NEW kind, QueueFills(kind) \/ QueueDrains(kind)
      PROVE  IInv'
  <2>1. UNCHANGED <<store, memory, disk, covered>>
    BY <1>3 DEF QueueFills, QueueDrains
  <2>. QED  BY <2>1, LedgersTouched
<1>4. ASSUME FailCycle
      PROVE  IInv'
  BY <1>0, <1>4, SavedSame, LedgersTouched DEF FailCycle
<1>5. ASSUME Crash
      PROVE  IInv'
  BY <1>5, LedgersTouched DEF Crash
<1>6. ASSUME StartCycle
      PROVE  IInv'
  BY <1>6, StartCycleTracks
<1>7. ASSUME ReviewBacklog
      PROVE  IInv'
  <2>1. memory' = memory \/ memory' = ReconcileJobIssues(memory, cycle.heads)
    BY <1>7 DEF ReviewBacklog
  <2>2. UNCHANGED <<store, disk, covered>>
    BY <1>7 DEF ReviewBacklog
  <2>. QED  BY <1>0, <2>1, <2>2, ReconcileSame, LedgersTouched
<1>8. ASSUME SelectWindow \/ NoWindow
      PROVE  IInv'
  <2>1. UNCHANGED <<store, memory, disk, covered>>
    BY <1>8 DEF SelectWindow, NoWindow
  <2>. QED  BY <2>1, LedgersTouched
<1>9. ASSUME SkipUpdate
      PROVE  IInv'
  <2>1. \E k : memory' = Record(memory, k, "cooling")
    BY <1>9 DEF SkipUpdate
  <2>2. UNCHANGED <<store, disk, covered>>
    BY <1>9 DEF SkipUpdate
  <2>. QED  BY <1>0, <2>1, <2>2, RecordSame, LedgersTouched
<1>10. ASSUME NEW l, SamePages(memory, l), JobDone(l)
       PROVE  IInv'
  <2>1. SamePages(memory, Saved(l))
    BY <1>10, SavedSame, SameAgain DEF SamePages
  <2>2. memory' = Saved(l) /\ disk' = Saved(l) /\ UNCHANGED <<store, covered>>
    BY <1>10 DEF JobDone
  <2>. QED  BY <2>1, <2>2, LedgersTouched
<1>11. ASSUME FinishJob
       PROVE  IInv'
  <2>1. \/ \E outcome : JobDone(Record(memory, cycle.key, outcome))
        \/ JobDone([memory EXCEPT !.issues = Without(@, {cycle.key})])
    BY <1>11 DEF FinishJob
  <2>. QED  BY <1>0, <1>10, <2>1, RecordSame
<1>12. ASSUME FailJob
       PROVE  IInv'
  <2>1. PICK paid : \E l \in IsolateJob(memory, cycle.key, paid) : JobDone(l)
    BY <1>12 DEF FailJob
  <2>. QED  BY <1>0, <1>10, <2>1, IsolateSame
<1>13. ASSUME EndCycle
       PROVE  IInv'
  <2>1. PICK l \in Scheduled(memory, cycle.jobs, cycle.periodic) : memory' = l /\ disk' = l
    BY <1>13 DEF EndCycle
  <2>2. UNCHANGED <<store, covered>>
    BY <1>13 DEF EndCycle
  <2>. QED  BY <1>0, <2>1, <2>2, ScheduledSame, LedgersTouched
<1>14. ASSUME FinishCycle
       PROVE  IInv'
  BY <1>14, FinishCycleTracks
<1>15. ASSUME NEW what \in {"quiet", "wait", "retention"}, TimePasses(what)
       PROVE  IInv'
  <2>1. memory' = Passed(memory, what) /\ disk' = Passed(disk, what) /\ UNCHANGED <<store, covered>>
    BY <1>15 DEF TimePasses
  <2>2. Tracks(Passed(memory, what), covered) /\ Tracks(Passed(disk, what), covered)
    BY PassedTracks DEF IInv
  <2>. QED  BY <2>1, <2>2, LedgersReplaced
<1>16. CASE UNCHANGED vars
  <2>1. UNCHANGED <<store, memory, disk, covered>>
    BY <1>16 DEF vars, store
  <2>. QED  BY <2>1, LedgersTouched
<1>17. CASE Environment
  BY <1>17, <1>1, <1>2, <1>3, <1>4, <1>5 DEF Environment
<1>18. CASE Maintainer
  BY <1>18, <1>6, <1>7, <1>8, <1>9, <1>11, <1>12, <1>13, <1>14 DEF Maintainer
<1>. QED  BY <1>15, <1>16, <1>17, <1>18 DEF Next

\* A write is never lost sight of (ledger.rs, observe_writes and
\* finish_discovery_pass): whatever Pages are written while a pass over their
\* region runs, whatever ends the pass and whenever the process dies, the head of
\* a Page that shows is in the watermark of the ledger - the one in memory and the
\* one a restart would load - only if a dirty region still tracks it or a pass
\* that saw it ended.
THEOREM WritesAreTracked == Spec => []NoWriteForgotten
<1>1. IInv => NoWriteForgotten
  BY DEF IInv, Tracks, Tracked, NoWriteForgotten
<1>. QED  BY <1>1, InitTracks, NextTracks, PTL DEF Spec

-----------------------------------------------------------------------------
(* Failed calls                                                            *)
(*                                                                         *)
(* What a ledger knows of the attempts at a window: entries E and          *)
(* diagnostics I.  They account for the calls c if every window of c has   *)
(* an entry of as many attempts, which a save would not drop: it drops     *)
(* those past their retention with fewer than MaxAttempts, and calls older *)
(* than the retention are forgotten when there were fewer.                 *)

Books(E, I) ==
    /\ \A k \in DOMAIN E : DOMAIN E[k] = {"outcome", "due", "attempts"} /\ E[k].attempts \in Nat
    /\ \A k \in DOMAIN I : I[k] \in Nat
    /\ \A k \in DOMAIN I \cap DOMAIN E : E[k].outcome = "failed" /\ E[k].attempts = I[k]

Covers(E, c) ==
    \A k \in DOMAIN c :
       /\ k \in DOMAIN E /\ E[k].outcome = "failed"
       /\ c[k] \in Nat /\ c[k] <= E[k].attempts
       /\ E[k].due = "expired" => c[k] >= MaxAttempts

Accounts(l, c) == LedgerShape(l) /\ Books(l.entries, l.issues) /\ Covers(l.entries, c)

\* Calls of long pairs are not made, and a window that is tried has attempts left.
CycleFits ==
    /\ "stage" \in DOMAIN cycle
    /\ \A k \in DOMAIN calls : k.kind # "long_update"
    /\ cycle.stage = "calling" => cycle.key.kind # "long_update" /\ ~Exhausted(memory, cycle.key)

PaidInv == Accounts(memory, calls) /\ Accounts(disk, calls) /\ CycleFits /\ FailedCallsBounded

Fewer(d, c) == DOMAIN d \subseteq DOMAIN c /\ \A k \in DOMAIN d : d[k] = c[k]

LEMMA RestrictFewer ==
    ASSUME NEW c, NEW S
    PROVE  Fewer(Restrict(c, S \cap DOMAIN c), c) /\ Fewer(Without(c, S), c)
BY DEF Fewer, Without, Restrict

LEMMA FewerCovered ==
    ASSUME NEW E, NEW c, NEW d, Covers(E, c), Fewer(d, c)
    PROVE  Covers(E, d)
BY DEF Covers, Fewer

LEMMA FewerAccounts ==
    ASSUME NEW l, NEW c, NEW d, Accounts(l, c), Fewer(d, c)
    PROVE  Accounts(l, d)
BY FewerCovered DEF Accounts

-----------------------------------------------------------------------------
(* The operations on a ledger, again                                       *)

\* What leaves the entries and the diagnostics alone.
SameBooks(l, m) == LedgerShape(m) /\ m.entries = l.entries /\ m.issues = l.issues

LEMMA SameBooksAccount ==
    ASSUME NEW l, NEW m, NEW c, Accounts(l, c), SameBooks(l, m)
    PROVE  Accounts(m, c)
BY DEF Accounts, SameBooks

LEMMA PagesChange ==
    ASSUME NEW l, LedgerShape(l), NEW x, NEW y
    PROVE  /\ SameBooks(l, [l EXCEPT !.dirty = x])
           /\ SameBooks(l, [l EXCEPT !.delayed = x, !.reviewDue = y])
           /\ SameBooks(l, [l EXCEPT !.dirty = x, !.reviewDue = y])
BY DEF LedgerShape, SameBooks

LEMMA NewEntries ==
    ASSUME NEW l, LedgerShape(l), NEW E, NEW m, m = [l EXCEPT !.entries = E]
    PROVE  LedgerShape(m) /\ m.entries = E /\ m.issues = l.issues
BY DEF LedgerShape

LEMMA NewIssues ==
    ASSUME NEW l, LedgerShape(l), NEW I, NEW m, m = [l EXCEPT !.issues = I]
    PROVE  LedgerShape(m) /\ m.issues = I /\ m.entries = l.entries
BY DEF LedgerShape

\* Diagnostics may go.
LEMMA DropIssues ==
    ASSUME NEW l, NEW c, NEW S, Accounts(l, c)
    PROVE  Accounts([l EXCEPT !.issues = Without(@, S)], c)
<1>. DEFINE I == Without(l.issues, S)
            m == [l EXCEPT !.issues = I]
<1>1. DOMAIN I = DOMAIN l.issues \ S /\ \A k \in DOMAIN I : I[k] = l.issues[k]
  BY DEF Without, Restrict
<1>. HIDE DEF I
<1>2. LedgerShape(m) /\ m.issues = I /\ m.entries = l.entries
  BY NewIssues DEF Accounts
<1>. HIDE DEF m
<1>3. Books(m.entries, m.issues)
  BY <1>1, <1>2 DEF Accounts, Books
<1>4. Accounts(m, c)
  BY <1>2, <1>3 DEF Accounts
<1>. QED  BY <1>4 DEF m, I

\* So may entries of windows without calls.
LEMMA DropEntries ==
    ASSUME NEW l, NEW c, NEW S, Accounts(l, c), DOMAIN c \cap S = {},
           NEW m, LedgerShape(m), m.issues = l.issues, m.entries = Without(l.entries, S)
    PROVE  Accounts(m, c)
<1>. DEFINE E == Without(l.entries, S)
<1>1. DOMAIN E = DOMAIN l.entries \ S /\ \A k \in DOMAIN E : E[k] = l.entries[k]
  BY DEF Without, Restrict
<1>2. m.entries = E
  OBVIOUS
<1>. HIDE DEF E
<1>3. Books(E, l.issues) /\ Covers(E, c)
  BY <1>1 DEF Accounts, Books, Covers
<1>. QED  BY <1>2, <1>3 DEF Accounts

LEMMA SavedAccounts ==
    ASSUME NEW l, NEW c, Accounts(l, c)
    PROVE  Accounts(Saved(l), c)
<1>. DEFINE S == {k \in DOMAIN l.entries : /\ l.entries[k].due = "expired"
                                           /\ l.entries[k].outcome # "done"
                                           /\ l.entries[k].attempts < MaxAttempts}
            m == Saved(l)
<1>1. m = [l EXCEPT !.entries = Without(l.entries, S)]
  BY DEF Saved
<1>2. DOMAIN c \cap S = {}
  <2>. SUFFICES ASSUME NEW k \in DOMAIN c, k \in S
                PROVE  FALSE
    OBVIOUS
  <2>1. /\ l.entries[k].attempts < MaxAttempts /\ l.entries[k].due = "expired"
        /\ c[k] \in Nat /\ c[k] <= l.entries[k].attempts /\ c[k] >= MaxAttempts
        /\ l.entries[k].attempts \in Nat
    BY DEF Accounts, Covers, Books
  <2>. QED  BY <2>1, LimitAssumption
<1>. HIDE DEF S, m
<1>3. LedgerShape(m) /\ m.entries = Without(l.entries, S) /\ m.issues = l.issues
  BY <1>1, NewEntries DEF Accounts
<1>4. Accounts(m, c)
  BY <1>2, <1>3, DropEntries
<1>. QED  BY <1>4 DEF m

\* An observation drops entries of windows that are no longer current.
LEMMA ObserveAccounts ==
    ASSUME NEW l, NEW c, NEW heads, Accounts(l, c), \A k \in DOMAIN c : Current(k, heads)
    PROVE  Accounts(ObserveWrites(l, heads), c)
<1>. DEFINE S == {k \in DOMAIN l.entries : ~Current(k, heads) /\ l.entries[k].outcome # "cooling"}
            m == ObserveWrites(l, heads)
<1>1. PICK x, y : m = [l EXCEPT !.observed = heads, !.entries = Without(l.entries, S), !.dirty = x, !.delayed = y]
  BY DEF ObserveWrites
<1>2. DOMAIN c \cap S = {}
  OBVIOUS
<1>3. LedgerShape(l)
  BY DEF Accounts
<1>. HIDE DEF S, m
<1>4. LedgerShape(m) /\ m.entries = Without(l.entries, S) /\ m.issues = l.issues
  BY ONLY <1>1, <1>3 DEF LedgerShape
<1>5. Accounts(m, c)
  BY <1>2, <1>4, DropEntries
<1>. QED  BY <1>5 DEF m

LEMMA ReconcileAccounts ==
    ASSUME NEW l, NEW c, NEW heads, Accounts(l, c)
    PROVE  Accounts(ReconcileJobIssues(l, heads), c)
BY DropIssues DEF ReconcileJobIssues

\* A deferred window keeps the attempts of its diagnostic.
LEMMA DeferAccounts ==
    ASSUME NEW l, NEW c, Accounts(l, c)
    PROVE  Accounts(DeferUnselectedJobIssues(l), c)
<1>. DEFINE due == {k \in DOMAIN l.issues : Eligible(l, k)}
            g == [k \in due |-> [outcome |-> "failed", due |-> "later", attempts |-> l.issues[k]]]
            E == Over(g, l.entries)
            m == DeferUnselectedJobIssues(l)
<1>1. m = [l EXCEPT !.entries = E]
  BY DEF DeferUnselectedJobIssues
<1>2. /\ DOMAIN E = due \cup DOMAIN l.entries
      /\ \A k \in due : E[k] = [outcome |-> "failed", due |-> "later", attempts |-> l.issues[k]]
      /\ \A k \in DOMAIN l.entries \ due : E[k] = l.entries[k]
  BY DEF Over
<1>3. due \subseteq DOMAIN l.issues
  OBVIOUS
<1>. HIDE DEF E, due, m
<1>4. LedgerShape(m) /\ m.entries = E /\ m.issues = l.issues
  BY <1>1, NewEntries DEF Accounts
<1>5. \A k \in due : /\ DOMAIN E[k] = {"outcome", "due", "attempts"} /\ E[k].outcome = "failed"
                     /\ E[k].due = "later" /\ E[k].attempts = l.issues[k]
  BY <1>2
<1>6. /\ \A k \in DOMAIN l.entries :
            DOMAIN l.entries[k] = {"outcome", "due", "attempts"} /\ l.entries[k].attempts \in Nat
      /\ \A k \in DOMAIN l.issues : l.issues[k] \in Nat
      /\ \A k \in DOMAIN l.issues \cap DOMAIN l.entries :
            l.entries[k].outcome = "failed" /\ l.entries[k].attempts = l.issues[k]
  BY DEF Accounts, Books
<1>7. Books(E, l.issues)
  BY <1>2, <1>3, <1>5, <1>6 DEF Books
<1>8. ASSUME NEW k \in DOMAIN c
      PROVE  /\ k \in DOMAIN E /\ E[k].outcome = "failed"
             /\ c[k] \in Nat /\ c[k] <= E[k].attempts
             /\ E[k].due = "expired" => c[k] >= MaxAttempts
  <2>1. /\ k \in DOMAIN l.entries /\ l.entries[k].outcome = "failed"
        /\ c[k] \in Nat /\ c[k] <= l.entries[k].attempts
        /\ l.entries[k].due = "expired" => c[k] >= MaxAttempts
    BY DEF Accounts, Covers
  <2>2. CASE k \in due
    BY <1>2, <1>3, <1>5, <1>6, <2>1, <2>2
  <2>3. CASE k \notin due
    BY <1>2, <2>1, <2>3
  <2>. QED  BY <2>2, <2>3
<1>9. Covers(E, c)
  BY <1>8 DEF Covers
<1>10. Accounts(m, c)
  BY <1>4, <1>7, <1>9 DEF Accounts
<1>. QED  BY <1>10 DEF m

\* What was recorded of a window without calls.
LEMMA RecordAccounts ==
    ASSUME NEW l, NEW c, NEW k, NEW outcome, Accounts(l, c), k \notin DOMAIN c
    PROVE  Accounts(Record(l, k, outcome), c)
<1>. DEFINE e == [outcome |-> outcome, due |-> "later", attempts |-> 0]
            E == Put(l.entries, k, e)
            I == Without(l.issues, {k})
            m == Record(l, k, outcome)
<1>1. m = [l EXCEPT !.entries = E, !.issues = I] /\ LedgerShape(l)
  BY DEF Record, Accounts
<1>2. DOMAIN e = {"outcome", "due", "attempts"} /\ e.attempts \in Nat
  OBVIOUS
<1>. HIDE DEF e
<1>3. /\ DOMAIN E = DOMAIN l.entries \cup {k} /\ E[k] = e
      /\ \A x \in DOMAIN l.entries \ {k} : E[x] = l.entries[x]
      /\ DOMAIN I = DOMAIN l.issues \ {k} /\ \A x \in DOMAIN I : I[x] = l.issues[x]
  BY DEF Put, Over, Without, Restrict
<1>. HIDE DEF E, I, m
<1>4. LedgerShape(m) /\ m.issues = I /\ m.entries = E
  BY ONLY <1>1 DEF LedgerShape
<1>5. Books(E, I) /\ Covers(E, c)
  BY <1>2, <1>3 DEF Accounts, Books, Covers
<1>6. Accounts(m, c)
  BY <1>4, <1>5 DEF Accounts
<1>. QED  BY <1>6 DEF m

\* A failure is accounted for, whichever diagnostic is archived.
LEMMA IsolateAccounts ==
    ASSUME NEW l, NEW c, NEW k, NEW paid \in Nat, Accounts(l, c), NEW m \in IsolateJob(l, k, paid),
           NEW d, d = Put(c, k, paid + IF k \in DOMAIN c THEN c[k] ELSE 0)
    PROVE  Accounts(m, d)
<1>. DEFINE total == Attempts(l, k) + paid
            e == [outcome |-> "failed", due |-> "later", attempts |-> total]
            E == Put(l.entries, k, e)
            kept == Put(l.issues, k, total)
<1>1. PICK old : m = [l EXCEPT !.entries = E, !.issues = Without(kept, old)]
  BY DEF IsolateJob
<1>0. LedgerShape(l)
  BY DEF Accounts
<1>2. /\ \A x \in DOMAIN l.entries :
            DOMAIN l.entries[x] = {"outcome", "due", "attempts"} /\ l.entries[x].attempts \in Nat
      /\ \A x \in DOMAIN l.issues : l.issues[x] \in Nat
      /\ \A x \in DOMAIN l.issues \cap DOMAIN l.entries :
            l.entries[x].outcome = "failed" /\ l.entries[x].attempts = l.issues[x]
      /\ \A x \in DOMAIN c :
            /\ x \in DOMAIN l.entries /\ l.entries[x].outcome = "failed"
            /\ c[x] \in Nat /\ c[x] <= l.entries[x].attempts
            /\ l.entries[x].due = "expired" => c[x] >= MaxAttempts
  BY DEF Accounts, Books, Covers
<1>3. Attempts(l, k) \in Nat /\ (k \in DOMAIN l.entries => l.entries[k].attempts <= Attempts(l, k))
  <2>. DEFINE entry == IF k \in DOMAIN l.entries THEN l.entries[k].attempts ELSE 0
              issue == IF k \in DOMAIN l.issues THEN l.issues[k] ELSE 0
  <2>1. entry \in Nat /\ issue \in Nat /\ (k \in DOMAIN l.entries => entry = l.entries[k].attempts)
    BY <1>2
  <2>2. Attempts(l, k) = IF entry > issue THEN entry ELSE issue
    BY DEF Attempts
  <2>. HIDE DEF entry, issue
  <2>. QED  BY <2>1, <2>2
<1>4. DOMAIN e = {"outcome", "due", "attempts"} /\ e.attempts = total /\ e.outcome = "failed" /\ e.due = "later"
  OBVIOUS
<1>5. total \in Nat /\ Attempts(l, k) + paid = total
  BY <1>3
<1>. HIDE DEF total, e
<1>6. /\ DOMAIN E = DOMAIN l.entries \cup {k} /\ E[k] = e
      /\ \A x \in DOMAIN l.entries \ {k} : E[x] = l.entries[x]
  BY DEF Put, Over
<1>7. /\ DOMAIN Without(kept, old) \subseteq DOMAIN l.issues \cup {k}
      /\ \A x \in DOMAIN Without(kept, old) :
            Without(kept, old)[x] = IF x = k THEN total ELSE l.issues[x]
  <2>1. /\ DOMAIN kept = DOMAIN l.issues \cup {k} /\ kept[k] = total
        /\ \A x \in DOMAIN l.issues \ {k} : kept[x] = l.issues[x]
    BY DEF Put, Over
  <2>. HIDE DEF kept
  <2>. QED  BY <2>1 DEF Without, Restrict
<1>. DEFINE I == Without(kept, old)
<1>. HIDE DEF E, I
<1>8. LedgerShape(m) /\ m.issues = I /\ m.entries = E
  <2>1. m = [l EXCEPT !.entries = E, !.issues = I]
    BY <1>1 DEF I
  <2>. QED  BY ONLY <1>0, <2>1 DEF LedgerShape
<1>9. Books(E, I)
  BY <1>2, <1>4, <1>5, <1>6, <1>7 DEF Books, I
<1>10. /\ DOMAIN d = DOMAIN c \cup {k} /\ d[k] = paid + IF k \in DOMAIN c THEN c[k] ELSE 0
       /\ \A x \in DOMAIN c \ {k} : d[x] = c[x]
  BY DEF Put, Over
<1>11. d[k] \in Nat /\ d[k] <= total
  <2>1. CASE k \in DOMAIN c
    <3>1. c[k] \in Nat /\ c[k] <= Attempts(l, k)
      BY <1>2, <1>3, <2>1
    <3>. QED  BY <1>3, <1>5, <1>10, <2>1, <3>1
  <2>2. CASE k \notin DOMAIN c
    BY <1>3, <1>5, <1>10, <2>2
  <2>. QED  BY <2>1, <2>2
<1>12. Covers(E, d)
  <2>. SUFFICES ASSUME NEW x \in DOMAIN d
                PROVE  /\ x \in DOMAIN E /\ E[x].outcome = "failed"
                       /\ d[x] \in Nat /\ d[x] <= E[x].attempts
                       /\ E[x].due = "expired" => d[x] >= MaxAttempts
    BY DEF Covers
  <2>1. CASE x = k
    BY <1>4, <1>6, <1>11, <2>1
  <2>2. CASE x # k
    BY <1>2, <1>6, <1>10, <2>2
  <2>. QED  BY <2>1, <2>2
<1>. QED  BY <1>8, <1>9, <1>12 DEF Accounts

LEMMA EntryTurned ==
    ASSUME NEW e, DOMAIN e = {"outcome", "due", "attempts"}, NEW from, NEW to
    PROVE  LET f == Turned(e, from, to)
           IN  /\ DOMAIN f = DOMAIN e /\ f.outcome = e.outcome /\ f.attempts = e.attempts
               /\ f.due = IF e.due = from THEN to ELSE e.due
<1>1. CASE e.due = from
  <2>1. Turned(e, from, to) = [e EXCEPT !.due = to]
    BY <1>1 DEF Turned
  <2>. QED  BY <1>1, <2>1
<1>2. CASE e.due # from
  BY <1>2 DEF Turned
<1>. QED  BY <1>1, <1>2

\* Entries of which only the time that they are due changed.
Aged(E, F) ==
    /\ DOMAIN F = DOMAIN E
    /\ \A k \in DOMAIN F : DOMAIN F[k] = DOMAIN E[k] /\ F[k].outcome = E[k].outcome /\ F[k].attempts = E[k].attempts

LEMMA AgedAccounts ==
    ASSUME NEW l, NEW c, NEW d, Accounts(l, c), Fewer(d, c), NEW m, LedgerShape(m), m.issues = l.issues,
           Aged(l.entries, m.entries),
           \A k \in DOMAIN d : m.entries[k].due = "expired" => l.entries[k].due = "expired" \/ d[k] >= MaxAttempts
    PROVE  Accounts(m, d)
<1>1. Books(m.entries, m.issues)
  BY DEF Accounts, Books, Aged
<1>2. Covers(l.entries, d)
  BY FewerCovered DEF Accounts
<1>3. Covers(m.entries, d)
  BY <1>2 DEF Covers, Aged
<1>. QED  BY <1>1, <1>3 DEF Accounts

\* Time brings a failed window back, and ends the retention of its entry.
LEMMA PassedAccounts ==
    ASSUME NEW l, NEW c, NEW d, Accounts(l, c), Fewer(d, c), NEW what \in {"quiet", "wait", "retention"},
           what = "retention" => \A k \in DOMAIN d : d[k] >= MaxAttempts
    PROVE  /\ Accounts(Passed(l, what), d)
           /\ \A k : ~Exhausted(l, k) => ~Exhausted(Passed(l, what), k)
<1>. DEFINE m == Passed(l, what)
<1>1. LedgerShape(l) /\ \A k \in DOMAIN l.entries : DOMAIN l.entries[k] = {"outcome", "due", "attempts"}
  BY DEF Accounts, Books
<1>2. CASE what = "retention"
  <2>. DEFINE F == [k \in DOMAIN l.entries |-> Turned(l.entries[k], "due", "expired")]
  <2>1. m = [l EXCEPT !.entries = F]
    BY <1>2 DEF Passed
  <2>2. Aged(l.entries, F)
    BY <1>1, EntryTurned DEF Aged
  <2>. HIDE DEF F, m
  <2>3. LedgerShape(m) /\ m.entries = F /\ m.issues = l.issues
    BY ONLY <1>1, <2>1 DEF LedgerShape
  <2>4. Accounts(m, d)
    BY <1>2, <2>2, <2>3, AgedAccounts
  <2>5. \A k : ~Exhausted(l, k) => ~Exhausted(m, k)
    BY <2>2, <2>3 DEF Exhausted, Aged
  <2>. QED  BY <2>4, <2>5 DEF m
<1>3. CASE what = "quiet"
  <2>. DEFINE F == [k \in DOMAIN l.entries |-> Turned(l.entries[k], "later", "due")]
  <2>1. PICK x : m = [l EXCEPT !.dirty = x, !.entries = F, !.delayed = FALSE]
    BY <1>3 DEF Passed
  <2>2. Aged(l.entries, F)
    BY <1>1, EntryTurned DEF Aged
  <2>3. \A k \in DOMAIN l.entries : F[k].due = "expired" => l.entries[k].due = "expired"
    <3>. SUFFICES ASSUME NEW k \in DOMAIN l.entries, F[k].due = "expired"
                  PROVE  l.entries[k].due = "expired"
      OBVIOUS
    <3>1. F[k].due = IF l.entries[k].due = "later" THEN "due" ELSE l.entries[k].due
      BY <1>1, EntryTurned
    <3>. QED  BY <3>1
  <2>. HIDE DEF F, m
  <2>4. LedgerShape(m) /\ m.entries = F /\ m.issues = l.issues
    BY ONLY <1>1, <2>1 DEF LedgerShape
  <2>5. \A k \in DOMAIN d : k \in DOMAIN l.entries
    BY DEF Accounts, Covers, Fewer
  <2>6. Accounts(m, d)
    BY <2>2, <2>3, <2>4, <2>5, AgedAccounts
  <2>7. \A k : ~Exhausted(l, k) => ~Exhausted(m, k)
    BY <2>2, <2>4 DEF Exhausted, Aged
  <2>. QED  BY <2>6, <2>7 DEF m
<1>4. CASE what = "wait"
  <2>1. PICK x : m = [l EXCEPT !.dirty = x, !.reviewDue = PeriodicReview]
    BY <1>4 DEF Passed
  <2>. HIDE DEF m
  <2>2. LedgerShape(m) /\ m.entries = l.entries /\ m.issues = l.issues
    BY ONLY <1>1, <2>1 DEF LedgerShape
  <2>3. Accounts(m, d)
    BY <2>2, FewerAccounts, SameBooksAccount DEF SameBooks
  <2>4. \A k : ~Exhausted(l, k) => ~Exhausted(m, k)
    BY <2>2 DEF Exhausted
  <2>. QED  BY <2>3, <2>4 DEF m
<1>. QED  BY <1>2, <1>3, <1>4

LEMMA ScheduledAccounts ==
    ASSUME NEW l, NEW c, Accounts(l, c), NEW jobs, NEW periodic, NEW m \in Scheduled(l, jobs, periodic)
    PROVE  Accounts(m, c)
<1>1. PICK x, y : m = Saved([l EXCEPT !.delayed = x, !.reviewDue = y])
  BY DEF Scheduled
<1>2. SameBooks(l, [l EXCEPT !.delayed = x, !.reviewDue = y])
  BY PagesChange DEF Accounts
<1>3. Accounts([l EXCEPT !.delayed = x, !.reviewDue = y], c)
  BY <1>2, SameBooksAccount
<1>. QED  BY <1>1, <1>3, SavedAccounts

-----------------------------------------------------------------------------
(* The steps                                                               *)

LEMMA FewerBounded ==
    ASSUME FailedCallsBounded, Fewer(calls', calls)
    PROVE  FailedCallsBounded'
BY DEF FailedCallsBounded, Fewer

LEMMA FewerLong ==
    ASSUME CycleFits, Fewer(calls', calls)
    PROVE  \A k \in DOMAIN calls' : k.kind # "long_update"
BY DEF CycleFits, Fewer

\* A step that forgets calls at most, and ends outside of a call, or leaves its own alone.
LEMMA PaidStep ==
    ASSUME PaidInv, Fewer(calls', calls), Accounts(memory', calls'), Accounts(disk', calls'),
           \/ "stage" \in DOMAIN cycle' /\ cycle'.stage # "calling"
           \/ cycle' = cycle /\ \A k : ~Exhausted(memory, k) => ~Exhausted(memory', k)
    PROVE  PaidInv'
<1>1. FailedCallsBounded'
  BY FewerBounded DEF PaidInv
<1>2. CycleFits'
  BY FewerLong DEF PaidInv, CycleFits, Exhausted
<1>. QED  BY <1>1, <1>2 DEF PaidInv, Accounts, Books, Covers, LedgerShape

LEMMA FewerSelf == \A c : Fewer(c, c)
BY DEF Fewer

LEMMA BooksStand ==
    ASSUME PaidInv, Fewer(calls', calls), UNCHANGED <<memory, disk, cycle>>
    PROVE  PaidInv'
<1>1. Accounts(memory, calls') /\ Accounts(disk, calls')
  BY FewerAccounts DEF PaidInv
<1>. QED  BY <1>1, PaidStep

LEMMA CurrentCalls == Fewer(StillCounted, calls) /\ \A k \in DOMAIN StillCounted : Current(k, Heads)
BY DEF StillCounted, Fewer, Restrict

LEMMA StartCyclePaid ==
    ASSUME PaidInv, StartCycle
    PROVE  PaidInv'
<1>. DEFINE l == ObserveWrites(memory, Heads)
<1>1. memory' = Saved(l) /\ disk' = Saved(l) /\ calls' = StillCounted /\ cycle' = [stage |-> "reviews", heads |-> Heads]
  BY DEF StartCycle
<1>2. Fewer(calls', calls) /\ \A k \in DOMAIN calls' : Current(k, Heads)
  BY <1>1, CurrentCalls
<1>3. Accounts(memory, calls')
  BY <1>2, FewerAccounts DEF PaidInv
<1>4. Accounts(l, calls')
  BY <1>2, <1>3, ObserveAccounts
<1>. HIDE DEF l
<1>5. Accounts(Saved(l), calls')
  BY <1>4, SavedAccounts
<1>. QED  BY <1>1, <1>2, <1>5, PaidStep

LEMMA FinishCyclePaid ==
    ASSUME PaidInv, FinishCycle
    PROVE  PaidInv'
<1>. DEFINE o == ObserveWrites(memory, Heads)
            r == ReconcileJobIssues(o, Heads)
            l == DeferUnselectedJobIssues(r)
            f == FinishDiscoveryPass(l, cycle.expected, Heads, cycle.jobs - cycle.before, cycle.jobs < MaxJobs)
<1>1. calls' = StillCounted /\ cycle' = Idle
  BY DEF FinishCycle
<1>2. PICK s \in Scheduled(f, cycle.jobs, cycle.periodic) : memory' = s /\ disk' = s
  BY DEF FinishCycle
<1>3. Fewer(calls', calls) /\ \A k \in DOMAIN calls' : Current(k, Heads)
  BY <1>1, CurrentCalls
<1>4. Accounts(memory, calls')
  BY <1>3, FewerAccounts DEF PaidInv
<1>5. Accounts(o, calls')
  BY <1>3, <1>4, ObserveAccounts
<1>. HIDE DEF o
<1>6. Accounts(r, calls')
  BY <1>5, ReconcileAccounts
<1>. HIDE DEF r
<1>7. Accounts(l, calls')
  BY <1>6, DeferAccounts
<1>. HIDE DEF l
<1>8. \E x : f = [l EXCEPT !.dirty = x]
  BY DEF FinishDiscoveryPass
<1>. HIDE DEF f
<1>9. Accounts(f, calls')
  BY <1>7, <1>8, PagesChange, SameBooksAccount DEF Accounts
<1>10. Accounts(s, calls')
  BY <1>2, <1>9, ScheduledAccounts
<1>. QED  BY <1>1, <1>2, <1>3, <1>10, PaidStep DEF Idle

\* The window that failed was not exhausted.
LEMMA FailJobPaid ==
    ASSUME PaidInv, FailJob
    PROVE  PaidInv'
<1>. DEFINE k == cycle.key
            before == IF k \in DOMAIN calls THEN calls[k] ELSE 0
<1>1. PICK paid \in FailedCalls : /\ \E l \in IsolateJob(memory, k, paid) : JobDone(l)
                                 /\ calls' = Put(calls, k, paid + before)
  BY DEF FailJob
<1>2. PICK l \in IsolateJob(memory, k, paid) : JobDone(l)
  BY <1>1
<1>3. paid \in Nat
  BY LimitAssumption
<1>4. Accounts(l, calls')
  BY <1>1, <1>3, IsolateAccounts DEF PaidInv
<1>5. Accounts(Saved(l), calls')
  BY <1>4, SavedAccounts
<1>6. memory' = Saved(l) /\ disk' = Saved(l)
  BY <1>2 DEF JobDone
<1>7. k.kind # "long_update" /\ ~Exhausted(memory, k)
  BY DEF PaidInv, CycleFits, FailJob
<1>8. before \in Nat /\ before < MaxAttempts
  <2>1. CASE k \in DOMAIN calls
    <3>1. /\ k \in DOMAIN memory.entries /\ memory.entries[k].outcome = "failed"
          /\ calls[k] \in Nat /\ calls[k] <= memory.entries[k].attempts /\ memory.entries[k].attempts \in Nat
      BY <2>1 DEF PaidInv, Accounts, Covers, Books
    <3>2. ~(memory.entries[k].attempts >= MaxAttempts)
      BY <1>7, <3>1 DEF Exhausted
    <3>. QED  BY <2>1, <3>1, <3>2, LimitAssumption
  <2>2. CASE k \notin DOMAIN calls
    BY <2>2, LimitAssumption
  <2>. QED  BY <2>1, <2>2
<1>9. /\ DOMAIN calls' = DOMAIN calls \cup {k} /\ calls'[k] = paid + before
      /\ \A x \in DOMAIN calls \ {k} : calls'[x] = calls[x]
  BY <1>1 DEF Put, Over
<1>. HIDE DEF k, before
<1>10. FailedCallsBounded'
  <2>1. paid + before < MaxAttempts + paid
    BY <1>3, <1>8, LimitAssumption
  <2>. QED  BY <1>9, <2>1 DEF PaidInv, FailedCallsBounded
<1>11. CycleFits'
  <2>1. "stage" \in DOMAIN cycle' /\ cycle'.stage # "calling"
    BY <1>2 DEF JobDone, PaidInv, CycleFits, Without, Restrict
  <2>2. \A x \in DOMAIN calls' : x.kind # "long_update"
    BY <1>7, <1>9 DEF PaidInv, CycleFits
  <2>. QED  BY <2>1, <2>2 DEF CycleFits
<1>. QED  BY <1>5, <1>6, <1>10, <1>11 DEF PaidInv, Accounts, Books, Covers, LedgerShape

LEMMA FinishJobPaid ==
    ASSUME PaidInv, FinishJob
    PROVE  PaidInv'
<1>. DEFINE k == cycle.key
<1>1. PICK l : /\ JobDone(l)
               /\ \/ \E outcome : l = Record(memory, k, outcome)
                  \/ l = [memory EXCEPT !.issues = Without(@, {k})]
  BY DEF FinishJob
<1>2. calls' = Without(calls, {k})
  BY DEF FinishJob
<1>3. Fewer(calls', calls) /\ k \notin DOMAIN calls'
  BY <1>2 DEF Fewer, Without, Restrict
<1>4. Accounts(memory, calls')
  BY <1>3, FewerAccounts DEF PaidInv
<1>5. Accounts(l, calls')
  BY <1>1, <1>3, <1>4, RecordAccounts, DropIssues
<1>6. Accounts(Saved(l), calls')
  BY <1>5, SavedAccounts
<1>7. memory' = Saved(l) /\ disk' = Saved(l) /\ "stage" \in DOMAIN cycle' /\ cycle'.stage # "calling"
  BY <1>1 DEF JobDone, PaidInv, CycleFits, Without, Restrict
<1>. QED  BY <1>3, <1>6, <1>7, PaidStep

LEMMA SelectWindowPaid ==
    ASSUME PaidInv, SelectWindow
    PROVE  PaidInv'
<1>1. PICK w \in Selectable : /\ w.kind # "long_update"
                              /\ cycle' = Put([cycle EXCEPT !.stage = "calling"], "key", Key(w, Heads))
  BY DEF SelectWindow
<1>2. UNCHANGED <<memory, disk, calls>>
  BY DEF SelectWindow
<1>3. cycle'.key = Key(w, Heads) /\ "stage" \in DOMAIN cycle'
  BY <1>1 DEF Put, Over, PaidInv, CycleFits
<1>4. ~Exhausted(memory, Key(w, Heads))
  BY DEF Selectable, Candidates, Eligible
<1>5. Key(w, Heads).kind = w.kind
  BY DEF Key
<1>6. CycleFits'
  BY <1>1, <1>2, <1>3, <1>4, <1>5 DEF PaidInv, CycleFits, Exhausted
<1>. QED  BY <1>2, <1>6 DEF PaidInv, FailedCallsBounded, Accounts, Books, Covers, LedgerShape

LEMMA SkipUpdatePaid ==
    ASSUME PaidInv, SkipUpdate
    PROVE  PaidInv'
<1>1. PICK w : w.kind = "long_update" /\ memory' = Record(memory, Key(w, Heads), "cooling")
  BY DEF SkipUpdate
<1>2. Key(w, Heads).kind = "long_update"
  BY <1>1 DEF Key
<1>3. Key(w, Heads) \notin DOMAIN calls
  BY <1>2 DEF PaidInv, CycleFits
<1>4. Accounts(memory', calls)
  BY <1>1, <1>3, RecordAccounts DEF PaidInv
<1>5. disk' = disk /\ calls' = calls /\ "stage" \in DOMAIN cycle' /\ cycle'.stage # "calling"
  BY DEF SkipUpdate, Selecting, PaidInv, CycleFits
<1>. QED  BY <1>4, <1>5, FewerSelf, PaidStep DEF PaidInv

LEMMA TimePaid ==
    ASSUME PaidInv, NEW what \in {"quiet", "wait", "retention"}, TimePasses(what)
    PROVE  PaidInv'
<1>1. /\ memory' = Passed(memory, what) /\ disk' = Passed(disk, what) /\ cycle' = cycle
      /\ calls' = IF what = "retention"
                  THEN Restrict(calls, {k \in DOMAIN calls : calls[k] >= MaxAttempts}) ELSE calls
  BY DEF TimePasses
<1>2. Fewer(calls', calls) /\ (what = "retention" => \A k \in DOMAIN calls' : calls'[k] >= MaxAttempts)
  BY <1>1 DEF Fewer, Restrict
<1>3. /\ Accounts(memory', calls') /\ Accounts(disk', calls')
      /\ \A k : ~Exhausted(memory, k) => ~Exhausted(memory', k)
  BY <1>1, <1>2, PassedAccounts DEF PaidInv
<1>. QED  BY <1>1, <1>2, <1>3, PaidStep

LEMMA NextPaid ==
    ASSUME PaidInv, [Next]_vars
    PROVE  PaidInv'
<1>1. ASSUME NEW p \in Pages, WritePage(p) \/ WithdrawPage(p) \/ RestorePage(p)
      PROVE  PaidInv'
  <2>1. UNCHANGED <<memory, disk, cycle>>
    BY <1>1 DEF WritePage, WithdrawPage, RestorePage, Change
  <2>2. Fewer(calls', calls)
    BY <1>1 DEF WritePage, WithdrawPage, RestorePage, Fewer, Without, Restrict
  <2>. QED  BY <2>1, <2>2, BooksStand
<1>2. ASSUME NEW kind, QueueFills(kind) \/ QueueDrains(kind)
      PROVE  PaidInv'
  BY <1>2, FewerSelf, BooksStand DEF QueueFills, QueueDrains
<1>3. ASSUME FailCycle
      PROVE  PaidInv'
  BY <1>3, SavedAccounts, FewerSelf, PaidStep DEF FailCycle, PaidInv, Idle
<1>4. ASSUME Crash
      PROVE  PaidInv'
  BY <1>4, FewerSelf, PaidStep DEF Crash, PaidInv, Idle
<1>5. ASSUME ReviewBacklog
      PROVE  PaidInv'
  <2>1. memory' = memory \/ memory' = ReconcileJobIssues(memory, cycle.heads)
    BY <1>5 DEF ReviewBacklog
  <2>2. disk' = disk /\ calls' = calls /\ "stage" \in DOMAIN cycle' /\ cycle'.stage # "calling"
    BY <1>5 DEF ReviewBacklog
  <2>3. Accounts(memory', calls)
    BY <2>1, ReconcileAccounts DEF PaidInv
  <2>. QED  BY <2>2, <2>3, FewerSelf, PaidStep DEF PaidInv
<1>6. ASSUME NoWindow
      PROVE  PaidInv'
  <2>1. UNCHANGED <<memory, disk, calls>> /\ "stage" \in DOMAIN cycle' /\ cycle'.stage # "calling"
    BY <1>6 DEF NoWindow, PaidInv, CycleFits
  <2>. QED  BY <2>1, FewerSelf, PaidStep DEF PaidInv
<1>7. ASSUME EndCycle
      PROVE  PaidInv'
  <2>1. PICK l \in Scheduled(memory, cycle.jobs, cycle.periodic) : memory' = l /\ disk' = l
    BY <1>7 DEF EndCycle
  <2>2. Accounts(l, calls) /\ calls' = calls /\ cycle' = Idle
    BY <1>7, ScheduledAccounts DEF EndCycle, PaidInv
  <2>. QED  BY <2>1, <2>2, FewerSelf, PaidStep DEF Idle
<1>8. CASE UNCHANGED vars
  BY <1>8, FewerSelf, BooksStand DEF vars
<1>9. CASE Environment
  BY <1>9, <1>1, <1>2, <1>3, <1>4 DEF Environment
<1>10. CASE Maintainer
  BY <1>10, <1>5, <1>6, <1>7, StartCyclePaid, SelectWindowPaid, SkipUpdatePaid, FinishJobPaid, FailJobPaid,
     FinishCyclePaid DEF Maintainer
<1>. QED  BY <1>8, <1>9, <1>10, TimePaid DEF Next

\* A window whose model calls fail is paid for a bounded number of times (ledger.rs,
\* isolate_job, job_is_exhausted and the retention of entries): however often it
\* is deferred, its diagnostic is archived, the process dies, or the file is loaded
\* again, the calls for the same Revisions that the retention has not let go stay
\* below the limit and the calls of one more job.
THEOREM FailedCallsAreBounded == Spec => []FailedCallsBounded
<1>1. Init => PaidInv
  BY DEF Init, PaidInv, Accounts, Books, Covers, LedgerShape, NewLedger, Empty, CycleFits, Idle, FailedCallsBounded
<1>2. PaidInv => FailedCallsBounded
  BY DEF PaidInv
<1>. QED  BY <1>1, <1>2, NextPaid, PTL DEF Spec

-----------------------------------------------------------------------------
(* Types and bounds                                                        *)
(*                                                                         *)
(* A dirty region has marks of its own Pages and jobs left, and there are  *)
(* few diagnostics.  What else TypeOK says of a ledger follows from Tracks *)
(* and Accounts.                                                           *)

MarkOK(r, d) ==
    /\ MarkShape(d) /\ d.new \subseteq d.changed
    /\ \A p \in d.changed : Region[p] = r
    /\ d.jobs \in Int /\ d.jobs < MaxDiscoveryJobs
DirtyOK(dirty) == DOMAIN dirty \subseteq Regions /\ \A r \in DOMAIN dirty : MarkOK(r, dirty[r])

FewIssues(issues) == IsFiniteSet(DOMAIN issues) /\ Cardinality(DOMAIN issues) <= MaxIssues

InBounds(l) == LedgerShape(l) /\ DirtyOK(l.dirty) /\ FewIssues(l.issues)

\* Discovery knows how many jobs ran before it.
StageOK ==
    /\ "stage" \in DOMAIN cycle
    /\ cycle.stage \in {"idle", "reviews", "select", "calling", "finish", "done"}
    /\ cycle.stage \in {"select", "calling", "finish"} =>
          {"jobs", "before"} \subseteq DOMAIN cycle /\ cycle.jobs \in Int /\ cycle.before \in Int

BoundsInv ==
    /\ live \subseteq Pages /\ covered \subseteq Pages
    /\ changes \in 0 .. MaxChanges
    /\ rev \in [Pages -> Nat] /\ \A p \in Pages : rev[p] <= changes + 1
    /\ backlog \in 0 .. MaxBacklog /\ full \subseteq {w.kind : w \in Planned}
    /\ InBounds(memory) /\ InBounds(disk) /\ StageOK

\* The same dirty regions, and no other diagnostics.
NoMore(l, m) == LedgerShape(m) /\ m.dirty = l.dirty /\ DOMAIN m.issues \subseteq DOMAIN l.issues

LEMMA NoMoreInBounds ==
    ASSUME NEW l, NEW m, InBounds(l), NoMore(l, m)
    PROVE  InBounds(m)
<1>1. IsFiniteSet(DOMAIN m.issues) /\ Cardinality(DOMAIN m.issues) <= Cardinality(DOMAIN l.issues)
  BY FS_Subset DEF InBounds, FewIssues, NoMore
<1>2. Cardinality(DOMAIN m.issues) \in Nat /\ Cardinality(DOMAIN l.issues) \in Nat
  BY <1>1, FS_CardinalityType DEF InBounds, FewIssues
<1>3. FewIssues(m.issues)
  BY <1>1, <1>2, BoundsAssumption DEF InBounds, FewIssues
<1>. QED  BY <1>3 DEF InBounds, NoMore

LEMMA NoMoreAgain ==
    ASSUME NEW l, NEW m, NEW n, NoMore(l, m), NoMore(m, n)
    PROVE  NoMore(l, n)
BY DEF NoMore

LEMMA EntriesNoMore ==
    ASSUME NEW l, LedgerShape(l), NEW x
    PROVE  NoMore(l, [l EXCEPT !.entries = x])
BY DEF LedgerShape, NoMore

LEMMA IssuesNoMore ==
    ASSUME NEW l, LedgerShape(l), NEW S
    PROVE  NoMore(l, [l EXCEPT !.issues = Without(@, S)])
<1>. DEFINE I == Without(l.issues, S)
<1>1. DOMAIN I \subseteq DOMAIN l.issues
  BY DEF Without, Restrict
<1>. HIDE DEF I
<1>2. NoMore(l, [l EXCEPT !.issues = I])
  BY <1>1 DEF LedgerShape, NoMore
<1>. QED  BY <1>2 DEF I

LEMMA RecordNoMore ==
    ASSUME NEW l, LedgerShape(l), NEW k, NEW outcome
    PROVE  NoMore(l, Record(l, k, outcome))
<1>. DEFINE I == Without(l.issues, {k})
            E == Put(l.entries, k, [outcome |-> outcome, due |-> "later", attempts |-> 0])
<1>1. DOMAIN I \subseteq DOMAIN l.issues
  BY DEF Without, Restrict
<1>2. Record(l, k, outcome) = [l EXCEPT !.entries = E, !.issues = I]
  BY DEF Record
<1>. HIDE DEF I, E
<1>. QED  BY <1>1, <1>2 DEF LedgerShape, NoMore

LEMMA ReconcileNoMore ==
    ASSUME NEW l, LedgerShape(l), NEW heads
    PROVE  NoMore(l, ReconcileJobIssues(l, heads))
BY IssuesNoMore DEF ReconcileJobIssues

LEMMA DeferNoMore ==
    ASSUME NEW l, LedgerShape(l)
    PROVE  NoMore(l, DeferUnselectedJobIssues(l))
<1>1. \E x : DeferUnselectedJobIssues(l) = [l EXCEPT !.entries = x]
  BY DEF DeferUnselectedJobIssues
<1>. QED  BY <1>1, EntriesNoMore

LEMMA SavedNoMore ==
    ASSUME NEW l, LedgerShape(l)
    PROVE  NoMore(l, Saved(l))
BY EntriesNoMore DEF Saved

LEMMA ScheduledNoMore ==
    ASSUME NEW l, LedgerShape(l), NEW jobs, NEW periodic, NEW m \in Scheduled(l, jobs, periodic)
    PROVE  NoMore(l, m)
<1>1. PICK x, y : m = Saved([l EXCEPT !.delayed = x, !.reviewDue = y])
  BY DEF Scheduled
<1>2. NoMore(l, [l EXCEPT !.delayed = x, !.reviewDue = y])
  BY DEF LedgerShape, NoMore
<1>3. LedgerShape([l EXCEPT !.delayed = x, !.reviewDue = y])
  BY <1>2 DEF NoMore
<1>. QED  BY <1>1, <1>2, <1>3, SavedNoMore, NoMoreAgain

\* One diagnostic more, or one for another.
LEMMA IsolateInBounds ==
    ASSUME NEW l, InBounds(l), NEW k, NEW n, NEW m \in IsolateJob(l, k, n)
    PROVE  InBounds(m)
<1>. DEFINE kept == Put(l.issues, k, Attempts(l, k) + n)
            E == Put(l.entries, k, [outcome |-> "failed", due |-> "later", attempts |-> Attempts(l, k) + n])
<1>1. PICK old \in IF Cardinality(DOMAIN kept) <= MaxIssues THEN {{}} ELSE {{i} : i \in DOMAIN kept} :
         m = [l EXCEPT !.entries = E, !.issues = Without(kept, old)]
  BY DEF IsolateJob
<1>2. DOMAIN kept = DOMAIN l.issues \cup {k}
  BY DEF Put, Over
<1>. DEFINE I == Without(kept, old)
            K == DOMAIN kept
<1>3. DOMAIN I = K \ old
  BY DEF Without, Restrict
<1>4. LedgerShape(m) /\ m.issues = I /\ m.dirty = l.dirty
  <2>1. m = [l EXCEPT !.entries = E, !.issues = I] /\ LedgerShape(l)
    BY <1>1 DEF InBounds
  <2>. HIDE DEF E, I
  <2>. QED  BY ONLY <2>1 DEF LedgerShape
<1>5. IsFiniteSet(K) /\ Cardinality(K) \in Nat /\ Cardinality(K) <= MaxIssues + 1
  <2>1. /\ IsFiniteSet(DOMAIN l.issues) /\ Cardinality(DOMAIN l.issues) <= MaxIssues
        /\ Cardinality(DOMAIN l.issues) \in Nat
    BY FS_CardinalityType DEF InBounds, FewIssues
  <2>2. IsFiniteSet(K)
    BY <1>2, <2>1, FS_AddElement
  <2>3. Cardinality(K) = Cardinality(DOMAIN l.issues) \/ Cardinality(K) = Cardinality(DOMAIN l.issues) + 1
    BY <1>2, <2>1, FS_AddElement
  <2>. QED  BY <2>1, <2>2, <2>3, BoundsAssumption
<1>. HIDE DEF K, I
<1>6. FewIssues(I)
  <2>1. CASE Cardinality(K) <= MaxIssues
    <3>1. DOMAIN I = K
      BY <1>1, <1>3, <2>1 DEF K
    <3>. QED  BY <1>5, <2>1, <3>1 DEF FewIssues
  <2>2. CASE ~(Cardinality(K) <= MaxIssues)
    <3>1. PICK i \in K : DOMAIN I = K \ {i}
      BY <1>1, <1>3, <2>2 DEF K
    <3>2. IsFiniteSet(K \ {i}) /\ Cardinality(K \ {i}) = Cardinality(K) - 1
      BY <1>5, FS_RemoveElement
    <3>. QED  BY <1>5, <3>1, <3>2, BoundsAssumption DEF FewIssues
  <2>. QED  BY <2>1, <2>2
<1>. QED  BY <1>4, <1>6 DEF InBounds

\* What an observation marks is of the marked region, which has its jobs before it again.
LEMMA ObserveInBounds ==
    ASSUME live \subseteq Pages, NEW l, InBounds(l)
    PROVE  InBounds(ObserveWrites(l, Heads))
<1>. DEFINE heads == Heads
            m == ObserveWrites(l, heads)
            old == StillDirty(l, heads)
            changed == {p \in DOMAIN heads :
                           ~(p \in DOMAIN l.observed /\ l.observed[p] = heads[p])}
            new == changed \ DOMAIN l.observed
            touched == {Region[p] : p \in changed}
            before(r) == IF r \in DOMAIN old THEN old[r]
                         ELSE [new |-> {}, changed |-> {}, jobs |-> 0,
                               quiet |-> FALSE, waited |-> FALSE]
            here(r) == {p \in changed : Region[p] = r}
            marked(r) == [before(r) EXCEPT !.new = @ \cup (here(r) \cap new),
                                           !.changed = @ \cup here(r), !.jobs = 0, !.quiet = FALSE]
            dirty == IF l.observed = Empty THEN old ELSE Over([r \in touched |-> marked(r)], old)
<1>1. LedgerShape(m) /\ m.dirty = dirty /\ m.issues = l.issues
  <2>1. LedgerShape(l)
    BY DEF InBounds
  <2>2. PICK y, u : m = [l EXCEPT !.observed = heads, !.entries = y, !.dirty = dirty, !.delayed = u]
    BY DEF ObserveWrites
  <2>. HIDE DEF m, heads, dirty
  <2>. QED  BY ONLY <2>1, <2>2 DEF LedgerShape
<1>2. touched \subseteq Regions
  BY DEF Heads, Restrict, Regions
<1>3. ASSUME NEW r \in DOMAIN old
      PROVE  r \in DOMAIN l.dirty /\ MarkOK(r, old[r])
  <2>. DEFINE There == {p \in DOMAIN heads : Region[p] = r}
              d == l.dirty[r]
  <2>1. /\ r \in DOMAIN l.dirty
        /\ old[r] = [d EXCEPT !.new = @ \cap There, !.changed = @ \cap There]
    BY <1>3 DEF StillDirty
  <2>2. MarkOK(r, d)
    BY <2>1 DEF InBounds, DirtyOK
  <2>. HIDE DEF There, d, old
  <2>3. MarkShape(old[r]) /\ old[r].changed = d.changed \cap There /\ old[r].new = d.new \cap There /\ old[r].jobs = d.jobs
    BY ONLY <2>1, <2>2 DEF MarkShape, MarkOK
  <2>. QED  BY <2>1, <2>2, <2>3 DEF MarkOK
<1>. HIDE DEF m, old
<1>4. ASSUME NEW r \in touched
      PROVE  MarkOK(r, marked(r))
  <2>. DEFINE d == before(r)
              e == marked(r)
              h == here(r)
              n == d.new \cup (h \cap new)
              c == d.changed \cup h
  <2>1. MarkShape(d) /\ d.new \subseteq d.changed /\ \A p \in d.changed : Region[p] = r
    BY <1>3 DEF MarkOK, MarkShape
  <2>2. e = [d EXCEPT !.new = n, !.changed = c, !.jobs = 0, !.quiet = FALSE]
    OBVIOUS
  <2>3. n \subseteq c /\ \A p \in c : Region[p] = r
    BY <2>1
  <2>. HIDE DEF d, e, n, c
  <2>4. MarkShape(e) /\ e.changed = c /\ e.new = n /\ e.jobs = 0
    BY ONLY <2>1, <2>2 DEF MarkShape
  <2>5. MarkOK(r, e)
    BY <2>3, <2>4, BoundsAssumption DEF MarkOK
  <2>. QED  BY <2>5 DEF e
<1>5. l.observed # Empty => /\ DOMAIN dirty = touched \cup DOMAIN old
                            /\ \A r \in touched : dirty[r] = marked(r)
                            /\ \A r \in DOMAIN old \ touched : dirty[r] = old[r]
  <2>. HIDE DEF marked, touched
  <2>. QED  BY DEF Over
<1>6. l.observed = Empty => dirty = old
  OBVIOUS
<1>. HIDE DEF dirty, marked, touched
<1>7. DirtyOK(dirty)
  <2>1. CASE l.observed = Empty
    BY <1>3, <1>6, <2>1 DEF InBounds, DirtyOK
  <2>2. CASE l.observed # Empty
    BY <1>2, <1>3, <1>4, <1>5, <2>2 DEF InBounds, DirtyOK
  <2>. QED  BY <2>1, <2>2
<1>8. InBounds(m)
  BY <1>1, <1>7 DEF InBounds
<1>. QED  BY <1>8 DEF m

\* Jobs are only counted where the pass goes on, hence some are left.
LEMMA FinishInBounds ==
    ASSUME NEW l, InBounds(l), NEW expected, NEW jobs \in Int, NEW exhausted \in BOOLEAN
    PROVE  InBounds(FinishDiscoveryPass(l, expected, Heads, jobs, exhausted))
<1>. DEFINE ended == PassEnded(l, expected, Heads, jobs, exhausted)
            kept == Without(l.dirty, ended)
            same == {r \in DOMAIN expected \cap {Region[p] : p \in DOMAIN Heads} :
                        r \in Unchanged(expected, Heads)}
            dirty == [r \in DOMAIN kept |->
                         IF r \in same THEN [kept[r] EXCEPT !.jobs = kept[r].jobs + jobs] ELSE kept[r]]
            m == FinishDiscoveryPass(l, expected, Heads, jobs, exhausted)
<1>1. m = [l EXCEPT !.dirty = dirty]
  BY DEF FinishDiscoveryPass
<1>2. LedgerShape(l)
  BY DEF InBounds
<1>3. DOMAIN kept = DOMAIN l.dirty \ ended /\ \A r \in DOMAIN kept : kept[r] = l.dirty[r]
  BY DEF Without, Restrict
<1>. HIDE DEF kept
<1>4. ASSUME NEW r \in DOMAIN dirty
      PROVE  MarkOK(r, dirty[r])
  <2>. DEFINE d == l.dirty[r]
              n == d.jobs + jobs
  <2>1. MarkOK(r, d) /\ r \in DOMAIN l.dirty /\ r \notin ended
    BY <1>3 DEF InBounds, DirtyOK
  <2>2. CASE r \in same
    <3>1. ~(n >= MaxDiscoveryJobs)
      BY <2>1, <2>2 DEF PassEnded
    <3>2. n \in Int /\ n < MaxDiscoveryJobs
      BY <2>1, <3>1, BoundsAssumption DEF MarkOK
    <3>3. dirty[r] = [d EXCEPT !.jobs = n]
      BY <1>3, <2>2
    <3>. DEFINE e == dirty[r]
    <3>. HIDE DEF d, e, n, dirty
    <3>4. MarkShape(e) /\ e.changed = d.changed /\ e.new = d.new /\ e.jobs = n
      BY <2>1, <3>3 DEF MarkShape, MarkOK, e
    <3>5. MarkOK(r, e)
      BY <2>1, <3>2, <3>4 DEF MarkOK
    <3>. QED  BY <3>5 DEF e
  <2>3. CASE r \notin same
    BY <1>3, <2>1, <2>3
  <2>. QED  BY <2>2, <2>3
<1>5. DOMAIN dirty \subseteq Regions
  BY <1>3 DEF InBounds, DirtyOK
<1>. HIDE DEF m, dirty
<1>6. LedgerShape(m) /\ m.dirty = dirty /\ m.issues = l.issues
  BY ONLY <1>1, <1>2 DEF LedgerShape
<1>7. InBounds(m)
  BY <1>4, <1>5, <1>6 DEF InBounds, DirtyOK
<1>. QED  BY <1>7 DEF m

\* Time only says of a region that it is quiet, or has waited.
LEMMA PassedInBounds ==
    ASSUME NEW l, InBounds(l), NEW what \in {"quiet", "wait", "retention"}
    PROVE  InBounds(Passed(l, what))
<1>. DEFINE m == Passed(l, what)
<1>0. LedgerShape(l)
  BY DEF InBounds
<1>1. CASE what = "retention"
  <2>1. PICK x : m = [l EXCEPT !.entries = x]
    BY <1>1 DEF Passed
  <2>2. NoMore(l, m)
    BY <1>0, <2>1, EntriesNoMore
  <2>. QED  BY <2>2, NoMoreInBounds
<1>2. ASSUME NEW dirty, DOMAIN dirty = DOMAIN l.dirty, LedgerShape(m), m.dirty = dirty, m.issues = l.issues,
             \A r \in DOMAIN dirty : \/ dirty[r] = [l.dirty[r] EXCEPT !.quiet = TRUE]
                                     \/ dirty[r] = [l.dirty[r] EXCEPT !.quiet = TRUE, !.waited = TRUE]
      PROVE  InBounds(m)
  <2>1. ASSUME NEW r \in DOMAIN dirty
        PROVE  MarkOK(r, dirty[r])
    <3>. DEFINE d == l.dirty[r]
                e == dirty[r]
    <3>1. MarkOK(r, d) /\ (e = [d EXCEPT !.quiet = TRUE] \/ e = [d EXCEPT !.quiet = TRUE, !.waited = TRUE])
      BY <1>2 DEF InBounds, DirtyOK
    <3>. HIDE DEF d, e
    <3>2. MarkOK(r, e)
      BY ONLY <3>1 DEF MarkOK, MarkShape
    <3>. QED  BY <3>2 DEF e
  <2>. QED  BY <1>2, <2>1 DEF InBounds, DirtyOK
<1>3. CASE what = "quiet"
  <2>. DEFINE dirty == [r \in DOMAIN l.dirty |-> [l.dirty[r] EXCEPT !.quiet = TRUE]]
  <2>1. PICK x : m = [l EXCEPT !.dirty = dirty, !.entries = x, !.delayed = FALSE]
    BY <1>3 DEF Passed
  <2>2. DOMAIN dirty = DOMAIN l.dirty /\ \A r \in DOMAIN dirty : dirty[r] = [l.dirty[r] EXCEPT !.quiet = TRUE]
    OBVIOUS
  <2>. HIDE DEF m, dirty
  <2>3. LedgerShape(m) /\ m.dirty = dirty /\ m.issues = l.issues
    BY ONLY <1>0, <2>1 DEF LedgerShape
  <2>4. InBounds(m)
    BY <1>2, <2>2, <2>3 DEF m
  <2>. QED  BY <2>4 DEF m
<1>4. CASE what = "wait"
  <2>. DEFINE dirty == [r \in DOMAIN l.dirty |-> [l.dirty[r] EXCEPT !.quiet = TRUE, !.waited = TRUE]]
  <2>1. m = [l EXCEPT !.dirty = dirty, !.reviewDue = PeriodicReview]
    BY <1>4 DEF Passed
  <2>2. /\ DOMAIN dirty = DOMAIN l.dirty
        /\ \A r \in DOMAIN dirty : dirty[r] = [l.dirty[r] EXCEPT !.quiet = TRUE, !.waited = TRUE]
    OBVIOUS
  <2>. HIDE DEF m, dirty
  <2>3. LedgerShape(m) /\ m.dirty = dirty /\ m.issues = l.issues
    BY ONLY <1>0, <2>1 DEF LedgerShape
  <2>4. InBounds(m)
    BY <1>2, <2>2, <2>3 DEF m
  <2>. QED  BY <2>4 DEF m
<1>. QED  BY <1>1, <1>3, <1>4

LEMMA InitBounds == Init => BoundsInv
<1>. SUFFICES ASSUME Init
              PROVE  BoundsInv
  OBVIOUS
<1>1. ASSUME NEW p \in Pages
      PROVE  Cardinality({p} \cap live) \in {0, 1}
  <2>1. {p} \cap live = {p} \/ {p} \cap live = {}
    OBVIOUS
  <2>2. Cardinality({p}) = 1 /\ Cardinality({}) = 0
    BY FS_Singleton, FS_EmptySet
  <2>3. CASE {p} \cap live = {p}
    BY <2>2, <2>3
  <2>4. CASE {p} \cap live = {}
    BY <2>2, <2>4
  <2>. QED  BY <2>1, <2>3, <2>4
<1>2. /\ live \subseteq Pages /\ covered \subseteq Pages /\ changes = 0 /\ backlog = MaxBacklog /\ full = {}
      /\ rev = [p \in Pages |-> Cardinality({p} \cap live)]
  BY DEF Init
<1>3. rev \in [Pages -> Nat] /\ \A p \in Pages : rev[p] <= changes + 1
  BY <1>1, <1>2
<1>4. InBounds(NewLedger)
  <2>1. DirtyOK(NewLedger.dirty)
    BY DEF DirtyOK, NewLedger, Empty
  <2>2. DOMAIN NewLedger.issues = {}
    BY DEF NewLedger, Empty
  <2>3. FewIssues(NewLedger.issues)
    BY <2>2, FS_EmptySet, BoundsAssumption DEF FewIssues
  <2>. QED  BY <2>1, <2>3 DEF InBounds, LedgerShape, NewLedger
<1>5. memory = NewLedger /\ disk = NewLedger /\ cycle = Idle
  BY DEF Init
<1>6. StageOK
  BY <1>5 DEF StageOK, Idle
<1>. QED  BY <1>2, <1>3, <1>4, <1>5, <1>6, BoundsAssumption DEF BoundsInv

\* A step of the maintainer that replaces the ledgers by ledgers in bounds.
LEMMA LedgersInBounds ==
    ASSUME BoundsInv, UNCHANGED store, InBounds(memory'), InBounds(disk'), StageOK',
           covered' \subseteq Pages, full' \subseteq {w.kind : w \in Planned}, backlog' \in 0 .. MaxBacklog
    PROVE  BoundsInv'
<1>1. live' = live /\ rev' = rev /\ changes' = changes
  BY DEF store
<1>. QED  BY <1>1 DEF BoundsInv, InBounds, DirtyOK, MarkOK, FewIssues, LedgerShape, MarkShape, Regions

LEMMA FinishCycleInBounds ==
    ASSUME BoundsInv, FinishCycle
    PROVE  BoundsInv'
<1>. DEFINE o == ObserveWrites(memory, Heads)
            r == ReconcileJobIssues(o, Heads)
            l == DeferUnselectedJobIssues(r)
            jobs == cycle.jobs - cycle.before
            exhausted == cycle.jobs < MaxJobs
            f == FinishDiscoveryPass(l, cycle.expected, Heads, jobs, exhausted)
<1>1. PICK s \in Scheduled(f, cycle.jobs, cycle.periodic) : memory' = s /\ disk' = s
  BY DEF FinishCycle
<1>2. cycle' = Idle /\ UNCHANGED store /\ UNCHANGED <<backlog, full>>
  BY DEF FinishCycle
<1>3. covered' \subseteq Pages
  BY DEF FinishCycle, BoundsInv, TakenAsGiven
<1>4. jobs \in Int /\ exhausted \in BOOLEAN
  BY DEF FinishCycle, BoundsInv, StageOK
<1>5. InBounds(o)
  BY ObserveInBounds DEF BoundsInv
<1>. HIDE DEF o
<1>6. InBounds(r)
  BY <1>5, ReconcileNoMore, NoMoreInBounds DEF InBounds
<1>. HIDE DEF r
<1>7. InBounds(l)
  BY <1>6, DeferNoMore, NoMoreInBounds DEF InBounds
<1>. HIDE DEF l, jobs, exhausted
<1>8. InBounds(f)
  BY <1>4, <1>7, FinishInBounds
<1>. HIDE DEF f
<1>9. InBounds(s)
  BY <1>1, <1>8, ScheduledNoMore, NoMoreInBounds DEF InBounds
<1>10. StageOK'
  BY <1>2 DEF StageOK, Idle
<1>. QED  BY <1>1, <1>2, <1>3, <1>9, <1>10, LedgersInBounds DEF BoundsInv

LEMMA NextInBounds ==
    ASSUME BoundsInv, [Next]_vars
    PROVE  BoundsInv'
<1>0. /\ LedgerShape(memory) /\ LedgerShape(disk) /\ InBounds(memory) /\ InBounds(disk)
      /\ covered \subseteq Pages /\ full \subseteq {w.kind : w \in Planned} /\ backlog \in 0 .. MaxBacklog
      /\ live \subseteq Pages /\ StageOK
  BY DEF BoundsInv, InBounds
<1>1. ASSUME NEW p \in Pages, WritePage(p) \/ WithdrawPage(p) \/ RestorePage(p)
      PROVE  BoundsInv'
  <2>1. /\ UNCHANGED <<memory, disk, cycle, backlog, full>>
        /\ changes < MaxChanges /\ changes' = changes + 1
        /\ live' \subseteq Pages /\ covered' \subseteq Pages
        /\ rev' = rev \/ rev' = [rev EXCEPT ![p] = @ + 1]
    BY <1>0, <1>1 DEF WritePage, WithdrawPage, RestorePage, Change
  <2>2. changes' \in 0 .. MaxChanges
    BY <2>1, BoundsAssumption DEF BoundsInv
  <2>3. rev' \in [Pages -> Nat] /\ \A q \in Pages : rev'[q] <= changes' + 1
    BY <2>1 DEF BoundsInv
  <2>. QED  BY <1>0, <2>1, <2>2, <2>3 DEF BoundsInv, InBounds, DirtyOK, MarkOK, FewIssues, LedgerShape,
            MarkShape, Regions, StageOK
<1>2. ASSUME NEW kind \in {"relation", "topic"} \cap {w.kind : w \in Planned},
             QueueFills(kind) \/ QueueDrains(kind)
      PROVE  BoundsInv'
  <2>1. UNCHANGED <<store, memory, disk, cycle, backlog, covered>> /\ full' \subseteq {w.kind : w \in Planned}
    BY <1>0, <1>2 DEF QueueFills, QueueDrains
  <2>2. StageOK'
    BY <1>0, <2>1 DEF StageOK
  <2>. QED  BY <1>0, <2>1, <2>2, LedgersInBounds
<1>3. ASSUME FailCycle
      PROVE  BoundsInv'
  <2>1. memory' = Saved(memory) /\ disk' = Saved(memory) /\ cycle' = Idle
        /\ UNCHANGED store /\ UNCHANGED <<backlog, full, covered>>
    BY <1>3 DEF FailCycle
  <2>2. InBounds(Saved(memory))
    BY <1>0, SavedNoMore, NoMoreInBounds
  <2>3. StageOK'
    BY <2>1 DEF StageOK, Idle
  <2>. QED  BY <1>0, <2>1, <2>2, <2>3, LedgersInBounds
<1>4. ASSUME Crash
      PROVE  BoundsInv'
  <2>1. memory' = disk /\ cycle' = Idle /\ UNCHANGED store /\ UNCHANGED <<disk, backlog, full, covered>>
    BY <1>4 DEF Crash
  <2>2. StageOK'
    BY <2>1 DEF StageOK, Idle
  <2>. QED  BY <1>0, <2>1, <2>2, LedgersInBounds
<1>5. ASSUME StartCycle
      PROVE  BoundsInv'
  <2>. DEFINE l == ObserveWrites(memory, Heads)
  <2>1. /\ memory' = Saved(l) /\ disk' = Saved(l) /\ cycle' = [stage |-> "reviews", heads |-> Heads]
        /\ covered' = covered \cup TakenAsGiven(memory) /\ UNCHANGED store /\ UNCHANGED <<backlog, full>>
    BY <1>5 DEF StartCycle
  <2>2. InBounds(l)
    BY <1>0, ObserveInBounds
  <2>. HIDE DEF l
  <2>3. InBounds(Saved(l))
    BY <2>2, SavedNoMore, NoMoreInBounds DEF InBounds
  <2>4. covered' \subseteq Pages
    BY <1>0, <2>1 DEF TakenAsGiven
  <2>5. StageOK'
    BY <2>1 DEF StageOK
  <2>. QED  BY <1>0, <2>1, <2>3, <2>4, <2>5, LedgersInBounds
<1>6. ASSUME ReviewBacklog
      PROVE  BoundsInv'
  <2>1. PICK used \in 0 .. MaxJobs :
          /\ used <= backlog /\ backlog' = backlog - used
          /\ memory' = memory \/ memory' = ReconcileJobIssues(memory, cycle.heads)
          /\ \/ cycle' = [stage |-> "done", jobs |-> used, periodic |-> FALSE]
             \/ \E regions, expected :
                   cycle' = [stage |-> "select", jobs |-> used, before |-> used,
                             regions |-> regions, periodic |-> memory.reviewDue,
                             expected |-> expected, skipped |-> FALSE]
    BY <1>6 DEF ReviewBacklog
  <2>2. UNCHANGED store /\ UNCHANGED <<disk, full, covered>>
    BY <1>6 DEF ReviewBacklog
  <2>3. InBounds(memory')
    BY <1>0, <2>1, ReconcileNoMore, NoMoreInBounds
  <2>4. StageOK'
    BY <2>1 DEF StageOK
  <2>5. backlog' \in 0 .. MaxBacklog
    BY <1>0, <2>1, BoundsAssumption
  <2>. QED  BY <1>0, <2>2, <2>3, <2>4, <2>5, LedgersInBounds
<1>7. ASSUME SelectWindow \/ NoWindow
      PROVE  BoundsInv'
  <2>1. UNCHANGED store /\ UNCHANGED <<memory, disk, backlog, full, covered>> /\ cycle.stage = "select"
    BY <1>7 DEF SelectWindow, NoWindow, Selecting
  <2>2. \/ \E k : cycle' = Put([cycle EXCEPT !.stage = "calling"], "key", k)
        \/ cycle' = [cycle EXCEPT !.stage = "finish"]
    BY <1>7 DEF SelectWindow, NoWindow
  <2>3. StageOK'
    BY <1>0, <2>1, <2>2 DEF StageOK, Put, Over
  <2>. QED  BY <1>0, <2>1, <2>3, LedgersInBounds
<1>8. ASSUME SkipUpdate
      PROVE  BoundsInv'
  <2>1. PICK k : memory' = Record(memory, k, "cooling")
    BY <1>8 DEF SkipUpdate
  <2>2. /\ UNCHANGED store /\ UNCHANGED <<disk, backlog, full, covered>>
        /\ cycle.stage = "select" /\ cycle' = [cycle EXCEPT !.skipped = TRUE]
    BY <1>8 DEF SkipUpdate, Selecting
  <2>3. InBounds(memory')
    BY <1>0, <2>1, RecordNoMore, NoMoreInBounds
  <2>4. StageOK'
    BY <1>0, <2>2 DEF StageOK
  <2>. QED  BY <1>0, <2>2, <2>3, <2>4, LedgersInBounds
<1>9. ASSUME NEW l, InBounds(l), JobDone(l), cycle.stage = "calling"
      PROVE  BoundsInv'
  <2>1. /\ memory' = Saved(l) /\ disk' = Saved(l) /\ UNCHANGED store /\ UNCHANGED <<backlog, full, covered>>
        /\ cycle' = [Without(cycle, {"key"}) EXCEPT !.stage = "select", !.jobs = @ + 1, !.skipped = FALSE]
    BY <1>9 DEF JobDone
  <2>2. InBounds(Saved(l))
    BY <1>9, SavedNoMore, NoMoreInBounds DEF InBounds
  <2>3. StageOK'
    BY <1>0, <1>9, <2>1 DEF StageOK, Without, Restrict
  <2>. QED  BY <1>0, <2>1, <2>2, <2>3, LedgersInBounds
<1>10. ASSUME FinishJob
       PROVE  BoundsInv'
  <2>1. \/ \E outcome : JobDone(Record(memory, cycle.key, outcome))
        \/ JobDone([memory EXCEPT !.issues = Without(@, {cycle.key})])
    BY <1>10 DEF FinishJob
  <2>2. cycle.stage = "calling"
    BY <1>10 DEF FinishJob
  <2>. QED  BY <1>0, <1>9, <2>1, <2>2, RecordNoMore, IssuesNoMore, NoMoreInBounds
<1>11. ASSUME FailJob
       PROVE  BoundsInv'
  <2>1. PICK paid : \E l \in IsolateJob(memory, cycle.key, paid) : JobDone(l)
    BY <1>11 DEF FailJob
  <2>2. cycle.stage = "calling"
    BY <1>11 DEF FailJob
  <2>. QED  BY <1>0, <1>9, <2>1, <2>2, IsolateInBounds
<1>12. ASSUME EndCycle
       PROVE  BoundsInv'
  <2>1. PICK l \in Scheduled(memory, cycle.jobs, cycle.periodic) : memory' = l /\ disk' = l
    BY <1>12 DEF EndCycle
  <2>2. cycle' = Idle /\ UNCHANGED store /\ UNCHANGED <<backlog, full, covered>>
    BY <1>12 DEF EndCycle
  <2>3. InBounds(l)
    BY <1>0, <2>1, ScheduledNoMore, NoMoreInBounds
  <2>4. StageOK'
    BY <2>2 DEF StageOK, Idle
  <2>. QED  BY <1>0, <2>1, <2>2, <2>3, <2>4, LedgersInBounds
<1>13. ASSUME NEW what \in {"quiet", "wait", "retention"}, TimePasses(what)
       PROVE  BoundsInv'
  <2>1. /\ memory' = Passed(memory, what) /\ disk' = Passed(disk, what)
        /\ UNCHANGED store /\ UNCHANGED <<cycle, backlog, full, covered>>
    BY <1>13 DEF TimePasses
  <2>2. InBounds(memory') /\ InBounds(disk')
    BY <1>0, <2>1, PassedInBounds
  <2>3. StageOK'
    BY <1>0, <2>1 DEF StageOK
  <2>. QED  BY <1>0, <2>1, <2>2, <2>3, LedgersInBounds
<1>14. CASE UNCHANGED vars
  <2>1. UNCHANGED store /\ UNCHANGED <<memory, disk, cycle, backlog, full, covered>>
    BY <1>14 DEF vars, store
  <2>2. StageOK'
    BY <1>0, <2>1 DEF StageOK
  <2>. QED  BY <1>0, <2>1, <2>2, LedgersInBounds
<1>15. CASE Environment
  BY <1>15, <1>1, <1>2, <1>3, <1>4 DEF Environment
<1>16. CASE Maintainer
  BY <1>16, <1>5, <1>6, <1>7, <1>8, <1>10, <1>11, <1>12, FinishCycleInBounds DEF Maintainer
<1>. QED  BY <1>13, <1>14, <1>15, <1>16 DEF Next

\* The ledger keeps its bounds, in memory and on file (ledger.rs, observe_writes,
\* finish_discovery_pass, isolate_job and reconcile_job_issues): a dirty region
\* tracks Pages of its own and is dropped when it had its jobs, a diagnostic is kept
\* of a failed job only, and of few, whichever of the three an operation touches.
THEOREM LedgersAreTyped == Spec => []TypeOK
<1>1. Init => PaidInv
  BY DEF Init, PaidInv, Accounts, Books, Covers, LedgerShape, NewLedger, Empty, CycleFits, Idle, FailedCallsBounded
<1>2. ASSUME BoundsInv, IInv, PaidInv
      PROVE  TypeOK
  <2>1. ASSUME NEW l, InBounds(l), Tracks(l, covered), Accounts(l, calls)
        PROVE  LedgerOK(l)
    <3>1. DOMAIN l.observed \subseteq Pages
      BY <2>1 DEF Tracks
    <3>2. \A k \in DOMAIN l.issues : k \in DOMAIN l.entries => l.entries[k].outcome = "failed"
      BY <2>1 DEF Accounts, Books
    <3>. QED  BY <2>1, <3>1, <3>2 DEF LedgerOK, InBounds, DirtyOK, MarkOK, FewIssues
  <2>2. LedgerOK(memory) /\ LedgerOK(disk)
    BY <1>2, <2>1 DEF BoundsInv, IInv, PaidInv
  <2>3. rev \in [Pages -> 0 .. MaxChanges + 1]
    <3>1. \A p \in Pages : rev[p] \in 0 .. MaxChanges + 1
      BY <1>2, BoundsAssumption DEF BoundsInv
    <3>. QED  BY <1>2, <3>1 DEF BoundsInv
  <2>. QED  BY <1>2, <2>2, <2>3 DEF TypeOK, BoundsInv, StageOK
<1>. QED  BY <1>1, <1>2, InitBounds, NextInBounds, InitTracks, NextTracks, NextPaid, PTL DEF Spec

-----------------------------------------------------------------------------
(* ReviewInbox: the inductive invariant                                    *)

Statuses == {"pending", "accepted", "rejected", "suppressed", "stale"}
ItemRecord ==
    [status : Statuses, verdict : Verdicts \cup {"none"}, at : Nat,
     intent : BOOLEAN, receipt : BOOLEAN]

\* What an item says: what is accepted is done in the store, whose effects are fx.
ItemOK(i, x, st, fx) ==
    /\ i \in Items /\ x \in ItemRecord /\ x.at <= st
    /\ x.status = "suppressed" => KindOf[i] = "relation"
    /\ x.receipt => KindOf[i] = "fusion" /\ x.status = "accepted"
    /\ x.status = "accepted" =>
          /\ KindOf[i] = "topic" => i \in fx.topics
          /\ KindOf[i] = "relation" => fx.links[i] = 1
          /\ KindOf[i] = "fusion" => x.receipt
          /\ KindOf[i] \notin Locked => i \in fx.assessed \cup fx.closed
Sound(l, st, fx) == \A i \in DOMAIN l : ItemOK(i, l[i], st, fx)

\* A copy l of an earlier file, perhaps with proposals that f does not have.
OlderItem(i, x, y) ==
    IF KindOf[i] = "relation" THEN x.status # "pending" => y.status = x.status
    ELSE x.at <= y.at /\ (x.at = y.at => x.status = y.status)
Older(l, f) ==
    \A i \in DOMAIN l : KindOf[i] \in Locked =>
        IF i \in DOMAIN f THEN OlderItem(i, l[i], f[i])
        ELSE KindOf[i] # "topic" /\ l[i].status = "pending"

\* One Topic of the same evidence is under review or decided.
OneStanding(f) ==
    \A i, j \in DOMAIN f :
        KindOf[i] = "topic" /\ KindOf[j] = "topic" /\ Evidence[i] = Evidence[j]
        /\ f[i].status # "stale" /\ f[j].status # "stale" => i = j

\* The maintainer's copy has all fusions, so that none is proposed again.
CopyOK(l, f, st, fx) ==
    /\ Sound(l, st, fx) /\ Older(l, f)
    /\ \A i \in DOMAIN f : KindOf[i] = "fusion" => i \in DOMAIN l

SessionOK(x, f, st, fx) ==
    \/ x = AtRest
    \/ x.stage = "published" /\ x.item \in Items /\ KindOf[x.item] \in {"fusion", "update"}
    \/ /\ x.stage \in {"opened", "applied"} /\ x.item \in Items
       /\ KindOf[x.item] \in {"update", "feedback"}
       /\ x = [stage |-> x.stage, item |-> x.item, loaded |-> x.loaded]
       /\ x.item \in DOMAIN x.loaded /\ DOMAIN x.loaded \subseteq DOMAIN f
       /\ Sound(x.loaded, st, fx) /\ Older(x.loaded, f)
       /\ x.stage = "applied" => x.item \in fx.assessed \cup fx.closed

DoingOK(x, f) ==
    \/ x = AtRest
    \/ x.stage = "verify" /\ x.item \in Items
    \/ x.stage = "apply" /\ x.item \in DOMAIN f /\ KindOf[x.item] \in {"topic", "relation"}

EffectsOK(fx) ==
    /\ fx \in [topics : SUBSET Of("topic"), links : [Of("relation") -> 0 .. 1],
               fused : SUBSET Items, console : SUBSET Items,
               assessed : SUBSET Items, closed : SUBSET Items]
    /\ \A t, u \in fx.topics : Evidence[t] = Evidence[u] => t = u

InboxInv ==
    /\ stamp \in 0 .. MaxStamps /\ deaths \in 0 .. MaxDeaths
    /\ EffectsOK(effects) /\ DoingOK(doing, file)
    /\ Sound(file, stamp, effects) /\ OneStanding(file)
    /\ CopyOK(copy, file, stamp, effects)
    /\ DOMAIN session = Sessions
    /\ \A s \in Sessions : SessionOK(session[s], file, stamp, effects)

-----------------------------------------------------------------------------
(* What a step may do                                                      *)

\* The file of a later time: decisions stay, other changes are stamped after st.
AdvancedItem(i, x, y, st) ==
    /\ x.status \in {"accepted", "rejected", "suppressed"} => y.status = x.status
    /\ IF KindOf[i] = "relation" THEN x.status # "pending" => y.status = x.status
       ELSE (y.at = x.at /\ y.status = x.status) \/ y.at > st
Advances(f, g, st) ==
    \A i \in DOMAIN f : i \in DOMAIN g /\ (KindOf[i] \in Locked => AdvancedItem(i, f[i], g[i], st))

\* What the store shows stays shown.
Grows(fx, fy) ==
    /\ fx.topics \subseteq fy.topics
    /\ \A r \in Of("relation") : fx.links[r] = 1 => fy.links[r] = 1
    /\ fx.assessed \cup fx.closed \subseteq fy.assessed \cup fy.closed

LEMMA OlderSelf ==
    ASSUME NEW f, NEW st, NEW fx, Sound(f, st, fx)
    PROVE  Older(f, f)
BY DEF Older, OlderItem, Sound, ItemOK, ItemRecord

LEMMA SoundLater ==
    ASSUME NEW l, NEW st \in Nat, NEW fx, Sound(l, st, fx), NEW su \in Nat, NEW fy, st <= su, Grows(fx, fy)
    PROVE  Sound(l, su, fy)
<1> SUFFICES ASSUME NEW i \in DOMAIN l PROVE ItemOK(i, l[i], su, fy)
  BY DEF Sound
<1>1. ItemOK(i, l[i], st, fx)
  BY DEF Sound
<1>2. KindOf[i] = "relation" => i \in Of("relation")
  BY <1>1 DEF ItemOK, Of
<1> QED BY <1>1, <1>2 DEF ItemOK, ItemRecord, Grows

LEMMA OlderLater ==
    ASSUME NEW l, NEW f, NEW g, NEW st \in Nat, NEW fx, Older(l, f), Sound(l, st, fx), Advances(f, g, st),
           \A i \in DOMAIN g \ DOMAIN f : i \in DOMAIN l => KindOf[i] # "fusion",
           NEW su, NEW fy, Sound(f, su, fy), NEW sv, NEW fz, Sound(g, sv, fz)
    PROVE  Older(l, g)
<1> SUFFICES ASSUME NEW i \in DOMAIN l, KindOf[i] \in Locked
             PROVE  IF i \in DOMAIN g THEN OlderItem(i, l[i], g[i])
                    ELSE KindOf[i] # "topic" /\ l[i].status = "pending"
  BY DEF Older
<1>1. l[i].at \in Nat /\ l[i].at <= st
  BY DEF Sound, ItemOK, ItemRecord
<1>2. CASE i \in DOMAIN f
  <2>1. i \in DOMAIN g /\ AdvancedItem(i, f[i], g[i], st) /\ OlderItem(i, l[i], f[i])
    BY <1>2 DEF Advances, Older
  <2>2. f[i].at \in Nat /\ g[i].at \in Nat
    BY <1>2, <2>1 DEF Sound, ItemOK, ItemRecord
  <2> QED BY <1>1, <2>1, <2>2 DEF AdvancedItem, OlderItem
<1>3. CASE i \notin DOMAIN f
  <2>1. KindOf[i] # "topic" /\ l[i].status = "pending"
    BY <1>3 DEF Older
  <2>2. i \in DOMAIN g => KindOf[i] = "relation"
    BY <1>3, <2>1 DEF Locked
  <2> QED BY <2>1, <2>2 DEF OlderItem
<1> QED BY <1>2, <1>3

\* A session that is not touched is as good in a later state.
LEMMA SessionLater ==
    ASSUME NEW x, NEW f, NEW g, NEW st \in Nat, NEW su \in Nat, NEW fx, NEW fy,
           SessionOK(x, f, st, fx), st <= su, Grows(fx, fy), Advances(f, g, st),
           Sound(f, st, fx), Sound(g, su, fy)
    PROVE  SessionOK(x, g, su, fy)
<1>1. CASE x = AtRest \/ x.stage = "published"
  BY <1>1 DEF SessionOK
<1>2. CASE ~(x = AtRest \/ x.stage = "published")
  <2>1. DOMAIN x.loaded \subseteq DOMAIN f /\ Sound(x.loaded, st, fx) /\ Older(x.loaded, f)
    BY <1>2 DEF SessionOK
  <2>2. Sound(x.loaded, su, fy)
    BY <2>1, SoundLater
  <2>3. Older(x.loaded, g)
    BY <2>1, OlderLater
  <2>4. DOMAIN x.loaded \subseteq DOMAIN g
    BY <2>1 DEF Advances
  <2>5. fx.assessed \cup fx.closed \subseteq fy.assessed \cup fy.closed
    BY DEF Grows
  <2> QED BY <1>2, <2>2, <2>3, <2>4, <2>5 DEF SessionOK
<1> QED BY <1>1, <1>2

\* What the invariant says at once.
LEMMA InvFacts ==
    ASSUME InboxInv
    PROVE  /\ MaxStamps \in Nat /\ MaxDeaths \in Nat
           /\ stamp \in 0 .. MaxStamps /\ stamp \in Nat /\ deaths \in 0 .. MaxDeaths
           /\ EffectsOK(effects) /\ DoingOK(doing, file)
           /\ Sound(file, stamp, effects) /\ OneStanding(file)
           /\ CopyOK(copy, file, stamp, effects) /\ Sound(copy, stamp, effects) /\ Older(copy, file)
           /\ DOMAIN session = Sessions
BY InboxAssumption DEF InboxInv, CopyOK

\* What every step is shown to do, but for what it does to the copy.
StepOK ==
    /\ stamp' \in 0 .. MaxStamps /\ stamp <= stamp' /\ deaths' \in 0 .. MaxDeaths
    /\ EffectsOK(effects') /\ Grows(effects, effects') /\ DoingOK(doing', file')
    /\ Advances(file, file', stamp) /\ Sound(file', stamp', effects') /\ OneStanding(file')
    /\ DOMAIN session' = Sessions
    /\ \A s \in Sessions : session'[s] = session[s] \/ SessionOK(session'[s], file', stamp', effects')

LEMMA StepKeeps ==
    ASSUME InboxInv, StepOK, CopyOK(copy', file', stamp', effects')
    PROVE  InboxInv'
<1>1. \A s \in Sessions : SessionOK(session[s], file, stamp, effects)
  BY DEF InboxInv
<1>2. stamp \in Nat /\ stamp' \in Nat /\ stamp <= stamp'
  BY InboxAssumption DEF InboxInv, StepOK
<1>3. Sound(file, stamp, effects)
  BY DEF InboxInv
<1>4. \A s \in Sessions : SessionOK(session'[s], file', stamp', effects')
  <2> SUFFICES ASSUME NEW s \in Sessions, session'[s] = session[s]
               PROVE  SessionOK(session[s], file', stamp', effects')
    BY DEF StepOK
  <2> QED BY <1>1, <1>2, <1>3, SessionLater DEF StepOK
<1> QED BY <1>4 DEF InboxInv, StepOK

\* The copy is the file.
LEMMA CopyIsFile ==
    ASSUME StepOK, copy' = file'
    PROVE  CopyOK(copy', file', stamp', effects')
BY OlderSelf DEF StepOK, CopyOK

-----------------------------------------------------------------------------
(* What the operators on ledgers do                                        *)

\* Only the item i is another one, or is new.
OnlyAt(f, g, i) ==
    /\ DOMAIN g = DOMAIN f \cup {i}
    /\ \A j \in DOMAIN f : j # i => g[j] = f[j]

\* No other Topic of the evidence of i stands in f.
Alone(f, i) ==
    \A j \in DOMAIN f :
        KindOf[j] = "topic" /\ Evidence[j] = Evidence[i] /\ f[j].status # "stale" => j = i

LEMMA OneItem ==
    ASSUME NEW f, NEW g, NEW i, NEW st, NEW su, NEW fy,
           Sound(f, su, fy), OneStanding(f), OnlyAt(f, g, i), ItemOK(i, g[i], su, fy),
           i \in DOMAIN f /\ KindOf[i] \in Locked => AdvancedItem(i, f[i], g[i], st),
           KindOf[i] = "topic" /\ g[i].status # "stale" =>
               Alone(f, i) \/ (i \in DOMAIN f /\ f[i].status # "stale")
    PROVE  Advances(f, g, st) /\ Sound(g, su, fy) /\ OneStanding(g)
<1>1. Advances(f, g, st)
  <2> SUFFICES ASSUME NEW j \in DOMAIN f
               PROVE  j \in DOMAIN g /\ (KindOf[j] \in Locked => AdvancedItem(j, f[j], g[j], st))
    BY DEF Advances
  <2>1. CASE j = i
    BY <2>1 DEF OnlyAt
  <2>2. CASE j # i
    BY <2>2 DEF OnlyAt, AdvancedItem
  <2> QED BY <2>1, <2>2
<1>2. Sound(g, su, fy)
  <2>2. \A j \in DOMAIN f : ItemOK(j, f[j], su, fy)
    BY DEF Sound
  <2>3. \A j \in DOMAIN g : j = i \/ (j \in DOMAIN f /\ g[j] = f[j])
    BY DEF OnlyAt
  <2> HIDE DEF ItemOK
  <2>4. \A j \in DOMAIN g : ItemOK(j, g[j], su, fy)
    BY <2>2, <2>3
  <2> QED BY <2>4 DEF Sound
<1>3. OneStanding(g)
  <2>1. KindOf[i] = "topic" /\ g[i].status # "stale" => Alone(f, i)
    BY DEF OneStanding, Alone
  <2>2. \A j \in DOMAIN g : j # i => j \in DOMAIN f /\ g[j] = f[j]
    BY DEF OnlyAt
  <2> QED BY <2>1, <2>2 DEF OneStanding, Alone
<1> QED BY <1>1, <1>2, <1>3

LEMMA WithOnly ==
    ASSUME NEW l, NEW i \in DOMAIN l, NEW status
    PROVE  OnlyAt(l, With(l, i, status), i)
<1>1. DOMAIN With(l, i, status) = DOMAIN l
  BY DEF With
<1>2. \A j \in DOMAIN l : j # i => With(l, i, status)[j] = l[j]
  BY DEF With
<1> QED BY <1>1, <1>2 DEF OnlyAt

LEMMA WithItem ==
    ASSUME NEW l, NEW i \in DOMAIN l, NEW status \in Statuses, l[i] \in ItemRecord, stamp \in Nat
    PROVE  /\ With(l, i, status)[i] \in ItemRecord
           /\ With(l, i, status)[i].status = status
           /\ With(l, i, status)[i].at = IF KindOf[i] = "relation" THEN 0 ELSE stamp + 1
           /\ With(l, i, status)[i].receipt = l[i].receipt
<1> DEFINE at == IF KindOf[i] = "relation" THEN 0 ELSE stamp + 1
           m == [l EXCEPT ![i].status = status]
<1>1. m[i] = [l[i] EXCEPT !.status = status] /\ i \in DOMAIN m
  OBVIOUS
<1>2. With(l, i, status) = [m EXCEPT ![i].at = at]
  BY DEF With
<1>3. With(l, i, status)[i] = [m[i] EXCEPT !.at = at]
  BY <1>1, <1>2
<1>4. m[i] \in ItemRecord /\ m[i].status = status /\ m[i].receipt = l[i].receipt
  BY <1>1 DEF ItemRecord
<1>5. at \in Nat
  OBVIOUS
<1> QED BY <1>3, <1>4, <1>5 DEF ItemRecord

LEMMA AddOnly ==
    ASSUME NEW l, NEW i, NEW x
    PROVE  OnlyAt(l, Add(l, i, x), i) /\ Add(l, i, x)[i] = x
BY DEF Add, OnlyAt

LEMMA ItemIs ==
    ASSUME NEW status \in Statuses, NEW verdict \in Verdicts \cup {"none"}, stamp \in Nat
    PROVE  /\ Item(status, verdict) \in ItemRecord
           /\ Item(status, verdict).status = status /\ Item(status, verdict).at = stamp + 1
           /\ Item(status, verdict).receipt = FALSE
BY DEF Item, ItemRecord

\* The file of a merge says of Topics, fusions and relations what it said.
LEMMA MergeAdvances ==
    ASSUME NEW l, NEW f, NEW st \in Nat, NEW fx, Sound(l, st, fx), Sound(f, st, fx), Older(l, f), OneStanding(f),
           NEW su \in Nat
    PROVE  /\ Advances(f, Merge(l, f), su) /\ Sound(Merge(l, f), st, fx) /\ OneStanding(Merge(l, f))
           /\ DOMAIN Merge(l, f) = DOMAIN l \cup DOMAIN f
<1> DEFINE g == Merge(l, f)
<1>1. DOMAIN g = DOMAIN l \cup DOMAIN f
  BY DEF Merge
<1>2. \A i \in DOMAIN g : (i \in DOMAIN l /\ g[i] = l[i]) \/ (i \in DOMAIN f /\ g[i] = f[i])
  BY DEF Merge
<1>3. Sound(g, st, fx)
  BY <1>2 DEF Sound
<1>4. ASSUME NEW i \in DOMAIN f, KindOf[i] \in Locked
      PROVE  g[i].status = f[i].status /\ (KindOf[i] # "relation" => g[i].at = f[i].at)
  <2>1. g[i] = IF i \notin DOMAIN l THEN f[i]
               ELSE IF KindOf[i] = "relation"
                    THEN IF l[i].status # "pending" \/ f[i].status = "pending" THEN l[i] ELSE f[i]
                    ELSE IF l[i].at >= f[i].at THEN l[i] ELSE f[i]
    BY DEF Merge
  <2>2. CASE i \notin DOMAIN l
    BY <2>1, <2>2
  <2>3. CASE i \in DOMAIN l /\ KindOf[i] = "relation"
    <3>1. OlderItem(i, l[i], f[i])
      BY <1>4, <2>3 DEF Older
    <3> QED BY <2>1, <2>3, <3>1 DEF OlderItem
  <2>4. CASE i \in DOMAIN l /\ KindOf[i] # "relation"
    <3>1. OlderItem(i, l[i], f[i])
      BY <1>4, <2>4 DEF Older
    <3>2. l[i].at \in Nat /\ f[i].at \in Nat
      BY <2>4 DEF Sound, ItemOK, ItemRecord
    <3> QED BY <2>1, <2>4, <3>1, <3>2 DEF OlderItem
  <2> QED BY <2>2, <2>3, <2>4
<1>5. Advances(f, g, su)
  BY <1>1, <1>4 DEF Advances, AdvancedItem
<1>6. OneStanding(g)
  <2>1. \A i \in DOMAIN g : KindOf[i] = "topic" => i \in DOMAIN f
    BY <1>1 DEF Older, Locked
  <2> QED BY <1>4, <2>1 DEF OneStanding, Locked
<1> HIDE DEF g
<1> QED BY <1>1, <1>3, <1>5, <1>6 DEF g

-----------------------------------------------------------------------------
(* Steps by what they touch                                                *)

LEMMA DoingStays ==
    ASSUME NEW x, NEW f, NEW g, NEW st, DoingOK(x, f), Advances(f, g, st)
    PROVE  DoingOK(x, g)
BY DEF DoingOK, Advances

LEMMA EffectsStay ==
    ASSUME NEW fx
    PROVE  Grows(fx, fx)
BY DEF Grows

LEMMA FileStays ==
    ASSUME NEW f, NEW st
    PROVE  Advances(f, f, st)
BY DEF Advances, AdvancedItem

\* What every step does to the file, the store and the clock.
FileOK ==
    /\ stamp' \in 0 .. MaxStamps /\ stamp <= stamp' /\ deaths' \in 0 .. MaxDeaths
    /\ EffectsOK(effects') /\ Grows(effects, effects')
    /\ Advances(file, file', stamp) /\ Sound(file', stamp', effects') /\ OneStanding(file')

\* A copy that is not touched, where the file has no fusion that it did not have.
LEMMA CopyLater ==
    ASSUME InboxInv, FileOK, \A i \in DOMAIN file' \ DOMAIN file : KindOf[i] # "fusion"
    PROVE  CopyOK(copy, file', stamp', effects')
<1>1. stamp \in Nat /\ stamp' \in Nat /\ stamp <= stamp'
  BY InvFacts DEF FileOK
<1>2. Sound(copy, stamp, effects) /\ Older(copy, file) /\ Sound(file, stamp, effects)
      /\ \A i \in DOMAIN file : KindOf[i] = "fusion" => i \in DOMAIN copy
  BY InvFacts DEF CopyOK
<1>3. Sound(copy, stamp', effects')
  BY <1>1, <1>2, SoundLater DEF FileOK
<1>4. Older(copy, file')
  BY <1>1, <1>2, OlderLater DEF FileOK
<1> QED BY <1>2, <1>3, <1>4 DEF CopyOK

LEMMA OperatorStep ==
    ASSUME InboxInv, FileOK, UNCHANGED <<copy, doing>>, DOMAIN session' = Sessions,
           \A s \in Sessions : session'[s] = session[s] \/ SessionOK(session'[s], file', stamp', effects'),
           \A i \in DOMAIN file' \ DOMAIN file : KindOf[i] # "fusion"
    PROVE  StepOK /\ InboxInv'
<1>1. DoingOK(doing', file')
  BY DoingStays DEF InboxInv, FileOK
<1>2. StepOK
  BY <1>1 DEF FileOK, StepOK
<1>3. CopyOK(copy', file', stamp', effects')
  BY CopyLater
<1> QED BY <1>2, <1>3, StepKeeps

LEMMA MaintainerStep ==
    ASSUME InboxInv, FileOK, UNCHANGED session, DoingOK(doing', file'),
           copy' = file' \/ CopyOK(copy', file', stamp', effects')
    PROVE  StepOK /\ InboxInv'
<1>1. StepOK
  BY DEF FileOK, StepOK, InboxInv
<1>2. CopyOK(copy', file', stamp', effects')
  BY <1>1, CopyIsFile
<1> QED BY <1>1, <1>2, StepKeeps

LEMMA ClockTicks ==
    ASSUME InboxInv, Clock
    PROVE  stamp' = stamp + 1 /\ stamp' \in 0 .. MaxStamps /\ stamp <= stamp'
BY InvFacts DEF Clock

LEMMA DeathsBounded ==
    ASSUME InboxInv, UNCHANGED deaths \/ (deaths < MaxDeaths /\ deaths' = deaths + 1)
    PROVE  deaths' \in 0 .. MaxDeaths
BY InvFacts

\* A step that leaves the file alone; the store may show more.
LEMMA FileAlone ==
    ASSUME InboxInv, file' = file, UNCHANGED stamp \/ Clock, deaths' \in 0 .. MaxDeaths,
           EffectsOK(effects'), Grows(effects, effects')
    PROVE  FileOK
<1>1. stamp \in Nat /\ stamp' \in Nat /\ stamp' \in 0 .. MaxStamps /\ stamp <= stamp'
  BY InvFacts, ClockTicks
<1>2. Sound(file', stamp', effects')
  BY <1>1, InvFacts, SoundLater
<1> QED BY <1>1, <1>2, FileStays, InvFacts DEF FileOK

\* The store's step, and the file's unless its process dies.
LEMMA FileFollows ==
    ASSUME InboxInv, Clock, NEW l, ThenFile(l), EffectsOK(effects'), Grows(effects, effects'),
           Advances(file, l, stamp), Sound(l, stamp + 1, effects'), OneStanding(l)
    PROVE  FileOK
<1>1. deaths' \in 0 .. MaxDeaths
  BY DeathsBounded DEF ThenFile
<1>2. CASE file' = file
  BY <1>1, <1>2, FileAlone
<1>3. CASE file' = l
  BY <1>1, <1>3, ClockTicks DEF FileOK
<1> QED BY <1>2, <1>3 DEF ThenFile

LEMMA AdvancesThen ==
    ASSUME NEW f, NEW g, NEW h, NEW st, Advances(f, g, st), Advances(g, h, st)
    PROVE  Advances(f, h, st)
BY DEF Advances, AdvancedItem

\* A later ledger, where only i is another item or is new.
Follows(f, g, i, fy) ==
    /\ Advances(f, g, stamp) /\ Sound(g, stamp + 1, fy) /\ OneStanding(g)
    /\ DOMAIN g = DOMAIN f \cup {i}

\* A new status for an item of f.
MayBe(f, i, status, fy) ==
    /\ f[i].status = "pending" \/ (status = f[i].status /\ KindOf[i] # "relation")
    /\ status = "suppressed" => KindOf[i] = "relation"
    /\ status = "accepted" =>
          /\ KindOf[i] = "topic" => i \in fy.topics
          /\ KindOf[i] = "relation" => fy.links[i] = 1
          /\ KindOf[i] = "fusion" => f[i].receipt
          /\ KindOf[i] \notin Locked => i \in fy.assessed \cup fy.closed

LEMMA WithSteps ==
    ASSUME InboxInv, NEW fy, NEW f, Sound(f, stamp + 1, fy), OneStanding(f),
           NEW i \in DOMAIN f, NEW status \in Statuses, MayBe(f, i, status, fy)
    PROVE  Follows(f, With(f, i, status), i, fy)
<1> DEFINE g == With(f, i, status)
<1>1. stamp \in Nat
  BY InvFacts
<1>3. ItemOK(i, f[i], stamp + 1, fy) /\ f[i] \in ItemRecord
  BY DEF Sound, ItemOK
<1>4. OnlyAt(f, g, i)
  BY WithOnly
<1>5. /\ g[i] \in ItemRecord /\ g[i].status = status
      /\ g[i].at = (IF KindOf[i] = "relation" THEN 0 ELSE stamp + 1) /\ g[i].receipt = f[i].receipt
  BY <1>1, <1>3, WithItem
<1> HIDE DEF g
<1>6. ItemOK(i, g[i], stamp + 1, fy)
  BY <1>1, <1>3, <1>5 DEF ItemOK, MayBe
<1>7. AdvancedItem(i, f[i], g[i], stamp)
  BY <1>1, <1>5 DEF AdvancedItem, MayBe
<1>8. g[i].status # "stale" => f[i].status # "stale"
  BY <1>5 DEF MayBe
<1>9. Advances(f, g, stamp) /\ Sound(g, stamp + 1, fy) /\ OneStanding(g)
  BY <1>4, <1>6, <1>7, <1>8, OneItem
<1>10. DOMAIN g = DOMAIN f \cup {i}
  BY <1>4 DEF OnlyAt
<1> QED BY <1>9, <1>10 DEF g, Follows

\* A record for an item that is pending in f or not there, or for a retired Topic.
MayAdd(f, i, x) ==
    /\ i \in DOMAIN f =>
          /\ f[i].status = "pending" \/ (KindOf[i] = "topic" /\ f[i].status = "stale")
          /\ KindOf[i] \in {"topic", "fusion"} => x.at = stamp + 1
    /\ KindOf[i] = "topic" /\ x.status # "stale" =>
          Alone(f, i) \/ (i \in DOMAIN f /\ f[i].status = "pending")

LEMMA AddSteps ==
    ASSUME InboxInv, NEW fy, NEW f, Sound(f, stamp + 1, fy), OneStanding(f),
           NEW i, NEW x, ItemOK(i, x, stamp + 1, fy), MayAdd(f, i, x)
    PROVE  Follows(f, Add(f, i, x), i, fy)
<1> DEFINE g == Add(f, i, x)
<1>1. stamp \in Nat
  BY InvFacts
<1>3. OnlyAt(f, g, i) /\ g[i] = x
  BY AddOnly
<1> HIDE DEF g
<1>4. i \in DOMAIN f /\ KindOf[i] \in Locked => AdvancedItem(i, f[i], g[i], stamp)
  BY <1>1, <1>3 DEF AdvancedItem, Locked, MayAdd
<1>5. Advances(f, g, stamp) /\ Sound(g, stamp + 1, fy) /\ OneStanding(g)
  <2>1. ItemOK(i, g[i], stamp + 1, fy)
    BY <1>3
  <2>2. KindOf[i] = "topic" /\ g[i].status # "stale" =>
               Alone(f, i) \/ (i \in DOMAIN f /\ f[i].status # "stale")
    BY <1>3 DEF MayAdd
  <2> QED BY <1>1, <1>3, <1>4, <2>1, <2>2, OneItem
<1>6. DOMAIN g = DOMAIN f \cup {i}
  BY <1>3 DEF OnlyAt
<1> QED BY <1>5, <1>6 DEF g, Follows

\* The copy gets a proposal of its own.
LEMMA Proposed ==
    ASSUME InboxInv, FileOK, file' = file, UNCHANGED <<doing, session>>, NEW i, NEW x,
           copy' = Add(copy, i, x), ItemOK(i, x, stamp', effects'), x.status = "pending",
           i \in DOMAIN copy => KindOf[i] \notin Locked, KindOf[i] # "topic"
    PROVE  StepOK /\ InboxInv'
<1>1. DoingOK(doing', file')
  BY InvFacts
<1>2. /\ stamp \in Nat /\ stamp' \in Nat /\ stamp <= stamp' /\ Grows(effects, effects')
      /\ Sound(copy, stamp, effects) /\ Older(copy, file)
      /\ \A j \in DOMAIN file : KindOf[j] = "fusion" => j \in DOMAIN copy
  BY InvFacts DEF FileOK, CopyOK
<1>3. OnlyAt(copy, copy', i) /\ copy'[i] = x
  BY AddOnly
<1>4. Sound(copy', stamp', effects')
  <2>1. Sound(copy, stamp', effects')
    BY <1>2, SoundLater
  <2> HIDE DEF ItemOK
  <2> QED BY <1>3, <2>1 DEF Sound, OnlyAt
<1>5. Older(copy', file')
  <2> SUFFICES ASSUME NEW j \in DOMAIN copy', KindOf[j] \in Locked
               PROVE  IF j \in DOMAIN file THEN OlderItem(j, copy'[j], file[j])
                      ELSE KindOf[j] # "topic" /\ copy'[j].status = "pending"
    BY DEF Older
  <2>1. CASE j = i
    <3>1. i \notin DOMAIN copy
      BY <2>1
    <3>2. i \in DOMAIN file => KindOf[i] = "relation"
      BY <1>2, <2>1, <3>1 DEF Locked
    <3> QED BY <1>3, <2>1, <3>2 DEF OlderItem
  <2>2. CASE j # i
    BY <1>2, <1>3, <2>2 DEF Older, OnlyAt
  <2> QED BY <2>1, <2>2
<1>6. CopyOK(copy', file', stamp', effects')
  BY <1>2, <1>3, <1>4, <1>5 DEF CopyOK, OnlyAt
<1> QED BY <1>1, <1>6, MaintainerStep

-----------------------------------------------------------------------------
(* The maintainer's actions                                                *)

LEMMA SaveLedgerStep ==
    ASSUME InboxInv, SaveLedger
    PROVE  StepOK /\ InboxInv'
<1>1. Advances(file, file', stamp) /\ Sound(file', stamp, effects) /\ OneStanding(file')
  BY InvFacts, MergeAdvances DEF SaveLedger
<1>2. FileOK
  BY <1>1, InvFacts, EffectsStay DEF SaveLedger, Same, FileOK
<1>3. DoingOK(doing', file')
  BY <1>1, InvFacts, DoingStays DEF SaveLedger
<1> QED BY <1>2, <1>3, MaintainerStep DEF SaveLedger

LEMMA ProposeTopicStep ==
    ASSUME InboxInv, NEW t \in Of("topic"), NEW verdict \in Verdicts, ProposeTopic(t, verdict)
    PROVE  StepOK /\ InboxInv'
<1> DEFINE merged == Merge(copy, file)
           status == IF verdict = "no_change" THEN "rejected" ELSE "pending"
<1>1. Advances(file, merged, stamp) /\ Sound(merged, stamp, effects) /\ OneStanding(merged)
  BY InvFacts, MergeAdvances
<1>2. /\ effects' = effects /\ UNCHANGED session /\ deaths' = deaths /\ copy' = file'
      /\ stamp' = stamp + 1 /\ stamp' \in 0 .. MaxStamps /\ stamp <= stamp' /\ stamp \in Nat
      /\ Grows(effects, effects')
  BY ClockTicks, InvFacts, EffectsStay DEF ProposeTopic, Same
<1>3. CASE Reviewed(merged, t)
  <2>1. file' = merged /\ doing' = doing
    BY <1>3 DEF ProposeTopic
  <2>2. Sound(file', stamp', effects')
    BY <1>1, <1>2, <2>1, SoundLater
  <2>3. FileOK
    BY <1>1, <1>2, <2>1, <2>2, InvFacts DEF FileOK
  <2>4. DoingOK(doing', file')
    BY <1>1, <2>1, InvFacts, DoingStays
  <2> QED BY <1>2, <2>3, <2>4, MaintainerStep
<1>4. CASE ~Reviewed(merged, t)
  <2> DEFINE x == Item(status, verdict)
  <2>1. file' = Add(merged, t, x)
        /\ doing' = IF verdict = "approve" THEN [stage |-> "apply", item |-> t] ELSE AtRest
    BY <1>4 DEF ProposeTopic
  <2>2. x \in ItemRecord /\ x.status = status /\ x.at = stamp + 1 /\ x.receipt = FALSE
    BY <1>2, ItemIs DEF Statuses
  <2>3. t \in Items /\ KindOf[t] = "topic"
    BY DEF Of
  <2> HIDE DEF x, merged
  <2>4. ItemOK(t, x, stamp + 1, effects)
    BY <1>2, <2>2, <2>3 DEF ItemOK
  <2>5. \A j \in DOMAIN merged :
            KindOf[j] = "topic" /\ Evidence[j] = Evidence[t] => merged[j].status = "stale"
    BY <1>4 DEF Reviewed, SameEvidence
  <2>6. Alone(merged, t)
    BY <2>5 DEF Alone
  <2>7. MayAdd(merged, t, x)
    BY <2>2, <2>3, <2>5, <2>6 DEF MayAdd
  <2>8. Sound(merged, stamp + 1, effects)
    BY <1>1, <1>2, SoundLater
  <2>9. Follows(merged, Add(merged, t, x), t, effects)
    BY <1>1, <2>4, <2>7, <2>8, AddSteps
  <2>10. FileOK
    BY <1>1, <1>2, <2>1, <2>9, AdvancesThen, InvFacts DEF FileOK, Follows
  <2>11. DoingOK(doing', file')
    BY <2>1, <2>3, <2>9 DEF DoingOK, Follows
  <2> QED BY <1>2, <2>10, <2>11, MaintainerStep
<1> QED BY <1>3, <1>4

LEMMA ProposeRelationStep ==
    ASSUME InboxInv, NEW r \in Of("relation"), NEW verdict \in Verdicts, ProposeRelation(r, verdict)
    PROVE  StepOK /\ InboxInv'
<1> DEFINE x == [Item("pending", verdict) EXCEPT !.at = 0]
<1>1. FileOK
  BY InvFacts, EffectsStay, FileAlone DEF ProposeRelation, Same
<1>2. r \in Items /\ KindOf[r] = "relation"
  BY DEF Of
<1>3. Item("pending", verdict) \in ItemRecord /\ Item("pending", verdict).status = "pending"
      /\ Item("pending", verdict).receipt = FALSE
  BY InvFacts, ItemIs DEF Statuses
<1>4. x \in ItemRecord /\ x.status = "pending" /\ x.at = 0 /\ x.receipt = FALSE
  BY <1>3 DEF ItemRecord
<1>5. copy' = Add(copy, r, x) /\ r \notin DOMAIN copy /\ file' = file /\ UNCHANGED <<doing, session>>
  BY DEF ProposeRelation
<1> HIDE DEF x
<1>6. ItemOK(r, x, stamp', effects')
  BY <1>1, <1>2, <1>4 DEF ItemOK, FileOK
<1> QED BY <1>1, <1>2, <1>4, <1>5, <1>6, Proposed

LEMMA ProposeReconciliationStep ==
    ASSUME InboxInv, NEW i \in Items \ (Of("topic") \cup Of("relation")), ProposeReconciliation(i)
    PROVE  StepOK /\ InboxInv'
<1> DEFINE x == Item("pending", "none")
<1>1. stamp' = stamp + 1 /\ FileOK
  BY InvFacts, ClockTicks, EffectsStay, FileAlone DEF ProposeReconciliation, Same
<1>2. i \in Items /\ KindOf[i] # "relation" /\ KindOf[i] # "topic"
  BY DEF Of
<1>3. x \in ItemRecord /\ x.status = "pending" /\ x.at = stamp + 1 /\ x.receipt = FALSE
  BY InvFacts, ItemIs DEF Statuses
<1>4. copy' = Add(copy, i, x) /\ file' = file /\ UNCHANGED <<doing, session>>
      /\ (i \in DOMAIN copy => KindOf[i] \notin Locked)
  BY DEF ProposeReconciliation, Locked
<1> HIDE DEF x
<1>5. ItemOK(i, x, stamp', effects')
  BY <1>1, <1>2, <1>3, InvFacts DEF ItemOK
<1> QED BY <1>1, <1>2, <1>3, <1>4, <1>5, Proposed

\* The store links the pair, unless it has.
LEMMA Linked ==
    ASSUME NEW fx, EffectsOK(fx), NEW r \in Of("relation"), fx.links[r] = 0, NEW fy,
           fy = [fx EXCEPT !.links[r] = 1] \/ fy = [fx EXCEPT !.links[r] = @ + 1]
    PROVE  EffectsOK(fy) /\ Grows(fx, fy) /\ fy.links[r] = 1
<1> DEFINE m == [fx.links EXCEPT ![r] = 1]
<1>1. fx.links \in [Of("relation") -> 0 .. 1]
  BY DEF EffectsOK
<1>2. m \in [Of("relation") -> 0 .. 1] /\ m[r] = 1 /\ \A q \in Of("relation") : fx.links[q] = 1 => m[q] = 1
  BY <1>1
<1>3. fy = [fx EXCEPT !.links = m]
  BY <1>1
<1> HIDE DEF m
<1>4. /\ fy.links = m /\ fy.topics = fx.topics /\ fy.assessed = fx.assessed /\ fy.closed = fx.closed
      /\ fy \in [topics : SUBSET Of("topic"), links : [Of("relation") -> 0 .. 1],
                 fused : SUBSET Items, console : SUBSET Items,
                 assessed : SUBSET Items, closed : SUBSET Items]
  BY <1>2, <1>3 DEF EffectsOK
<1> QED BY <1>2, <1>4 DEF EffectsOK, Grows

LEMMA CommitRelationStep ==
    ASSUME InboxInv, NEW r \in Of("relation"), CommitRelation(r)
    PROVE  StepOK /\ InboxInv'
<1>1. EffectsOK(effects') /\ Grows(effects, effects')
  BY InvFacts, Linked DEF CommitRelation
<1>2. FileOK
  BY <1>1, InvFacts, FileAlone DEF CommitRelation, Same
<1> QED BY <1>2, InvFacts, OperatorStep DEF CommitRelation

\* The store closes or assesses more, fuses more or less.
LEMMA Resolved ==
    ASSUME NEW fx, EffectsOK(fx), NEW I \in SUBSET Items, NEW fy,
           \/ fy = [fx EXCEPT !.closed = @ \cup I]
           \/ fy = [fx EXCEPT !.assessed = @ \cup I]
           \/ fy = [fx EXCEPT !.fused = @ \cup I]
           \/ fy = [fx EXCEPT !.fused = @ \ I]
           \/ fy = [fx EXCEPT !.console = @ \cup I]
    PROVE  EffectsOK(fy) /\ Grows(fx, fy)
<1>1. /\ fy.links = fx.links /\ fy.topics = fx.topics
      /\ fx.assessed \cup fx.closed \subseteq fy.assessed \cup fy.closed
  BY DEF EffectsOK
<1>2. fy \in [topics : SUBSET Of("topic"), links : [Of("relation") -> 0 .. 1],
              fused : SUBSET Items, console : SUBSET Items,
              assessed : SUBSET Items, closed : SUBSET Items]
  BY DEF EffectsOK
<1> QED BY <1>1, <1>2 DEF EffectsOK, Grows

LEMMA ClosingIs ==
    ASSUME InboxInv, NEW i \in Items, effects' = Closing(i)
    PROVE  EffectsOK(effects') /\ Grows(effects, effects') /\ i \in effects'.assessed \cup effects'.closed
<1>1. CASE i \in effects.closed \cup effects.assessed
  <2>1. effects' = effects
    BY <1>1, InvFacts DEF Closing, EffectsOK
  <2> QED BY <1>1, <2>1, InvFacts, EffectsStay
<1>2. CASE i \notin effects.closed \cup effects.assessed
  <2>1. effects' = [effects EXCEPT !.closed = @ \cup {i}]
    BY <1>2, InvFacts DEF Closing, EffectsOK
  <2>2. i \in effects'.closed
    BY <2>1, InvFacts DEF EffectsOK
  <2> QED BY <2>1, <2>2, InvFacts, Resolved
<1> QED BY <1>1, <1>2

LEMMA CloseFeedbackStep ==
    ASSUME InboxInv, NEW i \in Of("feedback"), CloseFeedback(i)
    PROVE  StepOK /\ InboxInv'
<1>1. EffectsOK(effects') /\ Grows(effects, effects')
  BY ClosingIs DEF CloseFeedback, Of
<1>2. FileOK
  BY <1>1, InvFacts, FileAlone DEF CloseFeedback, Same
<1> QED BY <1>2, InvFacts, OperatorStep DEF CloseFeedback

\* Pending items of f get other records, and none that was retired comes back.
LEMMA ManyItems ==
    ASSUME NEW f, NEW g, NEW st, NEW su, NEW fy, Sound(f, su, fy), OneStanding(f), DOMAIN g = DOMAIN f,
           \A i \in DOMAIN f : g[i] = f[i] \/
               /\ ItemOK(i, g[i], su, fy) /\ AdvancedItem(i, f[i], g[i], st)
               /\ g[i].status # "stale" => f[i].status # "stale"
    PROVE  Advances(f, g, st) /\ Sound(g, su, fy) /\ OneStanding(g)
<1>1. Advances(f, g, st)
  <2>1. \A i \in DOMAIN f : AdvancedItem(i, f[i], g[i], st)
    BY DEF AdvancedItem
  <2> QED BY <2>1 DEF Advances
<1>2. Sound(g, su, fy)
  <2> HIDE DEF ItemOK
  <2> QED BY DEF Sound
<1>3. OneStanding(g)
  BY DEF OneStanding
<1> QED BY <1>1, <1>2, <1>3

LEMMA RefreshStep ==
    ASSUME InboxInv, Refresh
    PROVE  StepOK /\ InboxInv'
<1> DEFINE l == Merge(copy, file)
<1>1. Advances(file, l, stamp) /\ Sound(l, stamp, effects) /\ OneStanding(l)
  BY InvFacts, MergeAdvances
<1>2. /\ effects' = effects /\ UNCHANGED <<session, doing>> /\ deaths' = deaths /\ copy' = file'
      /\ stamp' = stamp + 1 /\ stamp' \in 0 .. MaxStamps /\ stamp <= stamp' /\ stamp \in Nat
  BY ClockTicks, InvFacts DEF Refresh, Same
<1>3. Sound(l, stamp + 1, effects)
  BY <1>1, <1>2, EffectsStay, SoundLater
<1>4. /\ DOMAIN file' = DOMAIN l
      /\ \A i \in DOMAIN l :
            \/ file'[i] = l[i]
            \/ /\ l[i].status = "pending"
               /\ \/ file'[i] = With(l, i, "stale")[i]
                  \/ /\ KindOf[i] = "relation" /\ effects.links[i] > 0
                     /\ file'[i] = With(l, i, "accepted")[i]
  BY DEF Refresh
<1> HIDE DEF l
<1>5. ASSUME NEW i \in DOMAIN l, file'[i] # l[i]
      PROVE  /\ ItemOK(i, file'[i], stamp + 1, effects) /\ AdvancedItem(i, l[i], file'[i], stamp)
             /\ l[i].status # "stale"
  <2>1. PICK status \in {"stale", "accepted"} :
            /\ l[i].status = "pending" /\ file'[i] = With(l, i, status)[i]
            /\ status = "accepted" => KindOf[i] = "relation" /\ effects.links[i] > 0
    BY <1>4, <1>5
  <2>2. ItemOK(i, l[i], stamp + 1, effects) /\ l[i] \in ItemRecord /\ i \in Items
    BY <1>3 DEF Sound, ItemOK
  <2>3. status = "accepted" => effects.links[i] = 1
    BY <2>1, <2>2, InvFacts DEF EffectsOK, Of
  <2>4. /\ file'[i] \in ItemRecord /\ file'[i].status = status
        /\ file'[i].at = (IF KindOf[i] = "relation" THEN 0 ELSE stamp + 1)
        /\ file'[i].receipt = l[i].receipt
    BY <1>2, <2>1, <2>2, WithItem DEF Statuses
  <2>5. ItemOK(i, file'[i], stamp + 1, effects)
    BY <1>2, <2>1, <2>2, <2>3, <2>4 DEF ItemOK, Locked
  <2>6. AdvancedItem(i, l[i], file'[i], stamp)
    BY <1>2, <2>1, <2>4 DEF AdvancedItem
  <2> QED BY <2>1, <2>5, <2>6
<1>6. Advances(l, file', stamp) /\ Sound(file', stamp + 1, effects) /\ OneStanding(file')
  BY <1>1, <1>3, <1>4, <1>5, ManyItems
<1>7. FileOK
  BY <1>1, <1>2, <1>6, AdvancesThen, EffectsStay, InvFacts DEF FileOK
<1>8. DoingOK(doing', file')
  BY <1>2, <1>7, InvFacts, DoingStays DEF FileOK
<1> QED BY <1>2, <1>7, <1>8, MaintainerStep

\* Only items of other kinds, which the file or the copy have, become stale.
LEMMA RetiredIs ==
    ASSUME InboxInv, NEW l, NEW fy, Grows(effects, fy), Sound(l, stamp, effects),
           NEW ids \in SUBSET DOMAIN copy, \A i \in ids : KindOf[i] \notin Locked
    PROVE  /\ DOMAIN Retired(l, ids) = DOMAIN l \cup ids
           /\ Sound(Retired(l, ids), stamp + 1, fy)
           /\ \A i \in DOMAIN l : KindOf[i] \in Locked => Retired(l, ids)[i] = l[i]
<1> DEFINE g == Retired(l, ids)
<1>1. DOMAIN g = DOMAIN l \cup ids
  BY DEF Retired
<1>2. \A i \in DOMAIN g :
          \/ i \in ids /\ g[i] = [copy[i] EXCEPT !.status = "stale", !.at = stamp + 1]
          \/ i \in DOMAIN file /\ g[i] = file[i]
          \/ i \in DOMAIN l /\ g[i] = l[i]
  BY DEF Retired
<1>3. \A i \in DOMAIN l : KindOf[i] \in Locked => g[i] = l[i]
  BY DEF Retired
<1> HIDE DEF g
<1>4. stamp \in Nat /\ stamp + 1 \in Nat /\ stamp <= stamp + 1
  BY InvFacts
<1>5. Sound(l, stamp + 1, fy) /\ Sound(file, stamp + 1, fy) /\ Sound(copy, stamp + 1, fy)
  BY <1>4, InvFacts, SoundLater
<1>6. ASSUME NEW i \in DOMAIN g, i \in ids, g[i] = [copy[i] EXCEPT !.status = "stale", !.at = stamp + 1]
      PROVE  ItemOK(i, g[i], stamp + 1, fy)
  <2>1. ItemOK(i, copy[i], stamp + 1, fy)
    BY <1>5, <1>6 DEF Sound
  <2>2. g[i] \in ItemRecord /\ g[i].status = "stale" /\ g[i].at = stamp + 1 /\ g[i].receipt = copy[i].receipt
    BY <1>4, <1>6, <2>1 DEF ItemOK, ItemRecord, Statuses
  <2>3. KindOf[i] # "fusion"
    BY <1>6 DEF Locked
  <2> QED BY <1>4, <2>1, <2>2, <2>3 DEF ItemOK
<1>7. \A i \in DOMAIN g : ItemOK(i, g[i], stamp + 1, fy)
  <2> HIDE DEF ItemOK
  <2> QED BY <1>2, <1>5, <1>6 DEF Sound
<1>8. Sound(g, stamp + 1, fy)
  BY <1>7 DEF Sound
<1> QED BY <1>1, <1>3, <1>8 DEF g

LEMMA RefreshFeedbackStep ==
    ASSUME InboxInv, RefreshFeedback
    PROVE  StepOK /\ InboxInv'
<1>1. PICK reject \in SUBSET Items, stale \in SUBSET (DOMAIN copy \cap Of("feedback")) :
         /\ effects' = [effects EXCEPT !.closed = @ \cup reject]
         /\ copy' = Retired(copy, stale) /\ file' = Retired(file, stale)
  <2> DEFINE reject == {i \in Of("feedback") \cap DOMAIN copy \cap DOMAIN file :
                        /\ i \notin effects.closed \cup effects.assessed
                        /\ copy[i].status = "rejected" /\ file[i].status = "rejected"
                        /\ Unmoved(i)}
             stale == {i \in Of("feedback") : Pending(copy, i) /\ ~Unmoved(i)}
  <2>1. reject \in SUBSET Items /\ stale \in SUBSET (DOMAIN copy \cap Of("feedback"))
    BY DEF Of, Pending
  <2>2. effects' = [effects EXCEPT !.closed = @ \cup reject]
        /\ copy' = Retired(copy, stale) /\ file' = Retired(file, stale)
    BY DEF RefreshFeedback
  <2> HIDE DEF reject, stale
  <2> QED BY <2>1, <2>2
<1>2. /\ UNCHANGED <<session, doing>> /\ deaths' = deaths
      /\ stamp' = stamp + 1 /\ stamp' \in 0 .. MaxStamps /\ stamp <= stamp' /\ stamp \in Nat
  BY ClockTicks, InvFacts DEF RefreshFeedback, Same
<1>3. EffectsOK(effects') /\ Grows(effects, effects')
  BY <1>1, InvFacts, Resolved
<1>4. \A i \in stale : i \in DOMAIN copy /\ KindOf[i] = "feedback" /\ KindOf[i] \notin Locked
  BY DEF Of, Locked
<1>5. /\ DOMAIN file' = DOMAIN file \cup stale /\ Sound(file', stamp', effects')
      /\ \A i \in DOMAIN file : KindOf[i] \in Locked => file'[i] = file[i]
  BY <1>1, <1>2, <1>3, <1>4, InvFacts, RetiredIs
<1>6. /\ DOMAIN copy' = DOMAIN copy \cup stale /\ Sound(copy', stamp', effects')
      /\ \A i \in DOMAIN copy : KindOf[i] \in Locked => copy'[i] = copy[i]
  BY <1>1, <1>2, <1>3, <1>4, InvFacts, RetiredIs
<1>7. Advances(file, file', stamp)
  BY <1>5 DEF Advances, AdvancedItem
<1>8. OneStanding(file')
  BY <1>4, <1>5, InvFacts DEF OneStanding, Locked
<1>9. FileOK
  BY <1>2, <1>3, <1>5, <1>7, <1>8, DeathsBounded DEF FileOK
<1>10. CopyOK(copy', file', stamp', effects')
  <2>1. Older(copy', file')
    BY <1>4, <1>5, <1>6, InvFacts DEF Older
  <2>2. \A i \in DOMAIN file' : KindOf[i] = "fusion" => i \in DOMAIN copy'
    BY <1>4, <1>5, <1>6, InvFacts DEF CopyOK
  <2> QED BY <1>6, <2>1, <2>2 DEF CopyOK
<1>11. DoingOK(doing', file')
  BY <1>2, <1>7, InvFacts, DoingStays
<1> QED BY <1>2, <1>9, <1>10, <1>11, MaintainerStep

LEMMA StartResumeStep ==
    ASSUME InboxInv, NEW i \in Items, StartResume(i)
    PROVE  StepOK /\ InboxInv'
<1>1. FileOK
  BY InvFacts, EffectsStay, FileAlone DEF StartResume, Same
<1>2. CopyOK(copy', file', stamp', effects')
  BY InvFacts DEF StartResume, Same
<1>3. DoingOK(doing', file')
  BY DEF StartResume, DoingOK
<1> QED BY <1>1, <1>2, <1>3, MaintainerStep DEF StartResume

LEMMA OvertakenStep ==
    ASSUME InboxInv, Overtaken
    PROVE  StepOK /\ InboxInv'
<1>1. FileOK
  BY InvFacts, EffectsStay, FileAlone DEF Overtaken, Same
<1>2. DoingOK(doing', file') /\ copy' = file'
  BY DEF Overtaken, DoingOK
<1> QED BY <1>1, <1>2, MaintainerStep DEF Overtaken

LEMMA RestartStep ==
    ASSUME InboxInv, Restart
    PROVE  StepOK /\ InboxInv'
<1>1. FileOK
  BY InvFacts, DeathsBounded, EffectsStay, FileAlone DEF Restart
<1>2. DoingOK(doing', file') /\ copy' = file'
  BY DEF Restart, DoingOK
<1> QED BY <1>1, <1>2, MaintainerStep DEF Restart

\* What a reworded Topic's record replaces.
LEMMA ResumeTopicStep ==
    ASSUME InboxInv, NEW verdict \in Verdicts, ResumeTopic(verdict)
    PROVE  StepOK /\ InboxInv'
<1> DEFINE old == doing.item
           new == IF verdict = "approve" /\ doing.seen.verdict # "approve" THEN Reworded[old] ELSE old
           status == IF ~Unmoved(old) THEN "stale" ELSE IF verdict = "no_change" THEN "rejected" ELSE "pending"
           x == Item(status, verdict)
           f == IF new = old THEN file ELSE With(file, old, "stale")
<1>1. /\ file' = Add(f, new, x) /\ copy' = file' /\ UNCHANGED session
      /\ doing' = IF verdict = "approve" /\ Unmoved(old) THEN [stage |-> "apply", item |-> new] ELSE AtRest
      /\ effects' = effects /\ deaths' = deaths
  BY DEF ResumeTopic, Same
<1>2. old \in DOMAIN file /\ file[old].status = "pending" /\ KindOf[old] = "topic" /\ Clock
  BY DEF ResumeTopic, Undisturbed, Pending
<1>3. /\ stamp' = stamp + 1 /\ stamp' \in 0 .. MaxStamps /\ stamp <= stamp' /\ stamp \in Nat
  BY <1>2, ClockTicks, InvFacts
<1>4. Sound(file, stamp, effects) /\ OneStanding(file) /\ Sound(file, stamp + 1, effects)
  BY <1>3, InvFacts, EffectsStay, SoundLater
<1>5. old \in Items
  BY <1>2, <1>4 DEF Sound, ItemOK
<1>6. new \in Items /\ KindOf[new] = "topic" /\ Evidence[new] = Evidence[old]
  BY <1>2, <1>5, InboxAssumption
<1>7. x \in ItemRecord /\ x.status = status /\ x.at = stamp + 1 /\ x.receipt = FALSE
  BY <1>3, ItemIs DEF Statuses
<1> HIDE DEF x, old, new
<1>8. ItemOK(new, x, stamp + 1, effects)
  BY <1>3, <1>6, <1>7 DEF ItemOK
<1>9. /\ Advances(file, f, stamp) /\ Sound(f, stamp + 1, effects) /\ OneStanding(f)
      /\ MayAdd(f, new, x)
  <2>1. CASE new = old
    <3>1. MayAdd(file, new, x)
      BY <1>2, <1>7, <2>1 DEF MayAdd
    <3> QED BY <1>4, <2>1, <3>1, FileStays
  <2>2. CASE new # old
    <3> DEFINE g == With(file, old, "stale")
    <3>1. MayBe(file, old, "stale", effects)
      BY <1>2 DEF MayBe
    <3>2. Follows(file, g, old, effects)
      BY <1>2, <1>4, <3>1, WithSteps DEF Statuses
    <3>3. OnlyAt(file, g, old)
      BY <1>2, WithOnly
    <3>4. g[old].status = "stale"
      BY <1>2, <1>3, <1>4, WithItem DEF Statuses, Sound, ItemOK
    <3> HIDE DEF g
    <3>5. \A j \in DOMAIN file : KindOf[j] = "topic" /\ Evidence[j] = Evidence[old] /\ j # old => file[j].status = "stale"
      BY <1>2, <1>4 DEF OneStanding
    <3>6. \A j \in DOMAIN g : KindOf[j] = "topic" /\ Evidence[j] = Evidence[new] => g[j].status = "stale"
      BY <1>6, <3>3, <3>4, <3>5 DEF OnlyAt
    <3>7. Alone(g, new)
      BY <3>6 DEF Alone
    <3>8. MayAdd(g, new, x)
      BY <1>6, <1>7, <3>6, <3>7 DEF MayAdd
    <3> QED BY <2>2, <3>2, <3>8 DEF Follows, g
  <2> QED BY <2>1, <2>2
<1> HIDE DEF f
<1>10. Follows(f, file', new, effects)
  BY <1>1, <1>8, <1>9, AddSteps
<1>11. FileOK
  BY <1>1, <1>3, <1>9, <1>10, AdvancesThen, EffectsStay, InvFacts DEF FileOK, Follows
<1>12. DoingOK(doing', file')
  BY <1>1, <1>6, <1>10 DEF DoingOK, Follows
<1> QED BY <1>1, <1>11, <1>12, MaintainerStep

LEMMA ResumeRelationStep ==
    ASSUME InboxInv, NEW verdict \in Verdicts, ResumeRelation(verdict)
    PROVE  StepOK /\ InboxInv'
<1> DEFINE r == doing.item
           m == [file EXCEPT ![r].verdict = verdict]
           status == IF ~Unmoved(r) THEN "stale" ELSE IF verdict = "no_change" THEN "rejected" ELSE file[r].status
<1>1. /\ copy' = file' /\ UNCHANGED session /\ effects' = effects /\ deaths' = deaths
      /\ doing' = IF verdict = "approve" /\ Unmoved(r) THEN [stage |-> "apply", item |-> r] ELSE AtRest
  BY DEF ResumeRelation, Same
<1>2. r \in DOMAIN file /\ file[r].status = "pending" /\ KindOf[r] = "relation" /\ Clock
  BY DEF ResumeRelation, Undisturbed, Pending
<1>3. /\ stamp' = stamp + 1 /\ stamp' \in 0 .. MaxStamps /\ stamp <= stamp' /\ stamp \in Nat
  BY <1>2, ClockTicks, InvFacts
<1>4. Sound(file, stamp, effects) /\ OneStanding(file) /\ Sound(file, stamp + 1, effects)
  BY <1>3, InvFacts, EffectsStay, SoundLater
<1>5. ItemOK(r, file[r], stamp + 1, effects) /\ file[r] \in ItemRecord
  BY <1>2, <1>4 DEF Sound, ItemOK
<1>6. m[r] = [file[r] EXCEPT !.verdict = verdict] /\ DOMAIN m = DOMAIN file
      /\ \A j \in DOMAIN file : j # r => m[j] = file[j]
  BY <1>2
<1>7. file' = [m EXCEPT ![r].status = IF ~Unmoved(r) THEN "stale"
                                      ELSE IF verdict = "no_change" THEN "rejected" ELSE @]
  BY DEF ResumeRelation
<1>8. m[r].status = file[r].status
  BY <1>5, <1>6 DEF ItemRecord
<1>9. file'[r] = [m[r] EXCEPT !.status = status] /\ OnlyAt(file, file', r)
  BY <1>2, <1>6, <1>7, <1>8 DEF OnlyAt
<1> HIDE DEF m
<1>10. status \in {"pending", "rejected", "stale"}
  BY <1>2
<1> HIDE DEF status
<1>11. file'[r] \in ItemRecord /\ file'[r].status = status /\ file'[r].at = file[r].at
       /\ file'[r].receipt = file[r].receipt
  <2>1. m[r] \in ItemRecord /\ m[r].at = file[r].at /\ m[r].receipt = file[r].receipt
    BY <1>5, <1>6 DEF ItemRecord
  <2> QED BY <1>9, <1>10, <2>1 DEF ItemRecord, Statuses
<1> HIDE DEF r
<1>12. ItemOK(r, file'[r], stamp + 1, effects)
  BY <1>2, <1>5, <1>10, <1>11 DEF ItemOK
<1>13. AdvancedItem(r, file[r], file'[r], stamp)
  BY <1>2 DEF AdvancedItem
<1>14. Advances(file, file', stamp) /\ Sound(file', stamp + 1, effects) /\ OneStanding(file')
  BY <1>2, <1>4, <1>9, <1>12, <1>13, OneItem
<1>15. FileOK
  BY <1>1, <1>3, <1>14, EffectsStay, InvFacts DEF FileOK
<1>16. DoingOK(doing', file')
  BY <1>1, <1>2, <1>9 DEF DoingOK, OnlyAt
<1> QED BY <1>1, <1>15, <1>16, MaintainerStep

LEMMA ResumeFusionStep ==
    ASSUME InboxInv, NEW verdict \in Verdicts, ResumeFusion(verdict)
    PROVE  StepOK /\ InboxInv'
<1> DEFINE i == doing.item
           item == Item(IF verdict = "no_change" THEN "rejected" ELSE "pending", verdict)
           begun == [item EXCEPT !.intent = verdict = "approve"]
           refused == [begun EXCEPT !.verdict = "human", !.intent = FALSE]
           published == [begun EXCEPT !.status = "accepted", !.intent = FALSE, !.receipt = TRUE]
<1>1. /\ copy' = file' /\ doing' = AtRest /\ UNCHANGED session
      /\ UNCHANGED deaths \/ (deaths < MaxDeaths /\ deaths' = deaths + 1)
      /\ effects' = effects \/ effects' = [effects EXCEPT !.fused = @ \cup {i}]
      /\ \E x \in {begun, refused, published} : file' = Add(file, i, x)
  BY DEF ResumeFusion, Completed
<1>2. i \in DOMAIN file /\ file[i].status = "pending" /\ KindOf[i] = "fusion" /\ Clock
  BY DEF ResumeFusion, Undisturbed, Pending
<1>3. /\ stamp' = stamp + 1 /\ stamp' \in 0 .. MaxStamps /\ stamp <= stamp' /\ stamp \in Nat
  BY <1>2, ClockTicks, InvFacts
<1>4. Sound(file, stamp, effects) /\ OneStanding(file)
  BY InvFacts
<1>5. i \in Items
  BY <1>2, <1>4 DEF Sound, ItemOK
<1>6. EffectsOK(effects') /\ Grows(effects, effects')
  <2>1. CASE effects' = effects
    BY <2>1, InvFacts, EffectsStay
  <2>2. CASE effects' = [effects EXCEPT !.fused = @ \cup {i}]
    <3>1. {i} \in SUBSET Items
      BY <1>5
    <3> HIDE DEF i
    <3> QED BY <2>2, <3>1, InvFacts, Resolved
  <2> QED BY <1>1, <2>1, <2>2
<1>7. Sound(file, stamp + 1, effects')
  BY <1>3, <1>4, <1>6, SoundLater
<1>8. item \in ItemRecord /\ item.status \in {"pending", "rejected"} /\ item.at = stamp + 1 /\ item.receipt = FALSE
  BY <1>3, ItemIs DEF Statuses
<1> HIDE DEF item
<1>9. begun \in ItemRecord /\ begun.status \in {"pending", "rejected"} /\ begun.at = stamp + 1 /\ begun.receipt = FALSE
  BY <1>8 DEF ItemRecord
<1> HIDE DEF begun
<1>10. /\ refused \in ItemRecord /\ refused.status \in {"pending", "rejected"}
       /\ refused.at = stamp + 1 /\ refused.receipt = FALSE
       /\ published \in ItemRecord /\ published.status = "accepted"
       /\ published.at = stamp + 1 /\ published.receipt
  BY <1>9 DEF ItemRecord, Statuses, Verdicts
<1> HIDE DEF refused, published
<1>11. PICK x \in {begun, refused, published} : file' = Add(file, i, x)
  BY <1>1
<1>12. /\ x \in ItemRecord /\ x.at = stamp + 1 /\ x.status \in {"pending", "rejected", "accepted"}
       /\ (x.status = "accepted" <=> x.receipt)
  BY <1>9, <1>10
<1> HIDE DEF i
<1>13. ItemOK(i, x, stamp + 1, effects')
  BY <1>2, <1>3, <1>5, <1>12 DEF ItemOK, Locked
<1>14. MayAdd(file, i, x)
  BY <1>2, <1>12 DEF MayAdd
<1>15. Follows(file, file', i, effects')
  BY <1>4, <1>7, <1>11, <1>13, <1>14, AddSteps
<1>16. FileOK
  BY <1>1, <1>3, <1>6, <1>15, DeathsBounded DEF FileOK, Follows
<1>17. DoingOK(doing', file')
  BY <1>1 DEF DoingOK
<1> QED BY <1>1, <1>16, <1>17, MaintainerStep

\* The Topic is written to the store, and its item is accepted if there is time.
LEMMA TopicWritten ==
    ASSUME InboxInv, Clock, NEW t \in Of("topic"), TopicApplicable(t), WriteTopic(t)
    PROVE  /\ FileOK /\ DOMAIN file' = DOMAIN file \cup {t}
           /\ ~Died => file'[t].status = "accepted" /\ file'[t].at = stamp + 1
<1> DEFINE x == Item("pending", "none")
           queued == IF t \in DOMAIN file THEN file ELSE Add(file, t, x)
<1>1. effects' = [effects EXCEPT !.topics = @ \cup {t}]
      /\ \/ file' = With(queued, t, "accepted") /\ deaths' = deaths
         \/ file' = queued /\ deaths < MaxDeaths /\ deaths' = deaths + 1
  BY DEF WriteTopic, Completed
<1>2. stamp' = stamp + 1 /\ stamp' \in 0 .. MaxStamps /\ stamp <= stamp' /\ stamp \in Nat
  BY ClockTicks, InvFacts
<1>3. EffectsOK(effects') /\ Grows(effects, effects') /\ t \in effects'.topics
  <2>1. /\ effects'.topics = effects.topics \cup {t} /\ effects'.links = effects.links
        /\ effects'.assessed = effects.assessed /\ effects'.closed = effects.closed
        /\ effects' \in [topics : SUBSET Of("topic"), links : [Of("relation") -> 0 .. 1],
                         fused : SUBSET Items, console : SUBSET Items,
                         assessed : SUBSET Items, closed : SUBSET Items]
    BY <1>1, InvFacts DEF EffectsOK
  <2>2. \A u \in effects.topics : Evidence[u] # Evidence[t]
    BY DEF TopicApplicable
  <2>3. \A v, u \in effects'.topics : Evidence[v] = Evidence[u] => v = u
    BY <2>1, <2>2, InvFacts DEF EffectsOK
  <2> QED BY <2>1, <2>3 DEF EffectsOK, Grows
<1>4. Sound(file, stamp, effects) /\ OneStanding(file) /\ Sound(file, stamp + 1, effects')
  BY <1>2, <1>3, InvFacts, SoundLater
<1>5. t \in Items /\ KindOf[t] = "topic"
  BY DEF Of
<1>6. /\ Advances(file, queued, stamp) /\ Sound(queued, stamp + 1, effects') /\ OneStanding(queued)
      /\ DOMAIN queued = DOMAIN file \cup {t} /\ queued[t].status = "pending"
  <2>1. CASE t \in DOMAIN file
    <3>1. file[t].status = "pending"
      BY <2>1 DEF TopicApplicable
    <3> QED BY <1>4, <2>1, <3>1, FileStays
  <2>2. CASE t \notin DOMAIN file
    <3>1. x \in ItemRecord /\ x.status = "pending" /\ x.at = stamp + 1 /\ x.receipt = FALSE
      BY <1>2, ItemIs DEF Statuses
    <3> HIDE DEF x
    <3>2. ItemOK(t, x, stamp + 1, effects')
      BY <1>2, <1>5, <3>1 DEF ItemOK
    <3>3. Alone(file, t)
      BY <2>2 DEF TopicApplicable, Reviewed, SameEvidence, Alone
    <3>4. MayAdd(file, t, x)
      BY <2>2, <3>3 DEF MayAdd
    <3>5. Follows(file, Add(file, t, x), t, effects')
      BY <1>4, <3>2, <3>4, AddSteps
    <3>6. Add(file, t, x)[t] = x
      BY AddOnly
    <3> QED BY <2>2, <3>1, <3>5, <3>6 DEF Follows
  <2> QED BY <2>1, <2>2
<1> HIDE DEF queued
<1>7. Follows(queued, With(queued, t, "accepted"), t, effects')
  <2>1. MayBe(queued, t, "accepted", effects')
    BY <1>3, <1>5, <1>6 DEF MayBe, Locked
  <2> QED BY <1>6, <2>1, WithSteps DEF Statuses
<1>8. /\ With(queued, t, "accepted")[t].status = "accepted"
      /\ With(queued, t, "accepted")[t].at = stamp + 1
  <2>1. queued[t] \in ItemRecord
    BY <1>6 DEF Sound, ItemOK
  <2> QED BY <1>2, <1>5, <1>6, <2>1, WithItem DEF Statuses
<1>9. deaths' \in 0 .. MaxDeaths /\ (~Died => deaths' # deaths + 1)
  BY <1>1, DeathsBounded, InvFacts DEF Died
<1>10. CASE file' = With(queued, t, "accepted")
  BY <1>2, <1>3, <1>6, <1>7, <1>8, <1>9, <1>10, AdvancesThen DEF FileOK, Follows
<1>11. CASE file' = queued /\ deaths' = deaths + 1
  BY <1>2, <1>3, <1>6, <1>9, <1>11 DEF FileOK
<1> QED BY <1>1, <1>10, <1>11

\* The edge is made unless it is there, and the item is accepted if there is time.
LEMMA RelationApproved ==
    ASSUME InboxInv, Clock, NEW r \in Of("relation"), ApproveRelation(r)
    PROVE  FileOK /\ DOMAIN file' = DOMAIN file
<1> DEFINE l == With(file, r, "accepted")
<1>1. r \in DOMAIN file /\ file[r].status = "pending" /\ KindOf[r] = "relation" /\ r \in Items
  BY DEF ApproveRelation, Pending, Of
<1>2. stamp' = stamp + 1 /\ stamp' \in 0 .. MaxStamps /\ stamp <= stamp' /\ stamp \in Nat
  BY ClockTicks, InvFacts
<1>3. ThenFile(l) /\ EffectsOK(effects') /\ Grows(effects, effects') /\ effects'.links[r] = 1
  <2>1. effects.links[r] \in 0 .. 1
    BY InvFacts DEF EffectsOK
  <2>2. CASE effects.links[r] > 0
    BY <2>1, <2>2, InvFacts, EffectsStay DEF ApproveRelation, Completed, ThenFile
  <2>3. CASE ~(effects.links[r] > 0)
    <3>1. effects' = [effects EXCEPT !.links[r] = @ + 1] /\ ThenFile(l)
      BY <2>3 DEF ApproveRelation
    <3>2. effects.links[r] = 0
      BY <2>1, <2>3
    <3> QED BY <3>1, <3>2, InvFacts, Linked
  <2> QED BY <2>2, <2>3
<1>4. Sound(file, stamp, effects) /\ OneStanding(file) /\ Sound(file, stamp + 1, effects')
  BY <1>2, <1>3, InvFacts, SoundLater
<1>5. MayBe(file, r, "accepted", effects')
  BY <1>1, <1>3 DEF MayBe, Locked
<1>6. Follows(file, l, r, effects')
  BY <1>1, <1>4, <1>5, WithSteps DEF Statuses
<1> HIDE DEF l
<1>7. FileOK
  BY <1>3, <1>6, FileFollows DEF Follows
<1>8. DOMAIN file' = DOMAIN file
  BY <1>1, <1>3, <1>6 DEF ThenFile, Follows
<1> QED BY <1>7, <1>8

LEMMA ApplyResumedStep ==
    ASSUME InboxInv, ApplyResumed
    PROVE  StepOK /\ InboxInv'
<1> DEFINE i == doing.item
<1>1. Clock /\ doing' = AtRest /\ UNCHANGED session
  BY DEF ApplyResumed
<1>2. i \in DOMAIN file /\ KindOf[i] \in {"topic", "relation"}
  BY InvFacts DEF DoingOK, ApplyResumed, AtRest
<1>3. i \in Items
  BY <1>2, InvFacts DEF Sound, ItemOK
<1>4. DoingOK(doing', file')
  BY <1>1 DEF DoingOK
<1>5. ASSUME UNCHANGED <<file, copy, effects>>, Completed
      PROVE  StepOK /\ InboxInv'
  <2>1. FileOK
    BY <1>1, <1>5, InvFacts, EffectsStay, FileAlone DEF Completed
  <2>2. CopyOK(copy', file', stamp', effects')
    BY <1>5, <2>1, CopyLater
  <2> QED BY <1>1, <1>4, <2>1, <2>2, MaintainerStep
<1>6. CASE KindOf[i] = "topic" /\ TopicApplicable(i)
  <2>1. /\ WriteTopic(i)
        /\ copy' = IF Died THEN file' ELSE IF Pending(copy, i) THEN With(copy, i, "accepted") ELSE copy
    BY <1>6 DEF ApplyResumed
  <2>2. i \in Of("topic")
    BY <1>3, <1>6 DEF Of
  <2> HIDE DEF i
  <2>3. /\ FileOK /\ DOMAIN file' = DOMAIN file \cup {i}
        /\ ~Died => file'[i].status = "accepted" /\ file'[i].at = stamp + 1
    BY <1>1, <1>6, <2>1, <2>2, TopicWritten
  <2>4. CopyOK(copy, file', stamp', effects')
    BY <1>2, <2>3, CopyLater
  <2>5. CASE Died
    BY <1>1, <1>4, <2>1, <2>3, <2>5, MaintainerStep
  <2>6. CASE ~Died /\ ~Pending(copy, i)
    BY <1>1, <1>4, <2>1, <2>3, <2>4, <2>6, MaintainerStep
  <2>7. CASE ~Died /\ Pending(copy, i)
    <3>1. copy' = With(copy, i, "accepted") /\ i \in DOMAIN copy
      BY <2>1, <2>7 DEF Pending
    <3>2. OnlyAt(copy, copy', i)
      BY <3>1, WithOnly
    <3>3. stamp' = stamp + 1 /\ stamp \in Nat
      BY <1>1, ClockTicks, InvFacts
    <3>4. Sound(copy, stamp', effects') /\ copy[i] \in ItemRecord /\ ItemOK(i, file'[i], stamp', effects')
      BY <1>2, <2>3, <2>4, <3>1 DEF CopyOK, Sound, ItemOK, FileOK
    <3>5. /\ copy'[i] \in ItemRecord /\ copy'[i].status = "accepted" /\ copy'[i].at = stamp'
          /\ copy'[i].receipt = copy[i].receipt
      BY <1>6, <3>1, <3>3, <3>4, WithItem DEF Statuses
    <3>6. ItemOK(i, copy'[i], stamp', effects')
      <4>1. ItemOK(i, copy[i], stamp', effects') /\ i \in effects'.topics
        BY <1>6, <2>3, <2>7, <3>1, <3>4 DEF Sound, ItemOK
      <4> QED BY <1>6, <3>3, <3>5, <4>1 DEF ItemOK, Locked
    <3>7. Sound(copy', stamp', effects')
      <4> HIDE DEF ItemOK
      <4> QED BY <3>2, <3>4, <3>6 DEF Sound, OnlyAt
    <3>8. Older(copy', file')
      <4>1. OlderItem(i, copy'[i], file'[i])
        BY <1>6, <2>3, <2>7, <3>3, <3>5 DEF OlderItem
      <4>2. Older(copy, file') /\ i \in DOMAIN file'
        BY <2>3, <2>4 DEF CopyOK
      <4> HIDE DEF OlderItem
      <4> QED BY <3>2, <4>1, <4>2 DEF Older, OnlyAt
    <3>9. CopyOK(copy', file', stamp', effects')
      BY <2>4, <3>2, <3>7, <3>8 DEF CopyOK, OnlyAt
    <3> QED BY <1>1, <1>4, <2>3, <3>9, MaintainerStep
  <2> QED BY <2>5, <2>6, <2>7
<1>7. CASE KindOf[i] = "relation" /\ Pending(file, i) /\ Unmoved(i)
  <2>1. ApproveRelation(i) /\ copy' = file'
    BY <1>7 DEF ApplyResumed
  <2>2. i \in Of("relation")
    BY <1>3, <1>7 DEF Of
  <2>3. FileOK
    BY <1>1, <2>1, <2>2, RelationApproved
  <2> QED BY <1>1, <1>4, <2>1, <2>3, MaintainerStep
<1>8. CASE ~(KindOf[i] = "topic" /\ TopicApplicable(i)) /\ ~(KindOf[i] = "relation" /\ Pending(file, i) /\ Unmoved(i))
  <2>1. UNCHANGED <<file, copy, effects>> /\ Completed
    BY <1>2, <1>8 DEF ApplyResumed
  <2> QED BY <1>5, <2>1
<1> QED BY <1>6, <1>7, <1>8

-----------------------------------------------------------------------------
(* The operators' actions                                                  *)

LEMMA FileMarked ==
    ASSUME InboxInv, Clock, NEW i \in DOMAIN file, NEW status \in Statuses, ThenFile(With(file, i, status)),
           EffectsOK(effects'), Grows(effects, effects'), MayBe(file, i, status, effects')
    PROVE  FileOK /\ DOMAIN file' = DOMAIN file
<1> DEFINE l == With(file, i, status)
<1>1. stamp' = stamp + 1 /\ stamp <= stamp' /\ stamp \in Nat
  BY ClockTicks, InvFacts
<1>2. Sound(file, stamp, effects) /\ OneStanding(file) /\ Sound(file, stamp + 1, effects')
  BY <1>1, InvFacts, SoundLater
<1>3. Follows(file, l, i, effects')
  BY <1>2, WithSteps
<1> HIDE DEF l
<1>4. FileOK
  BY <1>3, FileFollows DEF Follows, l
<1>5. DOMAIN file' = DOMAIN file
  BY <1>3 DEF ThenFile, Follows, l
<1> QED BY <1>4, <1>5

\* The status that an item has.
LEMMA StatusKept ==
    ASSUME InboxInv, NEW i \in DOMAIN file, KindOf[i] # "relation", NEW fy, Grows(effects, fy)
    PROVE  MayBe(file, i, file[i].status, fy) /\ file[i].status \in Statuses
<1>1. Sound(file, stamp, fy)
  BY InvFacts, SoundLater
<1>2. ItemOK(i, file[i], stamp, fy)
  BY <1>1 DEF Sound
<1> QED BY <1>2 DEF MayBe, ItemOK, ItemRecord

LEMMA RejectStep ==
    ASSUME InboxInv, NEW i \in Items, Reject(i)
    PROVE  StepOK /\ InboxInv'
<1>1. /\ Clock /\ UNCHANGED <<copy, doing, session>> /\ i \in DOMAIN file /\ file[i].status = "pending"
      /\ KindOf[i] # "relation"
  BY DEF Reject, Decision, Pending
<1>2. ThenFile(With(file, i, "rejected")) /\ EffectsOK(effects') /\ Grows(effects, effects')
  <2>1. CASE KindOf[i] = "feedback"
    BY <2>1, ClosingIs DEF Reject
  <2>2. CASE KindOf[i] # "feedback"
    BY <2>2, InvFacts, EffectsStay DEF Reject, Completed, ThenFile
  <2> QED BY <2>1, <2>2
<1>3. MayBe(file, i, "rejected", effects')
  BY <1>1 DEF MayBe
<1>4. FileOK /\ DOMAIN file' = DOMAIN file
  BY <1>1, <1>2, <1>3, FileMarked DEF Statuses
<1> QED BY <1>1, <1>4, InvFacts, OperatorStep

LEMMA RejectRelationStep ==
    ASSUME InboxInv, NEW r \in Of("relation"), NEW status \in {"rejected", "suppressed"},
           RejectRelation(r, status)
    PROVE  StepOK /\ InboxInv'
<1>1. /\ Clock /\ UNCHANGED <<copy, doing, session, effects>> /\ r \in DOMAIN file
      /\ file[r].status = "pending" /\ ThenFile(With(file, r, status))
  BY DEF RejectRelation, Decision, Pending, ThenFile
<1>2. MayBe(file, r, status, effects')
  BY <1>1 DEF MayBe, Of
<1>3. FileOK /\ DOMAIN file' = DOMAIN file
  BY <1>1, <1>2, InvFacts, EffectsStay, FileMarked DEF Statuses
<1> QED BY <1>1, <1>3, InvFacts, OperatorStep

LEMMA DecidePairStep ==
    ASSUME InboxInv, NEW r \in Of("relation"), NEW status \in {"rejected", "suppressed"},
           DecidePair(r, status)
    PROVE  StepOK /\ InboxInv'
<1> DEFINE x == [Item(status, "none") EXCEPT !.at = 0]
<1>1. /\ Clock /\ UNCHANGED <<copy, doing, session, effects, deaths>>
      /\ r \in DOMAIN file => file[r].status = "pending"
      /\ file' = Add(file, r, x) /\ r \in Items /\ KindOf[r] = "relation"
  BY DEF DecidePair, Decision, Of
<1>2. stamp' = stamp + 1 /\ stamp' \in 0 .. MaxStamps /\ stamp <= stamp' /\ stamp \in Nat
  BY <1>1, ClockTicks, InvFacts
<1>3. Sound(file, stamp, effects) /\ OneStanding(file) /\ Sound(file, stamp + 1, effects)
  BY <1>2, InvFacts, EffectsStay, SoundLater
<1>4. x \in ItemRecord /\ x.status = status /\ x.at = 0 /\ x.receipt = FALSE
  <2>1. Item(status, "none") \in ItemRecord /\ Item(status, "none").status = status
        /\ Item(status, "none").receipt = FALSE
    BY <1>2, ItemIs DEF Statuses
  <2> QED BY <2>1 DEF ItemRecord
<1> HIDE DEF x
<1>5. ItemOK(r, x, stamp + 1, effects)
  BY <1>1, <1>2, <1>4 DEF ItemOK
<1>6. MayAdd(file, r, x)
  BY <1>1 DEF MayAdd
<1>7. Follows(file, file', r, effects)
  BY <1>1, <1>3, <1>5, <1>6, AddSteps
<1>8. FileOK
  BY <1>1, <1>2, <1>7, InvFacts, EffectsStay DEF FileOK, Follows
<1>9. \A i \in DOMAIN file' \ DOMAIN file : KindOf[i] # "fusion"
  BY <1>1, <1>7 DEF Follows
<1> QED BY <1>1, <1>8, <1>9, InvFacts, OperatorStep

LEMMA AcceptRelationStep ==
    ASSUME InboxInv, NEW r \in Of("relation"), AcceptRelation(r)
    PROVE  StepOK /\ InboxInv'
BY RelationApproved, InvFacts, OperatorStep DEF AcceptRelation, Decision

LEMMA LinkPairStep ==
    ASSUME InboxInv, NEW r \in Of("relation"), LinkPair(r)
    PROVE  StepOK /\ InboxInv'
<1>1. /\ Clock /\ UNCHANGED <<copy, doing, session, file, deaths>>
      /\ EffectsOK(effects') /\ Grows(effects, effects')
  BY InvFacts, Linked DEF LinkPair, Decision
<1>2. FileOK
  BY <1>1, InvFacts, FileAlone
<1> QED BY <1>1, <1>2, InvFacts, OperatorStep

LEMMA AcceptTopicStep ==
    ASSUME InboxInv, NEW t \in Of("topic"), AcceptTopic(t)
    PROVE  StepOK /\ InboxInv'
<1>1. Clock /\ UNCHANGED <<copy, doing, session>> /\ KindOf[t] # "fusion"
  BY DEF AcceptTopic, Decision, Of
<1>2. FileOK /\ DOMAIN file' = DOMAIN file \cup {t}
  BY <1>1, TopicWritten DEF AcceptTopic
<1> QED BY <1>1, <1>2, InvFacts, OperatorStep

LEMMA AnnotateStep ==
    ASSUME InboxInv, NEW i \in Items, Annotate(i)
    PROVE  StepOK /\ InboxInv'
<1>1. /\ Clock /\ UNCHANGED <<copy, doing, session, effects>> /\ i \in DOMAIN file
      /\ KindOf[i] # "relation" /\ ThenFile(With(file, i, file[i].status))
  BY DEF Annotate, Decision, ThenFile
<1>2. EffectsOK(effects') /\ Grows(effects, effects')
  BY <1>1, InvFacts, EffectsStay
<1>3. MayBe(file, i, file[i].status, effects') /\ file[i].status \in Statuses
  BY <1>1, <1>2, StatusKept
<1>4. FileOK /\ DOMAIN file' = DOMAIN file
  BY <1>1, <1>2, <1>3, FileMarked
<1> QED BY <1>1, <1>4, InvFacts, OperatorStep

LEMMA RollbackStep ==
    ASSUME InboxInv, NEW i \in Items, Rollback(i)
    PROVE  StepOK /\ InboxInv'
<1>1. /\ Clock /\ UNCHANGED <<copy, doing, session>> /\ i \in DOMAIN file
      /\ ThenFile(With(file, i, file[i].status)) /\ file[i].receipt
      /\ effects' = [effects EXCEPT !.fused = @ \ {i}]
  BY DEF Rollback, Decision
<1>2. KindOf[i] # "relation"
  BY <1>1, InvFacts DEF Sound, ItemOK
<1>3. EffectsOK(effects') /\ Grows(effects, effects')
  <2>1. {i} \in SUBSET Items
    OBVIOUS
  <2> QED BY <1>1, <2>1, InvFacts, Resolved
<1>4. MayBe(file, i, file[i].status, effects') /\ file[i].status \in Statuses
  BY <1>1, <1>2, <1>3, StatusKept
<1>5. FileOK /\ DOMAIN file' = DOMAIN file
  BY <1>1, <1>3, <1>4, FileMarked
<1> QED BY <1>1, <1>5, InvFacts, OperatorStep

LEMMA ConsolePublishStep ==
    ASSUME InboxInv, NEW s \in Sessions, NEW i \in Items, ConsolePublish(s, i)
    PROVE  StepOK /\ InboxInv'
<1>1. EffectsOK(effects') /\ Grows(effects, effects')
  <2>1. {i} \in SUBSET Items /\ effects' = [effects EXCEPT !.console = @ \cup {i}]
    BY DEF ConsolePublish
  <2> QED BY <2>1, InvFacts, Resolved
<1>2. FileOK
  BY <1>1, InvFacts, FileAlone DEF ConsolePublish, Same
<1>3. SessionOK(session'[s], file', stamp', effects')
  BY InvFacts DEF ConsolePublish, SessionOK
<1> QED BY <1>2, <1>3, InvFacts, OperatorStep DEF ConsolePublish

LEMMA ConsoleCloseStep ==
    ASSUME InboxInv, NEW s \in Sessions, ConsoleClose(s)
    PROVE  StepOK /\ InboxInv'
<1> DEFINE i == session[s].item
<1>1. /\ Clock /\ UNCHANGED <<copy, doing, effects, deaths>>
      /\ session' = [session EXCEPT ![s] = AtRest]
      /\ file' = IF Pending(file, i) THEN With(file, i, "rejected") ELSE file
  BY DEF ConsoleClose, Same
<1>2. EffectsOK(effects') /\ Grows(effects, effects')
  BY <1>1, InvFacts, EffectsStay
<1> HIDE DEF i
<1>3. FileOK /\ DOMAIN file' = DOMAIN file
  <2>1. CASE Pending(file, i)
    <3>1. i \in DOMAIN file /\ MayBe(file, i, "rejected", effects')
      BY <2>1 DEF MayBe, Pending
    <3>2. ThenFile(With(file, i, "rejected"))
      BY <1>1, <2>1 DEF ThenFile
    <3> QED BY <1>1, <1>2, <3>1, <3>2, FileMarked DEF Statuses
  <2>2. CASE ~Pending(file, i)
    BY <1>1, <1>2, <2>2, InvFacts, FileAlone
  <2> QED BY <2>1, <2>2
<1>4. DOMAIN session' = Sessions /\ \A q \in Sessions : session'[q] = session[q] \/ session'[q] = AtRest
  BY <1>1, InvFacts
<1> QED BY <1>1, <1>3, <1>4, OperatorStep DEF SessionOK

LEMMA OpenApprovalStep ==
    ASSUME InboxInv, NEW s \in Sessions, NEW i \in Items, OpenApproval(s, i)
    PROVE  StepOK /\ InboxInv'
<1> DEFINE x == [stage |-> "opened", item |-> i, loaded |-> file]
<1>1. /\ UNCHANGED <<file, copy, doing, effects, stamp, deaths>> /\ session' = [session EXCEPT ![s] = x]
      /\ KindOf[i] \in {"update", "feedback"} /\ i \in DOMAIN file
  BY DEF OpenApproval, Same, Pending
<1>2. FileOK
  BY <1>1, InvFacts, EffectsStay, FileAlone
<1>3. SessionOK(x, file', stamp', effects')
  <2>1. Sound(file, stamp, effects) /\ Older(file, file)
    BY InvFacts, OlderSelf
  <2>2. x.stage = "opened" /\ x.item = i /\ x.loaded = file /\ x = [stage |-> x.stage, item |-> x.item, loaded |-> x.loaded]
    OBVIOUS
  <2> HIDE DEF x
  <2> QED BY <1>1, <2>1, <2>2 DEF SessionOK
<1>4. DOMAIN session' = Sessions /\ \A q \in Sessions : session'[q] = session[q] \/ session'[q] = x
  BY <1>1, InvFacts
<1> QED BY <1>1, <1>2, <1>3, <1>4, OperatorStep

\* A session that has loaded a copy.
LEMMA SessionLoaded ==
    ASSUME InboxInv, NEW s \in Sessions, session[s].stage \in {"opened", "applied"}
    PROVE  /\ session[s].item \in Items /\ KindOf[session[s].item] \in {"update", "feedback"}
           /\ session[s] = [stage |-> session[s].stage, item |-> session[s].item, loaded |-> session[s].loaded]
           /\ session[s].item \in DOMAIN session[s].loaded /\ DOMAIN session[s].loaded \subseteq DOMAIN file
           /\ Sound(session[s].loaded, stamp, effects) /\ Older(session[s].loaded, file)
           /\ session[s].stage = "applied" => session[s].item \in effects.assessed \cup effects.closed
BY DEF InboxInv, SessionOK, AtRest

LEMMA ApplyApprovalStep ==
    ASSUME InboxInv, NEW s \in Sessions, ApplyApproval(s)
    PROVE  StepOK /\ InboxInv'
<1> DEFINE i == session[s].item
           done == i \in effects.assessed \/ (KindOf[i] = "feedback" /\ i \in effects.closed)
<1>1. session[s].stage = "opened" /\ UNCHANGED <<copy, doing, deaths>>
  BY DEF ApplyApproval, Same
<1>2. i \in Items
  BY <1>1, SessionLoaded
<1>3. CASE Unmoved(i) \/ (done /\ KindOf[i] = "update")
  <2>1. /\ effects' = IF done THEN effects ELSE [effects EXCEPT !.assessed = @ \cup {i}]
        /\ session' = [session EXCEPT ![s].stage = "applied"] /\ UNCHANGED <<file, stamp>>
    BY <1>3 DEF ApplyApproval
  <2>2. EffectsOK(effects') /\ Grows(effects, effects') /\ i \in effects'.assessed \cup effects'.closed
    <3>1. CASE done
      BY <2>1, <3>1, InvFacts, EffectsStay
    <3>2. CASE ~done
      <4>1. {i} \in SUBSET Items /\ effects' = [effects EXCEPT !.assessed = @ \cup {i}]
        BY <1>2, <2>1, <3>2
      <4>2. i \in effects'.assessed
        BY <4>1, InvFacts DEF EffectsOK
      <4> HIDE DEF i
      <4> QED BY <4>1, <4>2, InvFacts, Resolved
    <3> QED BY <3>1, <3>2
  <2>3. FileOK
    BY <1>1, <2>1, <2>2, InvFacts, FileAlone
  <2> DEFINE x == [stage |-> "applied", item |-> i, loaded |-> session[s].loaded]
  <2>4. session'[s] = x /\ DOMAIN session' = Sessions /\ \A q \in Sessions : q # s => session'[q] = session[q]
    <3>1. session[s] = [stage |-> session[s].stage, item |-> session[s].item, loaded |-> session[s].loaded]
      BY <1>1, SessionLoaded
    <3>2. session' = [session EXCEPT ![s] = [session[s] EXCEPT !.stage = "applied"]]
      BY <2>1
    <3>3. [session[s] EXCEPT !.stage = "applied"] = x
      BY <3>1
    <3> QED BY <3>2, <3>3, InvFacts
  <2>5. SessionOK(x, file, stamp, effects')
    <3>1. /\ i \in Items /\ KindOf[i] \in {"update", "feedback"} /\ i \in DOMAIN session[s].loaded
          /\ DOMAIN session[s].loaded \subseteq DOMAIN file
          /\ Sound(session[s].loaded, stamp, effects) /\ Older(session[s].loaded, file)
      BY <1>1, SessionLoaded
    <3>2. Sound(session[s].loaded, stamp, effects')
      BY <2>2, <3>1, InvFacts, SoundLater
    <3>3. x.stage = "applied" /\ x.item = i /\ x.loaded = session[s].loaded
          /\ x = [stage |-> x.stage, item |-> x.item, loaded |-> x.loaded]
      OBVIOUS
    <3> HIDE DEF x, i
    <3> QED BY <2>2, <3>1, <3>2, <3>3 DEF SessionOK
  <2> HIDE DEF x
  <2>6. \A q \in Sessions : session'[q] = session[q] \/ SessionOK(session'[q], file', stamp', effects')
    BY <2>1, <2>4, <2>5
  <2> QED BY <1>1, <2>1, <2>3, <2>4, <2>6, OperatorStep
<1>4. CASE ~(Unmoved(i) \/ (done /\ KindOf[i] = "update"))
  <2>1. /\ Clock /\ file' = IF Pending(file, i) THEN With(file, i, "stale") ELSE file
        /\ session' = [session EXCEPT ![s] = AtRest] /\ UNCHANGED effects
    BY <1>4 DEF ApplyApproval
  <2>2. EffectsOK(effects') /\ Grows(effects, effects')
    BY <2>1, InvFacts, EffectsStay
  <2> HIDE DEF i
  <2>3. FileOK /\ DOMAIN file' = DOMAIN file
    <3>1. CASE Pending(file, i)
      <4>1. i \in DOMAIN file /\ MayBe(file, i, "stale", effects')
        BY <3>1 DEF MayBe, Pending
      <4>2. ThenFile(With(file, i, "stale"))
        BY <1>1, <2>1, <3>1 DEF ThenFile
      <4> QED BY <2>1, <2>2, <4>1, <4>2, FileMarked DEF Statuses
    <3>2. CASE ~Pending(file, i)
      BY <1>1, <2>1, <2>2, <3>2, InvFacts, FileAlone
    <3> QED BY <3>1, <3>2
  <2>4. DOMAIN session' = Sessions /\ \A q \in Sessions : session'[q] = session[q] \/ session'[q] = AtRest
    BY <2>1, InvFacts
  <2> QED BY <1>1, <2>3, <2>4, OperatorStep DEF SessionOK
<1> QED BY <1>3, <1>4

LEMMA SaveApprovalStep ==
    ASSUME InboxInv, NEW s \in Sessions, SaveApproval(s)
    PROVE  StepOK /\ InboxInv'
<1> DEFINE i == session[s].item
           l == session[s].loaded
           m == With(l, i, "accepted")
<1>1. /\ session[s].stage = "applied" /\ Clock /\ UNCHANGED <<copy, doing, effects, deaths>>
      /\ file' = Merge(m, file) /\ session' = [session EXCEPT ![s] = AtRest]
  BY DEF SaveApproval, Same
<1>2. /\ i \in Items /\ KindOf[i] \in {"update", "feedback"} /\ i \in DOMAIN l
      /\ DOMAIN l \subseteq DOMAIN file /\ Sound(l, stamp, effects) /\ Older(l, file)
      /\ i \in effects.assessed \cup effects.closed
  BY <1>1, SessionLoaded
<1>3. stamp' = stamp + 1 /\ stamp' \in 0 .. MaxStamps /\ stamp <= stamp' /\ stamp \in Nat /\ stamp + 1 \in Nat
  BY <1>1, ClockTicks, InvFacts
<1>4. Sound(file, stamp, effects) /\ OneStanding(file) /\ Sound(file, stamp + 1, effects) /\ Sound(l, stamp + 1, effects)
  BY <1>2, <1>3, InvFacts, EffectsStay, SoundLater
<1>5. ItemOK(i, l[i], stamp + 1, effects) /\ l[i] \in ItemRecord
  BY <1>2, <1>4 DEF Sound, ItemOK
<1> HIDE DEF l, i
<1>6. OnlyAt(l, m, i)
  BY <1>2, WithOnly
<1>7. /\ m[i] \in ItemRecord /\ m[i].status = "accepted" /\ m[i].at = stamp + 1
      /\ m[i].receipt = l[i].receipt
  BY <1>2, <1>3, <1>5, WithItem DEF Statuses
<1> HIDE DEF m
<1>8. ItemOK(i, m[i], stamp + 1, effects)
  BY <1>2, <1>3, <1>5, <1>7 DEF ItemOK
<1>9. Sound(m, stamp + 1, effects)
  <2> HIDE DEF ItemOK
  <2> QED BY <1>4, <1>6, <1>8 DEF Sound, OnlyAt
<1>10. Older(m, file)
  <2>1. KindOf[i] \notin Locked
    BY <1>2 DEF Locked
  <2> QED BY <1>2, <1>6, <2>1 DEF Older, OnlyAt
<1>11. /\ Advances(file, file', stamp) /\ Sound(file', stamp + 1, effects) /\ OneStanding(file')
       /\ DOMAIN file' = DOMAIN m \cup DOMAIN file
  BY <1>1, <1>3, <1>4, <1>9, <1>10, MergeAdvances
<1>12. DOMAIN file' = DOMAIN file
  BY <1>2, <1>6, <1>11 DEF OnlyAt
<1>13. FileOK
  BY <1>1, <1>3, <1>11, InvFacts, EffectsStay DEF FileOK
<1>14. DOMAIN session' = Sessions /\ \A q \in Sessions : session'[q] = session[q] \/ session'[q] = AtRest
  BY <1>1, InvFacts
<1> QED BY <1>1, <1>12, <1>13, <1>14, OperatorStep DEF SessionOK

LEMMA RequestDiesStep ==
    ASSUME InboxInv, NEW s \in Sessions, RequestDies(s)
    PROVE  StepOK /\ InboxInv'
<1>1. FileOK
  BY InvFacts, DeathsBounded, EffectsStay, FileAlone DEF RequestDies
<1>2. DOMAIN session' = Sessions /\ \A q \in Sessions : session'[q] = session[q] \/ session'[q] = AtRest
  BY InvFacts DEF RequestDies
<1> QED BY <1>1, <1>2, OperatorStep DEF RequestDies, SessionOK

LEMMA UnchangedStep ==
    ASSUME InboxInv, UNCHANGED <<file, copy, doing, session, effects, stamp, deaths>>
    PROVE  StepOK /\ InboxInv'
<1>1. FileOK
  BY InvFacts, EffectsStay, FileAlone
<1> QED BY <1>1, InvFacts, OperatorStep

-----------------------------------------------------------------------------
(* The invariant and the properties                                        *)

LEMMA InitInv ==
    ASSUME InboxInit
    PROVE  InboxInv
<1>1. stamp \in 0 .. MaxStamps /\ deaths \in 0 .. MaxDeaths
  BY InboxAssumption DEF InboxInit
<1>2. EffectsOK(effects)
  BY DEF InboxInit, EffectsOK
<1>3. DOMAIN file = {} /\ DOMAIN copy = {} /\ doing = AtRest /\ session = [s \in Sessions |-> AtRest]
  BY DEF InboxInit
<1> QED BY <1>1, <1>2, <1>3 DEF InboxInv, DoingOK, Sound, OneStanding, CopyOK, Older, SessionOK

\* Every step is one of the actions, or changes no variable.
LEMMA NextStep ==
    ASSUME InboxInv, [InboxNext]_inboxVars
    PROVE  StepOK /\ InboxInv'
<1>1. CASE InboxNext
  <2>1. CASE SaveLedger \/ Refresh \/ RefreshFeedback \/ Overtaken \/ ApplyResumed \/ Restart
    BY <2>1, SaveLedgerStep, RefreshStep, RefreshFeedbackStep, OvertakenStep, ApplyResumedStep, RestartStep
  <2>2. CASE \E t \in Of("topic") : (\E v \in Verdicts : ProposeTopic(t, v)) \/ AcceptTopic(t)
    BY <2>2, ProposeTopicStep, AcceptTopicStep
  <2>3. CASE \E r \in Of("relation") :
                \/ \E v \in {"approve", "human", "waiting"} : ProposeRelation(r, v)
                \/ CommitRelation(r) \/ AcceptRelation(r) \/ LinkPair(r)
                \/ \E status \in {"rejected", "suppressed"} :
                        RejectRelation(r, status) \/ DecidePair(r, status)
    <3>1. \A v \in {"approve", "human", "waiting"} : v \in Verdicts
      BY DEF Verdicts
    <3> QED BY <2>3, <3>1, ProposeRelationStep, CommitRelationStep, AcceptRelationStep, LinkPairStep,
               RejectRelationStep, DecidePairStep
  <2>4. CASE \/ \E i \in Items \ (Of("topic") \cup Of("relation")) : ProposeReconciliation(i)
             \/ \E i \in Of("feedback") : CloseFeedback(i)
    BY <2>4, ProposeReconciliationStep, CloseFeedbackStep
  <2>5. CASE \E i \in Items : StartResume(i) \/ Reject(i) \/ Annotate(i) \/ Rollback(i)
    BY <2>5, StartResumeStep, RejectStep, AnnotateStep, RollbackStep
  <2>6. CASE \E v \in Verdicts : ResumeTopic(v) \/ ResumeRelation(v) \/ ResumeFusion(v)
    BY <2>6, ResumeTopicStep, ResumeRelationStep, ResumeFusionStep
  <2>7. CASE \E s \in Sessions :
                \/ ConsoleClose(s) \/ ApplyApproval(s) \/ SaveApproval(s) \/ RequestDies(s)
                \/ \E i \in Items : ConsolePublish(s, i) \/ OpenApproval(s, i)
    BY <2>7, ConsoleCloseStep, ApplyApprovalStep, SaveApprovalStep, RequestDiesStep,
       ConsolePublishStep, OpenApprovalStep
  <2>8. CASE \E e \in {Evidence[i] : i \in Items} : Move(e)
    BY <2>8, UnchangedStep DEF Move
  <2> QED BY <1>1, <2>1, <2>2, <2>3, <2>4, <2>5, <2>6, <2>7, <2>8 DEF InboxNext
<1>2. CASE UNCHANGED inboxVars
  BY <1>2, UnchangedStep DEF inboxVars
<1> QED BY <1>1, <1>2

\* The invariant holds whatever the maintainer, the operators and crashes do.
THEOREM InboxInvariant == InboxSpec => []InboxInv
<1>1. InboxInit => InboxInv
  BY InitInv
<1>2. InboxInv /\ [InboxNext]_inboxVars => InboxInv'
  BY NextStep
<1> QED BY <1>1, <1>2, PTL DEF InboxSpec

\* Records of the ledger are of their kinds, and only a published fusion has a receipt.
THEOREM InboxIsTyped == InboxSpec => []InboxTypeOK
<1>1. InboxInv => InboxTypeOK
  <2> SUFFICES ASSUME InboxInv
               PROVE  InboxTypeOK
    OBVIOUS
  <2>1. ASSUME NEW l \in {file, copy}
        PROVE  DOMAIN l \subseteq Items /\ \A i \in DOMAIN l :
                  /\ l[i].status \in {"pending", "accepted", "rejected", "stale"}
                          \cup (IF KindOf[i] = "relation" THEN {"suppressed"} ELSE {})
                  /\ l[i].at \in 0 .. MaxStamps
                  /\ l[i].receipt => KindOf[i] = "fusion" /\ l[i].status = "accepted"
    <3>1. Sound(l, stamp, effects) /\ stamp \in 0 .. MaxStamps /\ MaxStamps \in Nat
      BY InvFacts
    <3> QED BY <3>1 DEF Sound, ItemOK, ItemRecord, Statuses
  <2> QED BY <2>1, InvFacts DEF InboxTypeOK
<1> QED BY <1>1, InboxInvariant, PTL

\* Decisions of the maintainer and of operators, whose processes may die at any step, have
\* each effect once: one Topic of the same evidence, one edge of a pair; and what the file
\* calls accepted is in the store.
THEOREM InboxWritesOnce == InboxSpec => []WrittenOnce
<1>1. InboxInv => WrittenOnce
  <2> SUFFICES ASSUME InboxInv
               PROVE  WrittenOnce
    OBVIOUS
  <2>1. \A t, u \in effects.topics : Evidence[t] = Evidence[u] => t = u
    BY InvFacts DEF EffectsOK
  <2>2. \A r \in Of("relation") : effects.links[r] <= 1
    <3>1. effects.links \in [Of("relation") -> 0 .. 1]
      BY InvFacts DEF EffectsOK
    <3> QED BY <3>1
  <2>3. AcceptedIsDone
    <3>1. \A i \in DOMAIN file : ItemOK(i, file[i], stamp, effects)
      BY InvFacts DEF Sound
    <3> QED BY <3>1 DEF ItemOK, AcceptedIsDone, Locked
  <2> QED BY <2>1, <2>2, <2>3 DEF WrittenOnce
<1> QED BY <1>1, InboxInvariant, PTL

\* A decision on the file is final, whatever older copy a maintainer or a request saves.
THEOREM DecisionsAreKept == InboxSpec => DecisionsStick
<1>1. ASSUME InboxInv, [InboxNext]_inboxVars
      PROVE  [\A i \in DOMAIN file :
                KindOf[i] \in Locked /\ file[i].status \in {"accepted", "rejected", "suppressed"}
                    => file'[i].status = file[i].status]_inboxVars
  <2>1. Advances(file, file', stamp)
    BY <1>1, NextStep DEF StepOK
  <2> QED BY <2>1 DEF Advances, AdvancedItem
<1> QED BY <1>1, InboxInvariant, PTL DEF InboxSpec, DecisionsStick

\* Only three ways of linking change the edges; each of them reads the file first.
LEMMA LinksAsDecided ==
    ASSUME InboxInv, [InboxNext]_inboxVars, NEW r \in Of("relation"), r \in DOMAIN file,
           effects'.links[r] > effects.links[r]
    PROVE  file[r].status \notin {"rejected", "suppressed"}
<1>1. EffectsOK(effects)
  BY InvFacts
<1>2. effects'.links # effects.links
  <2>1. effects.links[r] \in 0 .. 1
    BY <1>1 DEF EffectsOK
  <2> QED BY <2>1
<1>3. ASSUME NEW q \in Of("relation"), ApproveRelation(q)
      PROVE  q = r /\ file[r].status = "pending"
  <2>1. effects' = effects \/ effects' = [effects EXCEPT !.links[q] = @ + 1]
    BY <1>3 DEF ApproveRelation
  <2>2. effects' = [effects EXCEPT !.links = [effects.links EXCEPT ![q] = @ + 1]]
    BY <1>2, <2>1
  <2>3. effects'.links = [effects.links EXCEPT ![q] = @ + 1]
    BY <1>1, <2>2 DEF EffectsOK
  <2>4. effects.links \in [Of("relation") -> 0 .. 1]
    BY <1>1 DEF EffectsOK
  <2>5. q = r
    BY <2>3, <2>4
  <2> QED BY <1>3, <2>5 DEF ApproveRelation, Pending
<1>4. ASSUME NEW q \in Of("relation"), effects' = [effects EXCEPT !.links[q] = 1]
      PROVE  q = r
  <2>1. effects' = [effects EXCEPT !.links = [effects.links EXCEPT ![q] = 1]]
    BY <1>4
  <2>2. effects'.links = [effects.links EXCEPT ![q] = 1]
    BY <1>1, <2>1 DEF EffectsOK
  <2>3. effects.links \in [Of("relation") -> 0 .. 1]
    BY <1>1 DEF EffectsOK
  <2> QED BY <2>2, <2>3
<1>5. CASE \E q \in Of("relation") : CommitRelation(q) \/ LinkPair(q)
  BY <1>4, <1>5 DEF CommitRelation, LinkPair
<1>6. CASE \E q \in Of("relation") : AcceptRelation(q)
  BY <1>3, <1>6 DEF AcceptRelation
<1>7. CASE ApplyResumed
  <2> DEFINE i == doing.item
  <2>1. i \in DOMAIN file /\ KindOf[i] \in {"topic", "relation"}
    BY <1>7, InvFacts DEF DoingOK, ApplyResumed, AtRest
  <2>2. i \in Items
    BY <2>1, InvFacts DEF Sound, ItemOK
  <2>3. effects' # effects
    BY <1>2
  <2>4. CASE KindOf[i] = "topic"
    <3>1. effects' = [effects EXCEPT !.topics = @ \cup {i}]
      BY <1>7, <2>3, <2>4 DEF ApplyResumed, WriteTopic
    <3> QED BY <1>1, <1>2, <3>1 DEF EffectsOK
  <2>5. CASE KindOf[i] = "relation"
    <3>1. ApproveRelation(i) /\ i \in Of("relation")
      BY <1>7, <2>2, <2>3, <2>5 DEF ApplyResumed, Of
    <3> QED BY <1>3, <3>1
  <2> QED BY <2>1, <2>4, <2>5
<1>8. ASSUME NEW I, \/ effects' = [effects EXCEPT !.closed = I] \/ effects' = [effects EXCEPT !.assessed = I]
                    \/ effects' = [effects EXCEPT !.fused = I] \/ effects' = [effects EXCEPT !.console = I]
                    \/ effects' = [effects EXCEPT !.topics = I]
      PROVE  FALSE
  BY <1>1, <1>2, <1>8 DEF EffectsOK
<1>9. CASE \/ SaveLedger \/ Refresh \/ Overtaken \/ Restart
           \/ \E t \in Of("topic"), v \in Verdicts : ProposeTopic(t, v)
           \/ \E q \in Of("relation"), v \in {"approve", "human", "waiting"} : ProposeRelation(q, v)
           \/ \E q \in Of("relation"), status \in {"rejected", "suppressed"} :
                    RejectRelation(q, status) \/ DecidePair(q, status)
           \/ \E i \in Items : ProposeReconciliation(i) \/ StartResume(i) \/ Annotate(i)
           \/ \E v \in Verdicts : ResumeTopic(v) \/ ResumeRelation(v)
           \/ \E s \in Sessions : ConsoleClose(s) \/ SaveApproval(s) \/ RequestDies(s)
           \/ \E s \in Sessions, i \in Items : OpenApproval(s, i)
           \/ \E e \in {Evidence[i] : i \in Items} : Move(e)
           \/ UNCHANGED inboxVars
  <2>1. effects' = effects
    BY <1>9 DEF SaveLedger, Refresh, Overtaken, Restart, ProposeTopic, ProposeRelation, RejectRelation,
       DecidePair, ProposeReconciliation, StartResume, Annotate, ResumeTopic, ResumeRelation,
       ConsoleClose, SaveApproval, RequestDies, OpenApproval, Move, inboxVars
  <2> QED BY <1>2, <2>1
<1>10. CASE \E t \in Of("topic") : AcceptTopic(t)
  BY <1>8, <1>10 DEF AcceptTopic, WriteTopic
<1>11. CASE RefreshFeedback \/ (\E i \in Of("feedback") : CloseFeedback(i)) \/ (\E i \in Items : Reject(i))
  <2>1. CASE RefreshFeedback
    BY <1>8, <2>1 DEF RefreshFeedback
  <2>2. ASSUME NEW i, effects' = Closing(i)
        PROVE  FALSE
    BY <1>8, <2>2 DEF Closing
  <2>3. CASE ~RefreshFeedback
    BY <1>2, <1>11, <2>2, <2>3 DEF CloseFeedback, Reject
  <2> QED BY <2>1, <2>3
<1>12. CASE (\E i \in Items : Rollback(i)) \/ (\E s \in Sessions, i \in Items : ConsolePublish(s, i))
  BY <1>8, <1>12 DEF Rollback, ConsolePublish
<1>13. CASE (\E v \in Verdicts : ResumeFusion(v)) \/ (\E s \in Sessions : ApplyApproval(s))
  <2>1. \A i : effects' # [effects EXCEPT !.fused = @ \cup {i}] /\ effects' # [effects EXCEPT !.assessed = @ \cup {i}]
    BY <1>8
  <2> QED BY <1>2, <1>13, <2>1 DEF ResumeFusion, ApplyApproval
<1> QED BY <1>5, <1>6, <1>7, <1>9, <1>10, <1>11, <1>12, <1>13 DEF InboxNext

\* No way of linking a pair, with or without an item, goes against its rejection.
THEOREM NothingLinkedAgainst == InboxSpec => NoLinkAgainstDecision
<1>1. ASSUME InboxInv, [InboxNext]_inboxVars
      PROVE  [\A r \in Of("relation") :
                effects'.links[r] > effects.links[r] /\ r \in DOMAIN file =>
                    file[r].status \notin {"rejected", "suppressed"}]_inboxVars
  BY <1>1, LinksAsDecided
<1> QED BY <1>1, InboxInvariant, PTL DEF InboxSpec, NoLinkAgainstDecision
=============================================================================
