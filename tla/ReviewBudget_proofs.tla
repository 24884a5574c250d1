------------------------ MODULE ReviewBudget_proofs ------------------------
(***************************************************************************)
(* Proofs about ReviewBudget, for any number of workers and any evidence,  *)
(* limits and times.  The inductive invariant says who may submit a        *)
(* review: the worker that inserted its reservation, before any request    *)
(* for that key exists, and no other worker.  Most steps move one worker   *)
(* and change attempts in place (MoveStep); the admission of a review, its *)
(* submission, the service's answer and the clock are treated separately.  *)
(* ReviewsInv then says what the recorded answers tell of the texts that   *)
(* the workers carry, and CountedInv that what the service accepted is     *)
(* never told to be unsubmitted; the limits of the calls rest on it.  The  *)
(* limit of the tokens is about sums over sets: a sum is the number of the *)
(* units of its elements, so that sums compare as finite sets do.          *)
(***************************************************************************)
EXTENDS ReviewBudget, FiniteSetTheorems, WellFoundedInduction, TLAPS

Sound(wk) ==
    /\ wk \in Worker
    /\ wk \in OnPath =>
          /\ \A seen \in wk.unsettled :
                seen[1] \in DOMAIN attempts /\ seen[2] \in DOMAIN remote \cup {NoId}
          /\ wk.at \in {"create", "accepted", "polling"} =>
                KeyOf(wk) \in DOMAIN attempts
          /\ wk.at \in {"accepted", "polling"} => wk.response \in DOMAIN remote

Identified(a) ==
    a \in Attempt /\ {a.response, a.result} \subseteq DOMAIN remote \cup {NoId}

BaselineOK ==
    /\ DOMAIN baseline \subseteq Nat
    /\ \A b \in DOMAIN baseline : baseline[b] \in
          [age: 0..Window, actual: BaselineUsages \cup {Unknown}]

MoveStep(w) ==
    /\ remote' = remote
    /\ DOMAIN attempts' = DOMAIN attempts
    /\ \A k \in DOMAIN attempts : Identified(attempts'[k])
    /\ BaselineOK'
    /\ \E wk : /\ Sound(wk) /\ wk.at # "create"
               /\ workers' = [workers EXCEPT ![w] = wk]

IInv == TypeOK /\ LinksOK /\ SubmissionsOwned /\ SubmittedOnce

-----------------------------------------------------------------------------
(* The operators on attempts and on paths *)

\* The ledger's records keep their types under each operator of the ledger.
LEMMA AttemptTypes ==
    ASSUME NEW a \in Attempt,
           NEW u \in Usages \cup {0, Unknown}, NEW id \in Nat,
           NEW s \in {"completed", "failed", "not_submitted"}
    PROVE  /\ Settled(a, u, id, s) \in Attempt
           /\ Submitted(a, id) \in Attempt
           /\ [a EXCEPT !.state = "orphaned"] \in Attempt
           /\ Older(a) \in Attempt
<1>1. Settled(a, u, id, s) \in Attempt
  BY DEF Settled, Attempt
<1>2. Submitted(a, id) \in Attempt
  BY DEF Submitted, Attempt
<1>3. [a EXCEPT !.state = "orphaned"] \in Attempt
  BY DEF Attempt
<1>4. Older(a) \in Attempt
  BY AmountAssumption DEF Older, Attempt
<1>. QED  BY <1>1, <1>2, <1>3, <1>4

\* A path keeps its type, and goes from an answer to its next call or its end.
LEMMA FollowTypes ==
    ASSUME NEW wk \in OnPath, NEW answer \in Answer
    PROVE  /\ Follow(wk, answer) \in OnPath
           /\ Follow(wk, answer).at \in {"list", "done"}
           /\ Follow(wk, answer).unsettled = wk.unsettled
<1>. DEFINE n == Follow(wk, answer)
<1>1. CASE answer.verdict = "ask"
  BY <1>1 DEF Follow, Stop, OnPath
<1>2. CASE answer.verdict # "ask" /\ answer.revision # NoContent /\ wk.stage = "review"
  <2>1. n = Repaired(wk, answer)
    BY <1>2 DEF Follow
  <2>2. answer.revision \in Contents
    BY <1>2, SetAssumption DEF Answer
  <2>. QED  BY <2>1, <2>2 DEF Repaired, OnPath, Stages
<1>3. NextTier(wk) \in OnPath /\ NextTier(wk).at \in {"list", "done"}
        /\ NextTier(wk).unsettled = wk.unsettled
  BY DEF NextTier, Stop, OnPath, Tiers, Stages
<1>4. CASE answer.verdict # "ask" /\ answer.revision # NoContent /\ wk.stage # "review"
  <2>1. n = NextTier(wk)
    BY <1>4 DEF Follow
  <2>. QED  BY <2>1, <1>3
<1>5. CASE answer.verdict # "ask" /\ answer.revision = NoContent
  <2>1. n \in {Stop(wk, "approved"), Stop(wk, "no_change"), NextTier(wk)}
    BY <1>5 DEF Follow
  <2>2. \A o \in {"approved", "no_change"} : Stop(wk, o) \in OnPath
           /\ Stop(wk, o).at = "done" /\ Stop(wk, o).unsettled = wk.unsettled
    BY DEF Stop, OnPath
  <2>. QED  BY <2>1, <2>2, <1>3
<1>. QED  BY <1>1, <1>2, <1>4, <1>5

LEMMA StopTypes ==
    ASSUME NEW wk \in OnPath,
           NEW o \in {"approved", "baseline", "no_change", "needs_review",
                      "missing_evidence", "waiting_budget"}
    PROVE  /\ Stop(wk, o) \in OnPath
           /\ Stop(wk, o).at = "done"
           /\ Stop(wk, o).unsettled = wk.unsettled
BY DEF Stop, OnPath

\* A path that is at no paid call and knows what it knew before is sound.
LEMMA RestingIsSound ==
    ASSUME NEW wk \in OnPath, wk.at \in {"list", "done"}, NEW old, Sound(old),
           old \in OnPath, wk.unsettled = old.unsettled
    PROVE  Sound(wk) /\ wk.at # "create"
BY DEF Sound, Worker

LEMMA StoppedIsSound ==
    ASSUME NEW wk \in OnPath, Sound(wk),
           NEW o \in {"approved", "baseline", "no_change", "needs_review",
                      "missing_evidence", "waiting_budget"}
    PROVE  Sound(Stop(wk, o)) /\ Stop(wk, o).at # "create"
BY StopTypes, RestingIsSound

-----------------------------------------------------------------------------
(* What a step of one worker preserves *)

LEMMA WorkersAreSound ==
    ASSUME IInv, NEW w \in Workers
    PROVE  Sound(workers[w])
BY DEF IInv, TypeOK, LinksOK, Sound

LEMMA MovePreserves ==
    ASSUME IInv, NEW w \in Workers, MoveStep(w)
    PROVE  IInv'
<1>. PICK wk : Sound(wk) /\ wk.at # "create" /\ workers' = [workers EXCEPT ![w] = wk]
  BY DEF MoveStep
<1>. USE DEF MoveStep
<1>1. \A v \in Workers : workers'[v] = IF v = w THEN wk ELSE workers[v]
  BY DEF IInv, TypeOK
<1>2. \A v \in Workers : Sound(workers'[v])
  BY <1>1, WorkersAreSound
<1>3. TypeOK'
  <2>1. DOMAIN workers' = Workers
    BY DEF IInv, TypeOK
  <2>2. \A v \in Workers : workers'[v] \in Worker
    BY <1>2 DEF Sound
  <2>3. \A k \in DOMAIN attempts' : /\ attempts'[k] \in Attempt
          /\ {attempts'[k].response, attempts'[k].result} \subseteq DOMAIN remote' \cup {NoId}
    BY DEF Identified
  <2>. QED  BY <2>1, <2>2, <2>3 DEF IInv, TypeOK, BaselineOK
<1>4. LinksOK'
  BY <1>2 DEF IInv, LinksOK, Sound
<1>5. SubmissionsOwned'
  BY <1>1 DEF IInv, SubmissionsOwned, AboutToSubmit
<1>6. SubmittedOnce'
  BY DEF IInv, SubmittedOnce
<1>. QED  BY <1>3, <1>4, <1>5, <1>6 DEF IInv

\* The shape of a step that leaves the ledger alone.
LEMMA QuietMove ==
    ASSUME IInv, NEW w \in Workers, NEW wk, Sound(wk), wk.at # "create",
           UNCHANGED <<attempts, baseline, remote>>, Become(w, wk)
    PROVE  MoveStep(w)
BY DEF IInv, TypeOK, MoveStep, Become, Identified, BaselineOK

-----------------------------------------------------------------------------
(* One action at a time *)

LEMMA BeginMoves ==
    ASSUME IInv, NEW w \in Workers, NEW e \in Evidence, NEW c \in Contents,
           Begin(w, e, c)
    PROVE  MoveStep(w)
<1>1. PICK id \in 1..(TotalCalls + Cardinality(Workers)) :
          /\ baseline' = [b \in TotalBaseline \cup {id} |->
                 IF b = id THEN [age |-> 0, actual |-> Unknown] ELSE baseline[b]]
          /\ Become(w, [at |-> "baseline", evidence |-> e, content |-> c, call |-> id])
  BY DEF Begin
<1>. DEFINE wk == [at |-> "baseline", evidence |-> e, content |-> c, call |-> id]
<1>2. id \in Nat
  OBVIOUS
<1>3. Sound(wk) /\ wk.at # "create"
  BY <1>2 DEF Sound, Worker, OnPath
<1>4. BaselineOK'
  BY <1>1, <1>2, AmountAssumption DEF IInv, TypeOK, BaselineOK, TotalBaseline
<1>. QED  BY <1>1, <1>3, <1>4 DEF Begin, IInv, TypeOK, MoveStep, Become, Identified

LEMMA EndBaselineMoves ==
    ASSUME IInv, NEW w \in Workers, EndBaseline(w)
    PROVE  MoveStep(w)
<1>. DEFINE old == workers[w]
<1>1. old \in Worker /\ old.at = "baseline" /\ UNCHANGED <<attempts, remote>>
  BY DEF EndBaseline, IInv, TypeOK
<1>2. old.evidence \in Evidence /\ old.content \in Contents
  <2>1. old \notin OnPath
    BY <1>1 DEF OnPath
  <2>2. old \in [at: {"baseline"}, evidence: Evidence, content: Contents, call: Nat]
    BY <1>1, <2>1 DEF Worker, Idle
  <2>. QED  BY <2>2
<1>3. CASE UNCHANGED baseline /\ Become(w, Idle)
  <2>1. Sound(Idle) /\ Idle.at # "create"
    BY DEF Sound, Worker, OnPath, Idle
  <2>. QED  BY <1>1, <1>3, <2>1, QuietMove
<1>4. ASSUME NEW u \in BaselineUsages \cup {Unknown},
             NEW v \in {"approve", "no_change", "needs_review"},
             old.call \in DOMAIN baseline,
             baseline' = [baseline EXCEPT ![old.call].actual =
                              IF @ = Unknown THEN u ELSE @],
             Become(w, [at |-> "triage", evidence |-> old.evidence,
                        content |-> old.content, verdict |-> v])
      PROVE  MoveStep(w)
  <2>. DEFINE wk == [at |-> "triage", evidence |-> old.evidence,
                     content |-> old.content, verdict |-> v]
  <2>1. Sound(wk) /\ wk.at # "create"
    BY <1>2 DEF Sound, Worker, OnPath
  <2>2. BaselineOK'
    BY <1>4 DEF IInv, TypeOK, BaselineOK
  <2>. QED  BY <1>1, <1>4, <2>1, <2>2 DEF IInv, TypeOK, MoveStep, Become, Identified
<1>. QED  BY <1>3, <1>4 DEF EndBaseline

LEMMA TriageMoves ==
    ASSUME IInv, NEW w \in Workers, Triage(w)
    PROVE  MoveStep(w)
<1>. DEFINE old == workers[w]
            path == [at |-> "list", evidence |-> old.evidence,
                     content |-> old.content, revision |-> NoContent,
                     tier |-> "sol", stage |-> "review", unsettled |-> {},
                     response |-> NoId, outcome |-> ""]
<1>1. old \in Worker /\ old.at = "triage" /\ UNCHANGED <<attempts, baseline, remote>>
  BY DEF Triage, IInv, TypeOK
<1>2. old.evidence \in Evidence /\ old.content \in Contents
  <2>1. old \notin OnPath
    BY <1>1 DEF OnPath
  <2>2. old \in [at: {"triage"}, evidence: Evidence, content: Contents, 
                verdict: {"approve", "no_change", "needs_review"}]
    BY <1>1, <2>1 DEF Worker, Idle
  <2>. QED  BY <2>2
<1>3. path \in OnPath
  BY <1>2 DEF OnPath, Tiers, Stages, NoId
<1>4. Sound(path) /\ path.at # "create"
  BY <1>3 DEF Sound, Worker
<1>5. Become(w, path) \/ Become(w, Stop(path, "no_change"))
        \/ Become(w, Stop(path, "baseline"))
  BY DEF Triage
<1>. QED  BY <1>1, <1>3, <1>4, <1>5, StoppedIsSound, QuietMove

\* A worker on a path.
LEMMA PathOf ==
    ASSUME IInv, NEW w \in Workers,
           workers[w].at \in {"list", "reconcile", "create", "accepted", "polling"}
    PROVE  /\ workers[w] \in OnPath /\ Sound(workers[w])
           /\ KeyOf(workers[w]) \in Key
<1>1. workers[w] \in Worker /\ Sound(workers[w])
  BY WorkersAreSound DEF IInv, TypeOK
<1>2. workers[w] \in OnPath
  BY <1>1 DEF Worker, Idle
<1>. QED  BY <1>1, <1>2 DEF KeyOf, Key, OnPath

LEMMA ListUnsettledMoves ==
    ASSUME IInv, NEW w \in Workers, ListUnsettled(w)
    PROVE  MoveStep(w)
<1>. DEFINE seen == {<<k, attempts[k].response>> :
                         k \in {x \in DOMAIN attempts : Unresolved(attempts[x])}}
            wk == [workers[w] EXCEPT !.at = "reconcile", !.unsettled = seen]
<1>1. workers[w] \in OnPath
  BY PathOf DEF ListUnsettled
<1>2. \A s \in seen : /\ s \in Key \X Nat /\ s[1] \in DOMAIN attempts
                      /\ s[2] \in DOMAIN remote \cup {NoId}
  BY DEF IInv, TypeOK, Attempt
<1>3. wk \in OnPath
  BY <1>1, <1>2 DEF OnPath
<1>4. Sound(wk) /\ wk.at # "create"
  BY <1>1, <1>2, <1>3 DEF Sound, Worker, OnPath
<1>. QED  BY <1>4, QuietMove DEF ListUnsettled

\* An attempt that is changed in place stays identified.
LEMMA InPlace ==
    ASSUME IInv, NEW k \in DOMAIN attempts, NEW a, Identified(a),
           attempts' = [attempts EXCEPT ![k] = a]
    PROVE  /\ DOMAIN attempts' = DOMAIN attempts
           /\ \A x \in DOMAIN attempts : Identified(attempts'[x])
BY DEF IInv, TypeOK, Identified

\* Settling, recording a receipt and releasing keep an attempt identified.
LEMMA ChangesIdentify ==
    ASSUME IInv, NEW k \in DOMAIN attempts
    PROVE  /\ \A id \in DOMAIN remote \cup {NoId} :
                 \A u \in Usages \cup {0, Unknown} :
                 \A s \in {"completed", "failed", "not_submitted"} :
                     Identified(Settled(attempts[k], u, id, s))
           /\ \A id \in DOMAIN remote : Identified(Submitted(attempts[k], id))
           /\ Identified([attempts[k] EXCEPT !.state = "orphaned"])
<1>1. attempts[k] \in Attempt /\ Identified(attempts[k])
  BY DEF IInv, TypeOK, Identified
<1>2. DOMAIN remote \subseteq Nat
  BY DEF IInv, TypeOK
<1>3. ASSUME NEW id \in DOMAIN remote \cup {NoId},
             NEW u \in Usages \cup {0, Unknown},
             NEW s \in {"completed", "failed", "not_submitted"}
      PROVE  Identified(Settled(attempts[k], u, id, s))
  <2>1. Settled(attempts[k], u, id, s) \in Attempt
    BY <1>1, <1>2, AttemptTypes DEF NoId
  <2>. QED  BY <1>1, <2>1 DEF Identified, Settled, Attempt
<1>4. ASSUME NEW id \in DOMAIN remote
      PROVE  Identified(Submitted(attempts[k], id))
  <2>1. Submitted(attempts[k], id) \in Attempt
    BY <1>1, <1>2, AttemptTypes
  <2>. QED  BY <1>1, <2>1 DEF Identified, Submitted, Attempt
<1>5. Identified([attempts[k] EXCEPT !.state = "orphaned"])
  <2>1. [attempts[k] EXCEPT !.state = "orphaned"] \in Attempt
    BY <1>1, AttemptTypes
  <2>. QED  BY <1>1, <2>1 DEF Identified, Attempt
<1>. QED  BY <1>3, <1>4, <1>5

\* What the service reported about a request it finished.
LEMMA RequestTypes ==
    ASSUME IInv, NEW id \in DOMAIN remote
    PROVE  /\ remote[id].usage \in Usages \cup {0}
           /\ remote[id].status \in {"in_progress", "completed", "failed"}
           /\ remote[id].status = "completed" => remote[id].answer \in Answer
           /\ Reported(id) \subseteq Usages \cup {0, Unknown}
<1>1. remote[id] \in Request
  BY DEF IInv, TypeOK
<1>. QED  BY <1>1 DEF Request, Reported, IInv, LinksOK

LEMMA FailedStops ==
    ASSUME NEW wk \in OnPath, NEW a
    PROVE  Failed(wk, a) \in {Stop(wk, "needs_review"), Stop(wk, "waiting_budget")}
BY DEF Failed

LEMMA ReconcileMoves ==
    ASSUME IInv, NEW w \in Workers, Reconcile(w)
    PROVE  MoveStep(w)
<1>. DEFINE old == workers[w]
<1>1. old \in OnPath /\ Sound(old) /\ old.at = "reconcile"
  BY PathOf DEF Reconcile
<1>2. PICK seen \in old.unsettled :
        /\ \/ /\ seen[2] # NoId /\ remote[seen[2]].status # "in_progress"
              /\ \E u \in Reported(seen[2]) : attempts' = [attempts EXCEPT ![seen[1]] =
                    Settled(@, u, seen[2], remote[seen[2]].status)]
           \/ UNCHANGED attempts
           \/ attempts' = [attempts EXCEPT ![seen[1]] =
                  IF Expired(@, seen[2]) THEN [@ EXCEPT !.state = "orphaned"] ELSE @]
        /\ Become(w, [old EXCEPT !.unsettled = @ \ {seen}])
  BY DEF Reconcile
<1>. DEFINE wk == [old EXCEPT !.unsettled = @ \ {seen}]
<1>3. seen[1] \in DOMAIN attempts /\ seen[2] \in DOMAIN remote \cup {NoId}
  BY <1>1 DEF Sound
<1>4. wk \in OnPath /\ wk.at = "reconcile" /\ wk.unsettled \subseteq old.unsettled
  BY <1>1 DEF OnPath
<1>5. Sound(wk) /\ wk.at # "create"
  BY <1>1, <1>4 DEF Sound, Worker
<1>6. DOMAIN attempts' = DOMAIN attempts
        /\ \A x \in DOMAIN attempts : Identified(attempts'[x])
  <2>1. CASE UNCHANGED attempts
    BY <2>1 DEF IInv, TypeOK, Identified
  <2>2. ASSUME seen[2] # NoId, remote[seen[2]].status # "in_progress",
               NEW u \in Reported(seen[2]),
               attempts' = [attempts EXCEPT ![seen[1]] =
                    Settled(@, u, seen[2], remote[seen[2]].status)]
        PROVE  DOMAIN attempts' = DOMAIN attempts
                 /\ \A x \in DOMAIN attempts : Identified(attempts'[x])
    <3>1. Identified(Settled(attempts[seen[1]], u, seen[2], remote[seen[2]].status))
      BY <1>3, <2>2, RequestTypes, ChangesIdentify
    <3>. QED  BY <1>3, <2>2, <3>1, InPlace
  <2>3. CASE attempts' = [attempts EXCEPT ![seen[1]] =
                  IF Expired(@, seen[2]) THEN [@ EXCEPT !.state = "orphaned"] ELSE @]
    <3>1. Identified(IF Expired(attempts[seen[1]], seen[2])
                     THEN [attempts[seen[1]] EXCEPT !.state = "orphaned"]
                     ELSE attempts[seen[1]])
      BY <1>3, ChangesIdentify DEF IInv, TypeOK, Identified
    <3>. QED  BY <1>3, <2>3, <3>1, InPlace
  <2>. QED  BY <1>2, <2>1, <2>2, <2>3
<1>7. BaselineOK'
  BY DEF Reconcile, IInv, TypeOK, BaselineOK
<1>. QED  BY <1>2, <1>5, <1>6, <1>7 DEF Reconcile, MoveStep, Become

\* A reservation that is not admitted ends the path, or goes on with what was
\* recorded; an admitted one enters the ledger and belongs to its worker.
Admitted(w) ==
    /\ ~Recorded(KeyOf(workers[w])) /\ MayReserve(KeyOf(workers[w]))
    /\ attempts' = Put(attempts, KeyOf(workers[w]), Reservation(workers[w].content))
    /\ Become(w, Goto(workers[w], "create"))

LEMMA ReuseTypes ==
    ASSUME IInv, NEW wk \in OnPath, NEW k \in DOMAIN attempts
    PROVE  /\ Reuse(wk, attempts[k]) \in OnPath
           /\ Reuse(wk, attempts[k]).at \in {"list", "done"}
           /\ Reuse(wk, attempts[k]).unsettled = wk.unsettled
<1>. DEFINE a == attempts[k]
<1>1. a.result \in DOMAIN remote \cup {NoId}
  BY DEF IInv, TypeOK
<1>2. Reuse(wk, a) \in {Stop(wk, "needs_review"), Stop(wk, "waiting_budget")}
        \/ /\ a.result \in DOMAIN remote /\ remote[a.result].status = "completed"
           /\ Reuse(wk, a) = Follow(wk, remote[a.result].answer)
  BY <1>1 DEF Reuse
<1>3. CASE Reuse(wk, a) \in {Stop(wk, "needs_review"), Stop(wk, "waiting_budget")}
  BY <1>3, StopTypes
<1>4. CASE /\ a.result \in DOMAIN remote /\ remote[a.result].status = "completed"
           /\ Reuse(wk, a) = Follow(wk, remote[a.result].answer)
  BY <1>4, RequestTypes, FollowTypes
<1>. QED  BY <1>2, <1>3, <1>4

LEMMA ReserveMovesOrAdmits ==
    ASSUME IInv, NEW w \in Workers, Reserve(w), ~Admitted(w)
    PROVE  MoveStep(w)
<1>. DEFINE old == workers[w]
            k == KeyOf(old)
<1>1. old \in OnPath /\ Sound(old)
  BY PathOf DEF Reserve
<1>2. \/ UNCHANGED attempts /\ Become(w, Stop(old, "missing_evidence"))
      \/ UNCHANGED attempts /\ Become(w, Stop(old, "waiting_budget"))
      \/ UNCHANGED attempts /\ Recorded(k) /\ Become(w, Reuse(old, attempts[k]))
  BY DEF Reserve, Admitted
<1>3. UNCHANGED <<baseline, remote>>
  BY DEF Reserve
<1>4. CASE UNCHANGED attempts /\ Become(w, Stop(old, "missing_evidence"))
  BY <1>1, <1>3, <1>4, StoppedIsSound, QuietMove
<1>5. CASE UNCHANGED attempts /\ Become(w, Stop(old, "waiting_budget"))
  BY <1>1, <1>3, <1>5, StoppedIsSound, QuietMove
<1>6. CASE UNCHANGED attempts /\ Recorded(k) /\ Become(w, Reuse(old, attempts[k]))
  <2>1. Sound(Reuse(old, attempts[k])) /\ Reuse(old, attempts[k]).at # "create"
    BY <1>1, <1>6, ReuseTypes, RestingIsSound DEF Recorded
  <2>. QED  BY <1>3, <1>6, <2>1, QuietMove
<1>. QED  BY <1>2, <1>4, <1>5, <1>6

LEMMA AdmissionPreserves ==
    ASSUME IInv, NEW w \in Workers, Reserve(w), Admitted(w)
    PROVE  IInv'
<1>. DEFINE old == workers[w]
            k == KeyOf(old)
            wk == Goto(old, "create")
<1>1. /\ old \in OnPath /\ Sound(old) /\ k \in Key /\ old.at = "reconcile"
      /\ k \notin DOMAIN attempts /\ UNCHANGED <<baseline, remote>>
  BY PathOf DEF Reserve, Admitted, Recorded
<1>2. /\ DOMAIN attempts' = DOMAIN attempts \cup {k}
      /\ attempts'[k] = Reservation(old.content)
      /\ \A x \in DOMAIN attempts : attempts'[x] = attempts[x]
  BY <1>1 DEF Admitted, Put
<1>3. \A v \in Workers : workers'[v] = IF v = w THEN wk ELSE workers[v]
  BY DEF Admitted, Become, IInv, TypeOK
<1>4. wk \in OnPath /\ wk.at = "create" /\ KeyOf(wk) = k /\ wk.unsettled = old.unsettled
  BY <1>1 DEF Goto, OnPath, KeyOf
<1>5. TypeOK'
  <2>1. Reservation(old.content) \in Attempt
    <3>1. old.content \in Contents
      BY <1>1 DEF OnPath
    <3>2. 0 \in 0..Window
      BY AmountAssumption
    <3>. QED  BY <3>1, <3>2 DEF Reservation, Attempt, NoId
  <2>2. \A x \in DOMAIN attempts' : /\ attempts'[x] \in Attempt
          /\ {attempts'[x].response, attempts'[x].result} \subseteq DOMAIN remote' \cup {NoId}
    BY <1>1, <1>2, <2>1 DEF IInv, TypeOK, Reservation
  <2>3. DOMAIN attempts' \subseteq Key
    BY <1>1, <1>2 DEF IInv, TypeOK
  <2>4. DOMAIN workers' = Workers /\ \A v \in Workers : workers'[v] \in Worker
    BY <1>3, <1>4 DEF IInv, TypeOK, Worker, Admitted, Become
  <2>. QED  BY <1>1, <2>2, <2>3, <2>4 DEF IInv, TypeOK
<1>6. LinksOK'
  <2>1. \A v \in Workers \ {w} : workers'[v] = workers[v]
    BY <1>3
  <2>2. (\A id \in DOMAIN remote :
            /\ remote[id].key \in DOMAIN attempts
            /\ remote[id].status = "completed" => remote[id].answer \in Answer)'
    BY <1>1, <1>2 DEF IInv, LinksOK
  <2>3. ASSUME NEW v \in Workers
        PROVE  (workers[v] \in OnPath =>
                  /\ \A seen \in workers[v].unsettled :
                        /\ seen[1] \in DOMAIN attempts
                        /\ seen[2] \in DOMAIN remote \cup {NoId}
                  /\ workers[v].at \in {"create", "accepted", "polling"} =>
                        KeyOf(workers[v]) \in DOMAIN attempts
                  /\ workers[v].at \in {"accepted", "polling"} =>
                        workers[v].response \in DOMAIN remote)'
    <3>1. CASE v = w
      BY <1>1, <1>2, <1>3, <1>4, <3>1 DEF Sound, KeyOf
    <3>2. CASE v # w
      BY <1>1, <1>2, <2>1, <3>2 DEF IInv, LinksOK, KeyOf
    <3>. QED  BY <3>1, <3>2
  <2>4. (\A v \in Workers : workers[v] \in OnPath =>
            /\ \A seen \in workers[v].unsettled :
                  /\ seen[1] \in DOMAIN attempts
                  /\ seen[2] \in DOMAIN remote \cup {NoId}
            /\ workers[v].at \in {"create", "accepted", "polling"} =>
                  KeyOf(workers[v]) \in DOMAIN attempts
            /\ workers[v].at \in {"accepted", "polling"} =>
                  workers[v].response \in DOMAIN remote)'
    BY <2>3
  <2>. QED  BY <2>2, <2>4 DEF LinksOK
<1>7. SubmissionsOwned'
  <2>1. \A id \in DOMAIN remote : remote[id].key # k
    BY <1>1 DEF IInv, LinksOK
  <2>2. \A v \in Workers : ~AboutToSubmit(v, k)
    BY <1>1, PathOf DEF AboutToSubmit, Sound
  <2>3. \A v \in Workers, x \in Key : AboutToSubmit(v, x)' <=>
             IF v = w THEN x = k ELSE AboutToSubmit(v, x)
    BY <1>3, <1>4 DEF AboutToSubmit
  <2>. QED  BY <1>1, <2>1, <2>2, <2>3 DEF IInv, SubmissionsOwned
<1>8. SubmittedOnce'
  BY <1>1 DEF IInv, SubmittedOnce
<1>. QED  BY <1>5, <1>6, <1>7, <1>8 DEF IInv

\* What an action that stops a path after its paid call failed leaves behind.
LEMMA FailedMoves ==
    ASSUME IInv, NEW w \in Workers, NEW wk \in OnPath, NEW a,
           \A o \in {"needs_review", "waiting_budget"} :
               Sound(Stop(wk, o)) /\ Stop(wk, o).at # "create",
           UNCHANGED <<attempts, baseline, remote>>, Become(w, Failed(wk, a))
    PROVE  MoveStep(w)
BY FailedStops, QuietMove

LEMMA SubmissionLostMoves ==
    ASSUME IInv, NEW w \in Workers, SubmissionLost(w)
    PROVE  MoveStep(w)
BY PathOf, StoppedIsSound, FailedMoves DEF SubmissionLost

LEMMA SubmissionRejectedMoves ==
    ASSUME IInv, NEW w \in Workers, SubmissionRejected(w)
    PROVE  MoveStep(w)
<1>. DEFINE old == workers[w]
            k == KeyOf(old)
            a == Settled(attempts[k], 0, NoId, "not_submitted")
<1>1. old \in OnPath /\ Sound(old) /\ k \in DOMAIN attempts
  BY PathOf DEF SubmissionRejected, Sound
<1>2. /\ attempts' = [attempts EXCEPT ![k] = a] /\ Become(w, Failed(old, a))
      /\ UNCHANGED <<baseline, remote>>
  BY DEF SubmissionRejected
<1>3. Identified(a)
  BY <1>1, ChangesIdentify
<1>4. DOMAIN attempts' = DOMAIN attempts
        /\ \A x \in DOMAIN attempts : Identified(attempts'[x])
  BY <1>1, <1>2, <1>3, InPlace
<1>5. Sound(Failed(old, a)) /\ Failed(old, a).at # "create"
  BY <1>1, FailedStops, StoppedIsSound
<1>6. BaselineOK'
  BY <1>2 DEF IInv, TypeOK, BaselineOK
<1>. QED  BY <1>2, <1>4, <1>5, <1>6 DEF MoveStep, Become

LEMMA RecordSubmissionMoves ==
    ASSUME IInv, NEW w \in Workers, RecordSubmission(w)
    PROVE  MoveStep(w)
<1>. DEFINE old == workers[w]
            k == KeyOf(old)
            a == Submitted(attempts[k], old.response)
            wk == Goto(old, "polling")
<1>1. /\ old \in OnPath /\ Sound(old) /\ old.at = "accepted"
      /\ k \in DOMAIN attempts /\ old.response \in DOMAIN remote
  BY PathOf DEF RecordSubmission, Sound
<1>2. /\ attempts' = [attempts EXCEPT ![k] = a] /\ Become(w, wk)
      /\ UNCHANGED <<baseline, remote>>
  BY DEF RecordSubmission
<1>3. Identified(a)
  BY <1>1, ChangesIdentify
<1>4. DOMAIN attempts' = DOMAIN attempts
        /\ \A x \in DOMAIN attempts : Identified(attempts'[x])
  BY <1>1, <1>2, <1>3, InPlace
<1>5. wk \in OnPath /\ wk.at = "polling" /\ KeyOf(wk) = k
        /\ wk.response = old.response /\ wk.unsettled = old.unsettled
  BY <1>1 DEF Goto, OnPath, KeyOf
<1>6. Sound(wk) /\ wk.at # "create"
  BY <1>1, <1>5 DEF Sound, Worker
<1>7. BaselineOK'
  BY <1>2 DEF IInv, TypeOK, BaselineOK
<1>. QED  BY <1>2, <1>4, <1>6, <1>7 DEF MoveStep, Become

\* A worker that polled forgets the response it waited for.
LEMMA ForgetsResponse ==
    ASSUME NEW wk \in OnPath, Sound(wk)
    PROVE  /\ [wk EXCEPT !.response = NoId] \in OnPath
           /\ [wk EXCEPT !.response = NoId].unsettled = wk.unsettled
           /\ \A o \in {"needs_review", "waiting_budget"} :
                  /\ Sound(Stop([wk EXCEPT !.response = NoId], o))
                  /\ Stop([wk EXCEPT !.response = NoId], o).at # "create"
<1>1. /\ [wk EXCEPT !.response = NoId] \in OnPath
      /\ [wk EXCEPT !.response = NoId].unsettled = wk.unsettled
  BY DEF OnPath, NoId
<1>2. \A o \in {"needs_review", "waiting_budget"} :
         /\ Stop([wk EXCEPT !.response = NoId], o) \in OnPath
         /\ Stop([wk EXCEPT !.response = NoId], o).at = "done"
         /\ Stop([wk EXCEPT !.response = NoId], o).unsettled = wk.unsettled
  <2>. DEFINE n == [wk EXCEPT !.response = NoId]
  <2>1. n \in OnPath /\ n.unsettled = wk.unsettled
    BY <1>1
  <2>. HIDE DEF n
  <2>2. \A o \in {"needs_review", "waiting_budget"} : Stop(n, o) \in OnPath
           /\ Stop(n, o).at = "done" /\ Stop(n, o).unsettled = n.unsettled
    BY <2>1, StopTypes
  <2>. QED  BY <2>1, <2>2 DEF n
<1>. QED  BY <1>1, <1>2, RestingIsSound

LEMMA GiveUpMoves ==
    ASSUME IInv, NEW w \in Workers, GiveUp(w)
    PROVE  MoveStep(w)
<1>1. workers[w] \in OnPath /\ Sound(workers[w])
  BY PathOf DEF GiveUp
<1>. QED  BY <1>1, ForgetsResponse, FailedMoves DEF GiveUp

LEMMA PollResponseMoves ==
    ASSUME IInv, NEW w \in Workers, PollResponse(w)
    PROVE  MoveStep(w)
<1>. DEFINE old == workers[w]
            k == KeyOf(old)
            r == remote[old.response]
            next == [old EXCEPT !.response = NoId]
<1>1. /\ old \in OnPath /\ Sound(old) /\ k \in DOMAIN attempts
      /\ old.response \in DOMAIN remote
  BY PathOf DEF PollResponse, Sound
<1>2. PICK u \in Reported(old.response) :
        LET a == Settled(attempts[k], u, old.response, r.status)
        IN /\ attempts' = [attempts EXCEPT ![k] = a]
           /\ Become(w, IF r.status = "completed" /\ r.answer.verdict # "undecodable"
                        THEN Follow(next, r.answer) ELSE Failed(next, a))
  BY DEF PollResponse
<1>. DEFINE a == Settled(attempts[k], u, old.response, r.status)
            wk == IF r.status = "completed" /\ r.answer.verdict # "undecodable"
                  THEN Follow(next, r.answer) ELSE Failed(next, a)
<1>3. r.status \in {"completed", "failed"} /\ UNCHANGED <<baseline, remote>>
  BY <1>1, RequestTypes DEF PollResponse
<1>4. Identified(a)
  BY <1>1, <1>2, <1>3, RequestTypes, ChangesIdentify
<1>5. DOMAIN attempts' = DOMAIN attempts
        /\ \A x \in DOMAIN attempts : Identified(attempts'[x])
  BY <1>1, <1>2, <1>4, InPlace
<1>6. Sound(wk) /\ wk.at # "create"
  <2>1. CASE r.status = "completed" /\ r.answer.verdict # "undecodable"
    <3>1. /\ Follow(next, r.answer) \in OnPath
          /\ Follow(next, r.answer).at \in {"list", "done"}
          /\ Follow(next, r.answer).unsettled = old.unsettled
      <4>1. next \in OnPath /\ next.unsettled = old.unsettled
        BY <1>1, ForgetsResponse
      <4>2. r.answer \in Answer
        BY <1>1, <2>1, RequestTypes
      <4>. HIDE DEF next, r, old
      <4>. QED  BY <4>1, <4>2, FollowTypes
    <3>. QED  BY <1>1, <2>1, <3>1, RestingIsSound
  <2>2. CASE ~(r.status = "completed" /\ r.answer.verdict # "undecodable")
    BY <1>1, <2>2, ForgetsResponse, FailedStops
  <2>. QED  BY <2>1, <2>2
<1>7. BaselineOK'
  BY <1>3 DEF IInv, TypeOK, BaselineOK
<1>. QED  BY <1>2, <1>3, <1>5, <1>6, <1>7 DEF MoveStep, Become

LEMMA CrashMoves ==
    ASSUME IInv, NEW w \in Workers, Crash(w)
    PROVE  MoveStep(w)
<1>1. Sound(Idle) /\ Idle.at # "create"
  BY DEF Sound, Worker, OnPath, Idle
<1>. QED  BY <1>1, QuietMove DEF Crash

-----------------------------------------------------------------------------
(* The steps that are no move of one worker *)

LEMMA CreateResponsePreserves ==
    ASSUME IInv, NEW w \in Workers, CreateResponse(w)
    PROVE  IInv'
<1>. DEFINE old == workers[w]
            k == KeyOf(old)
            n == Len(remote) + 1
            r == [key |-> k, content |-> old.content, usage |-> 0,
                  status |-> "in_progress", answer |-> NoAnswer]
            accepted == [old EXCEPT !.at = "accepted", !.response = n]
            lost == Failed(old, attempts[k])
<1>1. /\ old \in OnPath /\ Sound(old) /\ old.at = "create" /\ k \in Key
      /\ k \in DOMAIN attempts /\ old.content \in Contents
  BY PathOf DEF CreateResponse, Sound, OnPath
<1>2. remote \in Seq(Request) /\ r \in Request
  BY <1>1 DEF IInv, TypeOK, Request
<1>3. /\ remote' = Append(remote, r) /\ UNCHANGED <<attempts, baseline>>
      /\ Become(w, accepted) \/ Become(w, lost)
  BY DEF CreateResponse
<1>4. /\ remote' \in Seq(Request) /\ n \in Nat /\ n \notin DOMAIN remote
      /\ DOMAIN remote' = DOMAIN remote \cup {n}
      /\ remote'[n] = r /\ \A id \in DOMAIN remote : remote'[id] = remote[id]
  <2>. HIDE DEF r
  <2>. QED  BY <1>2, <1>3
<1>5. /\ accepted \in OnPath /\ accepted.at = "accepted" /\ KeyOf(accepted) = k
      /\ accepted.response = n /\ accepted.unsettled = old.unsettled
  BY <1>1, <1>4 DEF OnPath, KeyOf
<1>6. lost \in OnPath /\ lost.at = "done" /\ lost.unsettled = old.unsettled
  BY <1>1, FailedStops, StopTypes
<1>. HIDE DEF accepted, lost, r, n
<1>7. PICK wk \in {accepted, lost} : workers' = [workers EXCEPT ![w] = wk]
  BY <1>3 DEF Become
<1>8. \A v \in Workers : workers'[v] = IF v = w THEN wk ELSE workers[v]
  BY <1>7 DEF IInv, TypeOK
<1>9. \A v \in Workers : Sound(workers[v])'
  <2>1. Sound(wk)'
    BY <1>1, <1>3, <1>4, <1>5, <1>6 DEF Sound, Worker
  <2>2. ASSUME NEW v \in Workers
        PROVE  Sound(workers[v])'
    <3>1. CASE v = w
      <4>1. workers'[v] = wk
        BY <1>8, <3>1
      <4>. QED  BY <2>1, <4>1 DEF Sound
    <3>2. CASE v # w
      <4>1. workers'[v] = workers[v] /\ Sound(workers[v])
        BY <1>8, <3>2, WorkersAreSound
      <4>. QED  BY <1>3, <1>4, <4>1 DEF Sound
    <3>. QED  BY <3>1, <3>2
  <2>. QED  BY <2>2
<1>10. TypeOK'
  <2>1. DOMAIN workers' = Workers /\ \A v \in Workers : workers'[v] \in Worker
    BY <1>7, <1>9 DEF IInv, TypeOK, Sound
  <2>. QED  BY <1>3, <1>4, <2>1 DEF IInv, TypeOK
<1>11. LinksOK'
  <2>1. (\A id \in DOMAIN remote :
            /\ remote[id].key \in DOMAIN attempts
            /\ remote[id].status = "completed" => remote[id].answer \in Answer)'
    BY <1>1, <1>3, <1>4 DEF IInv, LinksOK, r
  <2>. QED  BY <1>9, <2>1 DEF LinksOK, Sound
<1>12. \A v \in Workers, x \in Key : AboutToSubmit(v, x)' => v # w /\ AboutToSubmit(v, x)
  BY <1>5, <1>6, <1>8 DEF AboutToSubmit
<1>13. AboutToSubmit(w, k)
  BY <1>1 DEF AboutToSubmit
<1>14. SubmissionsOwned'
  BY <1>1, <1>4, <1>12, <1>13 DEF IInv, SubmissionsOwned, r
<1>15. SubmittedOnce'
  BY <1>1, <1>4, <1>13 DEF IInv, SubmissionsOwned, SubmittedOnce, r
<1>. QED  BY <1>10, <1>11, <1>14, <1>15 DEF IInv

LEMMA FinishPreserves ==
    ASSUME IInv, NEW id \in DOMAIN remote, Finish(id)
    PROVE  IInv'
<1>. DEFINE Ends(r) == /\ remote' = [remote EXCEPT ![id] = r]
                       /\ r \in Request /\ r.key = remote[id].key
                       /\ r.status = "completed" => r.answer \in Answer
<1>1. PICK r : Ends(r)
  <2>1. remote[id] \in Request
    BY DEF IInv, TypeOK
  <2>2. ASSUME NEW u \in Usages, NEW a \in Answer,
               remote' = [remote EXCEPT ![id] =
                   [@ EXCEPT !.status = "completed", !.usage = u, !.answer = a]]
        PROVE  \E r : Ends(r)
    <3>. DEFINE r == [remote[id] EXCEPT !.status = "completed", !.usage = u, !.answer = a]
    <3>1. r \in Request /\ r.key = remote[id].key /\ r.answer \in Answer
      BY <2>1 DEF Request
    <3>2. Ends(r)
      BY <2>2, <3>1
    <3>. QED  BY <3>2
  <2>3. ASSUME NEW u \in Usages,
               remote' = [remote EXCEPT ![id] = [@ EXCEPT !.status = "failed", !.usage = u]]
        PROVE  \E r : Ends(r)
    <3>. DEFINE r == [remote[id] EXCEPT !.status = "failed", !.usage = u]
    <3>1. r \in Request /\ r.key = remote[id].key /\ r.status = "failed"
      BY <2>1 DEF Request
    <3>2. Ends(r)
      BY <2>3, <3>1
    <3>. QED  BY <3>2
  <2>. QED  BY <2>2, <2>3 DEF Finish
<1>2. UNCHANGED <<attempts, baseline, workers>>
  BY DEF Finish
<1>3. /\ remote' \in Seq(Request) /\ DOMAIN remote' = DOMAIN remote
      /\ \A x \in DOMAIN remote : /\ remote'[x].key = remote[x].key
                                  /\ remote'[x] = IF x = id THEN r ELSE remote[x]
  BY <1>1 DEF IInv, TypeOK
<1>4. TypeOK'
  BY <1>2, <1>3 DEF IInv, TypeOK
<1>5. LinksOK'
  BY <1>1, <1>2, <1>3 DEF IInv, LinksOK
<1>6. SubmissionsOwned' /\ SubmittedOnce'
  BY <1>2, <1>3 DEF IInv, SubmissionsOwned, AboutToSubmit, SubmittedOnce
<1>. QED  BY <1>4, <1>5, <1>6 DEF IInv

LEMMA TickPreserves ==
    ASSUME IInv, Tick
    PROVE  IInv'
<1>1. /\ DOMAIN attempts' = DOMAIN attempts
      /\ \A k \in DOMAIN attempts : attempts'[k] = Older(attempts[k])
      /\ BaselineOK' /\ UNCHANGED <<remote, workers>>
  <2>1. /\ DOMAIN attempts' = DOMAIN attempts
        /\ \A k \in DOMAIN attempts : attempts'[k] = Older(attempts[k])
        /\ DOMAIN baseline' = DOMAIN baseline
        /\ \A b \in DOMAIN baseline : baseline'[b] = Older(baseline[b])
        /\ UNCHANGED <<remote, workers>>
    BY DEF Tick
  <2>2. \A b \in DOMAIN baseline : Older(baseline[b]) \in
            [age: 0..Window, actual: BaselineUsages \cup {Unknown}]
    <3>. SUFFICES ASSUME NEW b \in DOMAIN baseline
                  PROVE  Older(baseline[b]) \in
                             [age: 0..Window, actual: BaselineUsages \cup {Unknown}]
      OBVIOUS
    <3>1. baseline[b] \in [age: 0..Window, actual: BaselineUsages \cup {Unknown}]
      BY DEF IInv, TypeOK
    <3>. QED  BY <3>1, AmountAssumption DEF Older
  <2>. QED  BY <2>1, <2>2 DEF BaselineOK, IInv, TypeOK
<1>2. \A k \in DOMAIN attempts : attempts'[k] \in Attempt
        /\ attempts'[k].response = attempts[k].response
        /\ attempts'[k].result = attempts[k].result
  <2>. SUFFICES ASSUME NEW k \in DOMAIN attempts
                PROVE  /\ Older(attempts[k]) \in Attempt
                       /\ Older(attempts[k]).response = attempts[k].response
                       /\ Older(attempts[k]).result = attempts[k].result
    BY <1>1
  <2>1. attempts[k] \in Attempt
    BY DEF IInv, TypeOK
  <2>. QED  BY <2>1, AmountAssumption DEF Older, Attempt
<1>3. TypeOK'
  BY <1>1, <1>2 DEF IInv, TypeOK, BaselineOK
<1>4. LinksOK'
  BY <1>1 DEF IInv, LinksOK
<1>5. SubmissionsOwned' /\ SubmittedOnce'
  BY <1>1 DEF IInv, SubmissionsOwned, AboutToSubmit, SubmittedOnce
<1>. QED  BY <1>3, <1>4, <1>5 DEF IInv

-----------------------------------------------------------------------------
(* Every review is submitted once *)

LEMMA InitHolds == Init => IInv
<1>. SUFFICES ASSUME Init PROVE IInv
  OBVIOUS
<1>1. TypeOK
  BY DEF Init, TypeOK, Worker
<1>2. LinksOK
  <2>1. Idle \notin OnPath
    BY DEF OnPath, Idle
  <2>2. DOMAIN remote = {} /\ \A w \in Workers : workers[w] = Idle
    BY DEF Init
  <2>. QED  BY <2>1, <2>2 DEF LinksOK
<1>3. SubmissionsOwned /\ SubmittedOnce
  BY DEF Init, SubmissionsOwned, AboutToSubmit, SubmittedOnce, Idle
<1>. QED  BY <1>1, <1>2, <1>3 DEF IInv

LEMMA StepPreserves == IInv /\ [Next]_vars => IInv'
<1>. SUFFICES ASSUME IInv, [Next]_vars PROVE IInv'
  OBVIOUS
<1>1. CASE UNCHANGED vars
  BY <1>1 DEF IInv, TypeOK, LinksOK, SubmissionsOwned, AboutToSubmit, SubmittedOnce, vars
<1>2. ASSUME NEW w \in Workers, NEW e \in Evidence, NEW c \in Contents, Begin(w, e, c)
      PROVE  IInv'
  BY <1>2, BeginMoves, MovePreserves
<1>3. ASSUME NEW w \in Workers, Crash(w)
      PROVE  IInv'
  BY <1>3, CrashMoves, MovePreserves
<1>4. ASSUME NEW w \in Workers, Reserve(w)
      PROVE  IInv'
  BY <1>4, ReserveMovesOrAdmits, AdmissionPreserves, MovePreserves
<1>5. ASSUME NEW w \in Workers, CreateResponse(w)
      PROVE  IInv'
  BY <1>5, CreateResponsePreserves
<1>6. ASSUME NEW w \in Workers,
             EndBaseline(w) \/ Triage(w) \/ ListUnsettled(w) \/ Reconcile(w)
               \/ SubmissionLost(w) \/ SubmissionRejected(w)
               \/ RecordSubmission(w) \/ PollResponse(w) \/ GiveUp(w)
      PROVE  IInv'
  <2>1. MoveStep(w)
    BY <1>6, EndBaselineMoves, TriageMoves, ListUnsettledMoves, ReconcileMoves,
       SubmissionLostMoves, SubmissionRejectedMoves, RecordSubmissionMoves,
       PollResponseMoves, GiveUpMoves
  <2>. QED  BY <2>1, MovePreserves
<1>7. ASSUME NEW id \in DOMAIN remote, Finish(id)
      PROVE  IInv'
  BY <1>7, FinishPreserves
<1>8. CASE Tick
  BY <1>8, TickPreserves
<1>. QED  BY <1>1, <1>2, <1>3, <1>4, <1>5, <1>6, <1>7, <1>8 DEF Next, Work, Call

\* The ledger, the service and the workers keep their types and their links.
THEOREM LedgerTypes == Spec => []TypeOK
<1>1. IInv => TypeOK
  BY DEF IInv
<1>. QED  BY <1>1, InitHolds, StepPreserves, PTL DEF Spec

\* Whatever crashes, deadlines and lost answers do, one review of one evidence
\* reaches the service at most once (BudgetStore::reserve).
THEOREM ReviewsAreSubmittedOnce == Spec => []SubmittedOnce
<1>1. IInv => SubmittedOnce
  BY DEF IInv
<1>. QED  BY <1>1, InitHolds, StepPreserves, PTL DEF Spec

-----------------------------------------------------------------------------
(* What may become of a recorded attempt *)

Follows(a, b) ==
    /\ b.content = a.content
    /\ a.actual # Unknown => b.actual = a.actual /\ b.result = a.result
    /\ OccupiesSlot(b) => OccupiesSlot(a)

\* None of the ledger's operators takes a settled usage back, or a slot anew.
LEMMA OperatorsFollow ==
    ASSUME NEW a \in Attempt, NEW u, NEW id, NEW s
    PROVE  /\ Follows(a, a) /\ Follows(a, Older(a)) /\ Follows(a, Submitted(a, id))
           /\ Follows(a, Settled(a, u, id, s))
           /\ Follows(a, [a EXCEPT !.state = "orphaned"])
<1>1. Follows(a, a) /\ Follows(a, Older(a))
  BY DEF Follows, Older, OccupiesSlot, Unresolved, Attempt
<1>2. Follows(a, Submitted(a, id))
  BY DEF Follows, Submitted, OccupiesSlot, Unresolved, Attempt
<1>3. Follows(a, Settled(a, u, id, s))
  BY DEF Follows, Settled, OccupiesSlot, Unresolved, Attempt
<1>4. Follows(a, [a EXCEPT !.state = "orphaned"])
  BY DEF Follows, OccupiesSlot, Unresolved, Attempt
<1>. QED  BY <1>1, <1>2, <1>3, <1>4

Continues ==
    /\ DOMAIN attempts' = DOMAIN attempts
    /\ \A k \in DOMAIN attempts : Follows(attempts[k], attempts'[k])

LEMMA UntouchedContinues ==
    ASSUME IInv, UNCHANGED attempts
    PROVE  Continues
BY OperatorsFollow DEF Continues, IInv, TypeOK

LEMMA ChangedContinues ==
    ASSUME IInv, NEW k \in DOMAIN attempts, NEW a, Follows(attempts[k], a),
           attempts' = [attempts EXCEPT ![k] = a]
    PROVE  Continues
BY OperatorsFollow DEF Continues, IInv, TypeOK

\* A step changes attempts in place, or admits a review.
LEMMA StepContinues ==
    ASSUME IInv, [Next]_vars
    PROVE  Continues \/ \E w \in Workers : Reserve(w) /\ Admitted(w)
<1>1. CASE UNCHANGED attempts
  BY <1>1, UntouchedContinues
<1>2. CASE Tick
  <2>1. /\ DOMAIN attempts' = DOMAIN attempts
        /\ \A k \in DOMAIN attempts : attempts'[k] = Older(attempts[k])
    BY <1>2 DEF Tick
  <2>. QED  BY <2>1, OperatorsFollow DEF Continues, IInv, TypeOK
<1>3. ASSUME NEW w \in Workers, Reserve(w), ~Admitted(w)
      PROVE  Continues
  BY <1>3, UntouchedContinues DEF Reserve, Admitted
<1>4. ASSUME NEW w \in Workers,
             SubmissionRejected(w) \/ RecordSubmission(w) \/ PollResponse(w)
      PROVE  Continues
  <2>. DEFINE k == KeyOf(workers[w])
  <2>1. k \in DOMAIN attempts
    BY <1>4, PathOf DEF SubmissionRejected, RecordSubmission, PollResponse, Sound
  <2>2. attempts[k] \in Attempt
    BY <2>1 DEF IInv, TypeOK
  <2>3. \/ attempts' = [attempts EXCEPT ![k] = Settled(attempts[k], 0, NoId, "not_submitted")]
        \/ \E id : attempts' = [attempts EXCEPT ![k] = Submitted(attempts[k], id)]
        \/ \E u, id, s : attempts' = [attempts EXCEPT ![k] = Settled(attempts[k], u, id, s)]
    BY <1>4 DEF SubmissionRejected, RecordSubmission, PollResponse
  <2>. HIDE DEF k
  <2>. QED  BY <2>1, <2>2, <2>3, OperatorsFollow, ChangedContinues
<1>5. ASSUME NEW w \in Workers, Reconcile(w)
      PROVE  Continues
  <2>1. PICK seen \in workers[w].unsettled :
          \/ \E u \in Reported(seen[2]) : attempts' = [attempts EXCEPT ![seen[1]] =
                 Settled(@, u, seen[2], remote[seen[2]].status)]
          \/ UNCHANGED attempts
          \/ attempts' = [attempts EXCEPT ![seen[1]] =
                 IF Expired(@, seen[2]) THEN [@ EXCEPT !.state = "orphaned"] ELSE @]
    BY <1>5 DEF Reconcile
  <2>. DEFINE k == seen[1]
  <2>2. k \in DOMAIN attempts
    BY <1>5, <2>1, PathOf DEF Reconcile, Sound
  <2>3. attempts[k] \in Attempt
    BY <2>2 DEF IInv, TypeOK
  <2>4. ASSUME NEW u \in Reported(seen[2]), attempts' = [attempts EXCEPT ![k] =
                   Settled(attempts[k], u, seen[2], remote[seen[2]].status)]
        PROVE  Continues
    <3>1. Follows(attempts[k], Settled(attempts[k], u, seen[2], remote[seen[2]].status))
      BY <2>3, OperatorsFollow
    <3>. QED  BY <2>2, <2>4, <3>1, ChangedContinues
  <2>5. CASE attempts' = [attempts EXCEPT ![k] =
                 IF Expired(attempts[k], seen[2])
                 THEN [attempts[k] EXCEPT !.state = "orphaned"] ELSE attempts[k]]
    <3>1. Follows(attempts[k], IF Expired(attempts[k], seen[2])
                 THEN [attempts[k] EXCEPT !.state = "orphaned"] ELSE attempts[k])
      BY <2>3, OperatorsFollow
    <3>. QED  BY <2>2, <2>5, <3>1, ChangedContinues
  <2>. QED  BY <2>1, <2>4, <2>5, UntouchedContinues
<1>. QED
  BY <1>1, <1>2, <1>3, <1>4, <1>5 DEF Next, vars, Begin, EndBaseline, Triage, Crash,
     Work, Call, ListUnsettled, CreateResponse, SubmissionLost, GiveUp, Finish

-----------------------------------------------------------------------------
(* Settlement and slots *)

\* A reported usage and its result stay, whoever settles the attempt again
\* (BudgetStore::settle).
THEOREM UsageIsSettledOnce == Spec => SettledOnce
<1>1. IInv /\ [Next]_vars =>
        [\A k \in DOMAIN attempts :
            /\ k \in DOMAIN attempts'
            /\ attempts'[k].content = attempts[k].content
            /\ attempts[k].actual # Unknown =>
                  /\ attempts'[k].actual = attempts[k].actual
                  /\ attempts'[k].result = attempts[k].result]_attempts
  <2>. SUFFICES ASSUME IInv, [Next]_vars, NEW k \in DOMAIN attempts
                PROVE  /\ k \in DOMAIN attempts'
                       /\ attempts'[k].content = attempts[k].content
                       /\ attempts[k].actual # Unknown =>
                             /\ attempts'[k].actual = attempts[k].actual
                             /\ attempts'[k].result = attempts[k].result
    OBVIOUS
  <2>1. CASE Continues
    BY <2>1 DEF Continues, Follows
  <2>2. ASSUME NEW w \in Workers, Admitted(w)
        PROVE  k \in DOMAIN attempts' /\ attempts'[k] = attempts[k]
    BY <2>2 DEF Admitted, Put, Recorded
  <2>. QED  BY <2>1, <2>2, StepContinues
<1>. QED  BY <1>1, InitHolds, StepPreserves, PTL DEF Spec, SettledOnce

SlotsInv == IsFiniteSet(InFlight) /\ SlotsBounded

LEMMA SlotsPreserved ==
    ASSUME IInv, SlotsInv, [Next]_vars
    PROVE  SlotsInv'
<1>1. CASE Continues
  <2>1. InFlight' \subseteq InFlight
    BY <1>1 DEF Continues, Follows, InFlight
  <2>2. /\ IsFiniteSet(InFlight') /\ Cardinality(InFlight') <= Cardinality(InFlight)
        /\ Cardinality(InFlight) \in Nat /\ Cardinality(InFlight') \in Nat
    BY <2>1, FS_Subset, FS_CardinalityType DEF SlotsInv
  <2>. QED  BY <2>2, AmountAssumption DEF SlotsInv, SlotsBounded
<1>2. ASSUME NEW w \in Workers, Admitted(w)
      PROVE  SlotsInv'
  <2>. DEFINE k == KeyOf(workers[w])
  <2>1. /\ k \notin DOMAIN attempts /\ DOMAIN attempts' = DOMAIN attempts \cup {k}
        /\ \A x \in DOMAIN attempts : attempts'[x] = attempts[x]
        /\ attempts'[k] = Reservation(workers[w].content)
    BY <1>2 DEF Admitted, Put, Recorded
  <2>2. OccupiesSlot(attempts'[k])
    BY <2>1 DEF OccupiesSlot, Unresolved, Reservation
  <2>3. InFlight' = InFlight \cup {k} /\ k \notin InFlight
    BY <2>1, <2>2 DEF InFlight
  <2>4. Cardinality(InFlight) < MaxInFlight
    BY <1>2 DEF Admitted, MayReserve
  <2>5. /\ IsFiniteSet(InFlight') /\ Cardinality(InFlight) \in Nat
        /\ Cardinality(InFlight') = Cardinality(InFlight) + 1
    BY <2>3, FS_AddElement, FS_CardinalityType DEF SlotsInv
  <2>. QED  BY <2>4, <2>5, AmountAssumption DEF SlotsInv, SlotsBounded
<1>. QED  BY <1>1, <1>2, StepContinues

\* At most MaxInFlight attempts hold a slot: only an admission takes one
\* (occupies_slot, reserve).
THEOREM SlotsAreBounded == Spec => []SlotsBounded
<1>1. Init => SlotsInv
  <2>. SUFFICES ASSUME Init PROVE SlotsInv
    OBVIOUS
  <2>1. InFlight = {}
    BY DEF Init, InFlight
  <2>. QED  BY <2>1, FS_EmptySet, AmountAssumption DEF SlotsInv, SlotsBounded
<1>2. IInv /\ SlotsInv /\ [Next]_vars => SlotsInv'
  BY SlotsPreserved
<1>3. SlotsInv => SlotsBounded
  BY DEF SlotsInv
<1>. QED  BY <1>1, <1>2, <1>3, InitHolds, StepPreserves, PTL DEF Spec

-----------------------------------------------------------------------------
(* What an approval rests on                                               *)
(*                                                                         *)
(* An approved path can show its review because the records tell which     *)
(* request they are about: a request has the text of its reservation, an   *)
(* attempt names only requests of its own review, and a path that waits    *)
(* for a call has the text that call was reserved for.                     *)

IsOf(id, k) == id = NoId \/ (id \in DOMAIN remote /\ remote[id].key = k)
Names(k, a) == IsOf(a.response, k) /\ IsOf(a.result, k)
RecordsTell ==
    /\ \A id \in DOMAIN remote : remote[id].content = attempts[remote[id].key].content
    /\ \A k \in DOMAIN attempts : Names(k, attempts[k])

Carries(wk) ==
    /\ wk.revision \in {NoContent, wk.content}
    /\ \A seen \in wk.unsettled : IsOf(seen[2], seen[1])
Grounded(wk) == wk \in OnPath =>
    /\ Carries(wk)
    /\ wk.at \in {"create", "accepted", "polling"} =>
          attempts[KeyOf(wk)].content = wk.content
    /\ wk.at \in {"accepted", "polling"} => remote[wk.response].key = KeyOf(wk)
    /\ wk.at = "done" /\ wk.outcome = "approved" =>
          \E id \in DOMAIN remote : ReviewedBy(id, wk)

ReviewsInv == RecordsTell /\ \A w \in Workers : Grounded(workers[w])

\* What no step takes back: the review and the text of a request, an answer
\* that was completed, the text of a reservation.
Lasting ==
    /\ DOMAIN remote \subseteq DOMAIN remote' /\ DOMAIN attempts \subseteq DOMAIN attempts'
    /\ \A k \in DOMAIN attempts : attempts'[k].content = attempts[k].content
    /\ \A id \in DOMAIN remote :
          /\ remote'[id].key = remote[id].key /\ remote'[id].content = remote[id].content
          /\ remote[id].status = "completed" => remote'[id] = remote[id]

LEMMA AttemptsLast ==
    ASSUME IInv, [Next]_vars
    PROVE  /\ DOMAIN attempts \subseteq DOMAIN attempts'
           /\ \A k \in DOMAIN attempts : attempts'[k].content = attempts[k].content
<1>1. CASE Continues
  BY <1>1 DEF Continues, Follows
<1>2. ASSUME NEW w \in Workers, Admitted(w)
      PROVE  /\ DOMAIN attempts \subseteq DOMAIN attempts'
             /\ \A k \in DOMAIN attempts : attempts'[k].content = attempts[k].content
  BY <1>2 DEF Admitted, Put, Recorded
<1>. QED  BY <1>1, <1>2, StepContinues

\* How the requests change: one is appended, or one that was in progress ends.
LEMMA RequestsStep ==
    ASSUME IInv, [Next]_vars
    PROVE  \/ UNCHANGED remote
           \/ \E w \in Workers : CreateResponse(w)
           \/ \E id \in DOMAIN remote : Finish(id)
BY DEF Next, vars, Begin, EndBaseline, Triage, Crash, Work, Call, ListUnsettled,
       Reconcile, Reserve, SubmissionLost, SubmissionRejected, RecordSubmission,
       PollResponse, GiveUp, Tick

LEMMA AppendedRequest ==
    ASSUME IInv, NEW w \in Workers, CreateResponse(w)
    PROVE  /\ DOMAIN remote' = DOMAIN remote \cup {Len(remote) + 1}
           /\ Len(remote) + 1 \notin DOMAIN remote
           /\ \A id \in DOMAIN remote : remote'[id] = remote[id]
           /\ remote'[Len(remote) + 1] =
                 [key |-> KeyOf(workers[w]), content |-> workers[w].content,
                  usage |-> 0, status |-> "in_progress", answer |-> NoAnswer]
<1>. DEFINE r == [key |-> KeyOf(workers[w]), content |-> workers[w].content,
                  usage |-> 0, status |-> "in_progress", answer |-> NoAnswer]
<1>1. remote' = Append(remote, r)
  BY DEF CreateResponse
<1>2. remote \in Seq(Request)
  BY DEF IInv, TypeOK
<1>. HIDE DEF r
<1>3. /\ DOMAIN remote' = DOMAIN remote \cup {Len(remote) + 1}
      /\ Len(remote) + 1 \notin DOMAIN remote
      /\ \A id \in DOMAIN remote : remote'[id] = remote[id]
      /\ remote'[Len(remote) + 1] = r
  BY <1>1, <1>2
<1>. QED  BY <1>3 DEF r

LEMMA EndedRequest ==
    ASSUME IInv, NEW id \in DOMAIN remote, Finish(id)
    PROVE  /\ DOMAIN remote' = DOMAIN remote /\ remote[id].status = "in_progress"
           /\ remote'[id].key = remote[id].key /\ remote'[id].content = remote[id].content
           /\ \A x \in DOMAIN remote \ {id} : remote'[x] = remote[x]
<1>1. remote[id] \in Request /\ remote \in Seq(Request)
  BY DEF IInv, TypeOK
<1>. DEFINE Ends(r) == /\ remote' = [remote EXCEPT ![id] = r]
                       /\ r.key = remote[id].key /\ r.content = remote[id].content
<1>2. PICK r : Ends(r)
  <2>1. ASSUME NEW u, NEW a, remote' = [remote EXCEPT ![id] =
                   [@ EXCEPT !.status = "completed", !.usage = u, !.answer = a]]
        PROVE  \E r : Ends(r)
    <3>. DEFINE r == [remote[id] EXCEPT !.status = "completed", !.usage = u, !.answer = a]
    <3>1. r.key = remote[id].key /\ r.content = remote[id].content
      BY <1>1 DEF Request
    <3>2. Ends(r)
      BY <2>1, <3>1
    <3>. QED  BY <3>2
  <2>2. ASSUME NEW u, remote' = [remote EXCEPT ![id] = [@ EXCEPT !.status = "failed", !.usage = u]]
        PROVE  \E r : Ends(r)
    <3>. DEFINE r == [remote[id] EXCEPT !.status = "failed", !.usage = u]
    <3>1. r.key = remote[id].key /\ r.content = remote[id].content
      BY <1>1 DEF Request
    <3>2. Ends(r)
      BY <2>2, <3>1
    <3>. QED  BY <3>2
  <2>. QED  BY <2>1, <2>2 DEF Finish
<1>. QED  BY <1>1, <1>2 DEF Finish

LEMMA StepLasts ==
    ASSUME IInv, [Next]_vars
    PROVE  Lasting
<1>1. CASE UNCHANGED remote
  BY <1>1, AttemptsLast DEF Lasting
<1>2. ASSUME NEW w \in Workers, CreateResponse(w)
      PROVE  Lasting
  BY <1>2, AppendedRequest, AttemptsLast DEF Lasting
<1>3. ASSUME NEW id \in DOMAIN remote, Finish(id)
      PROVE  Lasting
  BY <1>3, EndedRequest, AttemptsLast DEF Lasting
<1>. QED  BY <1>1, <1>2, <1>3, RequestsStep

\* A path that a step leaves alone keeps what it rests on.
LEMMA GroundStays ==
    ASSUME IInv, Lasting, NEW wk, Sound(wk), Grounded(wk)
    PROVE  Grounded(wk)'
<1>. SUFFICES ASSUME wk \in OnPath PROVE Grounded(wk)'
  BY DEF Grounded
<1>1. Carries(wk)'
  BY DEF Grounded, Carries, IsOf, Lasting
<1>2. wk.at \in {"create", "accepted", "polling"} =>
          attempts'[KeyOf(wk)].content = wk.content
  BY DEF Sound, Grounded, Lasting
<1>3. wk.at \in {"accepted", "polling"} => remote'[wk.response].key = KeyOf(wk)
  BY DEF Sound, Grounded, Lasting
<1>4. ASSUME wk.at = "done", wk.outcome = "approved"
      PROVE  \E id \in DOMAIN remote' : ReviewedBy(id, wk)'
  BY <1>4 DEF Grounded, Lasting, ReviewedBy
<1>. QED  BY <1>1, <1>2, <1>3, <1>4 DEF Grounded, KeyOf

-----------------------------------------------------------------------------
(* The attempts *)

LEMMA OperatorsName ==
    ASSUME NEW k, NEW a \in Attempt, Names(k, a), NEW id, IsOf(id, k), NEW u, NEW s
    PROVE  /\ Names(k, Settled(a, u, id, s)) /\ Names(k, Submitted(a, id))
           /\ Names(k, [a EXCEPT !.state = "orphaned"]) /\ Names(k, Older(a))
<1>1. Names(k, Settled(a, u, id, s))
  BY DEF Names, Settled, Attempt
<1>2. Names(k, Submitted(a, id))
  BY DEF Names, Submitted, Attempt
<1>3. Names(k, [a EXCEPT !.state = "orphaned"]) /\ Names(k, Older(a))
  BY DEF Names, Older, Attempt
<1>. QED  BY <1>1, <1>2, <1>3

LEMMA ChangedAttemptTells ==
    ASSUME IInv, RecordsTell, NEW k \in DOMAIN attempts, NEW a, Names(k, a),
           attempts' = [attempts EXCEPT ![k] = a]
    PROVE  \A x \in DOMAIN attempts' : Names(x, attempts'[x])
BY DEF RecordsTell

LEMMA AttemptsTell ==
    ASSUME IInv, ReviewsInv, [Next]_vars
    PROVE  \A k \in DOMAIN attempts' : Names(k, attempts'[k])
<1>. DEFINE Tell == \A k \in DOMAIN attempts' : Names(k, attempts'[k])
<1>0. \A k \in DOMAIN attempts : attempts[k] \in Attempt /\ Names(k, attempts[k])
  BY DEF IInv, TypeOK, ReviewsInv, RecordsTell
<1>1. CASE UNCHANGED attempts
  BY <1>0, <1>1
<1>2. CASE Tick
  <2>1. /\ DOMAIN attempts' = DOMAIN attempts
        /\ \A k \in DOMAIN attempts : attempts'[k] = Older(attempts[k])
    BY <1>2 DEF Tick
  <2>2. ASSUME NEW k \in DOMAIN attempts PROVE Names(k, Older(attempts[k]))
    BY <1>0, OperatorsName DEF IsOf
  <2>. QED  BY <2>1, <2>2
<1>3. ASSUME NEW w \in Workers, Admitted(w)
      PROVE  Tell
  <2>1. Names(KeyOf(workers[w]), Reservation(workers[w].content))
    BY DEF Names, IsOf, Reservation
  <2>. QED  BY <1>0, <1>3, <2>1 DEF Admitted, Put, Recorded
<1>4. ASSUME NEW w \in Workers, Reserve(w), ~Admitted(w)
      PROVE  Tell
  BY <1>1, <1>4 DEF Reserve, Admitted
<1>5. ASSUME NEW w \in Workers,
             SubmissionRejected(w) \/ RecordSubmission(w) \/ PollResponse(w)
      PROVE  Tell
  <2>. DEFINE k == KeyOf(workers[w])
              id == workers[w].response
  <2>1. k \in DOMAIN attempts
    BY <1>5, PathOf DEF SubmissionRejected, RecordSubmission, PollResponse, Sound
  <2>2. ~SubmissionRejected(w) => IsOf(id, k)
    <3>. SUFFICES ASSUME RecordSubmission(w) \/ PollResponse(w) PROVE IsOf(id, k)
      BY <1>5
    <3>1. workers[w] \in OnPath /\ Sound(workers[w]) /\ Grounded(workers[w])
            /\ workers[w].at \in {"accepted", "polling"}
      BY PathOf DEF RecordSubmission, PollResponse, ReviewsInv
    <3>. QED  BY <3>1 DEF Sound, Grounded, IsOf
  <2>3. \/ attempts' = [attempts EXCEPT ![k] = Settled(attempts[k], 0, NoId, "not_submitted")]
        \/ ~SubmissionRejected(w) /\ attempts' = [attempts EXCEPT ![k] = Submitted(attempts[k], id)]
        \/ ~SubmissionRejected(w)
             /\ \E u, s : attempts' = [attempts EXCEPT ![k] = Settled(attempts[k], u, id, s)]
    BY <1>5 DEF SubmissionRejected, RecordSubmission, PollResponse
  <2>4. IsOf(NoId, k)
    BY DEF IsOf
  <2>. HIDE DEF k, id
  <2>5. CASE attempts' = [attempts EXCEPT ![k] = Settled(attempts[k], 0, NoId, "not_submitted")]
    <3>1. Names(k, Settled(attempts[k], 0, NoId, "not_submitted"))
      BY <1>0, <2>1, <2>4, OperatorsName
    <3>. QED  BY <2>1, <2>5, <3>1, ChangedAttemptTells DEF ReviewsInv
  <2>6. CASE ~SubmissionRejected(w) /\ attempts' = [attempts EXCEPT ![k] = Submitted(attempts[k], id)]
    <3>1. Names(k, Submitted(attempts[k], id))
      BY <1>0, <2>1, <2>2, <2>6, OperatorsName
    <3>. QED  BY <2>1, <2>6, <3>1, ChangedAttemptTells DEF ReviewsInv
  <2>7. ASSUME ~SubmissionRejected(w), NEW u, NEW s,
               attempts' = [attempts EXCEPT ![k] = Settled(attempts[k], u, id, s)]
        PROVE  Tell
    <3>1. Names(k, Settled(attempts[k], u, id, s))
      BY <1>0, <2>1, <2>2, <2>7, OperatorsName
    <3>. QED  BY <2>1, <2>7, <3>1, ChangedAttemptTells DEF ReviewsInv
  <2>. QED  BY <2>3, <2>5, <2>6, <2>7
<1>6. ASSUME NEW w \in Workers, Reconcile(w)
      PROVE  Tell
  <2>1. PICK seen \in workers[w].unsettled :
          \/ \E u \in Reported(seen[2]) : attempts' = [attempts EXCEPT ![seen[1]] =
                 Settled(@, u, seen[2], remote[seen[2]].status)]
          \/ UNCHANGED attempts
          \/ attempts' = [attempts EXCEPT ![seen[1]] =
                 IF Expired(@, seen[2]) THEN [@ EXCEPT !.state = "orphaned"] ELSE @]
    BY <1>6 DEF Reconcile
  <2>. DEFINE k == seen[1]
              id == seen[2]
  <2>2. k \in DOMAIN attempts /\ IsOf(id, k)
    BY <1>6, <2>1, PathOf DEF Reconcile, Sound, ReviewsInv, Grounded, Carries
  <2>3. ASSUME NEW u, attempts' = [attempts EXCEPT ![k] =
                   Settled(attempts[k], u, id, remote[id].status)]
        PROVE  Tell
    <3>1. Names(k, Settled(attempts[k], u, id, remote[id].status))
      BY <1>0, <2>2, OperatorsName
    <3>. QED  BY <2>2, <2>3, <3>1, ChangedAttemptTells DEF ReviewsInv
  <2>4. CASE attempts' = [attempts EXCEPT ![k] =
                 IF Expired(attempts[k], id)
                 THEN [attempts[k] EXCEPT !.state = "orphaned"] ELSE attempts[k]]
    <3>1. Names(k, IF Expired(attempts[k], id)
                   THEN [attempts[k] EXCEPT !.state = "orphaned"] ELSE attempts[k])
      BY <1>0, <2>2, OperatorsName
    <3>. QED  BY <2>2, <2>4, <3>1, ChangedAttemptTells DEF ReviewsInv
  <2>. QED  BY <1>1, <2>1, <2>3, <2>4
<1>. QED
  BY <1>1, <1>2, <1>3, <1>4, <1>5, <1>6 DEF Next, vars, Begin, EndBaseline, Triage, Crash,
     Work, Call, ListUnsettled, CreateResponse, SubmissionLost, GiveUp, Finish

LEMMA RecordsTellOn ==
    ASSUME IInv, ReviewsInv, [Next]_vars
    PROVE  RecordsTell'
<1>1. Lasting
  BY StepLasts
<1>2. (\A k \in DOMAIN attempts : Names(k, attempts[k]))'
  BY <1>1, AttemptsTell DEF Names, IsOf, Lasting
<1>3. ASSUME NEW id \in DOMAIN remote
      PROVE  remote'[id].content = attempts'[remote'[id].key].content
  BY <1>1 DEF Lasting, ReviewsInv, RecordsTell, IInv, LinksOK
<1>4. ASSUME NEW id \in DOMAIN remote' \ DOMAIN remote
      PROVE  remote'[id].content = attempts'[remote'[id].key].content
  <2>1. PICK w \in Workers : CreateResponse(w)
    BY RequestsStep, EndedRequest
  <2>. DEFINE n == Len(remote) + 1
  <2>5. /\ DOMAIN remote' = DOMAIN remote \cup {n}
        /\ remote'[n] = [key |-> KeyOf(workers[w]), content |-> workers[w].content,
                         usage |-> 0, status |-> "in_progress", answer |-> NoAnswer]
    BY <2>1, AppendedRequest
  <2>. HIDE DEF n
  <2>2. /\ id = n
        /\ remote'[id].key = KeyOf(workers[w]) /\ remote'[id].content = workers[w].content
    BY <2>5
  <2>3. workers[w] \in OnPath /\ workers[w].at = "create" /\ Grounded(workers[w])
    BY <2>1, PathOf DEF CreateResponse, ReviewsInv
  <2>4. UNCHANGED attempts
    BY <2>1 DEF CreateResponse
  <2>. QED  BY <2>2, <2>3, <2>4 DEF Grounded
<1>. QED  BY <1>2, <1>3, <1>4 DEF RecordsTell

-----------------------------------------------------------------------------
(* The paths *)

\* A path that waits for no call and approved nothing rests on little.
LEMMA RestsGrounded ==
    ASSUME NEW wk, wk.at \in {"list", "reconcile", "done"}, Carries(wk),
           wk.at = "done" => wk.outcome # "approved"
    PROVE  Grounded(wk)
BY DEF Grounded

LEMMA StoppedIsGrounded ==
    ASSUME NEW wk \in OnPath, Carries(wk), NEW o, o # "approved"
    PROVE  Grounded(Stop(wk, o))
<1>1. /\ Stop(wk, o).at = "done" /\ Stop(wk, o).outcome = o
      /\ Stop(wk, o).revision = wk.revision /\ Stop(wk, o).content = wk.content
      /\ Stop(wk, o).unsettled = wk.unsettled
  BY DEF Stop, OnPath
<1>2. Carries(Stop(wk, o))
  BY <1>1 DEF Carries
<1>. QED  BY <1>1, <1>2, RestsGrounded

LEMMA FailedIsGrounded ==
    ASSUME NEW wk \in OnPath, Carries(wk), NEW a
    PROVE  Grounded(Failed(wk, a))
BY FailedStops, StoppedIsGrounded

\* Whoever follows the completed answer to a request about its own text ends
\* approved by that request, or goes on with nothing approved.
LEMMA FollowGrounded ==
    ASSUME NEW wk \in OnPath, Carries(wk), NEW id \in DOMAIN remote,
           remote[id].key[1] = wk.evidence, remote[id].content = wk.content,
           remote[id].status = "completed", remote[id].answer \in Answer
    PROVE  Grounded(Follow(wk, remote[id].answer))
<1>. DEFINE answer == remote[id].answer
            n == Follow(wk, answer)
<1>1. Grounded(NextTier(wk))
  <2>1. CASE wk.tier = "sol" /\ AstraEnabled
    <3>1. /\ NextTier(wk).at = "list" /\ NextTier(wk).revision = wk.revision
          /\ NextTier(wk).content = wk.content /\ NextTier(wk).unsettled = wk.unsettled
      BY <2>1 DEF NextTier, OnPath
    <3>. QED  BY <3>1, RestsGrounded DEF Carries
  <2>2. CASE ~(wk.tier = "sol" /\ AstraEnabled)
    <3>. DEFINE bare == [wk EXCEPT !.revision = NoContent]
    <3>1. bare \in OnPath /\ bare.revision = NoContent /\ bare.unsettled = wk.unsettled
      BY DEF OnPath
    <3>2. Carries(bare)
      BY <3>1 DEF Carries
    <3>3. NextTier(wk) = Stop(bare, "needs_review")
      BY <2>2 DEF NextTier
    <3>. HIDE DEF bare
    <3>. QED  BY <3>1, <3>2, <3>3, StoppedIsGrounded
  <2>. QED  BY <2>1, <2>2
<1>2. CASE answer.verdict = "ask"
  BY <1>2, StoppedIsGrounded DEF Follow
<1>3. CASE answer.verdict # "ask" /\ answer.revision # NoContent
  <2>1. CASE wk.stage = "review"
    <3>1. n = Repaired(wk, answer)
      BY <1>3, <2>1 DEF Follow
    <3>2. /\ n.at = "list" /\ n.revision = answer.revision /\ n.content = answer.revision
          /\ n.unsettled = wk.unsettled
      BY <3>1 DEF Repaired, OnPath
    <3>. QED  BY <3>2, RestsGrounded DEF Carries
  <2>2. CASE wk.stage # "review"
    BY <1>1, <1>3, <2>2 DEF Follow
  <2>. QED  BY <2>1, <2>2
<1>4. CASE answer.verdict = "approve" /\ answer.revision = NoContent
  <2>1. n = Stop(wk, "approved")
    BY <1>4 DEF Follow
  <2>2. /\ n.at = "done" /\ n.evidence = wk.evidence /\ n.content = wk.content
        /\ n.revision = wk.revision /\ n.unsettled = wk.unsettled
    BY <2>1 DEF Stop, OnPath
  <2>3. answer = [verdict |-> "approve", revision |-> NoContent]
    BY <1>4 DEF Answer
  <2>4. ReviewedBy(id, n) /\ Carries(n)
    BY <2>2, <2>3 DEF ReviewedBy, Carries
  <2>. QED  BY <2>2, <2>4 DEF Grounded
<1>5. CASE answer.verdict = "no_change" /\ answer.revision = NoContent
  <2>1. n = Stop(wk, "no_change")
    BY <1>5 DEF Follow
  <2>. QED  BY <2>1, StoppedIsGrounded
<1>6. CASE answer.verdict \notin {"ask", "approve", "no_change"} /\ answer.revision = NoContent
  BY <1>1, <1>6 DEF Follow
<1>. QED  BY <1>2, <1>3, <1>4, <1>5, <1>6

\* What a path rests on, for each step of its worker but an admission and a
\* submission; told of the state before the step.
LEMMA ReuseGrounded ==
    ASSUME IInv, RecordsTell, NEW wk \in OnPath, Carries(wk), NEW k \in DOMAIN attempts,
           k[1] = wk.evidence
    PROVE  Grounded(Reuse(wk, attempts[k]))
<1>. DEFINE a == attempts[k]
            id == a.result
<1>1. \/ Reuse(wk, a) \in {Stop(wk, "needs_review"), Stop(wk, "waiting_budget")}
      \/ /\ id # NoId /\ remote[id].status = "completed" /\ a.content = wk.content
         /\ Reuse(wk, a) = Follow(wk, remote[id].answer)
  BY DEF Reuse, Reusable
<1>2. CASE Reuse(wk, a) \in {Stop(wk, "needs_review"), Stop(wk, "waiting_budget")}
  BY <1>2, StoppedIsGrounded
<1>3. CASE /\ id # NoId /\ remote[id].status = "completed" /\ a.content = wk.content
           /\ Reuse(wk, a) = Follow(wk, remote[id].answer)
  <2>1. id \in DOMAIN remote /\ remote[id].key = k /\ remote[id].content = wk.content
    BY <1>3 DEF RecordsTell, Names, IsOf
  <2>2. remote[id].answer \in Answer
    BY <1>3, <2>1, RequestTypes
  <2>. QED  BY <1>3, <2>1, <2>2, FollowGrounded
<1>. QED  BY <1>1, <1>2, <1>3

LEMMA PollGrounded ==
    ASSUME IInv, ReviewsInv, NEW w \in Workers, PollResponse(w)
    PROVE  Grounded(workers'[w])
<1>. DEFINE old == workers[w]
            id == old.response
            next == [old EXCEPT !.response = NoId]
<1>1. /\ old \in OnPath /\ Sound(old) /\ Grounded(old) /\ old.at = "polling"
      /\ KeyOf(old) \in DOMAIN attempts /\ id \in DOMAIN remote
  BY PathOf DEF PollResponse, Sound, ReviewsInv
<1>2. remote[id].key = KeyOf(old) /\ remote[id].content = old.content
  BY <1>1 DEF Grounded, ReviewsInv, RecordsTell
<1>3. /\ next \in OnPath /\ next.evidence = old.evidence /\ next.content = old.content
      /\ next.revision = old.revision /\ next.unsettled = old.unsettled
  BY <1>1 DEF OnPath, NoId
<1>4. Carries(next)
  BY <1>1, <1>3 DEF Grounded, Carries
<1>5. remote[id].key[1] = next.evidence /\ remote[id].content = next.content
  BY <1>2, <1>3 DEF KeyOf
<1>6. \/ \E a : workers'[w] = Failed(next, a)
      \/ remote[id].status = "completed" /\ workers'[w] = Follow(next, remote[id].answer)
  BY DEF PollResponse, Become, IInv, TypeOK
<1>. HIDE DEF next, id
<1>7. remote[id].status = "completed" => remote[id].answer \in Answer
  BY <1>1, RequestTypes DEF id
<1>. QED  BY <1>1, <1>3, <1>4, <1>5, <1>6, <1>7, FollowGrounded, FailedIsGrounded DEF id

LEMMA MoverGrounded ==
    ASSUME IInv, ReviewsInv, NEW w \in Workers,
           \/ \E e \in Evidence, c \in Contents : Begin(w, e, c)
           \/ EndBaseline(w) \/ Triage(w) \/ Crash(w) \/ ListUnsettled(w) \/ Reconcile(w)
           \/ (Reserve(w) /\ ~Admitted(w))
           \/ SubmissionLost(w) \/ SubmissionRejected(w)
           \/ RecordSubmission(w) \/ PollResponse(w) \/ GiveUp(w)
    PROVE  Grounded(workers'[w])
<1>. DEFINE old == workers[w]
            new == workers'[w]
<1>0. \A wk : Become(w, wk) => new = wk
  BY DEF Become, IInv, TypeOK
<1>00. old \in OnPath => Grounded(old) /\ Carries(old)
  BY DEF ReviewsInv, Grounded
<1>1. CASE (\E e \in Evidence, c \in Contents : Begin(w, e, c)) \/ EndBaseline(w) \/ Crash(w)
  <2>1. \/ \E e, c, id : Become(w, [at |-> "baseline", evidence |-> e, content |-> c,
                                    call |-> id])
        \/ \E e, c, v : Become(w, [at |-> "triage", evidence |-> e, content |-> c,
                                   verdict |-> v])
        \/ Become(w, Idle)
    <3>1. CASE \E e \in Evidence, c \in Contents : Begin(w, e, c)
      BY <3>1 DEF Begin
    <3>2. CASE EndBaseline(w)
      BY <3>2 DEF EndBaseline
    <3>3. CASE Crash(w)
      BY <3>3 DEF Crash
    <3>. QED  BY <1>1, <3>1, <3>2, <3>3
  <2>2. \E x : new = x /\ x.at \in {"baseline", "triage", "idle"}
    <3>1. ASSUME NEW e, NEW c, NEW id,
                 Become(w, [at |-> "baseline", evidence |-> e, content |-> c, call |-> id])
          PROVE  new.at = "baseline"
      BY <1>0, <3>1
    <3>2. ASSUME NEW e, NEW c, NEW v,
                 Become(w, [at |-> "triage", evidence |-> e, content |-> c, verdict |-> v])
          PROVE  new.at = "triage"
      BY <1>0, <3>2
    <3>3. Become(w, Idle) => new.at = "idle"
      BY <1>0 DEF Idle
    <3>. QED  BY <2>1, <3>1, <3>2, <3>3
  <2>3. new \notin OnPath
    BY <2>2 DEF OnPath
  <2>. QED  BY <2>3 DEF Grounded
<1>2. CASE Triage(w)
  <2>. DEFINE path == [at |-> "list", evidence |-> old.evidence,
                       content |-> old.content, revision |-> NoContent,
                       tier |-> "sol", stage |-> "review", unsettled |-> {},
                       response |-> NoId, outcome |-> ""]
  <2>0. \/ Become(w, path) \/ Become(w, Stop(path, "no_change"))
        \/ Become(w, Stop(path, "baseline"))
    BY <1>2 DEF Triage
  <2>1. new \in {path, Stop(path, "no_change"), Stop(path, "baseline")}
    BY <1>0, <2>0
  <2>2. old \in Worker /\ old.at = "triage"
    BY <1>2 DEF Triage, IInv, TypeOK
  <2>3. old.evidence \in Evidence /\ old.content \in Contents
    <3>1. old \notin OnPath
      BY <2>2 DEF OnPath
    <3>2. old \in [at: {"triage"}, evidence: Evidence, content: Contents,
                   verdict: {"approve", "no_change", "needs_review"}]
      BY <2>2, <3>1 DEF Worker, Idle
    <3>. QED  BY <3>2
  <2>4. path \in OnPath
    BY <2>3 DEF OnPath, Tiers, Stages, NoId
  <2>5. Carries(path) /\ path.at = "list"
    BY DEF Carries
  <2>. HIDE DEF path
  <2>. QED  BY <2>1, <2>4, <2>5, RestsGrounded, StoppedIsGrounded
<1>3. CASE ListUnsettled(w)
  <2>1. old \in OnPath
    BY <1>3, PathOf DEF ListUnsettled
  <2>. DEFINE listed == {<<k, attempts[k].response>> :
                             k \in {x \in DOMAIN attempts : Unresolved(attempts[x])}}
  <2>4. new = [old EXCEPT !.at = "reconcile", !.unsettled = listed]
    BY <1>0, <1>3 DEF ListUnsettled
  <2>5. \A seen \in listed : \E k \in DOMAIN attempts : seen = <<k, attempts[k].response>>
    OBVIOUS
  <2>. HIDE DEF listed
  <2>2. /\ new.at = "reconcile" /\ new.revision = old.revision /\ new.content = old.content
        /\ \A seen \in new.unsettled : \E k \in DOMAIN attempts :
              seen = <<k, attempts[k].response>>
    BY <2>1, <2>4, <2>5 DEF OnPath
  <2>3. Carries(new)
    BY <1>00, <2>1, <2>2 DEF Carries, ReviewsInv, RecordsTell, Names
  <2>. QED  BY <2>2, <2>3, RestsGrounded
<1>4. CASE Reconcile(w)
  <2>1. old \in OnPath
    BY <1>4, PathOf DEF Reconcile
  <2>4. old.at = "reconcile" /\ \E seen : new = [old EXCEPT !.unsettled = @ \ {seen}]
    BY <1>0, <1>4 DEF Reconcile
  <2>2. /\ new.at = "reconcile" /\ new.revision = old.revision /\ new.content = old.content
        /\ new.unsettled \subseteq old.unsettled
    BY <2>1, <2>4 DEF OnPath
  <2>3. Carries(new)
    BY <1>00, <2>1, <2>2 DEF Carries
  <2>. QED  BY <2>2, <2>3, RestsGrounded
<1>5. CASE Reserve(w) /\ ~Admitted(w)
  <2>1. old \in OnPath
    BY <1>5, PathOf DEF Reserve
  <2>2. \/ new \in {Stop(old, "missing_evidence"), Stop(old, "waiting_budget")}
        \/ KeyOf(old) \in DOMAIN attempts /\ new = Reuse(old, attempts[KeyOf(old)])
    BY <1>0, <1>5 DEF Reserve, Admitted, Recorded
  <2>3. KeyOf(old)[1] = old.evidence
    BY DEF KeyOf
  <2>. QED  BY <1>00, <2>1, <2>2, <2>3, StoppedIsGrounded, ReuseGrounded DEF ReviewsInv
<1>6. CASE SubmissionLost(w) \/ SubmissionRejected(w)
  <2>1. old \in OnPath
    BY <1>6, PathOf DEF SubmissionLost, SubmissionRejected
  <2>2. \E a : new = Failed(old, a)
    BY <1>0, <1>6 DEF SubmissionLost, SubmissionRejected
  <2>. QED  BY <1>00, <2>1, <2>2, FailedIsGrounded
<1>7. CASE GiveUp(w)
  <2>. DEFINE next == [old EXCEPT !.response = NoId]
  <2>1. old \in OnPath
    BY <1>7, PathOf DEF GiveUp
  <2>2. /\ next \in OnPath /\ next.content = old.content /\ next.revision = old.revision
        /\ next.unsettled = old.unsettled
    BY <2>1 DEF OnPath, NoId
  <2>3. Carries(next)
    BY <1>00, <2>1, <2>2 DEF Carries
  <2>4. \E a : new = Failed(next, a)
    BY <1>0, <1>7 DEF GiveUp
  <2>. QED  BY <2>2, <2>3, <2>4, FailedIsGrounded
<1>8. CASE RecordSubmission(w)
  <2>1. old \in OnPath /\ old.at = "accepted"
    BY <1>8, PathOf DEF RecordSubmission
  <2>2. new = Goto(old, "polling")
    BY <1>0, <1>8 DEF RecordSubmission
  <2>3. /\ new.at = "polling" /\ new.content = old.content /\ new.revision = old.revision
        /\ new.unsettled = old.unsettled /\ new.response = old.response
        /\ KeyOf(new) = KeyOf(old)
    BY <2>1, <2>2 DEF Goto, OnPath, KeyOf
  <2>4. Carries(new)
    BY <1>00, <2>1, <2>3 DEF Carries
  <2>. QED  BY <1>00, <2>1, <2>3, <2>4 DEF Grounded
<1>. QED  BY <1>1, <1>2, <1>3, <1>4, <1>5, <1>6, <1>7, <1>8, PollGrounded

\* An admitted path has the text it reserved for; a submitted one the request.
LEMMA AdmittedGrounded ==
    ASSUME IInv, ReviewsInv, NEW w \in Workers, Reserve(w), Admitted(w)
    PROVE  Grounded(workers[w])'
<1>. DEFINE old == workers[w]
            new == workers'[w]
            k == KeyOf(old)
<1>1. old \in OnPath /\ Carries(old)
  BY PathOf DEF Reserve, ReviewsInv, Grounded
<1>2. new = Goto(old, "create")
  BY DEF Admitted, Become, IInv, TypeOK
<1>3. /\ new.at = "create" /\ new.content = old.content /\ new.revision = old.revision
      /\ new.unsettled = old.unsettled /\ KeyOf(new) = k
  BY <1>1, <1>2 DEF Goto, OnPath, KeyOf
<1>4. UNCHANGED remote /\ attempts'[k] = Reservation(old.content)
  BY DEF Reserve, Admitted, Put
<1>5. attempts'[KeyOf(new)].content = new.content
  BY <1>3, <1>4 DEF Reservation
<1>6. Carries(workers[w])'
  BY <1>1, <1>3, <1>4 DEF Carries, IsOf
<1>. QED  BY <1>3, <1>5, <1>6 DEF Grounded, KeyOf

LEMMA SubmittedGrounded ==
    ASSUME IInv, ReviewsInv, NEW w \in Workers, CreateResponse(w)
    PROVE  Grounded(workers[w])'
<1>. DEFINE old == workers[w]
            new == workers'[w]
            k == KeyOf(old)
            n == Len(remote) + 1
<1>1. /\ old \in OnPath /\ Carries(old) /\ Grounded(old) /\ old.at = "create"
      /\ UNCHANGED attempts
  BY PathOf DEF CreateResponse, ReviewsInv, Grounded
<1>2. new = [old EXCEPT !.at = "accepted", !.response = n] \/ \E a : new = Failed(old, a)
  BY DEF CreateResponse, Become, IInv, TypeOK
<1>3. /\ DOMAIN remote \subseteq DOMAIN remote' /\ n \in DOMAIN remote'
      /\ \A id \in DOMAIN remote : remote'[id] = remote[id]
  BY AppendedRequest
<1>4. remote'[n].key = k
  <2>1. remote'[n] = [key |-> k, content |-> old.content, usage |-> 0,
                      status |-> "in_progress", answer |-> NoAnswer]
    BY AppendedRequest
  <2>. QED  BY <2>1
<1>. HIDE DEF n
<1>5. CASE new = [old EXCEPT !.at = "accepted", !.response = n]
  <2>1. /\ new.at = "accepted" /\ new.content = old.content /\ new.revision = old.revision
        /\ new.unsettled = old.unsettled /\ new.response = n /\ KeyOf(new) = k
    BY <1>1, <1>5 DEF OnPath, KeyOf
  <2>2. Carries(workers[w])'
    BY <1>1, <1>3, <2>1 DEF Carries, IsOf
  <2>3. attempts'[KeyOf(new)].content = new.content
    BY <1>1, <2>1 DEF Grounded
  <2>. QED  BY <1>4, <2>1, <2>2, <2>3 DEF Grounded, KeyOf
<1>6. ASSUME NEW a, new = Failed(old, a)
      PROVE  Grounded(workers[w])'
  <2>1. PICK o \in {"needs_review", "waiting_budget"} : new = Stop(old, o)
    BY <1>1, <1>6, FailedStops
  <2>2. /\ new.at = "done" /\ new.outcome = o /\ new.content = old.content
        /\ new.revision = old.revision /\ new.unsettled = old.unsettled
    BY <1>1, <2>1 DEF Stop, OnPath
  <2>3. Carries(workers[w])'
    BY <1>1, <1>3, <2>2 DEF Carries, IsOf
  <2>. QED  BY <2>2, <2>3 DEF Grounded
<1>. QED  BY <1>2, <1>5, <1>6

\* A step of the workers is of one of them; the others stay as they are.
LEMMA WorkersGroundedOn ==
    ASSUME IInv, ReviewsInv, [Next]_vars, NEW v \in Workers
    PROVE  Grounded(workers[v])'
<1>1. Lasting /\ IInv'
  BY StepLasts, StepPreserves
<1>2. CASE workers'[v] = workers[v]
  <2>. PICK x : x = workers[v]
    OBVIOUS
  <2>1. Sound(x) /\ Grounded(x)
    BY WorkersAreSound DEF ReviewsInv
  <2>2. Grounded(x)'
    BY <1>1, <2>1, GroundStays
  <2>. QED  BY <1>2, <2>2 DEF Grounded, Carries, IsOf, KeyOf, ReviewedBy
<1>3. ASSUME NEW w \in Workers, MoveStep(w), Grounded(workers'[w])
      PROVE  Grounded(workers[v])'
  <2>1. Sound(workers'[w]) /\ (v # w => workers'[v] = workers[v])
    BY <1>3 DEF MoveStep, IInv, TypeOK
  <2>2. CASE v = w
    <3>. PICK x : x = workers'[v]
      OBVIOUS
    <3>1. Grounded(x)'
      BY <1>1, <1>3, <2>1, <2>2, GroundStays
    <3>. QED  BY <3>1 DEF Grounded, Carries, IsOf, KeyOf, ReviewedBy
  <2>. QED  BY <1>2, <2>1, <2>2
<1>4. ASSUME NEW w \in Workers, \E e \in Evidence, c \in Contents : Begin(w, e, c)
      PROVE  Grounded(workers[v])'
  BY <1>3, <1>4, BeginMoves, MoverGrounded
<1>5. ASSUME NEW w \in Workers,
             EndBaseline(w) \/ Triage(w) \/ Crash(w) \/ ListUnsettled(w) \/ Reconcile(w)
               \/ SubmissionLost(w) \/ SubmissionRejected(w)
               \/ RecordSubmission(w) \/ PollResponse(w) \/ GiveUp(w)
      PROVE  Grounded(workers[v])'
  <2>1. MoveStep(w)
    BY <1>5, EndBaselineMoves, TriageMoves, CrashMoves, ListUnsettledMoves, ReconcileMoves,
       SubmissionLostMoves, SubmissionRejectedMoves, RecordSubmissionMoves,
       PollResponseMoves, GiveUpMoves
  <2>2. Grounded(workers'[w])
    BY <1>5, MoverGrounded
  <2>. QED  BY <1>3, <2>1, <2>2
<1>6. ASSUME NEW w \in Workers, Reserve(w), ~Admitted(w)
      PROVE  Grounded(workers[v])'
  BY <1>3, <1>6, ReserveMovesOrAdmits, MoverGrounded
<1>7. ASSUME NEW w \in Workers, Reserve(w), Admitted(w)
      PROVE  Grounded(workers[v])'
  <2>1. v # w => workers'[v] = workers[v]
    BY <1>7 DEF Admitted, Become, IInv, TypeOK
  <2>. QED  BY <1>2, <1>7, <2>1, AdmittedGrounded
<1>8. ASSUME NEW w \in Workers, CreateResponse(w)
      PROVE  Grounded(workers[v])'
  <2>1. v # w => workers'[v] = workers[v]
    BY <1>8 DEF CreateResponse, Become, IInv, TypeOK
  <2>. QED  BY <1>2, <1>8, <2>1, SubmittedGrounded
<1>9. ASSUME NEW id \in DOMAIN remote, Finish(id)
      PROVE  Grounded(workers[v])'
  BY <1>2, <1>9 DEF Finish
<1>10. CASE Tick \/ UNCHANGED vars
  BY <1>2, <1>10 DEF Tick, vars
<1>. QED
  BY <1>4, <1>5, <1>6, <1>7, <1>8, <1>9, <1>10 DEF Next, Work, Call

LEMMA ReviewsInvariant == Spec => [](IInv /\ ReviewsInv)
<1>1. Init => ReviewsInv
  <2>. SUFFICES ASSUME Init PROVE ReviewsInv
    OBVIOUS
  <2>1. DOMAIN remote = {} /\ DOMAIN attempts = {} /\ \A w \in Workers : workers[w] = Idle
    BY DEF Init
  <2>2. Idle \notin OnPath
    BY DEF Idle, OnPath
  <2>. QED  BY <2>1, <2>2 DEF ReviewsInv, RecordsTell, Grounded
<1>2. IInv /\ ReviewsInv /\ [Next]_vars => ReviewsInv'
  <2>. SUFFICES ASSUME IInv, ReviewsInv, [Next]_vars PROVE ReviewsInv'
    OBVIOUS
  <2>1. \A w \in Workers : Grounded(workers[w])'
    BY WorkersGroundedOn
  <2>. QED  BY <2>1, RecordsTellOn DEF ReviewsInv
<1>. QED  BY <1>1, <1>2, InitHolds, StepPreserves, PTL DEF Spec

\* A path ends approved only when a completed review of its text said so, made
\* by another call than the one that wrote the text, also when it goes on from
\* recorded answers after a crash (execute_review).
THEOREM ApprovalsWereReviewed == Spec => []ApprovedTextWasReviewed
<1>1. IInv /\ ReviewsInv => ApprovedTextWasReviewed
  <2>. SUFFICES ASSUME IInv, ReviewsInv, NEW w \in Workers,
                       workers[w].at = "done", workers[w].outcome = "approved"
                PROVE  /\ \E id \in DOMAIN remote : ReviewedBy(id, workers[w])
                       /\ workers[w].revision \in {NoContent, workers[w].content}
    BY DEF ApprovedTextWasReviewed
  <2>1. workers[w] \in OnPath
    BY DEF IInv, TypeOK, Worker, Idle
  <2>. QED  BY <2>1 DEF ReviewsInv, Grounded, Carries
<1>. QED  BY <1>1, ReviewsInvariant, PTL

-----------------------------------------------------------------------------
(* How many calls are paid                                                 *)
(*                                                                         *)
(* An attempt of a submitted request is counted, because only an attempt   *)
(* that was never submitted is "not_submitted"; and once counted it leaves *)
(* the count only by growing old (and, for its tier, by being settled).    *)

\* What a step makes of the attempt k: the worker about to submit it is refused,
\* its receipt is recorded, an ended request settles it, or it is given up.
Refused(k, a) == \E w \in Workers :
    /\ SubmissionRejected(w) /\ AboutToSubmit(w, k)
    /\ a = Settled(attempts[k], 0, NoId, "not_submitted")
Receipted(k, a) == \E id \in DOMAIN remote :
    remote[id].key = k /\ a = Submitted(attempts[k], id)
Ended(k, a) == \E id \in DOMAIN remote : \E u \in Reported(id) :
    /\ remote[id].key = k /\ remote[id].status # "in_progress"
    /\ a = Settled(attempts[k], u, id, remote[id].status)
LeftAlone(k, a) == \E id :
    Expired(attempts[k], id) /\ a = [attempts[k] EXCEPT !.state = "orphaned"]
ChangeOf(k, a) == Refused(k, a) \/ Receipted(k, a) \/ Ended(k, a) \/ LeftAlone(k, a)

Changed == \E k \in DOMAIN attempts : \E a :
    ChangeOf(k, a) /\ attempts' = [attempts EXCEPT ![k] = a]

Same ==
    /\ DOMAIN attempts' = DOMAIN attempts
    /\ \A k \in DOMAIN attempts : attempts'[k] = attempts[k]

LEMMA AttemptsStep ==
    ASSUME IInv, ReviewsInv, [Next]_vars
    PROVE  \/ Same
           \/ Tick
           \/ \E w \in Workers : Reserve(w) /\ Admitted(w)
           \/ Changed
<1>0. UNCHANGED attempts => Same
  BY DEF Same
<1>1. ASSUME NEW w \in Workers, Reserve(w), ~Admitted(w)
      PROVE  UNCHANGED attempts
  BY <1>1 DEF Reserve, Admitted
<1>2. ASSUME NEW w \in Workers, SubmissionRejected(w)
      PROVE  Changed
  <2>. DEFINE k == KeyOf(workers[w])
              a == Settled(attempts[k], 0, NoId, "not_submitted")
  <2>1. k \in DOMAIN attempts
    BY <1>2, PathOf DEF SubmissionRejected, Sound
  <2>2. AboutToSubmit(w, k) /\ attempts' = [attempts EXCEPT ![k] = a]
    BY <1>2 DEF SubmissionRejected, AboutToSubmit
  <2>3. ChangeOf(k, a)
    BY <1>2, <2>2 DEF ChangeOf, Refused
  <2>. QED  BY <2>1, <2>2, <2>3 DEF Changed
<1>3. ASSUME NEW w \in Workers, RecordSubmission(w) \/ PollResponse(w)
      PROVE  Changed
  <2>. DEFINE k == KeyOf(workers[w])
              id == workers[w].response
  <2>1. k \in DOMAIN attempts /\ id \in DOMAIN remote /\ remote[id].key = k
    <3>1. workers[w] \in OnPath /\ Sound(workers[w]) /\ Grounded(workers[w])
            /\ workers[w].at \in {"accepted", "polling"}
      BY <1>3, PathOf DEF RecordSubmission, PollResponse, ReviewsInv
    <3>. QED  BY <3>1 DEF Sound, Grounded
  <2>2. \/ attempts' = [attempts EXCEPT ![k] = Submitted(attempts[k], id)]
        \/ \E u \in Reported(id) : /\ remote[id].status # "in_progress"
             /\ attempts' = [attempts EXCEPT ![k] = Settled(attempts[k], u, id, remote[id].status)]
    BY <1>3 DEF RecordSubmission, PollResponse
  <2>. HIDE DEF k, id
  <2>3. CASE attempts' = [attempts EXCEPT ![k] = Submitted(attempts[k], id)]
    <3>1. ChangeOf(k, Submitted(attempts[k], id))
      BY <2>1 DEF ChangeOf, Receipted
    <3>. QED  BY <2>1, <2>3, <3>1 DEF Changed
  <2>4. ASSUME NEW u \in Reported(id), remote[id].status # "in_progress",
               attempts' = [attempts EXCEPT ![k] = Settled(attempts[k], u, id, remote[id].status)]
        PROVE  Changed
    <3>1. ChangeOf(k, Settled(attempts[k], u, id, remote[id].status))
      BY <2>1, <2>4 DEF ChangeOf, Ended
    <3>. QED  BY <2>1, <2>4, <3>1 DEF Changed
  <2>. QED  BY <2>2, <2>3, <2>4
<1>4. ASSUME NEW w \in Workers, Reconcile(w)
      PROVE  Same \/ Changed
  <2>1. PICK seen \in workers[w].unsettled :
          \/ /\ seen[2] # NoId /\ remote[seen[2]].status # "in_progress"
             /\ \E u \in Reported(seen[2]) : attempts' = [attempts EXCEPT ![seen[1]] =
                    Settled(@, u, seen[2], remote[seen[2]].status)]
          \/ UNCHANGED attempts
          \/ attempts' = [attempts EXCEPT ![seen[1]] =
                 IF Expired(@, seen[2]) THEN [@ EXCEPT !.state = "orphaned"] ELSE @]
    BY <1>4 DEF Reconcile
  <2>. DEFINE k == seen[1]
              id == seen[2]
  <2>2. k \in DOMAIN attempts /\ IsOf(id, k)
    BY <1>4, <2>1, PathOf DEF Reconcile, Sound, ReviewsInv, Grounded, Carries
  <2>3. ASSUME NEW u \in Reported(id), id # NoId, remote[id].status # "in_progress",
               attempts' = [attempts EXCEPT ![k] = Settled(attempts[k], u, id, remote[id].status)]
        PROVE  Changed
    <3>1. id \in DOMAIN remote /\ remote[id].key = k
      BY <2>2, <2>3 DEF IsOf
    <3>2. ChangeOf(k, Settled(attempts[k], u, id, remote[id].status))
      BY <2>3, <3>1 DEF ChangeOf, Ended
    <3>. QED  BY <2>2, <2>3, <3>2 DEF Changed
  <2>4. ASSUME Expired(attempts[k], id),
               attempts' = [attempts EXCEPT ![k] = [attempts[k] EXCEPT !.state = "orphaned"]]
        PROVE  Changed
    <3>1. ChangeOf(k, [attempts[k] EXCEPT !.state = "orphaned"])
      BY <2>4 DEF ChangeOf, LeftAlone
    <3>. QED  BY <2>2, <2>4, <3>1 DEF Changed
  <2>5. ASSUME ~Expired(attempts[k], id), attempts' = [attempts EXCEPT ![k] = attempts[k]]
        PROVE  Same
    BY <2>2, <2>5 DEF Same
  <2>. HIDE DEF k, id
  <2>6. CASE attempts' = [attempts EXCEPT ![k] = IF Expired(attempts[k], id)
                              THEN [attempts[k] EXCEPT !.state = "orphaned"] ELSE attempts[k]]
    <3>1. CASE Expired(attempts[k], id)
      BY <2>4, <2>6, <3>1
    <3>2. CASE ~Expired(attempts[k], id)
      BY <2>5, <2>6, <3>2
    <3>. QED  BY <3>1, <3>2
  <2>. QED  BY <1>0, <2>1, <2>3, <2>6 DEF k, id
<1>. QED
  BY <1>0, <1>1, <1>2, <1>3, <1>4 DEF Next, vars, Begin, EndBaseline, Triage, Crash, Work, Call,
     ListUnsettled, CreateResponse, SubmissionLost, GiveUp, Finish

\* An attempt that was not submitted is settled, a submitted one is counted.
CountedInv ==
    /\ \A k \in DOMAIN attempts :
          attempts[k].state = "not_submitted" => attempts[k].actual # Unknown
    /\ \A id \in DOMAIN remote : attempts[remote[id].key].state # "not_submitted"
    /\ \A w \in Workers, k \in Key :
          AboutToSubmit(w, k) => attempts[k].state # "not_submitted"

\* What may become of an attempt, for those who count.
Wanes(a, b) ==
    /\ a.age <= b.age
    /\ b.actual = Unknown => a.actual = Unknown
    /\ a.state = "not_submitted" => b.state = "not_submitted"
    /\ b.state = "not_submitted" => b.actual # Unknown

LEMMA AgeWanes ==
    ASSUME NEW a \in Attempt, a.state = "not_submitted" => a.actual # Unknown
    PROVE  Wanes(a, a) /\ Wanes(a, Older(a)) /\ Older(a).state = a.state
BY AmountAssumption DEF Wanes, Older, Attempt

LEMMA OrphanWanes ==
    ASSUME NEW a \in Attempt, a.actual = Unknown, a.state # "not_submitted"
    PROVE  /\ Wanes(a, [a EXCEPT !.state = "orphaned"])
           /\ [a EXCEPT !.state = "orphaned"].state # "not_submitted"
<1>. DEFINE b == [a EXCEPT !.state = "orphaned"]
<1>1. b.age = a.age /\ b.actual = a.actual /\ b.state = "orphaned"
  BY DEF Attempt
<1>. HIDE DEF b
<1>2. Wanes(a, b) /\ b.state # "not_submitted"
  BY <1>1 DEF Wanes, Attempt
<1>. QED  BY <1>2 DEF b

LEMMA OperatorsWane ==
    ASSUME NEW a \in Attempt, a.state = "not_submitted" => a.actual # Unknown,
           NEW u \in Usages \cup {0, Unknown}, NEW id, NEW s \in {"completed", "failed"}
    PROVE  /\ Wanes(a, Submitted(a, id))
           /\ Wanes(a, Settled(a, u, id, s)) /\ Wanes(a, Settled(a, 0, NoId, "not_submitted"))
           /\ \A b \in {Submitted(a, id), Settled(a, u, id, s)} :
                 a.state # "not_submitted" => b.state # "not_submitted"
<1>1. Wanes(a, a)
  BY AgeWanes
<1>2. Wanes(a, Submitted(a, id))
         /\ (a.state # "not_submitted" => Submitted(a, id).state # "not_submitted")
  BY AmountAssumption DEF Wanes, Submitted, Attempt
<1>3. Wanes(a, Settled(a, u, id, s))
         /\ (a.state # "not_submitted" => Settled(a, u, id, s).state # "not_submitted")
  <2>. DEFINE b == Settled(a, u, id, s)
  <2>1. CASE a.actual # Unknown
    BY <1>1, <2>1 DEF Settled, Unresolved
  <2>2. CASE a.actual = Unknown
    <3>1. b.age = a.age /\ b.state \in {"usage_unknown", "completed", "failed"}
      BY <2>2 DEF Settled, Unresolved, Attempt
    <3>. HIDE DEF b
    <3>2. Wanes(a, b) /\ (a.state # "not_submitted" => b.state # "not_submitted")
      BY <2>2, <3>1 DEF Wanes, Attempt
    <3>. QED  BY <3>2 DEF b
  <2>. QED  BY <2>1, <2>2
<1>4. Wanes(a, Settled(a, 0, NoId, "not_submitted"))
  BY AmountAssumption DEF Wanes, Settled, Unresolved, Attempt
<1>. QED  BY <1>1, <1>2, <1>3, <1>4

LEMMA ChangeWanes ==
    ASSUME IInv, CountedInv, NEW k \in DOMAIN attempts, NEW a, ChangeOf(k, a)
    PROVE  /\ Wanes(attempts[k], a)
           /\ \/ \E w \in Workers : SubmissionRejected(w) /\ AboutToSubmit(w, k)
              \/ attempts[k].state # "not_submitted" => a.state # "not_submitted"
<1>. DEFINE b == attempts[k]
<1>1. b \in Attempt /\ (b.state = "not_submitted" => b.actual # Unknown)
  BY DEF IInv, TypeOK, CountedInv
<1>2. \A id : Expired(attempts[k], id) => attempts[k].actual = Unknown
  BY DEF Expired, OccupiesSlot, Unresolved
<1>. HIDE DEF b
<1>3. CASE Refused(k, a)
  BY <1>1, <1>3, OperatorsWane DEF Refused, b
<1>4. CASE Receipted(k, a)
  <2>1. PICK id : a = Submitted(b, id)
    BY <1>4 DEF Receipted, b
  <2>2. Wanes(b, a) /\ (b.state # "not_submitted" => a.state # "not_submitted")
    BY <1>1, <2>1, OperatorsWane
  <2>. QED  BY <2>2 DEF b
<1>5. CASE Ended(k, a)
  <2>. PICK id \in DOMAIN remote : \E u \in Reported(id) :
            remote[id].status # "in_progress" /\ a = Settled(b, u, id, remote[id].status)
    BY <1>5 DEF Ended, b
  <2>1. PICK u \in Reported(id) : a = Settled(b, u, id, remote[id].status)
    OBVIOUS
  <2>2. u \in Usages \cup {0, Unknown} /\ remote[id].status \in {"completed", "failed"}
    BY RequestTypes
  <2>3. Wanes(b, a) /\ (b.state # "not_submitted" => a.state # "not_submitted")
    BY <1>1, <2>1, <2>2, OperatorsWane
  <2>. QED  BY <2>3 DEF b
<1>6. CASE LeftAlone(k, a)
  <2>1. b.actual = Unknown /\ a = [b EXCEPT !.state = "orphaned"]
    BY <1>2, <1>6 DEF LeftAlone, b
  <2>2. Wanes(b, a) /\ (b.state # "not_submitted" => a.state # "not_submitted")
    BY ONLY <1>1, <2>1, OrphanWanes
  <2>. QED  BY <2>2 DEF b
<1>. QED  BY <1>3, <1>4, <1>5, <1>6 DEF ChangeOf

Waned ==
    /\ DOMAIN attempts' = DOMAIN attempts
    /\ \A k \in DOMAIN attempts : Wanes(attempts[k], attempts'[k])

LEMMA StepWanes ==
    ASSUME IInv, ReviewsInv, CountedInv, [Next]_vars
    PROVE  Waned \/ \E w \in Workers : Reserve(w) /\ Admitted(w)
<1>0. \A k \in DOMAIN attempts :
         /\ attempts[k] \in Attempt
         /\ attempts[k].state = "not_submitted" => attempts[k].actual # Unknown
  BY DEF IInv, TypeOK, CountedInv
<1>4. \A k \in DOMAIN attempts :
          Wanes(attempts[k], attempts[k]) /\ Wanes(attempts[k], Older(attempts[k]))
  <2>. TAKE k \in DOMAIN attempts
  <2>. DEFINE b == attempts[k]
  <2>1. b \in Attempt /\ (b.state = "not_submitted" => b.actual # Unknown)
    BY <1>0
  <2>. HIDE DEF b
  <2>2. Wanes(b, b) /\ Wanes(b, Older(b))
    BY ONLY <2>1, AgeWanes
  <2>. QED  BY <2>2 DEF b
<1>1. CASE Same
  BY <1>4, <1>1 DEF Same, Waned
<1>2. CASE Tick
  <2>1. /\ DOMAIN attempts' = DOMAIN attempts
        /\ \A k \in DOMAIN attempts : attempts'[k] = Older(attempts[k])
    BY <1>2 DEF Tick
  <2>. QED  BY <1>4, <2>1 DEF Waned
<1>3. CASE Changed
  <2>. PICK k \in DOMAIN attempts : \E a :
            ChangeOf(k, a) /\ attempts' = [attempts EXCEPT ![k] = a]
    BY <1>3 DEF Changed
  <2>1. PICK a : ChangeOf(k, a) /\ attempts' = [attempts EXCEPT ![k] = a]
    OBVIOUS
  <2>2. Wanes(attempts[k], a)
    BY <2>1, ChangeWanes
  <2>. QED  BY <1>4, <2>1, <2>2 DEF Waned
<1>. QED  BY <1>1, <1>2, <1>3, AttemptsStep

\* A worker is about to submit only since its admission.
LEMMA ArrivesByAdmission ==
    ASSUME IInv, [Next]_vars, NEW v \in Workers, NEW k,
           AboutToSubmit(v, k)', ~AboutToSubmit(v, k)
    PROVE  \E w \in Workers : Reserve(w) /\ Admitted(w)
<1>0. workers'[v] # workers[v] /\ workers'[v].at = "create"
  BY DEF AboutToSubmit
<1>1. ASSUME NEW w \in Workers, MoveStep(w)
      PROVE  FALSE
  BY <1>0, <1>1 DEF MoveStep, IInv, TypeOK
<1>2. ASSUME NEW w \in Workers, CreateResponse(w)
      PROVE  FALSE
  <2>1. workers[w] \in OnPath
    BY <1>2, PathOf DEF CreateResponse
  <2>2. \/ workers' = [workers EXCEPT ![w] = [workers[w] EXCEPT !.at = "accepted",
                                                              !.response = Len(remote) + 1]]
        \/ \E a : workers' = [workers EXCEPT ![w] = Failed(workers[w], a)]
    BY <1>2 DEF CreateResponse, Become
  <2>3. [workers[w] EXCEPT !.at = "accepted", !.response = Len(remote) + 1].at = "accepted"
    BY <2>1 DEF OnPath
  <2>4. \A a : Failed(workers[w], a).at = "done"
    BY <2>1, FailedStops, StopTypes
  <2>. QED  BY <1>0, <2>2, <2>3, <2>4 DEF IInv, TypeOK
<1>3. ASSUME NEW w \in Workers,
             \/ \E e \in Evidence, c \in Contents : Begin(w, e, c)
             \/ EndBaseline(w) \/ Triage(w) \/ Crash(w) \/ ListUnsettled(w) \/ Reconcile(w)
             \/ SubmissionLost(w) \/ SubmissionRejected(w)
             \/ RecordSubmission(w) \/ PollResponse(w) \/ GiveUp(w)
             \/ (Reserve(w) /\ ~Admitted(w))
      PROVE  FALSE
  <2>1. MoveStep(w)
    BY <1>3, BeginMoves, EndBaselineMoves, TriageMoves, CrashMoves, ListUnsettledMoves,
       ReconcileMoves, SubmissionLostMoves, SubmissionRejectedMoves, RecordSubmissionMoves,
       PollResponseMoves, GiveUpMoves, ReserveMovesOrAdmits
  <2>. QED  BY <1>1, <2>1
<1>4. ~UNCHANGED vars /\ ~Tick /\ \A id \in DOMAIN remote : ~Finish(id)
  BY <1>0 DEF vars, Tick, Finish
<1>. QED  BY <1>2, <1>3, <1>4 DEF Next, Work, Call

\* What it is about to submit was reserved by that admission.
LEMMA ArrivalIsReserved ==
    ASSUME IInv, [Next]_vars, NEW v \in Workers, NEW k \in Key,
           AboutToSubmit(v, k)', ~AboutToSubmit(v, k)
    PROVE  \E c : attempts'[k] = Reservation(c)
<1>1. PICK w \in Workers : Reserve(w) /\ Admitted(w)
  BY ArrivesByAdmission
<1>2. v = w
  BY <1>1 DEF Admitted, Become, AboutToSubmit, IInv, TypeOK
<1>3. workers'[w] = Goto(workers[w], "create") /\ workers[w] \in OnPath
  BY <1>1, PathOf DEF Admitted, Become, IInv, TypeOK, Reserve
<1>4. k = KeyOf(workers[w])
  BY <1>2, <1>3 DEF AboutToSubmit, Goto, KeyOf, OnPath
<1>. QED  BY <1>1, <1>4 DEF Admitted, Put

\* A new request is the one that its worker was about to submit.
LEMMA NewRequest ==
    ASSUME IInv, [Next]_vars, NEW id \in DOMAIN remote', id \notin DOMAIN remote
    PROVE  /\ \E w \in Workers : AboutToSubmit(w, remote'[id].key)
           /\ remote'[id].key \in Key /\ UNCHANGED attempts
<1>1. PICK w \in Workers : CreateResponse(w)
  BY RequestsStep, EndedRequest
<1>. DEFINE n == Len(remote) + 1
<1>2. /\ DOMAIN remote' = DOMAIN remote \cup {n}
      /\ remote'[n] = [key |-> KeyOf(workers[w]), content |-> workers[w].content,
                       usage |-> 0, status |-> "in_progress", answer |-> NoAnswer]
  BY <1>1, AppendedRequest
<1>. HIDE DEF n
<1>3. remote'[id].key = KeyOf(workers[w])
  BY <1>2
<1>. QED  BY <1>1, <1>3, PathOf DEF CreateResponse, AboutToSubmit

\* When a submission is refused, no one is about to submit that review.
LEMMA RefusalEnds ==
    ASSUME IInv, NEW w \in Workers, SubmissionRejected(w), NEW k \in Key,
           AboutToSubmit(w, k), NEW v \in Workers
    PROVE  ~AboutToSubmit(v, k)'
<1>1. PICK wk : wk.at # "create" /\ workers' = [workers EXCEPT ![w] = wk]
  BY SubmissionRejectedMoves DEF MoveStep
<1>2. AboutToSubmit(v, k) => v = w
  BY DEF IInv, SubmissionsOwned
<1>. QED  BY <1>1, <1>2 DEF AboutToSubmit, IInv, TypeOK

LEMMA CountedOn ==
    ASSUME IInv, ReviewsInv, CountedInv, [Next]_vars
    PROVE  CountedInv'
<1>0. \A k \in DOMAIN attempts :
         /\ attempts[k] \in Attempt
         /\ attempts[k].state = "not_submitted" => attempts[k].actual # Unknown
  BY DEF IInv, TypeOK, CountedInv
<1>1. ASSUME NEW k \in DOMAIN attempts', attempts'[k].state = "not_submitted"
      PROVE  attempts'[k].actual # Unknown
  <2>1. CASE Waned
    BY <1>1, <2>1 DEF Waned, Wanes, CountedInv
  <2>2. ASSUME NEW w \in Workers, Admitted(w)
        PROVE  attempts'[k].actual # Unknown
    <3>1. k \in DOMAIN attempts /\ attempts'[k] = attempts[k]
      BY <1>1, <2>2 DEF Admitted, Put, Reservation
    <3>. QED  BY <1>1, <3>1 DEF CountedInv
  <2>. QED  BY <2>1, <2>2, StepWanes
\* Only the worker about to submit turns an attempt into one not submitted.
<1>2. ASSUME NEW k \in DOMAIN attempts, attempts[k].state # "not_submitted",
             attempts'[k].state = "not_submitted"
      PROVE  \E w \in Workers : SubmissionRejected(w) /\ AboutToSubmit(w, k)
  <2>1. ~Same
    BY <1>2 DEF Same
  <2>2. ~Tick
    <3>1. Tick => attempts'[k] = Older(attempts[k])
      BY DEF Tick
    <3>. DEFINE b == attempts[k]
    <3>2. b \in Attempt /\ (b.state = "not_submitted" => b.actual # Unknown)
      BY <1>0
    <3>. HIDE DEF b
    <3>3. Older(b).state = b.state
      BY ONLY <3>2, AgeWanes
    <3>. QED  BY <1>2, <3>1, <3>3 DEF b
  <2>3. \A w \in Workers : ~Admitted(w)
    BY <1>2 DEF Admitted, Put, Recorded
  <2>. PICK x \in DOMAIN attempts : \E a :
            ChangeOf(x, a) /\ attempts' = [attempts EXCEPT ![x] = a]
    BY <2>1, <2>2, <2>3, AttemptsStep DEF Changed
  <2>4. PICK a : ChangeOf(x, a) /\ attempts' = [attempts EXCEPT ![x] = a]
    OBVIOUS
  <2>5. x = k /\ attempts'[k] = a
    BY <1>2, <2>4
  <2>. QED  BY <1>2, <2>4, <2>5, ChangeWanes
<1>3. ASSUME NEW id \in DOMAIN remote'
      PROVE  attempts'[remote'[id].key].state # "not_submitted"
  <2>1. CASE id \in DOMAIN remote
    <3>. DEFINE k == remote[id].key
    <3>1. k \in DOMAIN attempts /\ remote'[id].key = k /\ attempts[k].state # "not_submitted"
      BY <2>1, StepLasts DEF Lasting, IInv, LinksOK, CountedInv
    <3>2. k \in Key
      BY <3>1 DEF IInv, TypeOK
    <3>3. \A w \in Workers : ~AboutToSubmit(w, k)
      BY <2>1, <3>2 DEF IInv, SubmissionsOwned
    <3>. QED  BY <1>2, <3>1, <3>3
  <2>2. CASE id \notin DOMAIN remote
    BY <1>3, <2>2, NewRequest DEF CountedInv
  <2>. QED  BY <2>1, <2>2
<1>4. ASSUME NEW v \in Workers, NEW k \in Key, AboutToSubmit(v, k)'
      PROVE  attempts'[k].state # "not_submitted"
  <2>1. CASE AboutToSubmit(v, k)
    <3>1. k \in DOMAIN attempts
      BY <2>1, PathOf DEF AboutToSubmit, Sound
    <3>. QED  BY <1>2, <1>4, <2>1, <3>1, RefusalEnds DEF CountedInv
  <2>2. CASE ~AboutToSubmit(v, k)
    <3>1. PICK c : attempts'[k] = Reservation(c)
      BY <1>4, <2>2, ArrivalIsReserved
    <3>. QED  BY <3>1 DEF Reservation
  <2>. QED  BY <2>1, <2>2
<1>. QED  BY <1>1, <1>3, <1>4 DEF CountedInv

-----------------------------------------------------------------------------
(* The number of calls                                                     *)

AtMost(S, n) == IsFiniteSet(S) /\ Cardinality(S) <= n

LEMMA Shrinks ==
    ASSUME NEW n \in Nat, NEW S, NEW T \in SUBSET S, AtMost(S, n)
    PROVE  AtMost(T, n)
BY FS_Subset, FS_CardinalityType DEF AtMost

LEMMA OneMore ==
    ASSUME NEW n \in Nat, NEW S, NEW x, IsFiniteSet(S), Cardinality(S) < n
    PROVE  AtMost(S \cup {x}, n)
<1>1. Cardinality(S) \in Nat
  BY FS_CardinalityType
<1>2. IsFiniteSet(S \cup {x}) /\ Cardinality(S \cup {x}) \in {Cardinality(S), Cardinality(S) + 1}
  BY FS_AddElement
<1>. QED  BY <1>1, <1>2 DEF AtMost

\* Of two finite sets, one shrinks while the other gains an element at most.
LEMMA GrowsByOne ==
    ASSUME NEW n \in Nat, NEW S, NEW T, IsFiniteSet(S), IsFiniteSet(T),
           Cardinality(S) + Cardinality(T) < n, NEW x, NEW U \in SUBSET (S \cup {x})
    PROVE  IsFiniteSet(U) /\ Cardinality(U) + Cardinality(T) <= n
<1>1. Cardinality(S) \in Nat /\ Cardinality(T) \in Nat
  BY FS_CardinalityType
<1>2. IsFiniteSet(S \cup {x}) /\ Cardinality(S \cup {x}) \in {Cardinality(S), Cardinality(S) + 1}
  BY FS_AddElement
<1>3. /\ IsFiniteSet(U) /\ Cardinality(U) \in Nat
      /\ Cardinality(U) <= Cardinality(S \cup {x})
  BY <1>2, FS_Subset, FS_CardinalityType
<1>. QED  BY <1>1, <1>2, <1>3

LEMMA BothShrink ==
    ASSUME NEW n \in Nat, NEW S, NEW T, IsFiniteSet(S), IsFiniteSet(T),
           Cardinality(S) + Cardinality(T) <= n, NEW U \in SUBSET S, NEW V \in SUBSET T
    PROVE  IsFiniteSet(U) /\ IsFiniteSet(V) /\ Cardinality(U) + Cardinality(V) <= n
<1>1. Cardinality(S) \in Nat /\ Cardinality(T) \in Nat
  BY FS_CardinalityType
<1>2. IsFiniteSet(U) /\ IsFiniteSet(V) /\ Cardinality(U) <= Cardinality(S)
         /\ Cardinality(V) <= Cardinality(T)
  BY FS_Subset
<1>3. Cardinality(U) \in Nat /\ Cardinality(V) \in Nat
  BY <1>2, FS_CardinalityType
<1>. QED  BY <1>1, <1>2, <1>3

\* Each request was submitted under its own key.
LEMMA RequestsCounted ==
    ASSUME IInv, NEW n \in Nat, NEW S \in SUBSET DOMAIN remote, NEW T, AtMost(T, n),
           \A id \in S : remote[id].key \in T
    PROVE  AtMost(S, n) /\ Cardinality(S) \in Nat /\ Cardinality(S) <= Cardinality(T)
<1>. DEFINE f == [id \in S |-> remote[id].key]
<1>1. f \in Injection(S, T)
  BY DEF IInv, SubmittedOnce, Injection, IsInjective
<1>2. IsFiniteSet(S) /\ Cardinality(S) <= Cardinality(T)
  BY <1>1, FS_Injection DEF AtMost
<1>. QED  BY <1>2, FS_CardinalityType DEF AtMost

\* The baseline calls leave the count with the window, and are settled once.
BaselineWanes ==
    /\ TotalBaseline' \subseteq TotalBaseline
    /\ \A b \in TotalBaseline' :
          baseline[b].actual # Unknown => baseline'[b].actual = baseline[b].actual

\* Only a new baseline call adds one.
LEMMA BaselineStep ==
    ASSUME IInv, [Next]_vars
    PROVE  \/ BaselineWanes
           \/ \E w \in Workers, e \in Evidence, c \in Contents : Begin(w, e, c)
<1>1. CASE UNCHANGED baseline
  BY <1>1 DEF TotalBaseline, BaselineWanes
<1>2. CASE Tick
  <2>1. /\ DOMAIN baseline' = DOMAIN baseline
        /\ \A b \in DOMAIN baseline : baseline'[b] = Older(baseline[b])
    BY <1>2 DEF Tick
  <2>2. \A b \in DOMAIN baseline : baseline[b].age \in 0..Window
    BY DEF IInv, TypeOK
  <2>3. ASSUME NEW b \in DOMAIN baseline, InWindow(Older(baseline[b]))
        PROVE  InWindow(baseline[b])
    <3>1. baseline[b] \in [age: 0..Window, actual: BaselineUsages \cup {Unknown}]
      BY DEF IInv, TypeOK
    <3>. QED  BY <2>3, <3>1, AmountAssumption DEF InWindow, Older
  <2>4. \A b \in DOMAIN baseline : Older(baseline[b]).actual = baseline[b].actual
    BY DEF IInv, TypeOK, Older
  <2>. QED  BY <2>1, <2>3, <2>4 DEF TotalBaseline, BaselineWanes
<1>3. ASSUME NEW w \in Workers, EndBaseline(w)
      PROVE  BaselineWanes
  <2>. DEFINE b == workers[w].call
  <2>1. CASE UNCHANGED baseline
    BY <2>1 DEF TotalBaseline, BaselineWanes
  <2>2. CASE /\ b \in DOMAIN baseline
             /\ \E u \in BaselineUsages \cup {Unknown} :
                   baseline' = [baseline EXCEPT ![b].actual = IF @ = Unknown THEN u ELSE @]
    <3>1. PICK u \in BaselineUsages \cup {Unknown} :
             baseline' = [baseline EXCEPT ![b].actual = IF @ = Unknown THEN u ELSE @]
      BY <2>2
    <3>2. baseline[b] \in [age: 0..Window, actual: BaselineUsages \cup {Unknown}]
      BY <2>2 DEF IInv, TypeOK
    <3>. HIDE DEF b
    <3>3. DOMAIN baseline' = DOMAIN baseline
      BY <3>1
    <3>4. \A x \in DOMAIN baseline : x # b => baseline'[x] = baseline[x]
      BY <3>1
    <3>5. baseline'[b] = [baseline[b] EXCEPT !.actual =
                             IF baseline[b].actual = Unknown THEN u ELSE baseline[b].actual]
      BY <2>2, <3>1
    <3>6. /\ baseline'[b].age = baseline[b].age
          /\ baseline[b].actual # Unknown => baseline'[b].actual = baseline[b].actual
      BY <3>2, <3>5
    <3>. QED  BY <3>3, <3>4, <3>6 DEF TotalBaseline, InWindow, BaselineWanes
  <2>. QED  BY <1>3, <2>1, <2>2 DEF EndBaseline
<1>. QED
  BY <1>1, <1>2, <1>3 DEF Next, vars, Work, Call, Triage, Crash, ListUnsettled, Reconcile,
     Reserve, CreateResponse, SubmissionLost, SubmissionRejected, RecordSubmission,
     PollResponse, GiveUp, Finish

CallsInv ==
    /\ IsFiniteSet(TotalAttempts) /\ IsFiniteSet(TotalBaseline)
    /\ Cardinality(TotalAttempts) + Cardinality(TotalBaseline) <= TotalCalls
TiersInv == \A t \in Tiers : AtMost(TierAttempts(t), TierCalls[t])

LEMMA WanedCounts ==
    ASSUME IInv, IInv', Waned
    PROVE  /\ TotalAttempts' \subseteq TotalAttempts
           /\ \A t \in Tiers : TierAttempts(t)' \subseteq TierAttempts(t)
<1>1. \A k \in DOMAIN attempts :
         attempts[k].age \in Nat /\ attempts'[k].age \in Nat
  BY AmountAssumption DEF IInv, TypeOK, Attempt, Waned
<1>2. \A k \in DOMAIN attempts : /\ InWindow(attempts'[k]) => InWindow(attempts[k])
                                 /\ Unresolved(attempts'[k]) => Unresolved(attempts[k])
                                 /\ attempts'[k].state # "not_submitted"
                                       => attempts[k].state # "not_submitted"
  BY <1>1, AmountAssumption DEF Waned, Wanes, InWindow, Unresolved
<1>3. DOMAIN attempts' = DOMAIN attempts
  BY DEF Waned
<1>4. TotalAttempts' \subseteq TotalAttempts
  BY <1>2, <1>3 DEF TotalAttempts
<1>5. \A t \in Tiers : TierAttempts(t)' \subseteq TierAttempts(t)
  BY <1>2, <1>3 DEF TierAttempts
<1>. QED  BY <1>4, <1>5

\* An admission adds one attempt, to the total and to its tier.
LEMMA AdmittedCounts ==
    ASSUME NEW w \in Workers, Admitted(w)
    PROVE  LET k == KeyOf(workers[w])
           IN /\ TotalAttempts' \subseteq TotalAttempts \cup {k}
              /\ \A t \in Tiers : TierAttempts(t)' \subseteq
                    IF t = k[2] THEN TierAttempts(t) \cup {k} ELSE TierAttempts(t)
<1>. DEFINE k == KeyOf(workers[w])
<1>1. /\ DOMAIN attempts' = DOMAIN attempts \cup {k}
      /\ \A x \in DOMAIN attempts : attempts'[x] = attempts[x]
  BY DEF Admitted, Put, Recorded
<1>. HIDE DEF k
<1>2. TotalAttempts' \subseteq TotalAttempts \cup {k}
  BY <1>1 DEF TotalAttempts
<1>3. \A t \in Tiers : TierAttempts(t)' \subseteq
          IF t = k[2] THEN TierAttempts(t) \cup {k} ELSE TierAttempts(t)
  BY <1>1 DEF TierAttempts
<1>. QED  BY <1>2, <1>3 DEF k

LEMMA CallsOn ==
    ASSUME IInv, IInv', ReviewsInv, CountedInv, CallsInv, [Next]_vars
    PROVE  CallsInv'
<1>0. TotalCalls \in Nat
  BY AmountAssumption
<1>1. ASSUME NEW w \in Workers, NEW e \in Evidence, NEW c \in Contents, Begin(w, e, c)
      PROVE  CallsInv'
  <2>1. TotalAttempts' = TotalAttempts
    BY <1>1 DEF Begin, TotalAttempts
  <2>2. Cardinality(TotalAttempts) + Cardinality(TotalBaseline) < TotalCalls
    BY <1>1 DEF Begin, TotalAllows
  <2>3. PICK id : baseline' = [b \in TotalBaseline \cup {id} |->
                    IF b = id THEN [age |-> 0, actual |-> Unknown] ELSE baseline[b]]
    BY <1>1 DEF Begin
  <2>4. TotalBaseline' \subseteq TotalBaseline \cup {id}
    BY <2>3 DEF TotalBaseline
  <2>5. Cardinality(TotalBaseline) + Cardinality(TotalAttempts) < TotalCalls
    BY <2>2, FS_CardinalityType DEF CallsInv
  <2>6. /\ IsFiniteSet(TotalBaseline')
        /\ Cardinality(TotalBaseline') + Cardinality(TotalAttempts) <= TotalCalls
    BY <1>0, <2>4, <2>5, GrowsByOne DEF CallsInv
  <2>. QED  BY <2>1, <2>6, FS_CardinalityType DEF CallsInv
<1>2. ASSUME NEW w \in Workers, Reserve(w), Admitted(w)
      PROVE  CallsInv'
  <2>1. TotalBaseline' = TotalBaseline
    BY <1>2 DEF Reserve, TotalBaseline
  <2>2. Cardinality(TotalAttempts) + Cardinality(TotalBaseline) < TotalCalls
    BY <1>2 DEF Admitted, MayReserve, TotalAllows
  <2>. QED  BY <1>0, <1>2, <2>1, <2>2, AdmittedCounts, GrowsByOne DEF CallsInv
<1>3. CASE Waned /\ TotalBaseline' \subseteq TotalBaseline
  <2>1. TotalAttempts' \subseteq TotalAttempts
    BY <1>3, WanedCounts
  <2>. QED  BY <1>0, <1>3, <2>1, BothShrink DEF CallsInv
<1>. QED  BY <1>1, <1>2, <1>3, StepWanes, BaselineStep DEF BaselineWanes

LEMMA TiersOn ==
    ASSUME IInv, IInv', ReviewsInv, CountedInv, TiersInv, [Next]_vars
    PROVE  TiersInv'
<1>. SUFFICES ASSUME NEW t \in Tiers
              PROVE  AtMost(TierAttempts(t), TierCalls[t])'
  BY DEF TiersInv
<1>0. TierCalls[t] \in Nat /\ AtMost(TierAttempts(t), TierCalls[t])
  BY TierAssumption DEF TiersInv
<1>1. CASE TierAttempts(t)' \subseteq TierAttempts(t)
  BY <1>0, <1>1, Shrinks
<1>2. ASSUME NEW w \in Workers, Admitted(w)
      PROVE  AtMost(TierAttempts(t)', TierCalls[t])
  <2>. DEFINE k == KeyOf(workers[w])
  <2>1. CASE t # k[2]
    BY <1>1, <1>2, <2>1, AdmittedCounts
  <2>2. CASE t = k[2]
    <3>1. Cardinality(TierAttempts(t)) < TierCalls[t]
      BY <1>2, <2>2 DEF Admitted, MayReserve, TierAllows
    <3>2. TierAttempts(t)' \subseteq TierAttempts(t) \cup {k}
      BY <1>2, <2>2, AdmittedCounts
    <3>. HIDE DEF k
    <3>3. AtMost(TierAttempts(t) \cup {k}, TierCalls[t])
      BY <1>0, <3>1, OneMore DEF AtMost
    <3>. QED  BY <1>0, <3>2, <3>3, Shrinks
  <2>. QED  BY <2>1, <2>2
<1>. QED  BY <1>1, <1>2, WanedCounts, StepWanes

\* Over every window at most TotalCalls calls are paid, the lost and unsettled
\* ones included (total_status): what is counted is at least what the service
\* accepted, since a request is never counted twice nor under an attempt that
\* is told to be unsubmitted.
THEOREM PaidCallsAreBounded == Spec => []PaidCallsBounded
<1>1. Init => CountedInv /\ CallsInv
  <2>. SUFFICES ASSUME Init PROVE CountedInv /\ CallsInv
    OBVIOUS
  <2>1. /\ DOMAIN attempts = {} /\ DOMAIN remote = {} /\ DOMAIN baseline = {}
        /\ \A w \in Workers : workers[w].at # "create"
    BY DEF Init, Idle
  <2>2. TotalAttempts = {} /\ TotalBaseline = {}
    BY <2>1 DEF TotalAttempts, TotalBaseline
  <2>3. CountedInv
    BY <2>1 DEF CountedInv, AboutToSubmit
  <2>4. CallsInv
    BY <2>2, FS_EmptySet, AmountAssumption DEF CallsInv
  <2>. QED  BY <2>3, <2>4
<1>2. IInv /\ IInv' /\ ReviewsInv /\ CountedInv /\ CallsInv /\ [Next]_vars
          => CountedInv' /\ CallsInv'
  BY CountedOn, CallsOn
<1>3. IInv /\ CountedInv /\ CallsInv => PaidCallsBounded
  <2>. SUFFICES ASSUME IInv, CountedInv, CallsInv PROVE PaidCallsBounded
    OBVIOUS
  <2>. DEFINE S == Requests(InWindow)
  <2>1. S = {id \in DOMAIN remote : InWindow(attempts[remote[id].key])}
    BY DEF Requests
  <2>2. S \subseteq DOMAIN remote /\ \A id \in S : remote[id].key \in TotalAttempts
    BY <2>1 DEF TotalAttempts, CountedInv, IInv, LinksOK
  <2>3. /\ Cardinality(TotalAttempts) \in Nat /\ Cardinality(TotalBaseline) \in Nat
        /\ TotalCalls \in Nat
    BY FS_CardinalityType, AmountAssumption DEF CallsInv
  <2>. HIDE DEF S
  <2>4. Cardinality(S) \in Nat /\ Cardinality(S) <= Cardinality(TotalAttempts)
    BY <2>2, <2>3, RequestsCounted DEF AtMost, CallsInv
  <2>. QED  BY <2>3, <2>4 DEF PaidCallsBounded, CallsInv, S
<1>. QED  BY <1>1, <1>2, <1>3, ReviewsInvariant, PTL DEF Spec

\* A request whose usage is not settled keeps counting against its tier when
\* the window has passed (tier_status).
THEOREM TiersKeepUnsettled == Spec => []TierKeepsUnsettled
<1>1. Init => CountedInv /\ TiersInv
  <2>. SUFFICES ASSUME Init PROVE CountedInv /\ TiersInv
    OBVIOUS
  <2>1. /\ DOMAIN attempts = {} /\ DOMAIN remote = {}
        /\ \A w \in Workers : workers[w].at # "create"
    BY DEF Init, Idle
  <2>2. CountedInv
    BY <2>1 DEF CountedInv, AboutToSubmit
  <2>3. \A t \in Tiers : TierAttempts(t) = {} /\ TierCalls[t] \in Nat
    BY <2>1, TierAssumption DEF TierAttempts
  <2>4. TiersInv
    BY <2>3, FS_EmptySet DEF TiersInv, AtMost
  <2>. QED  BY <2>2, <2>4
<1>2. IInv /\ IInv' /\ ReviewsInv /\ CountedInv /\ TiersInv /\ [Next]_vars
          => CountedInv' /\ TiersInv'
  BY CountedOn, TiersOn
<1>3. IInv /\ CountedInv /\ TiersInv => TierKeepsUnsettled
  <2>. SUFFICES ASSUME IInv, CountedInv, TiersInv, NEW t \in Tiers
                PROVE  Cardinality({id \in Requests(StillCounts) : remote[id].key[2] = t})
                           <= TierCalls[t]
    BY DEF TierKeepsUnsettled
  <2>. DEFINE S == {id \in Requests(StillCounts) : remote[id].key[2] = t}
  <2>1. S = {id \in DOMAIN remote : /\ StillCounts(attempts[remote[id].key])
                                    /\ remote[id].key[2] = t}
    BY DEF Requests
  <2>2. S \subseteq DOMAIN remote /\ \A id \in S : remote[id].key \in TierAttempts(t)
    BY <2>1 DEF TierAttempts, StillCounts, Unresolved, InWindow, CountedInv, IInv, LinksOK
  <2>3. TierCalls[t] \in Nat /\ AtMost(TierAttempts(t), TierCalls[t])
    BY TierAssumption DEF TiersInv
  <2>. HIDE DEF S
  <2>4. AtMost(S, TierCalls[t])
    BY <2>2, <2>3, RequestsCounted
  <2>. QED  BY <2>4 DEF AtMost, S
<1>. QED  BY <1>1, <1>2, <1>3, ReviewsInvariant, PTL DEF Spec

-----------------------------------------------------------------------------
(* Sums                                                                    *)
(*                                                                         *)
(* The sum of v[i] for the i of a finite set is the number of its units,   *)
(* v[i] pairs <<i, n>> for each i.  The function that counts the units of  *)
(* every subset satisfies the recursion of MapThenSumSet, and any other    *)
(* that does agrees with it: consider the smallest subset where they       *)
(* differ.  Units are compared by mapping them into each other.            *)

Units(v, S) == UNION {{i} \X (1 .. v[i]) : i \in S}
Total(v, S) == Cardinality(Units(v, S))
Valued(v, S) == IsFiniteSet(S) /\ \A i \in S : v[i] \in Nat

LEMMA UnitsFinite ==
    ASSUME NEW v, NEW S, Valued(v, S)
    PROVE  IsFiniteSet(Units(v, S)) /\ Total(v, S) \in Nat
<1>. DEFINE U == {{i} \X (1 .. v[i]) : i \in S}
            f == [i \in S |-> {i} \X (1 .. v[i])]
<1>1. f \in Surjection(S, U)
  BY DEF Surjection
<1>2. IsFiniteSet(U)
  BY <1>1, FS_Surjection DEF Valued
<1>3. ASSUME NEW T \in U
      PROVE  IsFiniteSet(T)
  <2>1. PICK i \in S : T = {i} \X (1 .. v[i])
    OBVIOUS
  <2>2. IsFiniteSet({i})
    BY FS_Singleton
  <2>3. v[i] \in Int
    BY DEF Valued
  <2>4. IsFiniteSet(1 .. v[i])
    BY <2>3, FS_Interval
  <2>. QED  BY <2>1, <2>2, <2>4, FS_Product
<1>4. IsFiniteSet(UNION U)
  BY <1>2, <1>3, FS_UNION
<1>5. Units(v, S) = UNION U
  BY DEF Units
<1>. QED  BY <1>4, <1>5, FS_CardinalityType DEF Total

LEMMA UnitsOf ==
    ASSUME NEW v, NEW S, NEW u
    PROVE  u \in Units(v, S) <=> \E i \in S : \E n \in 1 .. v[i] : u = <<i, n>>
BY DEF Units

LEMMA TotalNone == \A v : Total(v, {}) = 0
<1>1. \A v : Units(v, {}) = {}
  BY DEF Units
<1>. QED  BY <1>1, FS_EmptySet DEF Total

LEMMA TotalStep ==
    ASSUME NEW v, NEW S, Valued(v, S), NEW x \in S
    PROVE  Total(v, S) = v[x] + Total(v, S \ {x})
<1>. DEFINE A == {x} \X (1 .. v[x])
            B == Units(v, S \ {x})
<1>1. Units(v, S) = A \cup B
  BY DEF Units
<1>2. A \cap B = {}
  BY DEF Units
<1>3. v[x] \in Nat /\ IsFiniteSet({x}) /\ Cardinality({x}) = 1
  BY FS_Singleton DEF Valued
<1>4. IsFiniteSet(1 .. v[x]) /\ Cardinality(1 .. v[x]) = v[x]
  BY <1>3, FS_Interval
<1>5. IsFiniteSet(A) /\ Cardinality(A) = v[x]
  <2>1. IsFiniteSet(A) /\ Cardinality(A) = Cardinality({x}) * Cardinality(1 .. v[x])
    BY <1>3, <1>4, FS_Product
  <2>. QED  BY <1>3, <1>4, <2>1
<1>6. IsFiniteSet(S \ {x})
  BY FS_RemoveElement DEF Valued
<1>7. IsFiniteSet(B) /\ Cardinality(B) \in Nat
  BY <1>6, UnitsFinite DEF Valued, Total
<1>. HIDE DEF A, B
<1>8. Cardinality(A \cup B) = Cardinality(A) + Cardinality(B) - Cardinality(A \cap B)
  BY <1>5, <1>7, FS_Union
<1>9. Cardinality(A \cap B) = 0
  BY <1>2, FS_EmptySet
<1>. QED  BY <1>1, <1>3, <1>5, <1>7, <1>8, <1>9 DEF Total, B

\* A sum is at most another if its elements are among the other's and no larger.
LEMMA TotalMapped ==
    ASSUME NEW v, NEW S, Valued(v, S), NEW w, NEW T, Valued(w, T), NEW m \in Injection(S, T),
           \A i \in S : v[i] <= w[m[i]]
    PROVE  Total(v, S) <= Total(w, T)
<1>. DEFINE f == [u \in Units(v, S) |-> <<m[u[1]], u[2]>>]
<1>1. m \in [S -> T] /\ \A i, j \in S : m[i] = m[j] => i = j
  BY DEF Injection, IsInjective
<1>2. ASSUME NEW u \in Units(v, S)
      PROVE  u = <<u[1], u[2]>> /\ u[1] \in S /\ f[u] = <<m[u[1]], u[2]>> /\ f[u] \in Units(w, T)
  <2>0. PICK i \in S : \E n \in 1 .. v[i] : u = <<i, n>>
    BY UnitsOf
  <2>1. PICK n \in 1 .. v[i] : u = <<i, n>>
    BY <2>0
  <2>2. m[i] \in T /\ v[i] \in Nat /\ w[m[i]] \in Nat
    BY <1>1 DEF Valued
  <2>3. n \in 1 .. w[m[i]]
    BY <2>2
  <2>4. f[u] = <<m[i], n>>
    BY <2>1
  <2>. QED  BY <2>1, <2>2, <2>3, <2>4, UnitsOf
<1>3. f \in Injection(Units(v, S), Units(w, T))
  <2>1. f \in [Units(v, S) -> Units(w, T)]
    BY <1>2
  <2>2. ASSUME NEW a \in Units(v, S), NEW b \in Units(v, S), f[a] = f[b]
        PROVE  a = b
    <3>1. m[a[1]] = m[b[1]] /\ a[2] = b[2]
      BY <1>2, <2>2
    <3>2. a[1] \in S /\ b[1] \in S /\ a = <<a[1], a[2]>> /\ b = <<b[1], b[2]>>
      BY <1>2
    <3>. HIDE DEF f
    <3>3. a[1] = b[1]
      BY <1>1, <3>1, <3>2, Zenon
    <3>. QED  BY <3>1, <3>2, <3>3, Zenon
  <2>. QED  BY <2>1, <2>2 DEF Injection, IsInjective
<1>. QED  BY <1>3, UnitsFinite, FS_Injection DEF Total

LEMMA TotalAtMost ==
    ASSUME NEW v, NEW w, NEW T, Valued(w, T), NEW S \in SUBSET T,
           \A i \in S : v[i] \in Nat /\ v[i] <= w[i]
    PROVE  Valued(v, S) /\ Total(v, S) <= Total(w, T)
<1>1. IsFiniteSet(S)
  BY FS_Subset DEF Valued
<1>. DEFINE m == [i \in S |-> i]
<1>2. m \in Injection(S, T)
  BY DEF Injection, IsInjective
<1>3. \A i \in S : v[i] <= w[m[i]]
  OBVIOUS
<1>. HIDE DEF m
<1>. QED  BY <1>1, <1>2, <1>3, TotalMapped DEF Valued

\* The recursion of MapThenSumSet.
Sums(it, v, S) ==
    it = [s \in SUBSET S |-> IF s = {} THEN 0
             ELSE v[CHOOSE x \in s : TRUE] + it[s \ {CHOOSE x \in s : TRUE}]]

LEMMA TotalsAreSums ==
    ASSUME NEW v, NEW S, Valued(v, S)
    PROVE  Sums([s \in SUBSET S |-> Total(v, s)], v, S)
<1>. DEFINE g == [s \in SUBSET S |-> Total(v, s)]
            step(s) == IF s = {} THEN 0
                       ELSE v[CHOOSE x \in s : TRUE] + g[s \ {CHOOSE x \in s : TRUE}]
<1>1. ASSUME NEW s \in SUBSET S
      PROVE  Total(v, s) = step(s)
  <2>1. CASE s = {}
    BY <2>1, TotalNone
  <2>2. CASE s # {}
    <3>. DEFINE x == CHOOSE y \in s : TRUE
    <3>1. x \in s
      BY <2>2
    <3>2. Valued(v, s)
      BY FS_Subset DEF Valued
    <3>. HIDE DEF x
    <3>3. Total(v, s) = v[x] + Total(v, s \ {x})
      BY <3>1, <3>2, TotalStep
    <3>4. g[s \ {x}] = Total(v, s \ {x})
      OBVIOUS
    <3>5. step(s) = v[x] + g[s \ {x}]
      BY <2>2 DEF x
    <3>. QED  BY <3>3, <3>4, <3>5
  <2>. QED  BY <2>1, <2>2
<1>. HIDE DEF step
<1>2. g = [s \in SUBSET S |-> step(s)]
  BY <1>1
<1>. QED  BY <1>2 DEF Sums, step

LEMMA SumsAreTotals ==
    ASSUME NEW v, NEW S, Valued(v, S), NEW it, Sums(it, v, S)
    PROVE  it[S] = Total(v, S)
<1>. DEFINE Wrong == {s \in SUBSET S : it[s] # Total(v, s)}
            Sizes == {Cardinality(s) : s \in Wrong}
<1>1. \A s \in SUBSET S : IsFiniteSet(s) /\ Cardinality(s) \in Nat
  BY FS_Subset, FS_CardinalityType DEF Valued
<1>2. ASSUME Wrong # {}
      PROVE  FALSE
  <2>1. Sizes \subseteq Nat /\ Sizes # {}
    BY <1>1, <1>2
  <2>2. \E n \in Sizes : \A m \in Sizes : ~(<<m, n>> \in OpToRel(<, Nat))
    <3>1. IsWellFoundedOn(OpToRel(<, Nat), Nat)
      BY NatLessThanWellFounded
    <3>. HIDE DEF Sizes
    <3>. QED  BY <2>1, <3>1, WFMin
  <2>3. PICK n \in Sizes : \A m \in Sizes : ~(m < n)
    BY <2>1, <2>2 DEF OpToRel
  <2>4. PICK s \in Wrong : Cardinality(s) = n
    OBVIOUS
  <2>5. s # {}
    <3>1. it[{}] = 0
      BY DEF Sums
    <3>. QED  BY <3>1, TotalNone
  <2>. DEFINE x == CHOOSE y \in s : TRUE
              t == s \ {x}
  <2>6. x \in s
    BY <2>5
  <2>7. it[s] = v[x] + it[t]
    BY <2>5 DEF Sums
  <2>. HIDE DEF x
  <2>8. Total(v, s) = v[x] + Total(v, t)
    <3>1. Valued(v, s)
      BY <1>1 DEF Valued
    <3>. QED  BY <2>6, <3>1, TotalStep
  <2>9. Cardinality(t) < n /\ t \in SUBSET S
    BY <1>1, <2>4, <2>6, FS_RemoveElement
  <2>10. t \in Wrong
    BY <2>7, <2>8, <2>9
  <2>. QED  BY <2>3, <2>9, <2>10
<1>. QED  BY <1>2

\* One more element adds its own value, if no other value grows.
LEMMA OneMoreTotal ==
    ASSUME NEW v, NEW S, Valued(v, S), NEW w, NEW x, x \notin S, w[x] \in Nat,
           NEW T \in SUBSET (S \cup {x}), \A i \in T \ {x} : w[i] \in Nat /\ w[i] <= v[i]
    PROVE  Valued(w, T) /\ Total(w, T) <= w[x] + Total(v, S)
<1>0. IsFiniteSet(T)
  <2>1. IsFiniteSet(S \cup {x})
    BY FS_AddElement DEF Valued
  <2>. QED  BY <2>1, FS_Subset
<1>1. Valued(w, T)
  BY <1>0 DEF Valued
<1>2. Total(w, T \ {x}) <= Total(v, S) /\ Valued(w, T \ {x})
  BY TotalAtMost
<1>3. Total(w, T) \in Nat /\ Total(w, T \ {x}) \in Nat /\ Total(v, S) \in Nat
  BY <1>1, <1>2, UnitsFinite
<1>4. CASE x \in T
  <2>1. Total(w, T) = w[x] + Total(w, T \ {x})
    BY <1>1, <1>4, TotalStep
  <2>. QED  BY <1>1, <1>2, <1>3, <2>1
<1>5. CASE x \notin T
  <2>1. T \ {x} = T
    BY <1>5
  <2>2. Total(w, T) <= Total(v, S)
    BY <1>2, <2>1
  <2>. QED  BY <1>1, <1>3, <2>2
<1>. QED  BY <1>4, <1>5

\* The total of the ledger's tokens, as a sum of the units of its records.
LEMMA TokensAre ==
    ASSUME NEW table, NEW ids, NEW estimate,
           Valued([i \in ids |-> Tokens(table[i], estimate)], ids)
    PROVE  TokensOf(table, ids, estimate) =
               Total([i \in ids |-> Tokens(table[i], estimate)], ids)
<1>. DEFINE v == [i \in ids |-> Tokens(table[i], estimate)]
            Recurs(it) == it = [s \in SUBSET ids |-> IF s = {} THEN 0
                ELSE Tokens(table[CHOOSE x \in s : TRUE], estimate) + it[s \ {CHOOSE x \in s : TRUE}]]
<1>1. ASSUME NEW it
      PROVE  Recurs(it) <=> Sums(it, v, ids)
  <2>1. \A s \in SUBSET ids : s # {} =>
            v[CHOOSE x \in s : TRUE] = Tokens(table[CHOOSE x \in s : TRUE], estimate)
    OBVIOUS
  <2>. HIDE DEF v
  <2>2. [s \in SUBSET ids |-> IF s = {} THEN 0
             ELSE v[CHOOSE x \in s : TRUE] + it[s \ {CHOOSE x \in s : TRUE}]] =
        [s \in SUBSET ids |-> IF s = {} THEN 0
             ELSE Tokens(table[CHOOSE x \in s : TRUE], estimate) + it[s \ {CHOOSE x \in s : TRUE}]]
    BY <2>1
  <2>. QED  BY <2>2 DEF Sums
<1>2. Recurs([s \in SUBSET ids |-> Total(v, s)])
  BY <1>1, TotalsAreSums
<1>. HIDE DEF Recurs
<1>3. Recurs(CHOOSE it : Recurs(it))
  BY <1>2
<1>4. TokensOf(table, ids, estimate) = (CHOOSE it : Recurs(it))[ids]
  BY DEF TokensOf, MapThenSumSet, MapThenFoldSet, Recurs
<1>. QED  BY <1>1, <1>3, <1>4, SumsAreTotals

\* The sum of the budget over the baseline calls that are counted.
LEMMA BaselineSum ==
    ASSUME NEW ids,
           Valued([b \in ids |-> UpTo(BaselineEstimate, Tokens(baseline[b], BaselineEstimate))], ids)
    PROVE  MapThenSumSet(LAMBDA b : UpTo(BaselineEstimate,
                                         Tokens(baseline[b], BaselineEstimate)), ids) =
           Total([b \in ids |-> UpTo(BaselineEstimate, Tokens(baseline[b], BaselineEstimate))], ids)
<1>. DEFINE v == [b \in ids |-> UpTo(BaselineEstimate, Tokens(baseline[b], BaselineEstimate))]
            Recurs(it) == it = [s \in SUBSET ids |-> IF s = {} THEN 0
                ELSE UpTo(BaselineEstimate, Tokens(baseline[CHOOSE x \in s : TRUE], BaselineEstimate))
                       + it[s \ {CHOOSE x \in s : TRUE}]]
<1>1. ASSUME NEW it
      PROVE  Recurs(it) <=> Sums(it, v, ids)
  <2>1. \A s \in SUBSET ids : s # {} => v[CHOOSE x \in s : TRUE] =
            UpTo(BaselineEstimate, Tokens(baseline[CHOOSE x \in s : TRUE], BaselineEstimate))
    OBVIOUS
  <2>. HIDE DEF v
  <2>2. [s \in SUBSET ids |-> IF s = {} THEN 0
             ELSE v[CHOOSE x \in s : TRUE] + it[s \ {CHOOSE x \in s : TRUE}]] =
        [s \in SUBSET ids |-> IF s = {} THEN 0
             ELSE UpTo(BaselineEstimate, Tokens(baseline[CHOOSE x \in s : TRUE], BaselineEstimate))
                    + it[s \ {CHOOSE x \in s : TRUE}]]
    BY <2>1
  <2>. QED  BY <2>2 DEF Sums
<1>2. Recurs([s \in SUBSET ids |-> Total(v, s)])
  BY <1>1, TotalsAreSums
<1>. HIDE DEF Recurs
<1>3. Recurs(CHOOSE it : Recurs(it))
  BY <1>2
<1>. DEFINE sum == MapThenSumSet(LAMBDA b : UpTo(BaselineEstimate,
                                        Tokens(baseline[b], BaselineEstimate)), ids)
<1>4. sum = (CHOOSE it : Recurs(it))[ids]
  BY DEF MapThenSumSet, MapThenFoldSet, Recurs
<1>. QED  BY <1>1, <1>3, <1>4, SumsAreTotals

\* The sum over the requests: what each used, up to its estimate.
UsedBy(r) == IF r.status = "in_progress" THEN Estimate ELSE UpTo(Estimate, r.usage)

LEMMA RequestsSum ==
    ASSUME NEW ids, Valued([id \in ids |-> UsedBy(remote[id])], ids)
    PROVE  MapThenSumSet(LAMBDA id : IF remote[id].status = "in_progress" THEN Estimate
                                     ELSE UpTo(Estimate, remote[id].usage), ids) =
           Total([id \in ids |-> UsedBy(remote[id])], ids)
<1>. DEFINE v == [id \in ids |-> UsedBy(remote[id])]
            Recurs(it) == it = [s \in SUBSET ids |-> IF s = {} THEN 0
                ELSE UsedBy(remote[CHOOSE x \in s : TRUE]) + it[s \ {CHOOSE x \in s : TRUE}]]
<1>1. ASSUME NEW it
      PROVE  Recurs(it) <=> Sums(it, v, ids)
  <2>1. \A s \in SUBSET ids : s # {} =>
            v[CHOOSE x \in s : TRUE] = UsedBy(remote[CHOOSE x \in s : TRUE])
    OBVIOUS
  <2>. HIDE DEF v
  <2>2. [s \in SUBSET ids |-> IF s = {} THEN 0
             ELSE v[CHOOSE x \in s : TRUE] + it[s \ {CHOOSE x \in s : TRUE}]] =
        [s \in SUBSET ids |-> IF s = {} THEN 0
             ELSE UsedBy(remote[CHOOSE x \in s : TRUE]) + it[s \ {CHOOSE x \in s : TRUE}]]
    BY <2>1
  <2>. QED  BY <2>2 DEF Sums
<1>2. Recurs([s \in SUBSET ids |-> Total(v, s)])
  BY <1>1, TotalsAreSums
<1>. HIDE DEF Recurs
<1>3. Recurs(CHOOSE it : Recurs(it))
  BY <1>2
<1>. DEFINE sum == MapThenSumSet(LAMBDA id : IF remote[id].status = "in_progress" THEN Estimate
                                     ELSE UpTo(Estimate, remote[id].usage), ids)
<1>4. sum = (CHOOSE it : Recurs(it))[ids]
  BY DEF MapThenSumSet, MapThenFoldSet, Recurs, UsedBy
<1>. QED  BY <1>1, <1>3, <1>4, SumsAreTotals

-----------------------------------------------------------------------------
(* What the calls use                                                      *)
(*                                                                         *)
(* A settled attempt holds what the service reported for its request, so   *)
(* the ledger's own records bound what was paid.  The budget admits a call *)
(* by its estimate; with every record counted up to its estimate only, no  *)
(* later settlement raises the sum.                                        *)

UsageInv ==
    /\ \A id \in DOMAIN remote : attempts[remote[id].key].actual # Unknown =>
          /\ remote[id].status # "in_progress"
          /\ attempts[remote[id].key].actual = remote[id].usage
    /\ \A w \in Workers, k \in Key : AboutToSubmit(w, k) => attempts[k].actual = Unknown

\* A usage becomes known by a refusal, or as that of the request that ended.
LEMMA UsageStep ==
    ASSUME IInv, ReviewsInv, [Next]_vars, NEW k \in DOMAIN attempts
    PROVE  \/ attempts'[k].actual = attempts[k].actual
           \/ \E w \in Workers : SubmissionRejected(w) /\ AboutToSubmit(w, k)
           \/ \E id \in DOMAIN remote : /\ remote[id].key = k /\ remote[id].status # "in_progress"
                                        /\ attempts'[k].actual = remote[id].usage
<1>0. \A x \in DOMAIN attempts : attempts[x] \in Attempt
  BY DEF IInv, TypeOK
<1>1. CASE Same
  BY <1>1 DEF Same
<1>2. CASE Tick
  BY <1>0, <1>2 DEF Tick, Older, Attempt
<1>3. ASSUME NEW w \in Workers, Admitted(w)
      PROVE  attempts'[k].actual = attempts[k].actual
  BY <1>3 DEF Admitted, Put, Recorded
<1>4. CASE Changed
  <2>. PICK x \in DOMAIN attempts : \E a : ChangeOf(x, a) /\ attempts' = [attempts EXCEPT ![x] = a]
    BY <1>4 DEF Changed
  <2>1. PICK a : ChangeOf(x, a) /\ attempts' = [attempts EXCEPT ![x] = a]
    OBVIOUS
  <2>2. CASE x # k
    BY <2>1, <2>2
  <2>. DEFINE b == attempts[k]
  <2>3. b \in Attempt
    BY <1>0
  <2>4. ASSUME x = k, Refused(k, a)
        PROVE  \E w \in Workers : SubmissionRejected(w) /\ AboutToSubmit(w, k)
    BY <2>4 DEF Refused
  <2>. HIDE DEF b
  <2>5. ASSUME x = k, Receipted(k, a) \/ LeftAlone(k, a)
        PROVE  attempts'[k].actual = b.actual
    <3>1. attempts'[k] = a
      BY <2>1, <2>5
    <3>2. (\E id : a = Submitted(b, id)) \/ a = [b EXCEPT !.state = "orphaned"]
      BY <2>5 DEF Receipted, LeftAlone, b
    <3>. QED  BY <2>3, <3>1, <3>2 DEF Submitted, Attempt
  <2>6. ASSUME x = k, Ended(k, a), attempts'[k].actual # b.actual
        PROVE  \E id \in DOMAIN remote : /\ remote[id].key = k /\ remote[id].status # "in_progress"
                                         /\ attempts'[k].actual = remote[id].usage
    <3>1. attempts'[k] = a
      BY <2>1, <2>6
    <3>2. PICK id \in DOMAIN remote : \E u \in Reported(id) :
             /\ remote[id].key = k /\ remote[id].status # "in_progress"
             /\ a = Settled(b, u, id, remote[id].status)
      BY <2>6 DEF Ended, b
    <3>3. PICK u \in Reported(id) : a = Settled(b, u, id, remote[id].status)
      BY <3>2
    <3>4. b.actual = Unknown /\ a.actual = u
      BY <2>3, <2>6, <3>1, <3>3 DEF Settled, Unresolved, Attempt
    <3>5. u = remote[id].usage
      BY <2>6, <3>1, <3>4 DEF Reported
    <3>. QED  BY <3>1, <3>2, <3>4, <3>5
  <2>. QED  BY <2>1, <2>2, <2>4, <2>5, <2>6 DEF ChangeOf, b
<1>. QED  BY <1>1, <1>2, <1>3, <1>4, AttemptsStep

\* A request that ended stays as it is.
LEMMA EndedStays ==
    ASSUME IInv, [Next]_vars, NEW id \in DOMAIN remote, remote[id].status # "in_progress"
    PROVE  remote'[id] = remote[id]
BY RequestsStep, AppendedRequest, EndedRequest

LEMMA UsageOn ==
    ASSUME IInv, ReviewsInv, UsageInv, [Next]_vars
    PROVE  UsageInv'
<1>1. ASSUME NEW id \in DOMAIN remote', attempts'[remote'[id].key].actual # Unknown
      PROVE  remote'[id].status # "in_progress" /\ attempts'[remote'[id].key].actual = remote'[id].usage
  <2>1. CASE id \in DOMAIN remote
    <3>. DEFINE k == remote[id].key
    <3>1. k \in DOMAIN attempts /\ k \in Key /\ remote'[id].key = k
      BY <2>1, StepLasts DEF Lasting, IInv, LinksOK, TypeOK
    <3>2. \A w \in Workers : ~AboutToSubmit(w, k)
      BY <2>1, <3>1 DEF IInv, SubmissionsOwned
    <3>3. \A x \in DOMAIN remote : remote[x].key = k => x = id
      BY <2>1 DEF IInv, SubmittedOnce
    <3>4. remote[id].status # "in_progress" /\ attempts'[k].actual = remote[id].usage
      <4>1. CASE attempts'[k].actual = attempts[k].actual
        BY <1>1, <2>1, <3>1, <4>1 DEF UsageInv
      <4>. QED  BY <2>1, <3>1, <3>2, <3>3, <4>1, UsageStep
    <3>. QED  BY <2>1, <3>1, <3>4, EndedStays
  <2>2. CASE id \notin DOMAIN remote
    BY <1>1, <2>2, NewRequest DEF UsageInv
  <2>. QED  BY <2>1, <2>2
<1>2. ASSUME NEW v \in Workers, NEW k \in Key, AboutToSubmit(v, k)'
      PROVE  attempts'[k].actual = Unknown
  <2>1. CASE AboutToSubmit(v, k)
    <3>1. k \in DOMAIN attempts /\ attempts[k].actual = Unknown
      BY <2>1, PathOf DEF AboutToSubmit, Sound, UsageInv
    <3>2. \A id \in DOMAIN remote : remote[id].key # k
      BY <2>1 DEF IInv, SubmissionsOwned
    <3>. QED  BY <1>2, <3>1, <3>2, RefusalEnds, UsageStep
  <2>2. CASE ~AboutToSubmit(v, k)
    <3>1. PICK c : attempts'[k] = Reservation(c)
      BY <1>2, <2>2, ArrivalIsReserved
    <3>. QED  BY <3>1 DEF Reservation
  <2>. QED  BY <2>1, <2>2
<1>. QED  BY <1>1, <1>2 DEF UsageInv

\* Each record, up to what its call reserved.
Capped(table, estimate, ids) == [i \in ids |-> UpTo(estimate, Tokens(table[i], estimate))]
Attempted == Total(Capped(attempts, Estimate, TotalAttempts), TotalAttempts)
Evaluated == Total(Capped(baseline, BaselineEstimate, TotalBaseline), TotalBaseline)
TokensInv == Attempted + Evaluated <= TotalTokens

LEMMA Amounts ==
    /\ Estimate \in Nat /\ BaselineEstimate \in Nat /\ TotalTokens \in Nat
    /\ Usages \cup {0, Unknown} \subseteq Nat \cup {Unknown} /\ Usages \cup {0} \subseteq Nat
    /\ \A e \in Nat, u \in Nat : UpTo(e, u) \in Nat /\ UpTo(e, u) <= u /\ UpTo(e, u) <= e
<1>1. Usages \subseteq Nat /\ Unknown \notin Nat
  BY AmountAssumption
<1>2. {0} \subseteq Nat
  OBVIOUS
<1>3. Usages \cup {0, Unknown} \subseteq Nat \cup {Unknown} /\ Usages \cup {0} \subseteq Nat
  BY <1>1, <1>2, Zenon
<1>. QED  BY <1>3, AmountAssumption DEF UpTo

LEMMA RecordsValued ==
    ASSUME IInv, CallsInv
    PROVE  LET A == [k \in TotalAttempts |-> Tokens(attempts[k], Estimate)]
               B == [b \in TotalBaseline |-> Tokens(baseline[b], BaselineEstimate)]
           IN /\ Valued(A, TotalAttempts) /\ Valued(B, TotalBaseline)
              /\ Valued(Capped(attempts, Estimate, TotalAttempts), TotalAttempts)
              /\ Valued(Capped(baseline, BaselineEstimate, TotalBaseline), TotalBaseline)
              /\ Attempted <= Total(A, TotalAttempts) /\ Evaluated <= Total(B, TotalBaseline)
<1>. DEFINE A == [k \in TotalAttempts |-> Tokens(attempts[k], Estimate)]
            B == [b \in TotalBaseline |-> Tokens(baseline[b], BaselineEstimate)]
            cA == Capped(attempts, Estimate, TotalAttempts)
            cB == Capped(baseline, BaselineEstimate, TotalBaseline)
<1>1. ASSUME NEW k \in TotalAttempts
      PROVE  A[k] \in Nat
  <2>1. attempts[k] \in Attempt
    BY DEF TotalAttempts, IInv, TypeOK
  <2>2. attempts[k].actual \in Nat \cup {Unknown}
    BY <2>1, Amounts DEF Attempt
  <2>. QED  BY <2>2, Amounts DEF Tokens, Unresolved
<1>2. \A b \in TotalBaseline : B[b] \in Nat
  BY Amounts, AmountAssumption DEF TotalBaseline, IInv, TypeOK, Tokens, Unresolved
<1>3. \A k \in TotalAttempts : cA[k] \in Nat /\ cA[k] <= A[k]
  BY <1>1, Amounts DEF Capped
<1>4. \A b \in TotalBaseline : cB[b] \in Nat /\ cB[b] <= B[b]
  BY <1>2, Amounts DEF Capped
<1>5. Valued(A, TotalAttempts) /\ Valued(B, TotalBaseline)
  BY <1>1, <1>2 DEF Valued, CallsInv
<1>. HIDE DEF A, B, cA, cB
<1>6. Valued(cA, TotalAttempts) /\ Total(cA, TotalAttempts) <= Total(A, TotalAttempts)
  BY <1>3, <1>5, TotalAtMost
<1>7. Valued(cB, TotalBaseline) /\ Total(cB, TotalBaseline) <= Total(B, TotalBaseline)
  BY <1>4, <1>5, TotalAtMost
<1>. QED  BY <1>5, <1>6, <1>7 DEF A, B, cA, cB, Attempted, Evaluated

\* What the budget checks before a call covers what is counted.
LEMMA AllowedTokens ==
    ASSUME IInv, CallsInv, NEW n \in Nat, TotalAllows(n)
    PROVE  Attempted + Evaluated + n <= TotalTokens
<1>. DEFINE A == [k \in TotalAttempts |-> Tokens(attempts[k], Estimate)]
            B == [b \in TotalBaseline |-> Tokens(baseline[b], BaselineEstimate)]
<1>1. /\ Valued(A, TotalAttempts) /\ Valued(B, TotalBaseline)
      /\ Attempted <= Total(A, TotalAttempts) /\ Evaluated <= Total(B, TotalBaseline)
  BY RecordsValued
<1>2. Attempted \in Nat /\ Evaluated \in Nat
  BY RecordsValued, UnitsFinite DEF Attempted, Evaluated
<1>3. Total(A, TotalAttempts) \in Nat /\ Total(B, TotalBaseline) \in Nat
  BY <1>1, UnitsFinite
<1>4. /\ TokensOf(attempts, TotalAttempts, Estimate) = Total(A, TotalAttempts)
      /\ TokensOf(baseline, TotalBaseline, BaselineEstimate) = Total(B, TotalBaseline)
  BY <1>1, TokensAre
<1>. HIDE DEF A, B
<1>5. Total(A, TotalAttempts) + Total(B, TotalBaseline) + n <= TotalTokens
  BY <1>4 DEF TotalAllows
<1>. QED  BY <1>1, <1>2, <1>3, <1>5, Amounts

\* Attempts that continue and leave the count do not raise the sum.
LEMMA AttemptedFalls ==
    ASSUME IInv, IInv', CallsInv, Continues, TotalAttempts' \subseteq TotalAttempts
    PROVE  Attempted' \in Nat /\ Attempted \in Nat /\ Attempted' <= Attempted
<1>. DEFINE v == Capped(attempts, Estimate, TotalAttempts)
            w == Capped(attempts', Estimate, TotalAttempts')
<1>1. Valued(v, TotalAttempts)
  BY RecordsValued
<1>2. ASSUME NEW k \in TotalAttempts'
      PROVE  w[k] \in Nat /\ w[k] <= v[k]
  <2>1. k \in TotalAttempts /\ k \in DOMAIN attempts /\ k \in DOMAIN attempts'
    BY <1>2 DEF TotalAttempts
  <2>2. attempts'[k].actual \in Nat \cup {Unknown} /\ attempts[k].actual \in Nat \cup {Unknown}
    <3>1. attempts'[k] \in Attempt /\ attempts[k] \in Attempt
      BY <2>1 DEF IInv, TypeOK
    <3>. QED  BY <3>1, Amounts DEF Attempt
  <2>3. attempts[k].actual # Unknown => attempts'[k].actual = attempts[k].actual
    BY <2>1 DEF Continues, Follows
  <2>4. /\ v[k] = UpTo(Estimate, Tokens(attempts[k], Estimate))
        /\ w[k] = UpTo(Estimate, Tokens(attempts'[k], Estimate))
    BY <1>2, <2>1 DEF Capped
  <2>. HIDE DEF v, w
  <2>. QED  BY <2>2, <2>3, <2>4, Amounts DEF Tokens, Unresolved, UpTo
<1>. HIDE DEF v, w
<1>3. Valued(w, TotalAttempts') /\ Total(w, TotalAttempts') <= Total(v, TotalAttempts)
  BY <1>1, <1>2, TotalAtMost
<1>4. Total(w, TotalAttempts') \in Nat /\ Total(v, TotalAttempts) \in Nat
  BY <1>1, <1>3, UnitsFinite
<1>. QED  BY <1>3, <1>4 DEF v, w, Attempted

LEMMA EvaluatedFalls ==
    ASSUME IInv, IInv', CallsInv, BaselineWanes
    PROVE  Evaluated' \in Nat /\ Evaluated \in Nat /\ Evaluated' <= Evaluated
<1>. DEFINE v == Capped(baseline, BaselineEstimate, TotalBaseline)
            w == Capped(baseline', BaselineEstimate, TotalBaseline')
<1>1. Valued(v, TotalBaseline)
  BY RecordsValued
<1>2. ASSUME NEW b \in TotalBaseline'
      PROVE  w[b] \in Nat /\ w[b] <= v[b]
  <2>1. b \in TotalBaseline /\ b \in DOMAIN baseline /\ b \in DOMAIN baseline'
    BY <1>2 DEF TotalBaseline, BaselineWanes
  <2>2. baseline'[b].actual \in Nat \cup {Unknown} /\ baseline[b].actual \in Nat \cup {Unknown}
    BY <2>1, AmountAssumption DEF IInv, TypeOK
  <2>3. baseline[b].actual # Unknown => baseline'[b].actual = baseline[b].actual
    BY <1>2 DEF BaselineWanes
  <2>4. /\ v[b] = UpTo(BaselineEstimate, Tokens(baseline[b], BaselineEstimate))
        /\ w[b] = UpTo(BaselineEstimate, Tokens(baseline'[b], BaselineEstimate))
    BY <1>2, <2>1 DEF Capped
  <2>. HIDE DEF v, w
  <2>. QED  BY <2>2, <2>3, <2>4, Amounts DEF Tokens, Unresolved, UpTo
<1>. HIDE DEF v, w
<1>3. Valued(w, TotalBaseline') /\ Total(w, TotalBaseline') <= Total(v, TotalBaseline)
  BY <1>1, <1>2, TotalAtMost DEF BaselineWanes
<1>4. Total(w, TotalBaseline') \in Nat /\ Total(v, TotalBaseline) \in Nat
  BY <1>1, <1>3, UnitsFinite
<1>. QED  BY <1>3, <1>4 DEF v, w, Evaluated

\* A new call adds at most what it reserves.
LEMMA AttemptedGrows ==
    ASSUME IInv, CallsInv, NEW w \in Workers, Admitted(w)
    PROVE  Attempted' <= Estimate + Attempted /\ Attempted' \in Nat /\ Attempted \in Nat
<1>. DEFINE v == Capped(attempts, Estimate, TotalAttempts)
            u == Capped(attempts', Estimate, TotalAttempts \cup {KeyOf(workers[w])})
            k == KeyOf(workers[w])
<1>1. Valued(v, TotalAttempts)
  BY RecordsValued
<1>2. /\ k \notin DOMAIN attempts /\ DOMAIN attempts' = DOMAIN attempts \cup {k}
      /\ \A x \in DOMAIN attempts : attempts'[x] = attempts[x]
      /\ attempts'[k] = Reservation(workers[w].content)
  BY DEF Admitted, Put, Recorded
<1>. HIDE DEF k
<1>3. k \notin TotalAttempts
  BY <1>2 DEF TotalAttempts
<1>4. u[k] = Estimate /\ Estimate \in Nat
  BY <1>2, Amounts DEF k, Capped, Tokens, Unresolved, Reservation, UpTo
<1>5. \A x \in TotalAttempts : u[x] = v[x] /\ v[x] \in Nat
  BY <1>1, <1>2 DEF Capped, Valued, TotalAttempts
<1>6. TotalAttempts' = TotalAttempts \cup {k}
  BY <1>2, AmountAssumption DEF TotalAttempts, Reservation, InWindow
<1>. DEFINE T == TotalAttempts \cup {k}
<1>7. \A x \in T \ {k} : u[x] \in Nat /\ u[x] <= v[x]
  BY <1>5
<1>. HIDE DEF v, u
<1>8. Valued(u, T) /\ Total(u, T) <= Estimate + Total(v, TotalAttempts)
  BY <1>1, <1>3, <1>4, <1>7, OneMoreTotal
<1>9. Total(u, T) \in Nat /\ Total(v, TotalAttempts) \in Nat
  BY <1>1, <1>8, UnitsFinite
<1>. QED  BY <1>6, <1>8, <1>9 DEF v, u, k, Attempted

LEMMA EvaluatedGrows ==
    ASSUME IInv, CallsInv, NEW w \in Workers, NEW e \in Evidence, NEW c \in Contents, Begin(w, e, c)
    PROVE  Evaluated' <= BaselineEstimate + Evaluated /\ Evaluated' \in Nat /\ Evaluated \in Nat
<1>1. PICK id : /\ id \notin TotalBaseline
                /\ baseline' = [b \in TotalBaseline \cup {id} |->
                       IF b = id THEN [age |-> 0, actual |-> Unknown] ELSE baseline[b]]
  BY DEF Begin, UsedIds
<1>. DEFINE v == Capped(baseline, BaselineEstimate, TotalBaseline)
            T == TotalBaseline \cup {id}
            u == Capped(baseline', BaselineEstimate, T)
<1>2. Valued(v, TotalBaseline)
  BY RecordsValued
<1>3. u[id] = BaselineEstimate /\ BaselineEstimate \in Nat
  BY <1>1, Amounts DEF Capped, Tokens, Unresolved, UpTo
<1>4. \A b \in TotalBaseline : u[b] = v[b] /\ v[b] \in Nat
  BY <1>1, <1>2 DEF Capped, Valued
<1>5. TotalBaseline' = T
  <2>1. 0 < Window
    BY AmountAssumption
  <2>. QED  BY <1>1, <2>1 DEF TotalBaseline, InWindow
<1>6. \A b \in T \ {id} : u[b] \in Nat /\ u[b] <= v[b]
  BY <1>4
<1>. HIDE DEF v, u
<1>7. Valued(u, T) /\ Total(u, T) <= BaselineEstimate + Total(v, TotalBaseline)
  BY <1>1, <1>2, <1>3, <1>6, OneMoreTotal
<1>8. Total(u, T) \in Nat /\ Total(v, TotalBaseline) \in Nat
  BY <1>2, <1>7, UnitsFinite
<1>. QED  BY <1>5, <1>7, <1>8 DEF v, u, Evaluated

LEMMA StaysWithin ==
    ASSUME NEW t \in Nat, NEW n \in Nat, NEW a \in Nat, NEW b \in Nat, a + b + n <= t,
           NEW c \in Nat, NEW d \in Nat,
           (c <= a /\ d <= b) \/ (c <= n + a /\ d <= b) \/ (c <= a /\ d <= n + b)
    PROVE  c + d <= t
OBVIOUS

LEMMA TokensOn ==
    ASSUME IInv, IInv', ReviewsInv, CountedInv, CallsInv, TokensInv, [Next]_vars
    PROVE  TokensInv'
<1>0. TotalTokens \in Nat /\ Estimate \in Nat /\ BaselineEstimate \in Nat
  BY Amounts
<1>1. ASSUME NEW w \in Workers, NEW e \in Evidence, NEW c \in Contents, Begin(w, e, c)
      PROVE  TokensInv'
  <2>1. Attempted' <= Attempted /\ Attempted' \in Nat /\ Attempted \in Nat
    <3>1. Attempted' = Attempted
      BY <1>1 DEF Begin, Attempted, TotalAttempts, Capped
    <3>2. Attempted \in Nat
      BY RecordsValued, UnitsFinite DEF Attempted
    <3>. QED  BY <3>1, <3>2
  <2>2. Attempted + Evaluated + BaselineEstimate <= TotalTokens
    BY <1>0, <1>1, AllowedTokens DEF Begin
  <2>3. Evaluated' <= BaselineEstimate + Evaluated /\ Evaluated' \in Nat /\ Evaluated \in Nat
    BY <1>1, EvaluatedGrows
  <2>4. Attempted' + Evaluated' <= TotalTokens
    BY <1>0, <2>1, <2>2, <2>3, StaysWithin
  <2>. QED  BY <2>4 DEF TokensInv
<1>2. ASSUME NEW w \in Workers, Reserve(w), Admitted(w)
      PROVE  TokensInv'
  <2>1. Evaluated' <= Evaluated /\ Evaluated' \in Nat /\ Evaluated \in Nat
    <3>1. Evaluated' = Evaluated
      BY <1>2 DEF Reserve, Evaluated, TotalBaseline, Capped
    <3>2. Evaluated \in Nat
      BY RecordsValued, UnitsFinite DEF Evaluated
    <3>. QED  BY <3>1, <3>2
  <2>2. Attempted + Evaluated + Estimate <= TotalTokens
    BY <1>0, <1>2, AllowedTokens DEF Admitted, MayReserve
  <2>3. Attempted' <= Estimate + Attempted /\ Attempted' \in Nat /\ Attempted \in Nat
    BY <1>2, AttemptedGrows
  <2>4. Attempted' + Evaluated' <= TotalTokens
    BY <1>0, <2>1, <2>2, <2>3, StaysWithin
  <2>. QED  BY <2>4 DEF TokensInv
<1>3. CASE Waned /\ Continues /\ BaselineWanes
  <2>1. Attempted' \in Nat /\ Attempted \in Nat /\ Attempted' <= Attempted
    BY <1>3, WanedCounts, AttemptedFalls
  <2>2. Evaluated' \in Nat /\ Evaluated \in Nat /\ Evaluated' <= Evaluated
    BY <1>3, EvaluatedFalls
  <2>3. Attempted + Evaluated + 0 <= TotalTokens
    BY <2>1, <2>2 DEF TokensInv
  <2>4. Attempted' + Evaluated' <= TotalTokens
    BY <1>0, <2>1, <2>2, <2>3, StaysWithin
  <2>. QED  BY <2>4 DEF TokensInv
<1>. QED  BY <1>1, <1>2, <1>3, StepWanes, StepContinues, BaselineStep

\* The requests and baseline calls of every window use, each up to its estimate,
\* at most TotalTokens, the lost and unsettled ones included (total_status,
\* settle): what was admitted by its estimates bounds what the service reports.
THEOREM TokensStayWithinBudget == Spec => []TokensWithinBudget
<1>1. Init => CountedInv /\ CallsInv /\ UsageInv /\ TokensInv
  <2>. SUFFICES ASSUME Init PROVE CountedInv /\ CallsInv /\ UsageInv /\ TokensInv
    OBVIOUS
  <2>1. /\ DOMAIN attempts = {} /\ DOMAIN remote = {} /\ DOMAIN baseline = {}
        /\ \A w \in Workers : workers[w].at # "create"
    BY DEF Init, Idle
  <2>2. TotalAttempts = {} /\ TotalBaseline = {}
    BY <2>1 DEF TotalAttempts, TotalBaseline
  <2>3. CountedInv /\ UsageInv
    BY <2>1 DEF CountedInv, UsageInv, AboutToSubmit
  <2>4. CallsInv
    BY <2>2, FS_EmptySet, AmountAssumption DEF CallsInv
  <2>5. TokensInv
    BY <2>2, TotalNone, Amounts DEF TokensInv, Attempted, Evaluated
  <2>. QED  BY <2>3, <2>4, <2>5
<1>2. IInv /\ IInv' /\ ReviewsInv /\ CountedInv /\ CallsInv /\ UsageInv /\ TokensInv
          /\ [Next]_vars => CountedInv' /\ CallsInv' /\ UsageInv' /\ TokensInv'
  <2>. SUFFICES ASSUME IInv, IInv', ReviewsInv, [Next]_vars,
                       CountedInv, CallsInv, UsageInv, TokensInv
                PROVE  CountedInv' /\ CallsInv' /\ UsageInv' /\ TokensInv'
    OBVIOUS
  <2>1. CountedInv' /\ CallsInv'
    BY CountedOn, CallsOn
  <2>2. UsageInv' /\ TokensInv'
    BY UsageOn, TokensOn
  <2>. QED  BY <2>1, <2>2
<1>3. IInv /\ CountedInv /\ CallsInv /\ UsageInv /\ TokensInv => TokensWithinBudget
  <2>. SUFFICES ASSUME IInv, CountedInv, CallsInv, UsageInv, TokensInv PROVE TokensWithinBudget
    OBVIOUS
  <2>. DEFINE S == Requests(InWindow)
              used == [id \in S |-> UsedBy(remote[id])]
              cap == Capped(attempts, Estimate, TotalAttempts)
              key == [id \in S |-> remote[id].key]
  <2>0. S = {id \in DOMAIN remote : InWindow(attempts[remote[id].key])}
    BY DEF Requests
  <2>1. S \subseteq DOMAIN remote /\ \A id \in S : remote[id].key \in TotalAttempts
    BY <2>0 DEF TotalAttempts, CountedInv, IInv, LinksOK
  <2>2. Valued(cap, TotalAttempts)
    BY RecordsValued
  <2>3. key \in Injection(S, TotalAttempts)
    BY <2>1 DEF IInv, SubmittedOnce, Injection, IsInjective
  <2>4. ASSUME NEW id \in S
        PROVE  used[id] \in Nat /\ used[id] <= cap[key[id]]
    <3>. DEFINE a == attempts[remote[id].key]
    <3>1. remote[id].usage \in Nat
      <4>1. id \in DOMAIN remote
        BY <2>1
      <4>2. remote[id].usage \in Usages \cup {0}
        BY <4>1, RequestTypes
      <4>. QED  BY <4>2, Amounts
    <3>2. cap[key[id]] = UpTo(Estimate, Tokens(a, Estimate))
      BY <2>1 DEF Capped
    <3>3. a.actual # Unknown => remote[id].status # "in_progress" /\ a.actual = remote[id].usage
      BY <2>1 DEF UsageInv
    <3>4. used[id] = UsedBy(remote[id])
      OBVIOUS
    <3>. HIDE DEF a, used, key, cap
    <3>. QED  BY <3>1, <3>2, <3>3, <3>4, Amounts DEF UsedBy, Tokens, Unresolved, UpTo
  <2>5. Valued(used, S)
    <3>1. IsFiniteSet(S)
      BY <2>3, FS_Injection DEF CallsInv
    <3>. QED  BY <2>4, <3>1 DEF Valued
  <2>. HIDE DEF cap, key
  <2>6. Total(used, S) <= Total(cap, TotalAttempts)
    BY <2>2, <2>3, <2>4, <2>5, TotalMapped
  <2>7. MapThenSumSet(LAMBDA id : IF remote[id].status = "in_progress" THEN Estimate
                                  ELSE UpTo(Estimate, remote[id].usage), S) = Total(used, S)
    BY <2>5, RequestsSum
  <2>8. MapThenSumSet(LAMBDA b : UpTo(BaselineEstimate, Tokens(baseline[b], BaselineEstimate)),
                      TotalBaseline) = Evaluated
    BY RecordsValued, BaselineSum DEF Evaluated, Capped
  <2>9. Total(used, S) \in Nat /\ Attempted \in Nat /\ Evaluated \in Nat
    BY <2>2, <2>5, RecordsValued, UnitsFinite DEF Attempted, Evaluated
  <2>10. Total(used, S) + Evaluated <= TotalTokens
    BY <2>6, <2>9, Amounts DEF TokensInv, Attempted, cap
  <2>. QED  BY <2>7, <2>8, <2>10 DEF TokensWithinBudget
<1>. QED  BY <1>1, <1>2, <1>3, ReviewsInvariant, PTL DEF Spec
=============================================================================
