---------------------------- MODULE MCServices ----------------------------
(* The services around the store in one run: the first state chooses which  *)
(* works, and the others stay as they were made. The handoff cards of the   *)
(* Context Hub (reclaiming, windows, walking, merging: one for each mix of  *)
(* windows and bounds); the withdrawal of an automatic output (withdrawal); *)
(* who may use the store (enrolling, adopting, reconciling); and the gate   *)
(* of every call (gate) with its records (records).                         *)
EXTENDS AccessGate, Enrollment, HubActivity, HubWithdrawal, TLC

VARIABLE component

\* Windows w and v are of the same client, x is of another.
Owner == [w \in {"w", "x", "v"} |-> IF w = "x" THEN "b" ELSE "a"]
Ranked == [k \in {"a", "b"} \X {"t", "u"} |->
             (IF k[1] = "a" THEN 0 ELSE 2) + (IF k[2] = "t" THEN 1 ELSE 2)]
Everything == [scopes |-> {}, own |-> TRUE, words |-> {}]
All == {Everything}
Wholly(S) == {"Ingest", "ReadDetail"} \X S
Permitted == {Wholly({"s", "z"}), Wholly({"s"})}
Into == {<<"s", "z">>}

Undone == [c |-> "create", u |-> "update"]
Asked == [c \in {"a"} |-> {"self"}]
Named == [k \in {"k1"} |-> k]
Adopting == INSTANCE Enrollment WITH
    Clients <- {"a", "w"}, Wanted <- [c \in {"a", "w"} |-> IF c = "a" THEN {"self"} ELSE {}], Wide <- {"w"},
    PublicCalls <- {"x"}, Keys <- {"k1"}, Name <- [k \in {"k1"} |-> k], Adoptable <- {"s"}, Members <- {"k1"},
    Target <- "k1", Registered <- {}, MaxRequests <- 1, MaxRegistrations <- 2, MaxPages <- 0, MaxStops <- 1,
    MaxAborts <- 0
Reconciling == INSTANCE Enrollment WITH
    Clients <- {"a"}, Wanted <- [c \in {"a"} |-> {"self"}], Wide <- {}, PublicCalls <- {"x"},
    Keys <- {"k1", "k2"}, Name <- [k \in {"k1", "k2"} |-> k], Adoptable <- {}, Members <- {"k1", "k2"},
    Target <- "k1", Registered <- {"k1", "k2"}, MaxRequests <- 1, MaxRegistrations <- 1, MaxPages <- 2,
    MaxStops <- 2, MaxAborts <- 1

\* Both may do everything in s and read in t, where a Page may be moved to.
Permissions == {"ReadDetail", "ReadSummary", "Search", "ListScopes", "ManageLifecycle", "Revise", "Repair",
                "Retract", "Collect", "Ingest", "Write", "Link", "Summarize", "Assess", "ManageScope", "Audit",
                "Observe", "DeriveAcrossScopes"}
Sessions == [x |-> "model", y |-> "service"]
Grants == [c \in {"x", "y"} |-> (Permissions \X {"s"}) \cup {<<"ReadDetail", "t">>}]
SAndT == <<"s", "t">>
\* One refusal of the smaller size fits, two do not, and neither does one of the other.
RecordSizes == [x |-> {1}, y |-> {1, 2}]
GateCalls == 2   \* bound: calls while only the gate works
TwoVersions == 2   \* bound: publications where little more than the windows works

\* What the parts assume of their constants.
ASSUME Adopting!EnrollmentAssumption /\ Reconciling!EnrollmentAssumption

ServicesInit ==
    /\ component \in {"reclaiming", "windows", "walking", "merging", "withdrawal", "enrolling", "adopting", "reconciling", "gate", "records"}
    /\ ActivityInit
    /\ \A c \in ActivityClients : granted[c] # Wholly({"s"}) => component = "merging" /\ c = "a"
    /\ WithdrawalInit
    /\ CASE component = "adopting" -> Adopting!EnrollmentInit
         [] component = "reconciling" -> Reconciling!EnrollmentInit
         [] OTHER -> EnrollmentInit
    /\ GateInit

At(c) == component = c /\ UNCHANGED component
Activity_(c) == At(c) /\ UNCHANGED <<withdrawalVars, enrollmentVars, gateVars>>
Withdrawal_ == At("withdrawal") /\ UNCHANGED <<activityVars, enrollmentVars, gateVars>>
Enrollment_(c) == At(c) /\ UNCHANGED <<activityVars, withdrawalVars, gateVars>>
Gate_(c) == At(c) /\ UNCHANGED <<activityVars, withdrawalVars, enrollmentVars>>
Asks_ == Gate_("gate") /\ made < GateCalls

ServicesNext ==
    \/ Activity_("reclaiming") /\ \E w \in {"w", "x"}, t \in {"t", "u"}, status \in CardStatuses \cup {Omitted}, told \in BOOLEAN : PublishActivity(w, t, "s", "m", status, 1, told)
    \/ Activity_("reclaiming") /\ \E w \in {"w", "x"}, t \in {"t", "u"}, status \in CardStatuses \cup {Omitted} : Republish(w, t, "s", "m", status)
    \/ Activity_("reclaiming") /\ Tick
    \/ Activity_("windows") /\ sequence < TwoVersions /\ \E w \in {"w", "v"}, status \in CardStatuses \cup {Omitted}, told \in BOOLEAN : PublishActivity(w, "t", "s", "m", status, 1, told)
    \/ Activity_("windows") /\ \E w \in {"w", "v"}, status \in CardStatuses \cup {Omitted} : Republish(w, "t", "s", "m", status)
    \/ Activity_("windows") /\ \E w \in {"w", "v"}, checks \in BOOLEAN : ReadActivity(w, Everything, checks)
    \/ Activity_("windows") /\ \E k \in CardKeys : RemoveCard(k)
    \/ Activity_("windows") /\ \E policy \in SUBSET {"publish", "read"} : SetClientPolicy("a", policy)
    \/ Activity_("windows") /\ Tick
    \/ Activity_("walking") /\ \E w \in {"w", "x"}, status \in CardStatuses \cup {Omitted}, told \in BOOLEAN : PublishActivity(w, "t", "s", "m", status, 1, told)
    \/ Activity_("walking") /\ \E w \in {"w", "x"}, status \in CardStatuses \cup {Omitted} : Republish(w, "t", "s", "m", status)
    \/ Activity_("walking") /\ \E w \in {"w", "x"}, checks \in BOOLEAN : ReadActivity(w, Everything, checks)
    \/ Activity_("walking") /\ \E w \in {"w", "x"} : Continue(w)
    \/ Activity_("walking") /\ Tick
    \/ Activity_("merging") /\ sequence < TwoVersions /\ \E t \in {"t", "u"}, s \in {"s", "z"}, status \in CardStatuses \cup {Omitted}, told \in BOOLEAN : PublishActivity("w", t, s, "m", status, 1, told)
    \/ Activity_("merging") /\ \E t \in {"t", "u"}, s \in {"s", "z"}, status \in CardStatuses \cup {Omitted} : Republish("w", t, s, "m", status)
    \/ Activity_("merging") /\ \E checks \in BOOLEAN : ReadActivity("w", Everything, checks)
    \/ Activity_("merging") /\ Continue("w")
    \/ Activity_("merging") /\ \E k \in CardKeys : RemoveCard(k)
    \/ Activity_("merging") /\ \E policy \in SUBSET {"publish", "read"} : SetClientPolicy("a", policy)
    \/ Activity_("merging") /\ \E grant \in ClientGrants : Regrant("a", grant)
    \/ Activity_("merging") /\ Merge("s", "z")
    \/ Activity_("merging") /\ Tick
    \/ Withdrawal_ /\ \E o \in {"c", "u"}, operator \in {"x", "y"} : Withdraw(o, operator)
    \/ Withdrawal_ /\ LookAtPage
    \/ Withdrawal_ /\ ArchivePage
    \/ Withdrawal_ /\ RestorePrevious
    \/ Withdrawal_ /\ SaveReceipt
    \/ Withdrawal_ /\ RuntimeDies
    \/ Withdrawal_ /\ Forget
    \/ Withdrawal_ /\ \E o \in {"c", "u"} : Edit(o)
    \/ Withdrawal_ /\ \E o \in {"c", "u"} : DeleteOutput(o)
    \/ Withdrawal_ /\ \E o \in {"c", "u"} : Govern(o)
    \/ Enrollment_("enrolling") /\ \E c \in {"x", "y"}, client \in {"a"} : BeginEnrollment(c, client)
    \/ Enrollment_("enrolling") /\ \E c \in {"x", "y"}, reg \in DOMAIN file.regs : Open(c, reg)
    \/ Enrollment_("enrolling") /\ \E c \in {"x", "y"} : Materialize(c)
    \/ Enrollment_("enrolling") /\ \E c \in {"x", "y"} : Install(c)
    \/ Enrollment_("enrolling") /\ \E c \in {"x", "y"} : Confirm(c)
    \/ Enrollment_("enrolling") /\ \E c \in {"x", "y"} : CloseInactive(c)
    \/ Enrollment_("enrolling") /\ \E c \in {"x", "y"} : Fail(c)
    \/ Enrollment_("enrolling") /\ \E c \in {"x", "y"}, reg \in DOMAIN file.regs, key \in {"k1"}, existing \in {"none"} : EnsureProjectScope(c, reg, key, existing)
    \/ Enrollment_("enrolling") /\ \E c \in {"x", "y"} : Provision(c)
    \/ Enrollment_("enrolling") /\ \E c \in {"x", "y"} : Grant(c)
    \/ Enrollment_("enrolling") /\ \E q \in file.requests : Approve(q)
    \/ Enrollment_("enrolling") /\ \E q \in file.requests : Reject(q)
    \/ Enrollment_("enrolling") /\ \E q \in file.requests : Expire(q)
    \/ Enrollment_("enrolling") /\ \E reg \in DOMAIN file.regs : SetPolicy(reg)
    \/ Enrollment_("enrolling") /\ \E reg \in DOMAIN file.regs : Revoke(reg)
    \/ Enrollment_("enrolling") /\ \E reg \in DOMAIN file.regs : CloseRevoked(reg)
    \/ Enrollment_("adopting") /\ \E c \in {"x"}, client \in {"a", "w"} : Adopting!BeginEnrollment(c, client)
    \/ Enrollment_("adopting") /\ \E c \in {"x"}, reg \in DOMAIN file.regs : Adopting!Open(c, reg)
    \/ Enrollment_("adopting") /\ \E c \in {"x"} : Adopting!Materialize(c)
    \/ Enrollment_("adopting") /\ \E c \in {"x"} : Adopting!Install(c)
    \/ Enrollment_("adopting") /\ \E c \in {"x"} : Adopting!Confirm(c)
    \/ Enrollment_("adopting") /\ \E c \in {"x"} : Adopting!Fail(c)
    \/ Enrollment_("adopting") /\ \E c \in {"x"}, reg \in DOMAIN file.regs, key \in {"k1"}, existing \in {"s", "none"} : Adopting!EnsureProjectScope(c, reg, key, existing)
    \/ Enrollment_("adopting") /\ \E c \in {"x"} : Adopting!Provision(c)
    \/ Enrollment_("adopting") /\ \E c \in {"x"} : Adopting!Grant(c)
    \/ Enrollment_("adopting") /\ \E q \in file.requests : Adopting!Approve(q)
    \/ Enrollment_("adopting") /\ \E reg \in DOMAIN file.regs : Adopting!SetPolicy(reg)
    \/ Enrollment_("adopting") /\ \E reg \in DOMAIN file.regs : Adopting!Revoke(reg)
    \/ Enrollment_("adopting") /\ \E reg \in DOMAIN file.regs : Adopting!CloseRevoked(reg)
    \/ Enrollment_("adopting") /\ Adopting!Stop
    \/ Enrollment_("adopting") /\ Adopting!Start
    \/ Enrollment_("reconciling") /\ \E c \in {"x"}, reg \in DOMAIN file.regs : Reconciling!Open(c, reg)
    \/ Enrollment_("reconciling") /\ \E c \in {"x"} : Reconciling!Materialize(c)
    \/ Enrollment_("reconciling") /\ \E c \in {"x"} : Reconciling!Install(c)
    \/ Enrollment_("reconciling") /\ \E c \in {"x"} : Reconciling!Confirm(c)
    \/ Enrollment_("reconciling") /\ \E reg \in DOMAIN sessions, s \in scopes : Reconciling!Ingest(reg, s)
    \/ Enrollment_("reconciling") /\ \E s \in scopes : Reconciling!IngestEmbedded(s)
    \/ Enrollment_("reconciling") /\ Reconciling!Stop
    \/ Enrollment_("reconciling") /\ Reconciling!Start
    \/ Enrollment_("reconciling") /\ Reconciling!Review
    \/ Enrollment_("reconciling") /\ Reconciling!Prepare
    \/ Enrollment_("reconciling") /\ cli # Reconciling!NoCall /\ \E t \in cli.transfers : Reconciling!Transfer(t)
    \/ Enrollment_("reconciling") /\ cli # Reconciling!NoCall /\ \E s \in cli.retire : Reconciling!Retire(s)
    \/ Enrollment_("reconciling") /\ Reconciling!PublishContext
    \/ Enrollment_("reconciling") /\ Reconciling!Publish
    \/ Enrollment_("reconciling") /\ Reconciling!Abort
    \/ Asks_ /\ \E c \in Callers : AskUnknown(c)
    \/ Asks_ /\ \E c \in Callers : RefuseModel(c)
    \/ Gate_("gate") /\ \E c \in Callers : Commit(c)
    \/ Gate_("gate") /\ \E c \in Callers : Refuse(c)
    \/ Asks_ /\ \E c \in Callers : ManagePageLifecycle(c)
    \/ Asks_ /\ \E c \in Callers : RevisePage(c)
    \/ Asks_ /\ \E c \in Callers : RepairPage(c)
    \/ Asks_ /\ \E c \in Callers : UnpackPage(c)
    \/ Asks_ /\ \E c \in Callers : DeletePage(c)
    \/ Asks_ /\ \E c \in Callers : PackPages(c)
    \/ Asks_ /\ \E c \in Callers : ConsolidatePages(c)
    \/ Asks_ /\ \E c \in Callers : LinkPages(c)
    \/ Asks_ /\ \E c \in Callers : IngestPage(c)
    \/ Asks_ /\ \E c \in Callers : SubmitFeedback(c)
    \/ Asks_ /\ \E c \in Callers : WritePage(c)
    \/ Asks_ /\ \E c \in Callers : ExtractTopic(c)
    \/ Asks_ /\ \E c \in Callers : WriteSummary(c)
    \/ Asks_ /\ \E c \in Callers : MarkSummaryAssessed(c)
    \/ Asks_ /\ \E c \in Callers : AssessPageValidity(c)
    \/ Asks_ /\ \E c \in Callers : ApplyReconciliation(c)
    \/ Asks_ /\ \E c \in Callers : CreateScope(c)
    \/ Asks_ /\ \E c \in Callers : PutRevisionRetentionLease(c)
    \/ Asks_ /\ \E c \in Callers : TombstoneDerivationCascade(c)
    \/ Asks_ /\ \E c \in Callers : CollectRevisionRetention(c)
    \/ Asks_ /\ \E c \in Callers : ListScopes(c)
    \/ Asks_ /\ \E c \in Callers : SearchPages(c)
    \/ Asks_ /\ \E c \in Callers : Browse(c)
    \/ Asks_ /\ \E c \in Callers : ReadPages(c)
    \/ Asks_ /\ \E c \in Callers : CurrentRevisionId(c)
    \/ Asks_ /\ \E c \in Callers : PageCount(c)
    \/ Asks_ /\ \E c \in Callers : ContentCharCount(c)
    \/ Asks_ /\ \E c \in Callers : ReadForAudit(c)
    \/ Asks_ /\ \E c \in Callers : PendingFeedback(c)
    \/ Asks_ /\ \E c \in Callers : NextSummaryCandidate(c)
    \/ Asks_ /\ \E c \in Callers : DurablePageInventory(c)
    \/ Asks_ /\ \E c \in Callers : HealthSnapshot(c)
    \/ Gate_("gate") /\ \E p \in Pages, s \in Scopes : TransferPageScope(p, s)
    \/ Gate_("records") /\ \E c \in Callers : AskUnknown(c)
    \/ Gate_("records") /\ \E c \in Callers : AskUnrecorded(c)
    \/ Gate_("records") /\ \E c \in Callers : Commit(c)
    \/ Gate_("records") /\ \E c \in Callers : MarkSummaryAssessed(c)
    \/ Gate_("records") /\ \E c \in Callers : AccessLog(c)
    \/ Gate_("records") /\ \E c \in Callers : Send(c)
    \/ Gate_("records") /\ \E c \in Callers : ReadLog(c)
    \/ Gate_("records") /\ Receive
    \/ Gate_("records") /\ Flush
    \/ Gate_("records") /\ FlushFails
    \/ Gate_("records") /\ TimePasses
    \/ Gate_("records") /\ Sweep
    \/ Gate_("records") /\ Close
    \/ Gate_("records") /\ Disconnected
    \/ Gate_("records") /\ Reopen
    \/ Gate_("records") /\ Crash

ServicesSpec == ServicesInit /\ [][ServicesNext]_<<component, activityVars, withdrawalVars, enrollmentVars, gateVars>>

-----------------------------------------------------------------------------
(* The properties, each of the modules that state it.                      *)

\* Cards, receipts, registrations and records fit together in every part.
ServicesTypeOK ==
    /\ ActivityTypeOK
    /\ WithdrawalTypeOK /\ EnrollmentTypeOK /\ GateTypeOK

=============================================================================
