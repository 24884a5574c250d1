------------------------------- MODULE Enrollment -------------------------------
(***************************************************************************)
(* Who may use the store, and where: clients enroll with the Runtime, an    *)
(* operator decides, approved clients register projects that get Scopes of  *)
(* their own, and sessions are opened with the grants of a registration      *)
(* (pcp-runtime: enrollment). With the Runtime stopped, a command of the     *)
(* operator merges projects that were registered twice: it moves Pages,     *)
(* retires Scopes and rewrites two state files, one after the other          *)
(* (pcp-cli: project_reconcile.rs, scope_transfer.rs).                       *)
(*                                                                          *)
(* The Scope that is created for a project has the name of its key.         *)
(***************************************************************************)
EXTENDS Integers, FiniteSets, Rows

CONSTANTS
    Clients,          \* each with a credential, a claim and a requested access
    Wanted,           \* client -> the Scopes it asks for
    Wide,             \* the clients that ask for all Scopes instead
    PublicCalls,      \* public calls that run at the same time
    Keys,             \* canonical project keys
    Name,             \* key -> display name
    Adoptable,        \* bound: the Scopes that calls name as existingScope
    Members, Target,  \* the group that is merged: its keys, and the canonical one
    Registered,       \* the keys that are registered initially, by one client
    MaxRequests,      \* bound: requests at a time (MAX_PENDING_REQUESTS)
    MaxRegistrations, \* bound: registrations ever made (MAX_ACTIVE_REGISTRATIONS)
    MaxPages,         \* bound: Pages ever written
    MaxStops,         \* bound: stops and crashes of the Runtime
    MaxAborts         \* bound: runs of the command that do not finish

VARIABLES
    file,             \* enrollments.json: [requests, regs, projects]
    running,          \* the Runtime is
    holder,           \* the call that holds the lock of the state, or Nobody
    inCall,           \* caller -> the public call it is in, or NoCall
    closing,          \* registrations whose revocation has not reached sessions
    sessions,         \* registration -> the access of its open endpoint
    scopes,           \* pcp_scopes
    retired,          \* pcp_scope_aliases: Scope -> canonical Scope
    placed,           \* Page -> [scope, rev]
    cardScopes,       \* Scopes of the activity cards in the context state
    plan,             \* what the operator reviewed: backups and transfers
    cli,              \* the command that runs, or NoCall
    begun,            \* a merge was begun and has not been finished
    stops, aborts     \* counters of the bounds

enrollmentVars == <<file, running, holder, inCall, closing, sessions, scopes, retired, placed,
                    cardScopes, plan, cli, begun, stops, aborts>>
placeVars == <<scopes, retired, placed>>
runtimeVars == <<holder, inCall, closing, sessions>>
commandVars == <<cardScopes, plan, cli, begun, aborts>>

Nobody == "none"
NoCall == [step |-> "idle"]
Self == "self"        \* the identity Scope, which the Runtime creates
Regs == file.regs
Projects == file.projects
IsActive(reg) == reg \in DOMAIN Regs /\ ~Regs[reg].revoked
KeysOf(p) == {p.key} \cup p.aliases

ASSUME EnrollmentAssumption ==
    /\ Wanted \in [Clients -> SUBSET STRING] /\ Wide \subseteq Clients
    /\ Members \subseteq Keys /\ Target \in Members /\ Registered \subseteq Keys
    /\ Nobody \notin PublicCalls

Registration(c, bound) ==
    [client |-> c, scopes |-> Wanted[c], policy |-> bound # {}, projects |-> bound,
     historical |-> {}, revoked |-> FALSE]

Binding(key, scope, reg) ==
    [key |-> key, aliases |-> {}, historical |-> {}, scope |-> scope, name |-> Name[key],
     ready |-> FALSE, owner |-> reg]

\* Nobody has enrolled; or one client did and registered its projects.
EnrollmentInit ==
    /\ LET owner == CHOOSE c \in Clients : c \notin Wide
       IN  file = IF Registered = {} THEN [requests |-> {}, regs |-> <<>>, projects |-> {}]
                  ELSE [requests |-> {[client |-> owner, scopes |-> Wanted[owner],
                                       decision |-> "approved", reg |-> 1]},
                        regs |-> <<Registration(owner, Registered)>>,
                        projects |-> {[Binding(k, k, 1) EXCEPT !.ready = TRUE] :
                                         k \in Registered}]
    /\ scopes = Registered \cup Adoptable
    /\ running = TRUE /\ holder = Nobody /\ closing = {} /\ sessions = NoRows
    /\ inCall = [c \in PublicCalls |-> NoCall]
    /\ retired = NoRows /\ placed = NoRows
    /\ cardScopes = Registered /\ plan = NoCall /\ cli = NoCall /\ begun = FALSE
    /\ stops = 0 /\ aborts = 0

-----------------------------------------------------------------------------
(* Access.                                                                 *)

\* access_session: grants by the approved request, by projects, and for reading.
Access(r, names) ==
    LET ingest == r.scopes \cup r.projects
    IN  [all |-> r.client \in Wide, ingest |-> ingest,
         read |-> (r.historical \cup names) \ ingest]
MayIngest(access, scope) == access.all \/ scope \in access.ingest

\* validate_loaded_state: the Runtime does not start on a file that fails it.
IsValid(state) ==
    /\ \A p, q \in state.projects : p # q =>
          /\ KeysOf(p) \cap KeysOf(q) = {}
          /\ ({p.scope} \cup p.historical) \cap ({q.scope} \cup q.historical) = {}
    /\ \A p \in state.projects :
          /\ p.owner \in DOMAIN state.regs /\ p.scope \notin p.historical
          /\ Self \notin {p.scope} \cup p.historical
    /\ \A r \in DOMAIN state.regs :
          /\ \A s \in state.regs[r].projects : \E p \in state.projects : p.ready /\ p.scope = s
          /\ \A s \in state.regs[r].historical : \E p \in state.projects :
                s \in p.historical /\ p.scope \in state.regs[r].projects
    /\ \A q \in state.requests : q.decision = "approved" =>
          /\ ~state.regs[q.reg].revoked
          /\ q.scopes = state.regs[q.reg].scopes /\ q.client = state.regs[q.reg].client

-----------------------------------------------------------------------------
(* Public calls.                                                           *)

LockFree == running /\ holder = Nobody
Opening(reg) == [step |-> "found", reg |-> reg, access |-> Access(Regs[reg], {}),
                 binding |-> NoCall]

\* begin of a client: a request that is stored answers it, otherwise one is stored.
BeginEnrollment(c, client) ==
    LET same == {q \in file.requests : q.client = client /\ q.scopes = Wanted[client]}
    IN  /\ LockFree /\ inCall[c] = NoCall
        /\ \/ /\ same = {}
              /\ Cardinality({q \in file.requests : q.decision = "pending"}) < MaxRequests
              /\ file' = [file EXCEPT !.requests = @ \cup
                    {[client |-> client, scopes |-> Wanted[client], decision |-> "pending",
                      reg |-> 0]}]
              /\ UNCHANGED inCall
           \/ \E q \in same :
                 /\ q.decision = "approved" /\ IsActive(q.reg)
                 /\ inCall' = [inCall EXCEPT ![c] = Opening(q.reg)]
                 /\ UNCHANGED file
        /\ UNCHANGED <<running, holder, closing, sessions, placeVars, commandVars, stops>>

\* status and open_session of an approved client: open_registration finds it.
Open(c, reg) ==
    /\ LockFree /\ inCall[c] = NoCall /\ IsActive(reg)
    /\ inCall' = [inCall EXCEPT ![c] = Opening(reg)]
    /\ UNCHANGED <<file, running, holder, closing, sessions, placeVars, commandVars, stops>>

\* ensure_identity_scope, and the Scopes that exist for those who read all of them.
Materialize(c) ==
    /\ running /\ inCall[c].step = "found"
    /\ scopes' = scopes \cup (IF inCall[c].access.all \/ Self \in inCall[c].access.ingest
                              THEN {Self} ELSE {})
    /\ inCall' = [inCall EXCEPT ![c].step = "install"]
    /\ UNCHANGED <<file, running, holder, closing, sessions, retired, placed, commandVars, stops>>

\* The endpoint is kept if it grants the same, and replaced otherwise.
Install(c) ==
    /\ running /\ inCall[c].step = "install"
    /\ sessions' = Put(sessions, inCall[c].reg, inCall[c].access)
    /\ inCall' = [inCall EXCEPT ![c].step = "confirm"]
    /\ UNCHANGED <<file, running, holder, closing, placeVars, commandVars, stops>>

\* A fault: nobody looks whether the registration is active still.
ConfirmAnyhow(c) ==
    /\ LockFree /\ inCall[c].step = "confirm"
    /\ inCall' = [inCall EXCEPT ![c] = NoCall]
    /\ UNCHANGED <<file, running, holder, closing, sessions, placeVars, commandVars, stops>>

\* last_opened_at is stored for a registration that is active still.
Confirm(c) ==
    /\ LockFree /\ inCall[c].step = "confirm"
    /\ inCall' = [inCall EXCEPT ![c] = IF IsActive(inCall[c].reg) THEN NoCall
                                     ELSE [inCall[c] EXCEPT !.step = "close"]]
    /\ UNCHANGED <<file, running, holder, closing, sessions, placeVars, commandVars, stops>>

CloseInactive(c) ==
    /\ running /\ inCall[c].step = "close"
    /\ sessions' = Drop(sessions, {inCall[c].reg})
    /\ inCall' = [inCall EXCEPT ![c] = NoCall]
    /\ UNCHANGED <<file, running, holder, closing, placeVars, commandVars, stops>>

\* Any step may fail; a call that fails gives the lock back, and one that cannot bind
\* a socket has removed the old endpoint.
Fail(c) ==
    /\ running /\ inCall[c].step \in {"found", "install", "provision", "grant"}
    /\ inCall' = [inCall EXCEPT ![c] = NoCall]
    /\ holder' = IF holder = c THEN Nobody ELSE holder
    /\ sessions' = Drop(sessions, IF inCall[c].step = "install" THEN {inCall[c].reg} ELSE {})
    /\ UNCHANGED <<file, running, closing, placeVars, commandVars, stops>>

-----------------------------------------------------------------------------
(* ensure_project_scope. The lock is held from the binding to the grant.    *)

\* The binding of the key or, failing that, of the Scope that is adopted.
Bound(key, existing) ==
    LET byKey == {p \in Projects : key \in KeysOf(p)}
    IN  IF byKey # {} THEN byKey ELSE {p \in Projects : p.scope = existing}

\* A key that is bound: a grant that exists needs no policy, a new one does, and
\* for a project of another registration the right to write there already.
Rebind(c, reg, key, existing) ==
    \E p \in Bound(key, existing) :
        LET granted == p.ready /\ p.scope \in Regs[reg].projects
        IN  /\ granted \/ Regs[reg].policy
            /\ existing \in {Nobody, p.scope}
            /\ granted \/ p.owner = reg \/ MayIngest(Access(Regs[reg], {}), p.scope)
            /\ holder' = c
            /\ inCall' = [inCall EXCEPT ![c] =
                  [Opening(reg) EXCEPT !.step = "provision",
                        !.binding = [p EXCEPT !.aliases = @ \cup ({key} \ {p.key})]]]
            /\ UNCHANGED file

\* A new binding is stored before its Scope is created.
Bind(c, reg, key, existing) ==
    LET scope == IF existing = Nobody THEN key ELSE existing
        binding == Binding(key, scope, reg)
    IN  /\ Bound(key, existing) = {} /\ Regs[reg].policy
        /\ \A p \in Projects : p.name # Name[key] /\ p.scope # scope
        /\ IF existing = Nobody THEN scope \notin scopes
           ELSE scope \in scopes /\ MayIngest(Access(Regs[reg], {}), scope)
        /\ file' = [file EXCEPT !.projects = @ \cup {binding}]
        /\ holder' = c
        /\ inCall' = [inCall EXCEPT ![c] =
              [Opening(reg) EXCEPT !.step = "provision", !.binding = binding]]

EnsureProjectScope(c, reg, key, existing) ==
    /\ LockFree /\ inCall[c] = NoCall /\ IsActive(reg)
    /\ Rebind(c, reg, key, existing) \/ Bind(c, reg, key, existing)
    /\ UNCHANGED <<running, closing, sessions, placeVars, commandVars, stops>>

\* A fault: the Scope of a project is left to whoever writes there first.
ProvisionNothing(c) ==
    /\ running /\ holder = c /\ inCall[c].step = "provision"
    /\ inCall' = [inCall EXCEPT ![c].step = "grant"]
    /\ UNCHANGED <<file, running, holder, closing, sessions, placeVars, commandVars, stops>>

Provision(c) ==
    /\ running /\ holder = c /\ inCall[c].step = "provision"
    /\ scopes' = scopes \cup (IF inCall[c].binding.ready THEN {} ELSE {inCall[c].binding.scope})
    /\ inCall' = [inCall EXCEPT ![c].step = "grant"]
    /\ UNCHANGED <<file, running, holder, closing, sessions, retired, placed, commandVars, stops>>

\* Readiness and grant are stored, and the session is opened.
Grant(c) ==
    LET b == inCall[c].binding
        reg == inCall[c].reg
        granted == [file EXCEPT
            !.projects = {p \in @ : p.key # b.key} \cup {[b EXCEPT !.ready = TRUE]},
            !.regs[reg].projects = @ \cup {b.scope},
            !.regs[reg].historical = @ \cup b.historical]
    IN  /\ running /\ holder = c /\ inCall[c].step = "grant"
        /\ file' = granted /\ holder' = Nobody
        /\ inCall' = [inCall EXCEPT ![c] = [@ EXCEPT !.step = "found", !.binding = NoCall,
                         !.access = Access(granted.regs[reg], {})]]
        /\ UNCHANGED <<running, closing, sessions, placeVars, commandVars, stops>>

-----------------------------------------------------------------------------
(* The operator's calls, and the life of the Runtime.                      *)

Decide(q, decision, reg) ==
    {IF p = q THEN [q EXCEPT !.decision = decision, !.reg = reg] ELSE p : p \in file.requests}

Approve(q) ==
    LET reg == Cardinality(DOMAIN Regs) + 1
    IN  /\ LockFree /\ q.decision = "pending" /\ reg <= MaxRegistrations
        /\ file' = [file EXCEPT !.requests = Decide(q, "approved", reg),
                        !.regs = Put(@, reg, Registration(q.client, {}))]
        /\ UNCHANGED <<running, runtimeVars, placeVars, commandVars, stops>>

Reject(q) ==
    /\ LockFree /\ q.decision = "pending"
    /\ file' = [file EXCEPT !.requests = Decide(q, "rejected", 0)]
    /\ UNCHANGED <<running, runtimeVars, placeVars, commandVars, stops>>

\* cleanup_expired_requests, before the next call that looks at requests.
Expire(q) ==
    /\ LockFree /\ q.decision # "approved"
    /\ file' = [file EXCEPT !.requests = @ \ {q}]
    /\ UNCHANGED <<running, runtimeVars, placeVars, commandVars, stops>>

SetPolicy(reg) ==
    /\ LockFree /\ IsActive(reg)
    /\ file' = [file EXCEPT !.regs[reg].policy = ~@]
    /\ UNCHANGED <<running, runtimeVars, placeVars, commandVars, stops>>

\* revoke stores the decision, and closes the endpoint after that.
Revoke(reg) ==
    /\ LockFree /\ IsActive(reg)
    /\ file' = [file EXCEPT !.regs[reg].revoked = TRUE,
                    !.requests = {IF q.decision = "approved" /\ q.reg = reg
                                  THEN [q EXCEPT !.decision = "rejected"] ELSE q : q \in @}]
    /\ closing' = closing \cup {reg}
    /\ UNCHANGED <<running, holder, inCall, sessions, placeVars, commandVars, stops>>

CloseRevoked(reg) ==
    /\ running /\ reg \in closing
    /\ sessions' = Drop(sessions, {reg})
    /\ closing' = closing \ {reg}
    /\ UNCHANGED <<file, running, holder, inCall, placeVars, commandVars, stops>>

\* The Runtime stops or crashes, and comes up on what it stored.
Stop ==
    /\ running /\ stops < MaxStops /\ stops' = stops + 1
    /\ running' = FALSE /\ holder' = Nobody /\ closing' = {} /\ sessions' = NoRows
    /\ inCall' = [c \in PublicCalls |-> NoCall]
    /\ UNCHANGED <<file, placeVars, commandVars>>

Start ==
    /\ ~running /\ cli = NoCall /\ IsValid(file) /\ running' = TRUE
    /\ UNCHANGED <<file, runtimeVars, placeVars, commandVars, stops>>

-----------------------------------------------------------------------------
(* The store.                                                              *)

\* ensure_scope_writable, in the transaction of every new Revision.
Writable(scope) == scope \in scopes /\ scope \notin DOMAIN retired

AddPage(scope) ==
    /\ Cardinality(DOMAIN placed) < MaxPages /\ Writable(scope)
    /\ placed' = Put(placed, Cardinality(DOMAIN placed) + 1, [scope |-> scope, rev |-> 1])
    /\ UNCHANGED <<file, running, runtimeVars, scopes, retired, commandVars, stops>>

Ingest(reg, scope) == running /\ reg \in DOMAIN sessions /\ MayIngest(sessions[reg], scope) /\ AddPage(scope)

\* A writer that does not need the Runtime, at any time.
IngestEmbedded(scope) == scope \in Members /\ AddPage(scope)

-----------------------------------------------------------------------------
(* The merge of projects.                                                  *)

Reviewed(state) == {p \in state.projects : Members \cap KeysOf(p) # {}}

\* What PreparedProjectReconciliation::prepare accepts, and the state it publishes.
Mergeable(state) ==
    /\ \A k \in Members : \E p \in state.projects : k \in KeysOf(p)
    /\ \E p \in Reviewed(state) : p.scope = Target
    /\ \A p, q \in Reviewed(state) : p.ready /\ p.owner = q.owner

Sources(state) ==
    (UNION {{p.scope} \cup p.historical : p \in Reviewed(state)}) \ {Target}

Moved(S, state) == {IF s \in Sources(state) THEN Target ELSE s : s \in S}

\* The canonical project takes the keys and the Scopes of the others.
Canonical(state) ==
    [(CHOOSE p \in Reviewed(state) : p.scope = Target) EXCEPT
        !.key = Target, !.historical = Sources(state),
        !.aliases = (UNION {KeysOf(p) : p \in Reviewed(state)}) \ {Target}]
Unified(state) == (state.projects \ Reviewed(state)) \cup {Canonical(state)}

\* What a registration was granted moves along, with the right to read what was left.
Regranted(r, state) ==
    [r EXCEPT !.projects = Moved(@, state), !.scopes = Moved(@, state),
        !.historical = @ \cup UNION {p.historical :
            p \in {p \in Unified(state) : p.scope \in Moved(r.projects, state)}}]

Merged(state) ==
    [requests |-> {IF q.decision = "approved" THEN [q EXCEPT !.scopes = Moved(@, state)]
                   ELSE q : q \in state.requests},
     regs |-> [r \in DOMAIN state.regs |-> Regranted(state.regs[r], state)],
     projects |-> Unified(state)]

\* The operator keeps backups and lists the Pages that are to move.
Review ==
    /\ ~running /\ cli = NoCall /\ Mergeable(file)
    /\ plan' = [file |-> file, cards |-> cardScopes,
                pages |-> {<<p, placed[p].rev, placed[p].scope>> :
                              p \in {p \in DOMAIN placed : placed[p].scope \in Sources(file)}}]
    /\ UNCHANGED <<file, running, runtimeVars, placeVars, cardScopes, cli, begun, aborts, stops>>

IsMoved(t) == placed[t[1]] = [scope |-> Target, rev |-> t[2] + 1]
IsReady(t) == placed[t[1]] = [scope |-> t[3], rev |-> t[2]]

\* --confirm: the backups cover what is migrated, or what it has become already.
Prepare ==
    /\ ~running /\ cli = NoCall /\ plan # NoCall
    /\ Mergeable(file) /\ IsValid(Merged(file))
    /\ plan.file = file \/ (Mergeable(plan.file) /\ Merged(plan.file) = Merged(file))
    /\ plan.cards = cardScopes \/ Moved(plan.cards, file) = Moved(cardScopes, file)
    /\ \A t \in plan.pages : t[3] \in Sources(file) /\ (IsMoved(t) \/ IsReady(t))
    /\ cli' = [step |-> "transfer", original |-> file,
               transfers |-> {t \in plan.pages : IsReady(t)}, retire |-> Sources(file)]
    /\ begun' = TRUE
    /\ UNCHANGED <<file, running, runtimeVars, placeVars, cardScopes, plan, aborts, stops>>

\* transfer_page_scope: the exact head gets a Revision in the other Scope.
Transfer(t) ==
    /\ cli.step = "transfer" /\ t \in cli.transfers
    /\ IsReady(t) /\ Writable(Target)
    /\ placed' = [placed EXCEPT ![t[1]] = [scope |-> Target, rev |-> t[2] + 1]]
    /\ cli' = [cli EXCEPT !.transfers = @ \ {t}]
    /\ UNCHANGED <<file, running, runtimeVars, scopes, retired, cardScopes, plan, begun, aborts, stops>>

\* A fault: a Scope is retired with the Pages that came after the review.
RetireFull(s) ==
    /\ cli.step = "transfer" /\ cli.transfers = {} /\ s \in cli.retire
    /\ retired' = Put(retired, s, Target)
    /\ cli' = [cli EXCEPT !.retire = @ \ {s}]
    /\ UNCHANGED <<file, running, runtimeVars, scopes, placed, cardScopes, plan, begun, aborts, stops>>

\* retire_project_scope: of a Scope that no Page is in.
Retire(s) ==
    /\ cli.step = "transfer" /\ cli.transfers = {} /\ s \in cli.retire
    /\ \/ s \in DOMAIN retired /\ retired[s] = Target /\ UNCHANGED retired
       \/ /\ s \notin DOMAIN retired /\ Target \notin DOMAIN retired
          /\ \A p \in DOMAIN placed : placed[p].scope # s
          /\ retired' = Put(retired, s, Target)
    /\ cli' = [cli EXCEPT !.retire = @ \ {s}]
    /\ UNCHANGED <<file, running, runtimeVars, scopes, placed, cardScopes, plan, begun, aborts, stops>>

PublishContext ==
    /\ cli.step = "transfer" /\ cli.transfers = {} /\ cli.retire = {}
    /\ cardScopes' = Moved(cardScopes, cli.original)
    /\ cli' = [cli EXCEPT !.step = "publish"]
    /\ UNCHANGED <<file, running, runtimeVars, placeVars, plan, begun, aborts, stops>>

Publish ==
    /\ cli.step = "publish" /\ file = cli.original
    /\ file' = Merged(file) /\ cli' = NoCall /\ begun' = FALSE
    /\ UNCHANGED <<running, runtimeVars, placeVars, cardScopes, plan, aborts, stops>>

\* The command fails or dies; what it did stays.
Abort ==
    /\ cli # NoCall /\ aborts < MaxAborts /\ aborts' = aborts + 1 /\ cli' = NoCall
    /\ UNCHANGED <<file, running, runtimeVars, placeVars, cardScopes, plan, begun, stops>>

-----------------------------------------------------------------------------
EnrollmentNext ==
    \/ \E c \in PublicCalls :
          \/ \E client \in Clients : BeginEnrollment(c, client)
          \/ \E reg \in DOMAIN Regs : Open(c, reg)
          \/ Materialize(c) \/ Install(c) \/ Confirm(c) \/ CloseInactive(c) \/ Fail(c)
          \/ \E reg \in DOMAIN Regs, key \in Keys, existing \in Adoptable \cup {Nobody} :
                EnsureProjectScope(c, reg, key, existing)
          \/ Provision(c) \/ Grant(c)
    \/ \E q \in file.requests : Approve(q) \/ Reject(q) \/ Expire(q)
    \/ \E reg \in DOMAIN Regs : SetPolicy(reg) \/ Revoke(reg) \/ CloseRevoked(reg)
    \/ Stop \/ Start
    \/ \E s \in scopes : IngestEmbedded(s) \/ \E reg \in DOMAIN sessions : Ingest(reg, s)
    \/ Review \/ Prepare \/ PublishContext \/ Publish \/ Abort
    \/ cli # NoCall /\ \E t \in cli.transfers : Transfer(t)
    \/ cli # NoCall /\ \E s \in cli.retire : Retire(s)

EnrollmentSpec == EnrollmentInit /\ [][EnrollmentNext]_enrollmentVars

-----------------------------------------------------------------------------
(* Properties.                                                             *)

EnrollmentTypeOK ==
    /\ DOMAIN sessions \subseteq DOMAIN Regs /\ closing \subseteq DOMAIN Regs
    /\ holder \in PublicCalls \cup {Nobody}
    /\ holder # Nobody => inCall[holder].step \in {"provision", "grant"}
    /\ \A p \in DOMAIN placed : placed[p].scope \in scopes
    /\ DOMAIN retired \subseteq scopes

\* Whatever was stored last, the Runtime can start on it.
StateLoads == IsValid(file)

\* An endpoint of a revoked registration is open only while a call is on its way
\* to close it: an open that was overtaken, or the revocation itself.
RevokedIsClosed ==
    \A reg \in DOMAIN sessions :
        IsActive(reg) \/ reg \in closing
        \/ \E c \in DOMAIN inCall : inCall[c].step \in {"confirm", "close"} /\ inCall[c].reg = reg

\* A grant of a project is stored only for a Scope that exists, whatever crash came
\* between the binding, the Scope and the grant.
GrantIsProvisioned ==
    \A reg \in DOMAIN Regs : Regs[reg].projects \cup Regs[reg].historical \subseteq scopes

\* A Scope that is retired has no Page, and no project is registered to it unless a
\* merge was begun and is not finished: then repeating the command finishes it. Only a
\* client that names the Scope as its existingScope is not kept from it.
RetiredIsLeft ==
    /\ \A p \in DOMAIN placed : placed[p].scope \notin DOMAIN retired
    /\ begun \/ \A p \in Projects : p.scope \in DOMAIN retired => p.scope \in Adoptable
    /\ begun \/ cardScopes \cap DOMAIN retired = {}

\* The three of them: what was revoked, granted or merged is so for everybody.
AccessEnds == RevokedIsClosed /\ GrantIsProvisioned /\ RetiredIsLeft
=============================================================================
