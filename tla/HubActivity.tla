---------------------------- MODULE HubActivity ----------------------------
(***************************************************************************)
(* The handoff cards of the Context Hub: what a client's windows publish,  *)
(* what they may reclaim, and how a reader pages through them.  Every call *)
(* runs under the lock of the hub's file and saves it at most once, so a   *)
(* call is one step; what interleaves are the calls of several windows,    *)
(* the operator's removals, policies and grants, the expiry of cards, and  *)
(* the offline merge of one Scope into another.                            *)
(*                                                                         *)
(* A digest stands for what it digests: a cursor is the snapshot it names. *)
(***************************************************************************)
EXTENDS Integers, Sequences, FiniteSets, Functions

CONSTANTS
  Windows,        \* the windows that talk to the hub
  Client,         \* [Windows -> clients]: windows of one connection share one
  Topics,         \* topic keys
  CardScopes,         \* CardScopes
  Texts,          \* summaries of a card
  ClientGrants,         \* the permissions a client may be given: sets of <<permission, Scope>>
  Queries,        \* the queries readers ask
  Order,          \* the order of card identities, [keys -> Nat]
  TopicsPerScope, \* MAX_TOPICS_PER_CLIENT_SCOPE
  MaxCards,       \* MAX_CARDS
  Limit,          \* cards of one page of an answer
  Lifetimes,      \* lifetimes a publisher asks for
  Merges,         \* <<source, target>> pairs of CardScopes the reconciliation may merge
  MaxSequence, MaxTime, MaxChanges   \* bounds: versions, the clock, decisions of the operator

ActivityClients == Range(Client)
CardKeys == ActivityClients \X Topics

\* Windows have clients, no two identities are at one place of the order, limits
\* and lifetimes leave room for a card, and Scopes are merged into Scopes.
ASSUME ActivityAssumption ==
  /\ DOMAIN Client = Windows
  /\ \A k \in CardKeys : Order[k] \in Nat
  /\ \A j, k \in CardKeys : Order[j] = Order[k] => j = k
  /\ {Limit, TopicsPerScope, MaxCards} \cup Lifetimes \subseteq Nat \ {0}
  /\ Merges \subseteq CardScopes \X CardScopes

CardStatuses == {"open", "completed"}
Unknown == "unknown"     \* a card without a status
Omitted == "omitted"     \* a publication that names no status
NoWalk == [page |-> 0]

VARIABLES
  cards,      \* the cards that have not expired, by key
  sequence,   \* the version of the last publication
  policies,   \* [ActivityClients -> which of publish and read the operator has enabled]
  granted,    \* [ActivityClients -> their permissions]
  known,      \* [Windows -> what each last saw of its client's own cards]
  walk,       \* [Windows -> the answer it is paging through]
  now, changes

activityVars == <<cards, sequence, policies, granted, known, walk, now, changes>>

May(c, permission, s) == <<permission, s>> \in granted[c]

InScope(c, s) == {k \in DOMAIN cards : k[1] = c /\ cards[k].scope = s}

(* A fault: every other card of the client may be reclaimed.               *)
AnyOther(k) == {j \in DOMAIN cards : j[1] = k[1] /\ j # k}

(* Reclaiming: the client's other cards it has declared completed, those   *)
(* of the Scope first, the oldest first.                                   *)
Completed(k) == {j \in DOMAIN cards : j[1] = k[1] /\ j # k /\ cards[j].status = "completed"}

Sooner(s, i, j) ==
  LET rank(x) == <<IF cards[x].scope = s THEN 0 ELSE 1, cards[x].at, Order[x]>>
      a == rank(i)
      b == rank(j)
  IN \E n \in 1..3 : a[n] < b[n] /\ \A m \in 1..(n - 1) : a[m] = b[m]

First(s, S, n) == {j \in S : Cardinality({i \in S : Sooner(s, i, j)}) < n}

Excess(count, capacity) == IF count < capacity THEN 0 ELSE count - capacity + 1

ReclaimedInScope(k, s) ==
  IF k \in DOMAIN cards /\ cards[k].scope = s THEN {}
  ELSE First(s, Completed(k) \cap InScope(k[1], s), Excess(Cardinality(InScope(k[1], s)), TopicsPerScope))

Reclaimed(k, s) ==
  LET inScope == ReclaimedInScope(k, s)
  IN IF k \in DOMAIN cards THEN inScope
     ELSE inScope \cup First(s, Completed(k) \ inScope,
                             Excess(Cardinality(DOMAIN cards) - Cardinality(inScope), MaxCards))

Admitted(k, s) ==
  /\ \/ k \in DOMAIN cards /\ cards[k].scope = s
     \/ Cardinality(InScope(k[1], s) \ ReclaimedInScope(k, s)) < TopicsPerScope
  /\ k \in DOMAIN cards \/ Cardinality(DOMAIN cards \ Reclaimed(k, s)) < MaxCards

Stated(k, status) ==
  IF status # Omitted THEN status ELSE IF k \in DOMAIN cards THEN cards[k].status ELSE Unknown

Same(k, s, text, status) ==
  /\ k \in DOMAIN cards
  /\ cards[k].scope = s /\ cards[k].text = text /\ cards[k].status = Stated(k, status)

Seen(card) == [version |-> card.version, text |-> card.text, status |-> card.status]

Note(w, k, card) ==
  known' = [known EXCEPT ![w] = [t \in DOMAIN @ \cup {k[2]} |-> IF t = k[2] THEN Seen(card) ELSE @[t]]]

MayPublish(k, s) ==
  /\ "publish" \in policies[k[1]]
  /\ May(k[1], "Ingest", s)
  /\ k \in DOMAIN cards => May(k[1], "Ingest", cards[k].scope)

(* publish, of content the card does not hold yet.  The window names the   *)
(* version it knows, or none; the reply may be lost on its way.            *)
PublishActivity(w, t, s, text, status, life, told) ==
  LET k == <<Client[w], t>>
      card == [scope |-> s, text |-> text, status |-> Stated(k, status), version |-> sequence + 1,
               at |-> now, expires |-> now + life]
  IN /\ sequence < MaxSequence
     /\ MayPublish(k, s) /\ ~Same(k, s, text, status)
     /\ k \in DOMAIN cards => t \in DOMAIN known[w] /\ known[w][t].version = cards[k].version
     /\ Admitted(k, s)
     /\ sequence' = sequence + 1
     /\ cards' = [j \in (DOMAIN cards \ Reclaimed(k, s)) \cup {k} |-> IF j = k THEN card ELSE cards[j]]
     /\ IF told THEN Note(w, k, card) ELSE UNCHANGED known
     /\ UNCHANGED <<policies, granted, walk, now, changes>>

(* publish, of what the card already says: nothing is written, its         *)
(* lifetime stays, and the receipt names the version.                      *)
Republish(w, t, s, text, status) ==
  LET k == <<Client[w], t>>
  IN /\ MayPublish(k, s) /\ Same(k, s, text, status)
     /\ Note(w, k, cards[k])
     /\ UNCHANGED <<cards, sequence, policies, granted, walk, now, changes>>

(* activity: the cards a query shows a client, newest first, or each Scope *)
(* in turn when the query names neither a Scope nor a word.                *)
Matches(c, q, k) ==
  /\ May(c, "ReadDetail", cards[k].scope)
  /\ q.scopes = {} \/ cards[k].scope \in q.scopes
  /\ q.own \/ k[1] # c
  /\ "publish" \in policies[k[1]]
  /\ q.words = {} \/ cards[k].text \in q.words

Newer(i, j) == cards[i].at > cards[j].at \/ (cards[i].at = cards[j].at /\ Order[i] < Order[j])

Visible(c, q) ==
  LET shown == {k \in DOMAIN cards : Matches(c, q, k)}
      turn(k) == IF q.scopes = {} /\ q.words = {}
                 THEN Cardinality({j \in shown : cards[j].scope = cards[k].scope /\ Newer(j, k)}) ELSE 0
      before(i, j) == turn(i) < turn(j) \/ (turn(i) = turn(j) /\ Newer(i, j))
      place(k) == 1 + Cardinality({j \in shown : before(j, k)})
      item(k) == [key |-> k, card |-> cards[k]]
  IN [n \in 1..Cardinality(shown) |-> item(CHOOSE k \in shown : place(k) = n)]

Cursor(c, q) == [client |-> c, granted |-> granted[c], query |-> q, visible |-> Visible(c, q)]

Slice(s, from) == SubSeq(s, from + 1, IF from + Limit < Len(s) THEN from + Limit ELSE Len(s))

(* A window remembers what the items say of its client's own cards.        *)
Learn(w, items) ==
  LET own == {i \in Range(items) : i.key[1] = Client[w]}
      told(t) == {i \in own : i.key[2] = t}
  IN known' = [known EXCEPT ![w] =
       [t \in DOMAIN @ \cup {i.key[2] : i \in own} |->
         IF told(t) = {} THEN @[t] ELSE Seen((CHOOSE i \in told(t) : TRUE).card)]]

MayRead(c, q) ==
  /\ "read" \in policies[c]
  /\ \A s \in q.scopes : May(c, "ReadDetail", s)

(* The token of the next page names the offset and the whole snapshot; 0   *)
(* stands for no next page.                                                *)
Following(visible, from) == IF from + Limit < Len(visible) THEN from + Limit ELSE 0

(* A first page.  A reader that names the cursor of what it holds is told  *)
(* that nothing has changed instead, and keeps it.                         *)
ReadActivity(w, q, checks) ==
  LET c == Client[w]
      cursor == Cursor(c, q)
      items == Slice(cursor.visible, 0)
  IN /\ MayRead(c, q)
     /\ checks => walk[w].page > 0
     /\ IF checks /\ walk[w].cursor = cursor
          THEN UNCHANGED <<walk, known>>
          ELSE /\ walk' = [walk EXCEPT ![w] = [page |-> 1, cursor |-> cursor, items |-> items,
                                               next |-> Following(cursor.visible, 0)]]
               /\ Learn(w, items)
     /\ UNCHANGED <<cards, sequence, policies, granted, now, changes>>

(* A fault: a page follows whatever the hub shows by now.                  *)
OnlyOffset(cursor, token, offset) == offset \in 1..(Len(cursor.visible) - 1) /\ offset % Limit = 0

ValidToken(cursor, token, offset) == /\ token = cursor
                                     /\ offset \in 1..(Len(cursor.visible) - 1)
                                     /\ offset % Limit = 0

(* A following page, with the query and the token of the one before.  A    *)
(* token whose snapshot is gone is refused, and the reader starts again.   *)
Continue(w) ==
  LET c == Client[w]
      held == walk[w]
      cursor == Cursor(c, held.cursor.query)
      items == Slice(cursor.visible, held.next)
  IN /\ held.page > 0 /\ held.next > 0
     /\ IF MayRead(c, held.cursor.query) /\ ValidToken(cursor, held.cursor, held.next)
          THEN /\ walk' = [walk EXCEPT ![w].page = @ + 1, ![w].items = @ \o items,
                                       ![w].next = Following(cursor.visible, held.next)]
               /\ Learn(w, items)
          ELSE walk' = [walk EXCEPT ![w] = NoWalk] /\ UNCHANGED known
     /\ UNCHANGED <<cards, sequence, policies, granted, now, changes>>

(* RemoveActivity, by the operator, of the version it was shown.           *)
RemoveCard(k) ==
  /\ k \in DOMAIN cards /\ changes < MaxChanges
  /\ cards' = Restrict(cards, DOMAIN cards \ {k})
  /\ changes' = changes + 1
  /\ UNCHANGED <<sequence, policies, granted, known, walk, now>>

(* SetClientPolicy, by the operator: the policy of the client is replaced.       *)
SetClientPolicy(c, policy) ==
  /\ policy # policies[c] /\ changes < MaxChanges
  /\ policies' = [policies EXCEPT ![c] = policy]
  /\ changes' = changes + 1
  /\ UNCHANGED <<cards, sequence, granted, known, walk, now>>

(* The enrollment gives a client other permissions.                        *)
Regrant(c, grant) ==
  /\ grant # granted[c] /\ changes < MaxChanges
  /\ granted' = [granted EXCEPT ![c] = grant]
  /\ changes' = changes + 1
  /\ UNCHANGED <<cards, sequence, policies, known, walk, now>>

(* The offline reconciliation moves the cards of a Scope to another one    *)
(* with their identities, contents, versions and expiry.                   *)
Merge(source, target) ==
  /\ \E k \in DOMAIN cards : cards[k].scope = source
  /\ cards' = [k \in DOMAIN cards |-> IF cards[k].scope = source
                                        THEN [cards[k] EXCEPT !.scope = target] ELSE cards[k]]
  /\ UNCHANGED <<sequence, policies, granted, known, walk, now, changes>>

(* Time passes.  Every call first drops the cards that have expired by     *)
(* then, saved or not, so no call sees one: they go with the clock.        *)
Tick ==
  /\ now < MaxTime
  /\ now' = now + 1
  /\ cards' = Restrict(cards, {k \in DOMAIN cards : cards[k].expires > now'})
  /\ UNCHANGED <<sequence, policies, granted, known, walk, changes>>

ActivityInit ==
  /\ cards = [k \in {} |-> 0]
  /\ sequence = 0
  /\ policies = [c \in ActivityClients |-> {"publish", "read"}]
  /\ granted \in [ActivityClients -> ClientGrants]
  /\ known = [w \in Windows |-> [t \in {} |-> 0]]
  /\ walk = [w \in Windows |-> NoWalk]
  /\ now = 0 /\ changes = 0

ActivityNext ==
  \/ \E w \in Windows, t \in Topics, s \in CardScopes, text \in Texts, status \in CardStatuses \cup {Omitted},
        life \in Lifetimes, told \in BOOLEAN : PublishActivity(w, t, s, text, status, life, told)
  \/ \E w \in Windows, t \in Topics, s \in CardScopes, text \in Texts, status \in CardStatuses \cup {Omitted} :
        Republish(w, t, s, text, status)
  \/ \E w \in Windows, q \in Queries, checks \in BOOLEAN : ReadActivity(w, q, checks)
  \/ \E w \in Windows : Continue(w)
  \/ \E k \in CardKeys : RemoveCard(k)
  \/ \E c \in ActivityClients, policy \in SUBSET {"publish", "read"} : SetClientPolicy(c, policy)
  \/ \E c \in ActivityClients, grant \in ClientGrants : Regrant(c, grant)
  \/ \E pair \in Merges : Merge(pair[1], pair[2])
  \/ Tick

ActivitySpec == ActivityInit /\ [][ActivityNext]_activityVars

----------------------------------------------------------------------------
(* Every card has a version the hub has given out, no two the same, and    *)
(* has not expired; there are never more cards than the hub has room for.  *)
ActivityTypeOK ==
  /\ DOMAIN cards \subseteq CardKeys /\ Cardinality(DOMAIN cards) <= MaxCards
  /\ \A k \in DOMAIN cards :
       cards[k] \in [scope : CardScopes, text : Texts, status : CardStatuses \cup {Unknown}, version : 1..sequence,
                     at : 0..now, expires : Nat]
  /\ \A k \in DOMAIN cards : cards[k].expires > now
  /\ \A j, k \in DOMAIN cards : cards[j].version = cards[k].version => j = k
  /\ policies \in [ActivityClients -> SUBSET {"publish", "read"}] /\ granted \in [ActivityClients -> ClientGrants]
  /\ \A w \in Windows : walk[w] = NoWalk \/ walk[w].next \in 0..Len(walk[w].cursor.visible)

(* A version names one content: what a window remembers under the version  *)
(* a card has now is what that card says now, whatever was removed,        *)
(* expired, reclaimed, published again or merged in between.  Otherwise a  *)
(* window could overwrite a handoff it has never read.                     *)
VersionNamesContent ==
  \A w \in Windows : \A t \in DOMAIN known[w] :
    LET k == <<Client[w], t>>
    IN k \in DOMAIN cards /\ cards[k].version = known[w][t].version => known[w][t] = Seen(cards[k])

(* The pages a reader has appended are a prefix of the one snapshot its    *)
(* first page began, all of it once the last page has come: no card is     *)
(* missed, shown twice or taken from a later state of the hub.             *)
WalkIsOneSnapshot ==
  \A w \in Windows : walk[w].page > 0 =>
    /\ walk[w].items = SubSeq(walk[w].cursor.visible, 1, Len(walk[w].items))
    /\ walk[w].next = 0 => walk[w].items = walk[w].cursor.visible

(* A publication takes no live card but completed ones of the publisher,   *)
(* and none of them while the hub and the Scope still had room.            *)
OthersKept ==
  [][sequence' # sequence =>
       \E k \in DOMAIN cards' :
         /\ cards'[k].version = sequence'
         /\ LET gone == DOMAIN cards \ DOMAIN cards'
            IN /\ \A j \in gone : j[1] = k[1] /\ cards[j].status = "completed"
               /\ gone # {} => \/ Cardinality(DOMAIN cards') = MaxCards
                               \/ Cardinality({j \in DOMAIN cards' : j[1] = k[1] /\ cards'[j].scope = cards'[k].scope})
                                    >= TopicsPerScope]_activityVars

(* What readers and publishers of handoffs are promised together.          *)
HandoffsRead == [](VersionNamesContent /\ WalkIsOneSnapshot) /\ OthersKept

(* What integrations/RUNTIME_CONTEXT.md:128 says of the cards of a client: *)
(* at most twelve of them in a Scope. A merge of Scopes does not keep it.  *)
TwelvePerScope ==
  \A c \in ActivityClients, s \in CardScopes :
    Cardinality({k \in DOMAIN cards : k[1] = c /\ cards[k].scope = s}) <= TopicsPerScope
============================================================================
