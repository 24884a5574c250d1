---------------------------- MODULE VersionedPages ----------------------------
(***************************************************************************)
(* What the Page store promises about content, without saying how: every   *)
(* Page has a growing set of versions and a head.  One transaction gives a *)
(* new version to each of some Pages, a single one for an ordinary write   *)
(* and several for a derivation cascade, and that version becomes the      *)
(* head; or it archives one head or brings it back.  Versions are never    *)
(* shared, reused or removed, and a head never returns to a version that   *)
(* the Page already had.                                                   *)
(***************************************************************************)
CONSTANTS
    PageIds,      \* every Page there may be
    VersionIds,   \* every version there may be
    Standings,    \* the lifecycle statuses
    NoVersion, NoStanding   \* the head and standing of a Page not yet created

VARIABLES
    versions,     \* the versions each Page has had
    head,         \* the current one
    standing      \* its lifecycle status

avars == <<versions, head, standing>>

Used == UNION {versions[p] : p \in PageIds}

AInit ==
    /\ versions = [p \in PageIds |-> {}]
    /\ head = [p \in PageIds |-> NoVersion]
    /\ standing = [p \in PageIds |-> NoStanding]

\* One transaction publishes a version nobody had on every Page of S.
PublishOn(S) ==
    \E fresh \in [S -> VersionIds \ Used] :
        /\ \A p, q \in S : fresh[p] = fresh[q] => p = q
        /\ versions' = [p \in PageIds |-> IF p \in S THEN versions[p] \cup {fresh[p]}
                                          ELSE versions[p]]
        /\ head' = [p \in PageIds |-> IF p \in S THEN fresh[p] ELSE head[p]]
        /\ \A p \in PageIds : IF p \in S THEN standing'[p] \in Standings
                              ELSE standing'[p] = standing[p]

Govern(p) ==
    /\ standing[p] \in {"active", "archived"}
    /\ standing' = [standing EXCEPT ![p] = IF @ = "active" THEN "archived" ELSE "active"]
    /\ UNCHANGED <<versions, head>>

ANext == \/ \E S \in SUBSET PageIds : PublishOn(S)
         \/ \E p \in PageIds : Govern(p)

ASpec == AInit /\ [][ANext]_avars
=============================================================================
