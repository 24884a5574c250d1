----------------------------- MODULE Migration -----------------------------
(***************************************************************************)
(* How a Store is opened: schema::initialize and the migrations it runs.   *)
(* A new Store is given its version and then its tables; an older one is   *)
(* brought to clean.4 by the migration of its version and from there to    *)
(* the current version, each in a transaction of its own; then the tables  *)
(* that are still missing are created.  Several processes may open the     *)
(* same Store at once, each acting on the version it read at the start,    *)
(* and any of them may die between two of its transactions.                *)
(***************************************************************************)
EXTENDS Integers, Sequences, FiniteSets

CONSTANTS
  Openers,     \* the processes that open the Store
  Revisions,   \* the Revisions an older Store holds
  PageOf,      \* [Revisions -> Pages]
  PackOf,      \* [packed-away Revision ids -> the Revision of the pack that holds each]
  Autonomous,  \* Revisions the legacy agent ingested on its own, with exposed context
  Citations,   \* what an older Store's provenance may cite: functions from Revisions
               \* to sets of <<operation, Revision id>>
  Mentions,    \* what the content may mention: functions from Revisions to sets of
               \* <<form, name>>: an "image" by its digest, an input by its "page" or "revision"
  ImageOf,     \* [digests -> the image Page whose current Revision carries each]
  Links,       \* the relations an older Store may hold: sets of <<type, from, to>>
  Stored,      \* the versions the Store may have before ("none": a new file)
  MaxDeaths

ASSUME MigrationAssumption == \A x \in DOMAIN PackOf : PackOf[x] \in Revisions

Tables == <<"base", "topics", "governance", "feedback", "consolidations">>
Legacy == <<"draft", "clean", "clean.1", "clean.2", "clean.3">>
Current == "clean.6"
Idle == [step |-> "idle"]

VARIABLES
  version,    \* schema_version of pcp_metadata, or "none"
  tables,     \* the groups of tables that exist
  contract,   \* do the projection tables have the shape of the contract
  inputs,     \* [Revisions -> provenance: <<operation, Revision id>>]
  index,      \* pcp_provenance_inputs: <<derived, input>>
  mentions,   \* [Revisions -> what the content still mentions in the old form]
  pointers,   \* [Revisions -> the Pages it names by identity]
  relations,  \* relations: <<type, from, to>> with the ones retracted
  telemetry,  \* is there an access log of before
  first,      \* what the Store was: history, for the properties
  opener,     \* [Openers -> how far each has come]
  deaths

store == <<tables, contract, inputs, index, mentions, pointers, relations, telemetry>>
migrationVars == <<version, store, first, opener, deaths>>

Pages == {PageOf[r] : r \in Revisions}   \* each with a head
Active == relations.all \ relations.retracted

(* normalize_provenance: an input that is no Revision of the Store is the  *)
(* pack that holds it, or nothing; a Revision never derives from itself.   *)
Resolve(x) == IF x \in Revisions THEN {x} ELSE IF x \in DOMAIN PackOf THEN {PackOf[x]} ELSE {}

\* A fault: an input that was packed away is dropped.
OnlyRevisions(cited) ==
  [r \in Revisions |-> {c \in cited[r] : c[2] \in Revisions \ {r}}]

Normalized(cited) ==
  [r \in Revisions |-> {e \in UNION {{c[1]} \X Resolve(c[2]) : c \in cited[r]} : e[2] # r}]

(* clean_legacy_context_exposure: what the agent merely had in its context *)
(* when it ingested something on its own is no input of it.                *)
Unexposed(cited) ==
  [r \in Revisions |-> IF r \in Autonomous THEN {c \in cited[r] : c[1] # "ingest"} ELSE cited[r]]

(* rebuild_provenance_inputs *)
Indexed(cited) == UNION {{r} \X {c[2] : c \in cited[r]} : r \in Revisions}

(* image_target_for_part, reference_target_for_part: an image is looked up *)
(* by its digest, an input by the Page or the Revision it names, which may *)
(* no longer be in the Store.                                              *)
Targets(m) ==
  {p \in Pages : \/ m[1] = "image" /\ m[2] \in DOMAIN ImageOf /\ p = ImageOf[m[2]]
                 \/ m[1] = "page" /\ p = m[2]
                 \/ m[1] = "revision" /\ m[2] \in Revisions /\ p = PageOf[m[2]]}
Found(mentioned) == UNION {Targets(m) : m \in mentioned}

(* insert_reference_relations: one active reference for a mention, unless  *)
(* there is one.                                                           *)
Referenced(links) ==
  LET wanted == {<<"references", PageOf[r], p>> : r \in Revisions, p \in Pages}
      named == {w \in wanted : w[2] # w[3] /\ \E r \in Revisions : PageOf[r] = w[2] /\ w[3] \in Found(mentions[r])}
  IN [all |-> links.all \cup named, retracted |-> links.retracted \ named]

(* retract_redundant_related_relations *)
Pruned(links) ==
  LET active == links.all \ links.retracted
      redundant == {l \in active : l[1] = "related_to"
                      /\ (<<"references", l[2], l[3]>> \in active \/ <<"references", l[3], l[2]>> \in active)}
  IN [links EXCEPT !.retracted = @ \cup redundant]

(* rebuild_contract_tables: its statements fail on tables of the new shape *)
RebuildContractTables == ~contract /\ contract' = TRUE

\* A fault: what is not found is dropped, images too.
DropUnfound ==
  /\ pointers' = [r \in Revisions |-> pointers[r] \cup Found(mentions[r])]
  /\ mentions' = [r \in Revisions |-> {}]

(* normalize_revision_content: a Page that is found is named by identity.  *)
(* An image that is not found stays as it was; an input that is not found  *)
(* is stripped of its name.                                                *)
NormalizeRevisionContent ==
  /\ pointers' = [r \in Revisions |-> pointers[r] \cup Found(mentions[r])]
  /\ mentions' = [r \in Revisions |-> {m \in mentions[r] : m[1] = "image" /\ Targets(m) = {}}]

At(o, step) == opener[o].step = step
To(o, step) == opener' = [opener EXCEPT ![o].step = step]
Fail(o) == opener' = [opener EXCEPT ![o] = Idle]

(* The metadata table is there or created; the version is read once.       *)
Open(o) ==
  /\ opener[o] = Idle
  /\ opener' = [opener EXCEPT ![o] = [read |-> version, step |->
       CASE version = "none" -> "inspect"
         [] version \in {Legacy[n] : n \in DOMAIN Legacy} -> "migrate"
         [] version = "clean.4" -> "consolidate"
         [] OTHER -> "tables"]]
  /\ UNCHANGED <<version, store, first, deaths>>

(* A file without a version must not hold tables of PCP.                   *)
Inspect(o) ==
  /\ At(o, "inspect")
  /\ IF tables = {} THEN To(o, "insert") ELSE Fail(o)
  /\ UNCHANGED <<version, store, first, deaths>>

InsertVersion(o) ==
  /\ At(o, "insert")
  /\ IF version = "none" THEN version' = Current /\ To(o, "tables") ELSE Fail(o) /\ UNCHANGED version
  /\ UNCHANGED <<store, first, deaths>>

(* migrate_draft_to_clean.  A Store whose tables have the new shape makes  *)
(* its statements fail, and the transaction is rolled back.                *)
MigrateDraft(o) ==
  /\ At(o, "migrate") /\ opener[o].read = "draft"
  /\ IF contract THEN Fail(o) /\ UNCHANGED <<version, store>>
     ELSE /\ RebuildContractTables
          /\ inputs' = Unexposed(Normalized(inputs))
          /\ index' = Indexed(inputs')
          /\ NormalizeRevisionContent
          /\ relations' = Pruned(Referenced(relations))
          /\ telemetry' = FALSE
          /\ version' = "clean.4" /\ To(o, "consolidate")
          /\ UNCHANGED tables
  /\ UNCHANGED <<first, deaths>>

(* migrate_clean_associations *)
MigrateAssociations(o) ==
  /\ At(o, "migrate") /\ opener[o].read = "clean"
  /\ inputs' = Unexposed(inputs)
  /\ index' = Indexed(inputs')
  /\ relations' = Pruned(relations)
  /\ version' = "clean.4" /\ To(o, "consolidate")
  /\ UNCHANGED <<tables, contract, mentions, pointers, telemetry, first, deaths>>

(* The later ones add the tables of one part.                              *)
Added(v) == CASE v = "clean.1" -> "topics" [] v = "clean.2" -> "governance" [] v = "clean.3" -> "feedback"

AddTables(o) ==
  /\ At(o, "migrate") /\ opener[o].read \in {"clean.1", "clean.2", "clean.3"}
  /\ tables' = tables \cup {Added(opener[o].read)}
  /\ version' = "clean.4" /\ To(o, "consolidate")
  /\ UNCHANGED <<contract, inputs, index, mentions, pointers, relations, telemetry, first, deaths>>

(* migrate_clean_consolidations *)
Consolidate(o) ==
  /\ At(o, "consolidate")
  /\ tables' = tables \cup {"consolidations"}
  /\ version' = Current /\ To(o, "tables")
  /\ UNCHANGED <<contract, inputs, index, mentions, pointers, relations, telemetry, first, deaths>>

(* CREATE TABLE IF NOT EXISTS, one after the other, each for itself.       *)
CreateTable(o) ==
  /\ At(o, "tables")
  /\ LET missing == {n \in DOMAIN Tables : Tables[n] \notin tables}
     IN IF missing = {} THEN To(o, "stamp") /\ UNCHANGED tables
        ELSE /\ tables' = tables \cup {Tables[CHOOSE n \in missing : \A m \in missing : n <= m]}
             /\ UNCHANGED opener
  /\ contract' = (contract \/ "base" \notin tables)
  /\ UNCHANGED <<version, inputs, index, mentions, pointers, relations, telemetry, first, deaths>>

(* The version is set once more, whatever it was.                          *)
Stamp(o) ==
  /\ At(o, "stamp")
  /\ version' = Current /\ To(o, "open")
  /\ UNCHANGED <<store, first, deaths>>

OpenerDies(o) ==
  /\ opener[o] # Idle /\ deaths < MaxDeaths
  /\ deaths' = deaths + 1
  /\ Fail(o)
  /\ UNCHANGED <<version, store, first>>

Before(v) == CHOOSE n \in DOMAIN Legacy : Legacy[n] = v
IsLegacy(v) == \E n \in DOMAIN Legacy : Legacy[n] = v
NothingCited == [r \in Revisions |-> {}]

(* What an older Store may hold: a draft anything its program wrote; from  *)
(* clean on, inputs are Revisions and images alone may be mentioned in the *)
(* old form; from clean.1 on, the exposed context and the redundant        *)
(* relations are gone.                                                     *)
MigrationInit ==
  /\ version \in Stored
  /\ tables = IF version = "none" THEN {}
              ELSE {"base"} \cup {Tables[n] : n \in {m \in 2..5 :
                     IF IsLegacy(version) THEN m + 1 < Before(version) ELSE m < 5 \/ version # "clean.4"}}
  /\ contract = (version \notin {"none", "draft"})
  /\ \E cited \in Citations, mentioned \in Mentions, links \in Links :
       /\ inputs = IF version = "draft" THEN cited
                   ELSE IF version = "clean" THEN Normalized(cited)
                   ELSE IF version = "none" THEN NothingCited ELSE Unexposed(Normalized(cited))
       /\ mentions = CASE version = "draft" -> mentioned
                       [] version = "none" -> NothingCited
                       [] OTHER -> [r \in Revisions |-> {m \in mentioned[r] : m[1] = "image"}]
       /\ LET all == [all |-> links, retracted |-> {}]
          IN relations = CASE version = "none" -> [all |-> {}, retracted |-> {}]
                           [] version \in {"draft", "clean"} -> all
                           [] OTHER -> Pruned(all)
  /\ index = Indexed(inputs)
  /\ pointers = NothingCited
  /\ telemetry = (version = "draft")
  /\ first = [version |-> version, inputs |-> inputs, mentions |-> mentions, active |-> relations.all \ relations.retracted]
  /\ opener = [o \in Openers |-> Idle]
  /\ deaths = 0

MigrationNext ==
  \/ \E o \in Openers : Open(o)
  \/ \E o \in Openers : Inspect(o)
  \/ \E o \in Openers : InsertVersion(o)
  \/ \E o \in Openers : MigrateDraft(o)
  \/ \E o \in Openers : MigrateAssociations(o)
  \/ \E o \in Openers : AddTables(o)
  \/ \E o \in Openers : Consolidate(o)
  \/ \E o \in Openers : CreateTable(o)
  \/ \E o \in Openers : Stamp(o)
  \/ \E o \in Openers : OpenerDies(o)

MigrationSpec == MigrationInit /\ [][MigrationNext]_migrationVars

(* An opener that failed is started again, and one that runs goes on.      *)
MigrationFairness == \A o \in Openers :
  WF_migrationVars(\/ Open(o) \/ Inspect(o) \/ InsertVersion(o) \/ MigrateDraft(o) \/ MigrateAssociations(o)
                   \/ AddTables(o) \/ Consolidate(o) \/ CreateTable(o) \/ Stamp(o))

----------------------------------------------------------------------------
IsOpen(o) == At(o, "open")

(* The steps of an opener are those of the version it read, the index      *)
(* cites what the provenance cites, and only what was there is retracted.  *)
MigrationTypeOK ==
  /\ version \in Stored \cup {"clean.4", Current}
  /\ tables \subseteq {Tables[n] : n \in DOMAIN Tables}
  /\ relations.retracted \subseteq relations.all
  /\ version # "draft" => index = Indexed(inputs) /\ ~telemetry
  /\ \A o \in Openers :
       \/ opener[o] = Idle
       \/ opener[o].step \in {"inspect", "insert", "migrate", "consolidate", "tables", "stamp", "open"}
          /\ opener[o].step = "migrate" => IsLegacy(opener[o].read)

(* Whoever opens the Store finds it whole: every table there, in the shape *)
(* of the contract, and nothing left of the old content but images that no *)
(* Page of the Store is, whatever other openers did to it meanwhile and    *)
(* wherever an earlier one died.                                           *)
FoundWhole ==
  (\E o \in Openers : IsOpen(o)) =>
    /\ tables = {Tables[n] : n \in DOMAIN Tables} /\ contract
    /\ version \in {"clean.4", Current}
    /\ \A r \in Revisions :
         /\ \A m \in mentions[r] : m[1] = "image" /\ (first.version = "draft" => Targets(m) = {})
         /\ \A c \in inputs[r] : c[2] \in Revisions \ {r} /\ ~(r \in Autonomous /\ c[1] = "ingest")
    /\ \A l \in Active : l[1] = "related_to" =>
         <<"references", l[2], l[3]>> \notin Active /\ <<"references", l[3], l[2]>> \notin Active

(* The migrations lose nothing and make nothing up: a Revision still cites *)
(* what it cited, by the pack that holds it now; only what the agent was   *)
(* exposed to is gone; a mention of a Page of the Store has become an      *)
(* active reference, any other of an image stands, and only an input that  *)
(* is not in the Store has lost its name; and a relation is lost only to a *)
(* reference between the same Pages.                                       *)
NothingIsLost ==
  (\E o \in Openers : IsOpen(o)) =>
    /\ \A r \in Revisions :
         /\ \A c \in first.inputs[r] : \A x \in Resolve(c[2]) \ {r} :
              <<c[1], x>> \in inputs[r] \/ (r \in Autonomous /\ c[1] = "ingest")
         /\ \A c \in inputs[r] : \E d \in first.inputs[r] : d[1] = c[1] /\ c[2] \in Resolve(d[2])
         /\ \A m \in first.mentions[r] :
              \/ m \in mentions[r] /\ m[1] = "image"
              \/ m[1] # "image" /\ Targets(m) = {}
              \/ \E p \in Targets(m) \cap pointers[r] :
                    p = PageOf[r] \/ <<"references", PageOf[r], p>> \in Active
         /\ mentions[r] \subseteq first.mentions[r] /\ pointers[r] \subseteq Found(first.mentions[r])
    /\ \A l \in first.active \ Active :
         <<"references", l[2], l[3]>> \in Active \/ <<"references", l[3], l[2]>> \in Active
    /\ \A l \in Active \ first.active : \E r \in Revisions :
         l[1] = "references" /\ l[2] = PageOf[r] /\ l[3] \in Found(first.mentions[r])

(* Whoever opens the Store finds it whole, and all that was in it.         *)
OpenStoreIsWhole == FoundWhole /\ NothingIsLost

(* A Store of a known version can be opened: an opener that keeps trying   *)
(* comes to the end, although another's migration may make its own fail.   *)
OpensInTheEnd == \A o \in Openers : <>IsOpen(o)
============================================================================
