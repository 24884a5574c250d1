------------------------- MODULE MCStoreOperations -------------------------
(* The parts of the store besides writes, in one run: the first state       *)
(* chooses which part works, and the others stay as they were made. What    *)
(* shows instead of a Page (routes), feedback about Revisions (feedback),   *)
(* Summaries and judgements (judgements); a stream of sources that is packed*)
(* (packs), also with repairs and retention (retention), notes that are     *)
(* written, leased and collected (notes); and a Store that is opened        *)
(* (opening). The cfg gives the constants of the three modules, those of    *)
(* Projections for routes and feedback and those of Storage for packs.      *)
EXTENDS Migration, Projections, Storage, TLC

VARIABLE component

Judged == INSTANCE Projections WITH Memories <- 1, MaxPages <- 3, MaxRevisions <- 5

Retention == INSTANCE Storage WITH
    MaxSources <- 3, MaxStoredPages <- 4, MaxStoredRevisions <- 5, MaxRelations <- 1, MaxTime <- 2,
    KeepRecent <- 1, MinimumAge <- 1, MaxGap <- 1
Notes == INSTANCE Storage WITH
    MaxSources <- 0, MaxStoredPages <- 2, MaxStoredRevisions <- 3, MaxRelations <- 0, MaxTime <- 1,
    KeepRecent <- 1, MinimumAge <- 1, MaxGap <- 1

\* Three Revisions on two Pages, the last ingested by the agent on its own, and
\* one that was packed away.
Ids == {"r1", "r2", "r3"}
Held == [r \in Ids |-> IF r = "r1" THEN "p" ELSE "q"]
InPack == [x \in {"g"} |-> "r2"]
Cites == LET cited == [r \in Ids |-> {<<"write", "g">>, <<"write", "lost">>}]
         IN {[cited EXCEPT !["r3"] = S] :
                S \in SUBSET {<<"ingest", "g">>, <<"write", "r1">>, <<"write", "r3">>}}
\* The text of the first mentions an image of the Store and one that is not, its
\* own Page, the Page of another Revision, and the one that was packed away.
Digests == [d \in {"d"} |-> "q"]
Texts == {[r \in Ids |-> IF r = "r1" THEN S ELSE {}] :
             S \in SUBSET {<<"image", "d">>, <<"image", "e">>, <<"page", "p">>, <<"revision", "r2">>, <<"revision", "g">>}}
Related == SUBSET {<<"related_to", "p", "q">>, <<"related_to", "q", "p">>, <<"references", "q", "p">>}

Shows == {"routes", "feedback", "judgements"}
Stores == {"packs", "retention", "notes"}

StoreInit ==
    /\ component \in Shows \cup Stores \cup {"opening"}
    /\ IF component = "judgements" THEN Judged!ProjectionInit ELSE ProjectionInit
    /\ CASE component = "retention" -> Retention!StorageInit
         [] component = "notes" -> Notes!StorageInit
         [] OTHER -> StorageInit
    /\ MigrationInit
    /\ component = "opening" \/ version = "none"

Shown_(c) == /\ component = c /\ UNCHANGED component
             /\ UNCHANGED storageVars /\ UNCHANGED migrationVars
Stored_(c) == /\ component = c /\ UNCHANGED component
              /\ UNCHANGED projectionVars /\ UNCHANGED migrationVars
Opening_ == /\ component = "opening" /\ UNCHANGED component
            /\ UNCHANGED projectionVars /\ UNCHANGED storageVars

StoreNext ==
    \/ Shown_("routes") /\ \E p \in DOMAIN pages : Edit(p)
    \/ Shown_("routes") /\ \E p \in DOMAIN pages : Archive(p)
    \/ Shown_("routes") /\ \E S \in SUBSET DOMAIN pages, t \in DOMAIN pages \cup {0} : ExtractTopic(S, t)
    \/ Shown_("routes") /\ \E S \in SUBSET {p \in DOMAIN pages : ActivePage(p)} :
          \E complete \in SUBSET S : \E both \in SUBSET complete : ConsolidatePages(S, complete, both, FALSE)
    \/ Shown_("routes") /\ \E r \in DOMAIN revs, new \in DOMAIN pages,
             d \in {"superseded", "retracted"} : ApplyReconciliation(0, r, d, new)
    \/ Shown_("feedback") /\ \E p \in DOMAIN pages : Edit(p)
    \/ Shown_("feedback") /\ \E R \in SUBSET DOMAIN revs : SubmitFeedback(R)
    \/ Shown_("feedback") /\ \E S \in SUBSET {p \in DOMAIN pages : ActivePage(p)} :
          \E both \in SUBSET S : ConsolidatePages(S, S, both, TRUE)
    \/ Shown_("feedback") /\ \E f \in DOMAIN signals \cup {0}, r \in DOMAIN revs, new \in DOMAIN pages,
             d \in {"no_source_change", "qualified", "superseded", "retracted"} :
          ApplyReconciliation(f, r, d, new)
    \/ Shown_("judgements") /\ \E p \in DOMAIN pages : Judged!Edit(p)
    \/ Shown_("judgements") /\ \E p \in DOMAIN pages : Judged!Archive(p)
    \/ Shown_("judgements") /\ \E p \in DOMAIN pages : Judged!Restore(p)
    \/ Shown_("judgements") /\ \E p \in DOMAIN pages : Judged!Delete(p)
    \/ Shown_("judgements") /\ \E r \in DOMAIN revs : Judged!WriteSummary(r)
    \/ Shown_("judgements") /\ \E r \in DOMAIN revs, s \in {"live", "retracted"} : Judged!AssessPageValidity(r, s)
    \/ Stored_("packs") /\ \E from \in {{}} \cup {{r} : r \in DOMAIN storedRevs} : Ingest(from)
    \/ Stored_("packs") /\ \E P \in SUBSET DOMAIN storedPages : PackPages(P)
    \/ Stored_("packs") /\ \E p \in DOMAIN storedPages : UnpackPage(p)
    \/ Stored_("packs") /\ \E p, q \in DOMAIN storedPages : Link(p, q)
    \/ Stored_("retention") /\ \E from \in {{}} \cup {{r} : r \in DOMAIN storedRevs} : Retention!Ingest(from)
    \/ Stored_("retention") /\ \E P \in SUBSET DOMAIN storedPages : Retention!PackPages(P)
    \/ Stored_("retention") /\ \E p \in DOMAIN storedPages : Retention!Repair(p)
    \/ Stored_("retention") /\ \E p \in DOMAIN storedPages : Retention!UnpackPage(p)
    \/ Stored_("retention") /\ \E p, q \in DOMAIN storedPages : Retention!Link(p, q)
    \/ Stored_("retention") /\ \E R \in SUBSET Retention!Candidates : Retention!Collect(R)
    \/ Stored_("retention") /\ Retention!TimePasses
    \/ Stored_("notes") /\ \E from \in {{}} \cup {{r} : r \in DOMAIN storedRevs} : Notes!WriteNote(from)
    \/ Stored_("notes") /\ \E p \in DOMAIN storedPages : Notes!Repair(p)
    \/ Stored_("notes") /\ \E p \in DOMAIN storedPages : Notes!DeletePage(p)
    \/ Stored_("notes") /\ \E p \in DOMAIN storedPages, table \in {"projection", "member"} : Notes!Refer(table, p)
    \/ Stored_("notes") /\ \E r \in DOMAIN storedRevs : Notes!PutLease(r, now + 1)
    \/ Stored_("notes") /\ \E R \in SUBSET Notes!Candidates : Notes!Collect(R)
    \/ Stored_("notes") /\ Notes!TimePasses
    \/ Opening_ /\ \E o \in Openers : Open(o)
    \/ Opening_ /\ \E o \in Openers : Inspect(o)
    \/ Opening_ /\ \E o \in Openers : InsertVersion(o)
    \/ Opening_ /\ \E o \in Openers : MigrateDraft(o)
    \/ Opening_ /\ \E o \in Openers : MigrateAssociations(o)
    \/ Opening_ /\ \E o \in Openers : AddTables(o)
    \/ Opening_ /\ \E o \in Openers : Consolidate(o)
    \/ Opening_ /\ \E o \in Openers : CreateTable(o)
    \/ Opening_ /\ \E o \in Openers : Stamp(o)
    \/ Opening_ /\ \E o \in Openers : OpenerDies(o)

StoreSpec == StoreInit /\ [][StoreNext]_<<component, projectionVars, storageVars, migrationVars>>

-----------------------------------------------------------------------------
(* The properties, each of the module that states it.                      *)

\* The tables of every part name what they are about (foreign keys, kinds and
\* heads), and an opener's steps are those of the version it read.
StoreTypeOK == ProjectionTypeOK /\ StorageTypeOK /\ MigrationTypeOK

Symmetry == Permutations(Openers)
=============================================================================
