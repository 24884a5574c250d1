----------------------------- MODULE MCPageStore -----------------------------
(* Four small stores in one run: the first state chooses one of them, and   *)
(* with it the operations that are called and how far the tables may grow.  *)
EXTENDS PageStore

VARIABLE store

Stores == [
  updates   |-> [calls |-> {"write_page", "ingest_page", "revise_page", "repair_page", "delete_page",
                            "archive_page", "restore_archived_page"},
                 keys |-> Keys, types |-> {}, inputs |-> 0, pages |-> 2, revisions |-> 4, relations |-> 0],
  relations |-> [calls |-> {"write_page", "link_pages", "delete_page"},
                 keys |-> {}, types |-> RelationTypes \ {"related_to"}, inputs |-> 0, pages |-> 3, revisions |-> 4, relations |-> 3],
  cascades  |-> [calls |-> {"write_page", "revise_page", "tombstone_derivation_cascade"},
                 keys |-> {}, types |-> {}, inputs |-> 1, pages |-> 3, revisions |-> 5, relations |-> 0],
  linked    |-> [calls |-> {"write_page", "revise_page", "link_pages", "tombstone_derivation_cascade"},
                 keys |-> {}, types |-> {"related_to"}, inputs |-> 1, pages |-> 3, revisions |-> 4, relations |-> 2]]

Limits == Stores[store]

StoreInit == Init /\ store \in DOMAIN Stores

StoreKeys == Limits.keys \cup {NoKey}
StoreCitable == {S \in Citable : Cardinality(S) <= Limits.inputs}
StoreCitations == {<<>>} \cup {<<S>> : S \in StoreCitable}
StoreTargets == {target \in Targets : target = <<>> \/ target[1] \in Limits.types}

\* The store chosen stays, and so do its limits.
Within == /\ UNCHANGED store
          /\ nextPage' <= Limits.pages + 1 /\ nextRevision' <= Limits.revisions + 1
          /\ nextRelation' <= Limits.relations + 1

StoreNext ==
    \/ /\ "write_page" \in Limits.calls
       /\ \E status \in RequestStatuses, mutability \in Mutabilities, cited \in StoreCitations,
             target \in StoreTargets, key \in StoreKeys : WritePage(mutability, status, cited, target, key)
       /\ Within
    \/ /\ "ingest_page" \in Limits.calls
       /\ \E basedOn \in StoreCitable, key \in StoreKeys : IngestPage(basedOn, key)
       /\ Within
    \/ /\ "link_pages" \in Limits.calls
       /\ \E from, to \in DOMAIN pages, type \in Limits.types, key \in StoreKeys : LinkPages(from, type, to, key)
       /\ Within
    \/ /\ "revise_page" \in Limits.calls
       /\ \E p \in DOMAIN pages, expected \in DOMAIN revisions, status \in RequestStatuses,
             cited \in StoreCitations, target \in StoreTargets, key \in StoreKeys :
                RevisePage(p, expected, status, cited, target, key)
       /\ Within
    \/ /\ "repair_page" \in Limits.calls
       /\ \E p \in DOMAIN pages, expected \in DOMAIN revisions, basedOn \in StoreCitable, key \in StoreKeys :
             RepairPage(p, expected, basedOn, key)
       /\ Within
    \/ /\ "delete_page" \in Limits.calls
       /\ \E p \in DOMAIN pages, expected \in DOMAIN revisions, key \in StoreKeys : DeletePage(p, expected, key)
       /\ Within
    \/ /\ "archive_page" \in Limits.calls
       /\ \E p \in DOMAIN pages, expected \in DOMAIN revisions : ArchivePage(p, expected)
       /\ Within
    \/ /\ "restore_archived_page" \in Limits.calls
       /\ \E p \in DOMAIN pages, expected \in DOMAIN revisions : RestoreArchivedPage(p, expected)
       /\ Within
    \/ /\ "tombstone_derivation_cascade" \in Limits.calls
       /\ \E root \in DOMAIN revisions : TombstoneDerivationCascade(root)
       /\ Within

StoreSpec == StoreInit /\ [][StoreNext]_<<vars, store>>
=============================================================================
