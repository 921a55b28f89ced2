---------------------------- MODULE MCStoreSchema ----------------------------
(***************************************************************************)
(* Stores of earlier versions, for model checking.                         *)
(***************************************************************************)
EXTENDS StoreSchema

CONSTANT old

Legacy(vs, cols, f, stored, n) ==
    [tables |-> TRUE, applied |-> vs, columns |-> cols, fts |-> f,
     triggers |-> IF f = "none" THEN {} ELSE TriggerSet,
     rows |-> stored, indexed |-> IF f = "none" THEN {} ELSE stored,
     unread |-> n]

Fresh == [tables |-> FALSE, applied |-> {}, columns |-> {}, fts |-> "none",
          triggers |-> {}, rows |-> {}, indexed |-> {}, unread |-> 0]

\* A store from before the migrations table, with an index of that time.
Unversioned == Legacy({}, {}, "old", {old}, 0)

\* Versions 7, 8 and 17, the first two with or without an index (a build
\* without FTS5), and a pre-release that recorded 18 without the column.
MCStores ==
    {Fresh, Unversioned,
     Legacy({"core", "fts"}, {}, "current", {old}, 0),
     Legacy({"core", "fts"}, {}, "none", {old}, 0),
     Legacy({"core", "fts", "revoked"}, {"revoked"}, "none", {old}, 2),
     Legacy({"core", "fts", "revoked"} \cup Flags, Flags, "current", {old}, 2),
     Legacy({"core", "fts", "revoked"} \cup Flags, Flags, "current", {old}, -1),
     Legacy(Versions, Flags, "current", {old}, 2)}

UnversionedOnly == {Unversioned}
=============================================================================
