----------------------------- MODULE StoreSchema -----------------------------
(***************************************************************************)
(* Opening wacli.db: the migrations, the search index with its triggers,   *)
(* and the writes of processes that have it open.                          *)
(*                                                                         *)
(* Every statement commits by itself; a migration is recorded after its    *)
(* statements.  A process can stop between any two of them, and commands   *)
(* that need no lock open the store, and migrate it, next to others.       *)
(*                                                                         *)
(* Five migrations stand for the nineteen: the tables (1), the index (3),  *)
(* the columns `revoked` (8) and `deleted_for_me` (9), which refresh the   *)
(* index, and `unread_count` (18), which moves data.  The others add a     *)
(* column or a table that is not there yet, as 8 and 9 do first.           *)
(***************************************************************************)
EXTENDS Integers, Sequences

CONSTANTS
    Procs,      \* processes that open the store
    Stores,     \* what earlier versions left behind, see StoreRecords
    New,        \* messages that arrive
    MaxAbandons \* bound: opens that end early

Migrations == <<"core", "fts", "revoked", "deleted_for_me", "unread_count">>
Versions == {Migrations[i] : i \in DOMAIN Migrations}
Flags == {"revoked", "deleted_for_me"}
Columns == Flags \cup {"unread_count"}
Triggers == <<"messages_ai", "messages_ad", "messages_au">>
TriggerSet == {Triggers[i] : i \in DOMAIN Triggers}

\* fts is "old" when messages_fts lacks display_text.  Before version 18,
\* unread was a count, or -1 for a chat marked by hand.
StoreRecords(Messages) ==
    [tables : BOOLEAN, applied : SUBSET Versions, columns : SUBSET Columns,
     fts : {"none", "old", "current"}, triggers : SUBSET TriggerSet,
     rows : SUBSET Messages, indexed : SUBSET Messages, unread : Int]

\* A store is one that a version left which had completed its migrations, for
\* an open that ends early is a step of the model.  If it has an index, the
\* triggers kept it; if it has unread_count, nothing is left to move; and a
\* store without tables is empty.
Complete(s) ==
    /\ \A i \in DOMAIN Migrations, j \in DOMAIN Migrations :
         j < i /\ Migrations[i] \in s.applied => Migrations[j] \in s.applied
    /\ s.columns \cap Flags = s.applied \cap Flags
    /\ IF s.fts = "none" THEN s.triggers = {} /\ s.indexed = {}
       ELSE s.triggers = TriggerSet /\ s.indexed = s.rows
    /\ "unread_count" \in s.columns => s.unread = 0
    /\ ~s.tables => s.rows = {} /\ s.unread = 0

ASSUME StoresAssumption ==
    /\ Stores \subseteq StoreRecords(UNION {s.rows : s \in Stores})
    /\ \A s \in Stores : Complete(s)
    /\ MaxAbandons \in Nat

VARIABLES
    applied,    \* schema_migrations
    columns,    \* columns added since the first version
    fts,        \* the table messages_fts
    triggers,   \* the triggers that keep it
    rows,       \* messages stored
    tomb,       \* those revoked or deleted for me
    indexed,    \* those with a row in messages_fts
    unread, count, \* chats.unread and chats.unread_count of a chat
    proc,       \* the processes
    start,      \* history: the store at first
    overlapped, \* history: two processes migrated at once
    abandons    \* history: opens that ended early

index == <<fts, triggers, indexed>>
chat == <<unread, count>>
messages == <<rows, tomb>>
history == <<start, overlapped, abandons>>
vars == <<applied, columns, index, messages, chat, proc, history>>

Closed == [at |-> "closed", known |-> {}, up |-> "none", created |-> FALSE,
           n |-> 1, ftsEnabled |-> FALSE]

Init ==
    /\ start \in Stores
    /\ applied = start.applied /\ columns = start.columns
    /\ fts = start.fts /\ triggers = start.triggers
    /\ rows = start.rows /\ tomb = {} /\ indexed = start.indexed
    /\ unread = start.unread /\ count = 0
    /\ proc = [p \in Procs |-> Closed]
    /\ overlapped = FALSE /\ abandons = 0

Visible == rows \ tomb

Go(p, stage) == proc' = [proc EXCEPT ![p].at = stage]
At(p, stage) == proc[p].at = stage
Fail(p) == proc' = [proc EXCEPT ![p] = Closed]

Opening(p) == proc[p].at \notin {"closed", "open"}

-----------------------------------------------------------------------------
(* ensureSchema.                                                           *)

Open(p) ==
    /\ At(p, "closed")
    /\ proc' = [proc EXCEPT ![p] = [Closed EXCEPT !.at = "next",
                                                  !.known = applied]]
    /\ overlapped' = (overlapped \/ \E q \in Procs : Opening(q))
    /\ UNCHANGED <<applied, columns, index, messages, chat, start, abandons>>

\* The first migration the table did not list when it was read.
NextMigration(p, v) ==
    \E i \in DOMAIN Migrations :
        /\ v = Migrations[i] /\ v \notin proc[p].known
        /\ \A j \in 1 .. i - 1 : Migrations[j] \in proc[p].known

FirstStage(v) ==
    CASE v = "core" -> "create"
      [] v = "fts"  -> "fts"
      [] OTHER      -> "column"

StartMigration(p) ==
    /\ At(p, "next")
    /\ \E v \in Versions :
         /\ NextMigration(p, v)
         /\ proc' = [proc EXCEPT ![p].at = FirstStage(v), ![p].up = v]
    /\ UNCHANGED <<applied, columns, index, messages, chat, history>>

\* CREATE TABLE IF NOT EXISTS: a new store gets all columns.
MigrateCoreSchema(p) ==
    /\ At(p, "create")
    /\ columns' = IF start.tables THEN columns ELSE Columns
    /\ Go(p, "record")
    /\ UNCHANGED <<applied, index, messages, chat, history>>

\* Variant: the column is added without a look at the table.
ColumnStageUnchecked(p) == "alter"

AfterColumn(p) == IF proc[p].up \in Flags THEN "fts"
                  ELSE IF proc[p].up = "ensured" THEN "detect" ELSE "record"

Column(p) == IF proc[p].up \in Flags THEN proc[p].up ELSE "unread_count"

\* tableHasColumn decides what comes next.
ColumnStage(p) == IF Column(p) \in columns THEN AfterColumn(p) ELSE "alter"

CheckColumn(p) ==
    /\ At(p, "column")
    /\ Go(p, ColumnStage(p))
    /\ UNCHANGED <<applied, columns, index, messages, chat, history>>

\* ALTER TABLE ADD COLUMN fails if another process was faster.
AddColumn(p) ==
    /\ At(p, "alter")
    /\ IF Column(p) \in columns
       THEN Fail(p) /\ UNCHANGED columns
       ELSE /\ columns' = columns \cup {Column(p)}
            /\ Go(p, IF proc[p].up \in Flags THEN "fts" ELSE "count")
    /\ UNCHANGED <<applied, index, messages, chat, history>>

\* Variant: the marker is normalized first.
CountUnreadLate == IF unread # 0 THEN 1 ELSE 0

CountUnread == IF unread > 0 THEN unread ELSE 0

MigrateUnreadCount(p) ==
    /\ At(p, "count")
    /\ count' = CountUnread
    /\ Go(p, "mark")
    /\ UNCHANGED <<applied, columns, index, messages, unread, history>>

\* Variant: a chat marked by hand has no count.
MarkerOfCount == IF unread > 0 THEN 1 ELSE 0

Marker == IF unread # 0 THEN 1 ELSE 0

MigrateUnreadMarker(p) ==
    /\ At(p, "mark")
    /\ unread' = Marker
    /\ Go(p, IF proc[p].up = "ensured" THEN "detect" ELSE "record")
    /\ UNCHANGED <<applied, columns, index, messages, count, history>>

\* The version is the primary key of schema_migrations.
Record(p) ==
    /\ At(p, "record")
    /\ IF proc[p].up \in applied
       THEN Fail(p) /\ UNCHANGED applied
       ELSE /\ applied' = applied \cup {proc[p].up}
            /\ proc' = [proc EXCEPT ![p].at = "next",
                          ![p].known = @ \cup {proc[p].up}]
    /\ UNCHANGED <<columns, index, messages, chat, history>>

\* ensureCurrentSchema looks at unread_count once more.
EnsureCurrentSchema(p) ==
    /\ At(p, "next") /\ Versions \subseteq proc[p].known
    /\ proc' = [proc EXCEPT ![p].at = "column", ![p].up = "ensured"]
    /\ UNCHANGED <<applied, columns, index, messages, chat, history>>

\* detectMessagesFTS, the end of init.
Detect(p) ==
    /\ At(p, "detect")
    /\ proc' = [proc EXCEPT ![p].at = "open",
                            ![p].ftsEnabled = @ \/ fts = "current"]
    /\ UNCHANGED <<applied, columns, index, messages, chat, history>>

-----------------------------------------------------------------------------
(* migrateMessagesFTS.                                                     *)

FTSStep == UNCHANGED <<applied, columns, messages, chat, history>>

CheckFTS(p) ==
    /\ At(p, "fts")
    /\ proc' = [proc EXCEPT ![p].created = FALSE, ![p].n = 1,
                            ![p].at = CASE fts = "none" -> "createFTS"
                                        [] fts = "old"  -> "dropFTS"
                                        [] OTHER -> "dropTriggers"]
    /\ UNCHANGED index /\ FTSStep

DropFTS(p) ==
    /\ At(p, "dropFTS")
    /\ fts' = "none" /\ indexed' = {}
    /\ Go(p, "createFTS")
    /\ UNCHANGED triggers /\ FTSStep

CreateFTS(p) ==
    /\ At(p, "createFTS")
    /\ fts' = IF fts = "none" THEN "current" ELSE fts
    /\ proc' = [proc EXCEPT ![p].created = TRUE, ![p].at = "dropTriggers"]
    /\ UNCHANGED <<triggers, indexed>> /\ FTSStep

\* The migration ends; without an index, search falls back to LIKE.
EndFTS(p, enabled) ==
    proc' = [proc EXCEPT ![p].at = "record", ![p].ftsEnabled = enabled]

NextTrigger(p, stage) ==
    IF proc[p].n < Len(Triggers)
    THEN proc' = [proc EXCEPT ![p].n = @ + 1]
    ELSE proc' = [proc EXCEPT ![p].n = 1, ![p].at = stage]

DropTrigger(p) ==
    /\ At(p, "dropTriggers")
    /\ triggers' = triggers \ {Triggers[proc[p].n]}
    /\ NextTrigger(p, "createTriggers")
    /\ UNCHANGED <<fts, indexed>> /\ FTSStep

\* CREATE TRIGGER fails if another process was faster.
CreateTrigger(p) ==
    /\ At(p, "createTriggers")
    /\ IF Triggers[proc[p].n] \in triggers
       THEN EndFTS(p, FALSE) /\ UNCHANGED triggers
       ELSE /\ triggers' = triggers \cup {Triggers[proc[p].n]}
            /\ NextTrigger(p, "backfill")
    /\ UNCHANGED <<fts, indexed>> /\ FTSStep

\* Variant: rows stored so far are left out.
BackfillsNothing(p) == TRUE

\* The INSERT ... SELECT reads both flags, and fails on a row that is there.
BackfillFails(p) == ~(Flags \subseteq columns) \/ indexed \cap Visible # {}

Backfill(p) ==
    /\ At(p, "backfill")
    /\ IF proc[p].created /\ BackfillFails(p)
       THEN EndFTS(p, FALSE) /\ UNCHANGED indexed
       ELSE /\ EndFTS(p, TRUE)
            /\ indexed' = IF proc[p].created THEN indexed \cup Visible
                          ELSE indexed
    /\ UNCHANGED <<fts, triggers>> /\ FTSStep

-----------------------------------------------------------------------------
(* A process with the store open, and the end of it.                       *)

DataStep == UNCHANGED <<applied, columns, fts, triggers, chat, proc, history>>

\* INSERT INTO messages and its trigger.
StoreMessage(p, m) ==
    /\ At(p, "open") /\ m \in New \ rows
    /\ rows' = rows \cup {m} /\ UNCHANGED tomb
    /\ indexed' = IF "messages_ai" \in triggers THEN indexed \cup {m}
                  ELSE indexed
    /\ DataStep

\* Variant: the trigger inserts whatever the flags say.
AfterUpdateOfAny(m) ==
    IF "messages_au" \in triggers THEN indexed \cup {m} ELSE indexed

\* The trigger on the UPDATE of a tombstone.
AfterUpdate(m) ==
    IF "messages_au" \in triggers THEN indexed \ {m} ELSE indexed

HideMessage(p, m) ==
    /\ At(p, "open") /\ m \in Visible
    /\ tomb' = tomb \cup {m} /\ UNCHANGED rows
    /\ indexed' = AfterUpdate(m)
    /\ DataStep

Close(p) ==
    /\ At(p, "open") /\ Fail(p)
    /\ UNCHANGED <<applied, columns, index, messages, chat, history>>

\* The process is killed, or SQLite reports an error (busy, disk full).
Abandon(p) ==
    /\ Opening(p) /\ abandons < MaxAbandons
    /\ Fail(p)
    /\ abandons' = abandons + 1
    /\ UNCHANGED <<applied, columns, index, messages, chat, start, overlapped>>

-----------------------------------------------------------------------------

Proceed(p) ==
    \/ StartMigration(p) \/ MigrateCoreSchema(p) \/ CheckColumn(p)
    \/ AddColumn(p) \/ MigrateUnreadCount(p) \/ MigrateUnreadMarker(p)
    \/ Record(p) \/ EnsureCurrentSchema(p) \/ Detect(p)
    \/ CheckFTS(p) \/ DropFTS(p) \/ CreateFTS(p)
    \/ DropTrigger(p) \/ CreateTrigger(p) \/ Backfill(p)

Next ==
    \E p \in Procs :
        \/ Open(p) \/ Proceed(p) \/ Close(p) \/ Abandon(p)
        \/ \E m \in New : StoreMessage(p, m)
        \/ \E m \in rows : HideMessage(p, m)

\* Some process opens the store again, and a running process runs on.
Fairness == \A p \in Procs : WF_vars(Open(p)) /\ WF_vars(Proceed(p))

Spec == Init /\ [][Next]_vars /\ Fairness

-----------------------------------------------------------------------------
(* Properties.                                                             *)

Stages ==
    {"closed", "next", "create", "column", "alter", "count", "mark", "record",
     "detect", "open", "fts", "dropFTS", "createFTS", "dropTriggers",
     "createTriggers", "backfill"}

TypeOK ==
    /\ applied \subseteq Versions /\ columns \subseteq Columns
    /\ fts \in {"none", "old", "current"} /\ triggers \subseteq TriggerSet
    /\ tomb \subseteq rows /\ indexed \subseteq rows
    /\ unread \in Int /\ count \in Nat
    /\ proc \in [Procs -> [at : Stages, known : SUBSET Versions,
                           up : Versions \cup {"none", "ensured"},
                           created : BOOLEAN, n : DOMAIN Triggers,
                           ftsEnabled : BOOLEAN]]
    /\ start \in Stores /\ overlapped \in BOOLEAN
    /\ abandons \in 0 .. MaxAbandons

Searching(p) == At(p, "open") /\ proc[p].ftsEnabled

\* docs/index.md: "All synced messages land in a SQLite store with an FTS5
\* index; offline `messages search` returns hits in milliseconds."
SearchFindsAll ==
    ~overlapped => \A p \in Procs : Searching(p) => Visible \subseteq indexed

\* What holds instead: the index is complete if the store came with one, or
\* without messages, or at version 8 and was opened without interruption.
\* Opens that end early do no harm to an index that was there.  Nor does the
\* index bring a tombstone up: they are "excluded from [...] FTS rows"
\* (docs/spec.md).
SearchIsExact ==
    /\ \/ start.fts = "current" \/ start.rows = {}
       \/ "revoked" \in start.columns /\ abandons = 0
       => SearchFindsAll
    /\ ~overlapped => indexed \cap tomb = {}

\* A chat with unread messages, or marked unread, is still unread after any
\* number of migrations, interrupted or racing, and an open that was not
\* interrupted has moved the count to its own column.
UnreadStaysUnread ==
    /\ start.unread # 0 => unread # 0
    /\ ~overlapped /\ abandons = 0 =>
          \A p \in Procs : At(p, "open") =>
              /\ count = IF start.unread > 0 THEN start.unread ELSE 0
              /\ unread \in {0, 1}

\* Whatever an interrupted or racing open leaves behind, the store can be
\* opened again: no process is locked out by a statement that was carried out
\* but not recorded.
StoreOpens == []<>(\E p \in Procs : At(p, "open"))
=============================================================================
