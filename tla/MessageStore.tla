---------------------------- MODULE MessageStore ----------------------------
(***************************************************************************)
(* The life of stored messages: which process writes a row, when, and what *)
(* the row says afterwards.                                                *)
(*                                                                         *)
(* One process at a time owns the store (the lock of internal/lock).       *)
(*  - A sync process applies what WhatsApp delivers: originals, edits and  *)
(*    revocations through UpsertMessage, delete-for-me events through      *)
(*    MarkMessageDeletedForMe.  Events are dispatched from several         *)
(*    goroutines, so the two statements of a delete-for-me may be split.   *)
(*    Its media workers read a row, download, and mark the row, while      *)
(*    handlers keep writing.                                               *)
(*  - A CLI process (`messages edit | revoke | delete`) loads and checks a *)
(*    row, asks WhatsApp, and then writes the row.                         *)
(* WhatsApp may deliver a payload late, never, or again (live delivery,    *)
(* history sync, history backfill); a process may die between any two      *)
(* steps.                                                                  *)
(***************************************************************************)
EXTENDS MessageRow

CONSTANTS
    Keys,       \* (chat_jid, msg_id) pairs
    Feeds,      \* sets of payloads, [key : Keys, body : Content]
    Workers,    \* media download workers of a sync process
    NoJob       \* a worker that holds no job

ASSUME PayloadAssumption ==
    Feeds \subseteq SUBSET [key : Keys, body : Content]
ASSUME NoJobAssumption   == NoJob \notin Keys

Original(c) == ~c.edited /\ ~Tombstone(c)

\* A message id names one message: all that WhatsApp delivers of it has the
\* same sender, and its original is the same whenever it comes.
ASSUME OriginalAssumption ==
    \A f \in Feeds : \A p, q \in f :
        p.key = q.key =>
            /\ p.body.from_me = q.body.from_me
            /\ Original(p.body) /\ Original(q.body) => p.body = q.body

\* A delete-for-me comes as an app-state event, never as a revocation.
ASSUME DeletionAssumption ==
    \A f \in Feeds : \A p \in f : ~(p.body.revoked /\ p.body.deleted_for_me)

VARIABLES
    messages,   \* the table: Keys -> Row or NULL (no row)
    disk,       \* keys whose media file is in the media directory
    mode,       \* which process holds the store lock
    halfDeleted,\* delete-for-me events between their UPDATE and their INSERT
    jobs,       \* keys in the media queue of the sync process
    worker,     \* the job each media worker has read
    fetched,    \* workers whose file is written, row not yet marked
    cli,        \* the mutation the CLI process is carrying out
    applied,    \* history: bodies written to each row, less those Overtaken
    removed,    \* history: keys whose file `--delete-media` removed last
    feed        \* WhatsApp: the payloads it may deliver, at any time, again

vars == <<messages, disk, mode, halfDeleted, jobs, worker, fetched, cli,
          applied, removed, feed>>

volatile == <<halfDeleted, jobs, worker, fetched>>

CliOps == {"edit", "revoke", "delete", "delete_media"}
Idle   == [op |-> "none", key |-> NoJob, stage |-> "none", path |-> FALSE]
CliStates ==
    [op : CliOps, key : Keys, stage : {"remote", "file", "local"},
     path : BOOLEAN] \cup {Idle}

RowOrNull == Row \cup {NULL}
Present(k) == messages[k] # NULL
Live(k)    == Present(k) /\ ~Tombstone(messages[k])

Init ==
    /\ messages = [k \in Keys |-> NULL]
    /\ disk = {}
    /\ mode = "none"
    /\ halfDeleted = {} /\ jobs = {}
    /\ worker = [w \in Workers |-> NoJob]
    /\ fetched = {}
    /\ cli = Idle
    /\ applied = [k \in Keys |-> {}]
    /\ removed = {}
    /\ feed \in Feeds

-----------------------------------------------------------------------------
(* Writes.                                                                 *)

Write(k, row, body) ==
    /\ messages' = [messages EXCEPT ![k] = row]
    /\ applied' = [applied EXCEPT ![k] = @ \cup {body}]

Upserted(k, body) ==
    IF Present(k) THEN OnConflict(messages[k], Excluded(body))
    ELSE Excluded(body)

UpsertMessage(k, body) == Write(k, Upserted(k, body), body)

\* History entries for the writes that are not a delivered payload.
LocalEdit(text, now, mine) ==
    [ts |-> now, from_me |-> mine, text |-> text, media |-> NULL,
     edited |-> TRUE, revoked |-> FALSE, deleted_for_me |-> FALSE]

-----------------------------------------------------------------------------
(* The sync process.                                                       *)

StartSync ==
    /\ mode = "none"
    /\ mode' = "sync"
    /\ UNCHANGED <<messages, disk, volatile, cli, applied, removed>>

\* RemoveEventHandler waits for the running handlers, stopMedia for the
\* workers; jobs still queued are dropped.
StopSync ==
    /\ mode = "sync"
    /\ halfDeleted = {}
    /\ \A w \in Workers : worker[w] = NoJob
    /\ mode' = "none"
    /\ jobs' = {}
    /\ UNCHANGED <<messages, disk, halfDeleted, worker, fetched, cli,
                   applied, removed>>

\* handleLiveSyncMessage and the loop of handleHistorySync: the media job is
\* queued whether or not the row could be stored.
StoreParsedMessage(p) ==
    /\ mode = "sync"
    /\ ~p.body.deleted_for_me
    /\ \/ UpsertMessage(p.key, p.body)
       \/ UNCHANGED <<messages, applied>>
    /\ jobs' = IF p.body.media # NULL THEN jobs \cup {p.key} ELSE jobs
    /\ UNCHANGED <<disk, mode, halfDeleted, worker, fetched, cli, removed>>

\* handleDeleteForMeEvent, first statement: UPDATE ... WHERE the row exists.
HandleDeleteForMe(p) ==
    /\ mode = "sync"
    /\ p.body.deleted_for_me
    /\ IF Present(p.key)
       THEN /\ Write(p.key, MarkMessageDeletedForMe(messages[p.key]), p.body)
            /\ UNCHANGED halfDeleted
       ELSE /\ halfDeleted' = halfDeleted \cup {p}
            /\ UNCHANGED <<messages, applied>>
    /\ UNCHANGED <<disk, mode, jobs, worker, fetched, cli, removed>>

\* ... and when it changed no row, the upsert of a tombstone.
InsertDeletedForMe(p) ==
    /\ p \in halfDeleted
    /\ UpsertMessage(p.key, p.body)
    /\ halfDeleted' = halfDeleted \ {p}
    /\ UNCHANGED <<disk, mode, jobs, worker, fetched, cli, removed>>

-----------------------------------------------------------------------------
(* Media workers.                                                          *)

Downloadable(k) ==
    /\ Present(k)
    /\ ~messages[k].local_path
    /\ messages[k].media_type # NULL
    /\ messages[k].media_key # NULL

TakeJob(w, k) ==
    /\ mode = "sync"
    /\ worker[w] = NoJob /\ k \in jobs
    /\ jobs' = jobs \ {k}
    /\ worker' = IF Downloadable(k) THEN [worker EXCEPT ![w] = k] ELSE worker
    /\ UNCHANGED <<messages, disk, mode, halfDeleted, fetched, cli, applied,
                   removed>>

\* Variant: the error of a failed download is ignored.
DownloadFailsUnseen(w) ==
    /\ worker[w] # NoJob /\ w \notin fetched
    /\ fetched' = fetched \cup {w}
    /\ UNCHANGED <<messages, disk, mode, halfDeleted, jobs, worker, cli,
                   applied, removed>>

DownloadFails(w) ==
    /\ worker[w] # NoJob /\ w \notin fetched
    /\ worker' = [worker EXCEPT ![w] = NoJob]
    /\ UNCHANGED <<messages, disk, mode, halfDeleted, jobs, fetched, cli,
                   applied, removed>>

DownloadMediaToFile(w) ==
    /\ worker[w] # NoJob /\ w \notin fetched
    /\ disk' = disk \cup {worker[w]}
    /\ fetched' = fetched \cup {w}
    /\ removed' = removed \ {worker[w]}
    /\ UNCHANGED <<messages, mode, halfDeleted, jobs, worker, cli, applied>>

MarkDownloaded(w) ==
    /\ w \in fetched
    /\ messages' =
         IF Present(worker[w])
         THEN [messages EXCEPT ![worker[w]] = MarkMediaDownloaded(@)]
         ELSE messages
    /\ worker' = [worker EXCEPT ![w] = NoJob]
    /\ fetched' = fetched \ {w}
    /\ UNCHANGED <<disk, mode, halfDeleted, jobs, cli, applied, removed>>

-----------------------------------------------------------------------------
(* The CLI process.                                                        *)

CanRevoke(m) == ~m.revoked /\ ~m.deleted_for_me /\ m.from_me
CanDeleteForMe(m) == ~m.revoked /\ ~m.deleted_for_me

\* Variant: the tombstone flags are not looked at.
CanEditOwn(m) == m.from_me /\ m.media_type = NULL /\ m.display_text # NULL

CanEdit(m) == CanRevoke(m) /\ m.media_type = NULL /\ m.display_text # NULL

Allowed(op, m) ==
    CASE op = "edit"   -> CanEdit(m)
      [] op = "revoke" -> CanRevoke(m)
      [] OTHER         -> CanDeleteForMe(m)

\* Take the store lock, load the target and validate it.
LoadMutationTarget(op, k) ==
    /\ mode = "none"
    /\ Present(k) /\ Allowed(op, messages[k])
    /\ mode' = "cli"
    /\ cli' = [op |-> op, key |-> k, stage |-> "remote",
               path |-> messages[k].local_path]
    /\ UNCHANGED <<messages, disk, volatile, applied, removed>>

RemoteAccepts ==
    /\ cli.stage = "remote"
    /\ cli' = [cli EXCEPT !.stage = IF cli.op = "delete_media" /\ cli.path
                                    THEN "file" ELSE "local"]
    /\ UNCHANGED <<messages, disk, mode, volatile, applied, removed>>

\* The remote call failed, or the local statement did: report the error.
CliFails ==
    /\ mode = "cli"
    /\ mode' = "none" /\ cli' = Idle
    /\ UNCHANGED <<messages, disk, volatile, applied, removed>>

\* os.Remove, where a file that is already gone counts as success.
RemoveLocalMedia ==
    /\ cli.stage = "file"
    /\ disk' = disk \ {cli.key}
    /\ removed' = removed \cup {cli.key}
    /\ cli' = [cli EXCEPT !.stage = "local"]
    /\ UNCHANGED <<messages, mode, volatile, applied>>

Deletion(m, deletedForMe) ==
    [ts |-> m.ts, from_me |-> m.from_me, text |-> NULL, media |-> NULL,
     edited |-> FALSE, revoked |-> ~deletedForMe,
     deleted_for_me |-> deletedForMe]

EndCli ==
    /\ mode' = "none" /\ cli' = Idle
    /\ UNCHANGED <<disk, volatile, removed>>

\* The file could not be removed: keep pointing at it.
KeepLocalMedia ==
    /\ cli.stage = "file"
    /\ LET m == messages[cli.key]
       IN  Write(cli.key, MarkMessageDeletedForMePreserveMedia(m),
                 Deletion(m, TRUE))
    /\ EndCli

\* The edits of a row whose time the local clock, read as now, has not come
\* to.  A local edit takes their place and is stamped before them: the next
\* delivery of one of them takes its place in turn.
Overtaken(k, now) == {b \in applied[k] : b.edited /\ now < b.ts}

\* The stamp is the local clock's, which may be ahead of WhatsApp's or
\* behind: the statement compares it with nothing.
StoreEdited(text, now) ==
    /\ cli.stage = "local" /\ cli.op = "edit"
    /\ LET k == cli.key
           m == messages[k]
           body == LocalEdit(text, now, m.from_me)
       IN  /\ messages' =
                 [messages EXCEPT ![k] = UpdateMessageText(m, text, now)]
           /\ applied' =
                 [applied EXCEPT ![k] = (@ \ Overtaken(k, now)) \cup {body}]
    /\ EndCli

StoreRevoked ==
    /\ cli.stage = "local" /\ cli.op = "revoke"
    /\ LET m == messages[cli.key]
       IN  Write(cli.key, MarkMessageRevoked(m), Deletion(m, FALSE))
    /\ EndCli

StoreDeletedForMe ==
    /\ cli.stage = "local" /\ cli.op \in {"delete", "delete_media"}
    /\ LET m == messages[cli.key]
       IN  Write(cli.key, MarkMessageDeletedForMe(m), Deletion(m, TRUE))
    /\ EndCli

-----------------------------------------------------------------------------
\* The process holding the lock dies; the table and the files remain.
Crash ==
    /\ mode # "none"
    /\ mode' = "none"
    /\ halfDeleted' = {} /\ jobs' = {}
    /\ worker' = [w \in Workers |-> NoJob]
    /\ fetched' = {}
    /\ cli' = Idle
    /\ UNCHANGED <<messages, disk, applied, removed>>

Step ==
    \/ StartSync \/ StopSync \/ Crash
    \/ \E p \in feed :
         StoreParsedMessage(p) \/ HandleDeleteForMe(p) \/ InsertDeletedForMe(p)
    \/ \E w \in Workers : \E k \in Keys : TakeJob(w, k)
    \/ \E w \in Workers :
         DownloadFails(w) \/ DownloadMediaToFile(w) \/ MarkDownloaded(w)
    \/ \E op \in CliOps, k \in Keys : LoadMutationTarget(op, k)
    \/ RemoteAccepts \/ CliFails \/ RemoveLocalMedia \/ KeepLocalMedia
    \/ \E text \in Texts, now \in Times : StoreEdited(text, now)
    \/ StoreRevoked \/ StoreDeletedForMe

Next == Step /\ UNCHANGED feed

Spec == Init /\ [][Next]_vars

-----------------------------------------------------------------------------
(* Properties.                                                             *)

TypeOK ==
    /\ messages \in [Keys -> RowOrNull]
    /\ disk \subseteq Keys
    /\ mode \in {"none", "sync", "cli"}
    /\ feed \in Feeds /\ halfDeleted \subseteq feed
    /\ jobs \subseteq Keys
    /\ worker \in [Workers -> Keys \cup {NoJob}]
    /\ fetched \subseteq Workers
    /\ cli \in CliStates
    /\ applied \in [Keys -> SUBSET Content]
    /\ removed \subseteq Keys

\* A tombstone shows nothing of the message: no body, and the label of the
\* strongest deletion, whatever arrived before or after it and in which
\* order the two kinds of deletion came (docs/messages.md: "Deleted messages
\* and WhatsApp delete-for-me events are kept as local tombstones").
TombstoneHidesContent ==
    \A k \in Keys :
        Present(k) /\ Tombstone(messages[k]) =>
            /\ messages[k].text = NULL
            /\ messages[k].display_text =
                 IF messages[k].deleted_for_me THEN DeletedLabel
                 ELSE RevokedLabel

\* No step takes a deletion back: not a replayed original, a late edit, a
\* media worker, or the local half of `messages edit`, whose UPDATE resets
\* both flags and is safe only because the row was checked under the lock
\* that it still holds.
DeletionIsPermanent ==
    [][\A k \in Keys :
         /\ Present(k) => messages'[k] # NULL
         /\ Present(k) /\ messages[k].revoked => messages'[k].revoked
         /\ Present(k) /\ messages[k].deleted_for_me
              => messages'[k].deleted_for_me]_vars

Edits(k)     == {b \in applied[k] : b.edited}
Originals(k) == {b \in applied[k] : Original(b)}

\* A live message shows the newest edit that was ever applied to it, local
\* or remote, whatever the order of arrival and however often an older one
\* is delivered again; without an edit it shows an original.  Two edits of
\* the same second may win in either order.  Where the local clock is behind,
\* `messages edit` replaces edits that are stamped later (Overtaken): those
\* do not count until they are delivered again, and then they win.  The
\* message's time is the original's once
\* that was stored, even if an edit with a later time came first
\* (messages_test.go: "timestamp = %s, want original timestamp").
NewestEditWins ==
    \A k \in Keys : Live(k) =>
        /\ \E b \in IF Edits(k) = {} THEN Originals(k) ELSE Edits(k) :
              /\ messages[k].text = b.text
              /\ messages[k].media_type = b.media
              /\ \A e \in Edits(k) : e.ts =< b.ts
        /\ \A b \in Originals(k) : messages[k].ts = b.ts

\* What a reader of a row can see.  On a tombstone the media columns, the
\* path and the edit stamp are not shown by list, search or export.
Visible(m) ==
    IF Tombstone(m)
    THEN <<m.ts, m.from_me, m.text, m.display_text, m.revoked,
           m.deleted_for_me>>
    ELSE m

TiedEdit(k, b) ==
    b.edited /\ \E e \in Edits(k) : e # b /\ e.ts = b.ts

\* Redelivery of anything already applied to a row changes nothing a reader
\* can see (docs/spec.md: "message inserts are upserts keyed by (chat_jid,
\* msg_id) so replays/history sync don't duplicate data").  Excepted are two
\* different edits of the same second, and an edit that a local one replaced
\* by a clock that was behind it (Overtaken): delivered again, it is back.
RedeliveryIsHarmless ==
    \A p \in feed :
        p.body \in applied[p.key] /\ ~TiedEdit(p.key, p.body) =>
            Visible(Upserted(p.key, p.body)) = Visible(messages[p.key])

\* A row with a local path has its file, unless `--delete-media` removed the
\* file and the local statement was lost (crash or failed statement).
LocalPathHasFile ==
    \A k \in Keys :
        Present(k) /\ messages[k].local_path => k \in disk \cup removed
=============================================================================
