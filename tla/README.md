# TLA+ models of kirimy / wacli

kirimy is a fork of wacli, a WhatsApp command line client with a local SQLite
copy of every message.  A `sync` process keeps a connection to WhatsApp open
and stores what arrives; short-lived commands (`send`, `messages edit`, ...)
share the same store directory; a small HTTP daemon runs the command line tool
for each request.  This directory models the parts where several goroutines,
several processes or a late, repeated or lost event meet.

## 1. Inventory

| Component (code) | State | Operations | Talks to | What is hard | What makes it correct | Modelled in |
|---|---|---|---|---|---|---|
| message rows (`internal/store/messages.go`, `media.go`, `sqlc/queries.sql`) | `messages` table | `UpsertMessage` and its ON CONFLICT clause, `MarkMessageRevoked`, `MarkMessageDeletedForMe`, `...PreserveMedia`, `UpdateMessageText`, `MarkMediaDownloaded` | called by ingest, media workers, CLI | originals, edits and deletions in any order and repeatedly | newest edit wins, deletions are final and hide content, replays are harmless | `MessageRow`, `MessageStore` |
| ingest (`internal/app/sync.go`, `sync_events.go`) | none of its own | live messages, history batches, delete-for-me, stars, calls, statuses | whatsmeow dispatchers call it, it calls the store and fills the queues | several dispatchers at once, two-statement updates | as above | `MessageStore` (rows), `SyncEngine` (control) |
| media download (`internal/app/media.go`) | queue of 512 jobs, 4 workers | `runMediaWorkers`, `downloadMediaJob` | reads and marks rows, writes files | a row changes during its download | a path points to a file, workers outlive handlers | `MessageStore`, `SyncEngine` |
| CLI mutations (`cmd/wacli/messages.go`) | the row it loaded | edit, revoke, delete | lock, WhatsApp, store | check, remote call, write; crash in between | never undoes a deletion | `MessageStore` |
| sync engine (`internal/app/sync.go`, `sync_idle.go`, `sync_limits.go`) | context, channels, limit error | setup, loop, reconnect, teardown | all of the above | bounded queues, cancellation, lost connections | ends when told, loses no signal, bounded growth | `SyncEngine` |
| webhook (`internal/app/webhook.go`) | queue of 512, one worker | enqueue, post, stop | ingest | full queue, shutdown with a post in flight | never blocks ingest | `SyncEngine` |
| store lock (`internal/lock`) | flock on `<store>/LOCK` | acquire, wait, release, probe | every process | holder dies, probe races | one user of the session | `SendDelegation` |
| send delegation (`cmd/wacli/send_ipc.go`, `send_helpers.go`, `send.go`) | `.send.sock`, `sendMu`, attempts | serve, delegate, attempt, retry, persist | lock, sync, WhatsApp | timeouts, abandoned attempts, stale sockets, crashes | at most one copy, honest result | `SendDelegation`, `SendOutcome` |
| polls (`internal/store/polls.go`, `internal/app/sync_polls.go`) | `polls`, `poll_votes` | upsert poll, add option, vote, retract | ingest, history | read-merge-write, votes before polls | no option lost, newest vote counts | `Polls` |
| chats and unread counts (`internal/store/chats.go`, `internal/app/chat_state.go`, `sync_events.go`, `cmd/wacli/chats*.go`) | `chats`: flags, unread marker, unread count | upsert, increment, mark read, archive, pin, mute, cleanup | node queue, app-state events, history, commands | count decided before the row is stored; three sources of the same columns; a command changes WhatsApp, then the row | a message counts once, flags follow the phone | `ChatState` |
| LID migration (`internal/store/lid_migration.go`, `internal/app/lid_migration.go`, `jid.go`) | all tables with JIDs; whatsmeow's LID-PN pairs | merge one hidden id into a phone number, resolve the name of an event | setup of sync and every connect, next to running handlers | merge rules beside the upsert's; a handler overtaken by the merge | a merge equals having stored it under one name; the split ends | `LIDMigration` |
| schema migrations, search index (`internal/store/migrations.go`, `schema.go`, `db.go`, `search.go`) | tables, `schema_migrations`, `messages_fts` and its triggers | open, migrate | every process | crash between a step and its record | reopening completes the schema | `StoreSchema` |
| history backfill (`internal/app/backfill.go`, `internal/store/history.go`) | anchor, one request in flight | request, wait, repeat | WhatsApp, ingest | late, repeated, empty or missing answers | terminates, never asks the same twice | `Backfill` |
| groups and contacts (`internal/store/groups.go`, `contacts.go`, `internal/app/bootstrap.go`, `cmd/wacli/groups*.go`, `contacts*.go`) | `groups`, group rows of `chats`, `contacts` | refresh, persist, leave, prune; names, aliases | ingest, WhatsApp | a list fetched before it is written, a confirmation of any length | left means left, prune spares what lives, names are kept | `Directory` |
| calls, stars, statuses (`internal/store/calls.go`, `starred.go`, `status_messages.go`, `internal/wa/calls.go`) | one table each | look up, then update or insert; upserts | three goroutines of ingest | a second statement after a look | one row per call with all that was told | `CallEvents`; stars: `LIDMigration`; sent statuses: `Outbound` |
| send commands (`cmd/wacli/send_*.go`, `poll_cmd.go`, `recipient.go`) | the message being sent | resolve, look up, connect, attempts, record | lock or delegate, WhatsApp, store | the phone changes the message before it is recorded; uploads inside attempts; two names of a contact | recorded as accepted, the phone has the last word | `Outbound` |
| daemon (`cmd/kirimy-daemon`) | none | run the CLI for a request | CLI processes | | | not modelled |
| accounts (`internal/config`, `cmd/wacli/accounts.go`) | `config.yaml` | add, use, remove; resolve a store | every process | concurrent writers, readers without a lock | the registry is serial, the default account exists | `Accounts` |
| parsing, output, paths, link previews (`internal/wa/messages*.go`, `internal/out`, `internal/pathutil`, `internal/linkpreview`, ...) | none | pure functions, single fetches | | | | not modelled |

How they interact: whatsmeow calls the event handler from several goroutines;
the handler writes the store and feeds the media and the webhook queue; the
goroutine in `App.Sync` waits for a cancellation, a disconnect signal or an
idle period; a send command either owns the lock and the connection or asks
the process that does over `.send.sock`.  Everything that survives a process
is in the store directory: the database, the media files, the lock file and a
possibly stale socket file.

## 2. Plan

Order of work, most important behaviour first.

1. `MessageRow`, `MessageStore`: what a message row says (done).
2. `SyncEngine`: the goroutines and queues of one sync (done).
3. `SendDelegation` implementing `SendOutcome`: lock, server, one send (done).
4. `MessageStoreProofs`: type correctness, hidden content, permanence, newest
   edit, redelivery, local paths (done).
5. `Polls`, `PollsProofs`: options and votes under two dispatchers (done).
6. `ChatState`: flags, marker and count under live events, receipts, history,
   app-state events, commands, cleanup and a crash (done).
7. `StoreSchema`: migrations and the search index under interruptions and
   racing opens (done).
8. `LIDMigration`: the merge of what is stored under a hidden id, compared with
   `OnConflict` of `MessageRow`, which it extends (done).
9. `Directory`, `CallEvents`: groups, contacts and calls (done).
10. `Backfill`, `Outbound`, `Accounts`: the commands with state of their own
    (done).
11. Proofs of the invariants and action properties of `MessageStore`, `Polls`,
    `ChatState`, `SendDelegation` with the refinement of `SendOutcome`,
    `SyncEngine`, `Accounts`, `Backfill`, `StoreSchema`, `LIDMigration`,
    `Directory`, `CallEvents` and `Outbound` (done, section 5).
12. Proofs about the two compositions, `MCCommands` and `MCTables`: that each
    component runs by its own specification in them, and their types; the rules
    of the merge against the upsert's, one row at a time (done, section 5).

Composition: `MessageStore`, `LIDMigration` and `Outbound` extend `MessageRow`,
so that a row means the same in ingest, in the merge and in a send.
`SendDelegation` and `Outbound` each implement `SendOutcome`.  `MCTables` and
`MCCommands` put components next to each other that share no rows: a behaviour
picks one of them (`part`) and leaves the variables of the others alone, which
makes one state space of their union.

## 3. The modules

### MessageRow

One row and one operator per SQL statement.  `OnConflict(m, x)` is the SET list
of `UpsertMessage`, column by column; `Excluded` is what the Go function passes
as the new row (blanked and labelled when it carries a deletion).  Columns that
share a rule are one field, see the module's header.

### MessageStore

| Variable | Code |
|---|---|
| `messages` | the table |
| `disk` | files in the media directory |
| `mode` | holder of the store lock: no one, a sync, a CLI command |
| `halfDeleted` | `MarkMessageDeletedForMe` between its UPDATE and its upsert |
| `jobs`, `worker`, `fetched` | the media queue, the row each worker has read, workers between `DownloadMediaToFile` and `MarkMediaDownloaded` |
| `cli` | the mutation under way: after validation, after the remote call, after `os.Remove` |
| `applied`, `removed` | history variables: bodies written to each row, files removed by `--delete-media` |

`feed` is what WhatsApp may deliver in a behaviour, one of `Feeds`:
`StoreParsedMessage` delivers any payload of it at any time and any number of
times. `Crash` can follow every step. `messages edit` stamps its edit by the
local clock (`strftime` in `UpdateMessageText`), which may be ahead of
WhatsApp's or behind, and compares the stamp with nothing; `Overtaken` are the
edits it replaces although they are stamped later.

### SyncEngine

`main` walks through `Sync` in the order of its statements and then of its
deferred calls. `handler[d]` is the event handler on dispatcher `d`, with the
number of messages left of a batch. A deletion for me is an event of its own
(`DispatchDeletion`, `StoreDeletion`): it may insert a row, and does not look
at the limit. `signal` is the channel `disconnected` of capacity one. `auto` is
whatsmeow's own reconnect loop, `sender` the `reconnectForSend` of a delegated
send. `quiet` abstracts the clock: the idle period has passed since
`lastEvent`. `start` is how `Sync` was called: its options, the rows it found,
and the bounds of the environment.

### SendOutcome and SendDelegation

`SendOutcome` says what a `send` command promises: accepted at most once,
success reported only for an accepted message. `SendDelegation` has the lock,
sync processes that start, serve, stop and crash, send commands that send
themselves or delegate, and for each message the state of its task (`queued`
behind `sendMu`, first attempt, reconnect, second attempt, persist, wait) and
of the goroutines of its two attempts, which outlive a timeout.
`ImplementsSendOutcome` maps `accepted` and `outcome` one to one.

### Polls

One poll.  `poll` is `options_json` of its row, `votes` the row of each voter,
`hidden` the flags of the poll's message, which `GetPoll` joins.  A dispatcher
handles a page (`StartPage`): the polls of the page, then its added options,
then its votes, as the loops of `handleHistorySync` do; a live event is a page
of one.  An option is added by a read (`ReadForAdd`), a second read inside
`UpsertPoll` (`Merge`) and a write (`WritePoll`), a vote by a read
(`ReadForVote`) and a write (`WriteVote`); other goroutines run in between.
`ballot` is the `poll vote` command between its checks, the send and the row it
writes itself.  The poll is in one chat: the lookup by message id alone, which
finds a poll under another name of the chat, is the same lookup here.
`DeletePoll` has no caller and is left out.

### StoreSchema

`Open`, `StartMigration` and `Record` are the loop of `ensureSchema`; a process
reads `schema_migrations` once (`known`) and then works through the versions it
did not find.  Each statement of a migration is a step of its own, as it is for
SQLite: the look at a column (`CheckColumn`), ALTER (`AddColumn`), the two
UPDATEs of the unread count, and for the index `CheckFTS`, `DropFTS`,
`CreateFTS`, three `DropTrigger`, three `CreateTrigger`, `Backfill`.  A
statement that fails either ends the open (`Fail`) or, inside
`migrateMessagesFTS`, ends the migration as if it had succeeded (`EndFTS`).
`start` is the store as an earlier version left it, one that is `Complete`.
Five migrations stand for the nineteen; the others look for a column or a table
and add it, which is how 8 and 9 begin.  Not modelled: a binary without FTS5
opening a store that has an index.

### ChatState

One chat.  WhatsApp's side is `phone` (the chat as the phone shows it), `inbox`
(what waits in the node queue: messages, read-self receipts, history
conversations) and `patches` (app-state changes this device has not seen).

| Variable | Code |
|---|---|
| `chat` | the row of `chats`: `archived`, `pinned`, `muted_until`, `unread`, `unread_count` |
| `stored` | the chat's rows in `messages` |
| `mode` | who has the store lock: no one, a sync, a command |
| `handler` | `handleLiveSyncMessage` on the node queue: before the check of `shouldIncrementLiveUnread`, before the upsert (`store`), before the increment (`count`) |
| `page` | messages of a history conversation, stored next to the node queue because a long history sync outlives whatsmeow's handler timeout |
| `cli` | a chat command: connected (`open`), between WhatsApp and the row (`write`), cleanup between its list and its deletion |
| `counted`, `uncounted`, `missed` | history variables: how often a stored message was counted, what kept one from counting, whether a change of a flag was lost |

An acknowledgement may get lost, so that a message is handled again; every
statement may fail with a warning.  `SyncEnds` and `CommandEnds` are possible
between any two steps.  `scene` picks the messages, the kinds of changes and
the number of events on the phone.

### LIDMigration

One contact under the names `lid` and `pn`. `row`, `options`, `vote`, `call`,
`starred` and `known` are the rows of `messages`, `polls`, `poll_votes`,
`call_events`, `starred` and `chats` under each name; `sent` are messages that
commands recorded, `author` and `quoted` the two sender columns of a message in
a group. The handler resolves a name (`ResolveEvent`), writes the chat row
(`UpsertContactChat`) and then the event's own row (`WriteEvent`), which a
foreign key may refuse if the merge came between. Two names are not resolved:
the sender that a message quotes (`WriteReply`) and the recipient of a command
that records what it sent (`RecordSent`). `MigrateLIDToPN` is the transaction
of `lid_migration.go`, one operator per table; `MigratedRow` is its conflict
clause column by column. `unsplit` is a history variable: the same events
applied to one row with the upsert's rules.

### Directory and CallEvents

`groupRow`, `groupChat` and the names of a contact; times are ages relative to
the cutoff of `groups prune`. `refresh` walks through `refreshGroups` (fetch,
upsert each, mark the missing), while handlers store group messages and persist
the group's info, and WhatsApp changes memberships. A command lists, waits for
a confirmation of any length and deletes. `CallEvents` has the rows of one chat
and three goroutines between the look (`singleCallEventRow`) and the statement
that follows. A call-log message carries its message id as the call's id
(`internal/wa/calls.go`, line 47) where a record has the call's own: where the
two differ, they are two calls of the model; the feeds take the case in which
they meet.

### Backfill

`backfill` is the loop of `BackfillHistory`: request from the oldest stored
message, wait, compare, stop. What happened in the chat is a sequence of
events: messages, edits and deletions. `archive` is what they left of each
message: the time of its row, which a revocation raises and which an edit that
comes before its message brings along, and whether it is a tombstone; `Oldest`
orders by that time, as `GetOldestMessageInfo` does. `pageHandler` is a
dispatcher that stores the messages of an answer one by one; where the answer
is a notification the handler signals after storing, where whatsmeow has
downloaded it the loop may be woken before. `ReceiveInitial` and `ReceiveLive`
bring what nobody asked for. `answers` bounds what WhatsApp delivers; an answer
may belong to an earlier request, name the chat differently, hold nothing or
part of a page, or never come.

### Outbound

One send of each kind. `CommandSteps` is the sequence of a kind's command up to
`runSendOperation`, `AttemptSteps` that of an attempt, and after it the rows of
`Persist`; each step may fail where its code returns an error. Files, stickers
and media statuses are recorded inside the attempt, so by a goroutine that may
outlive the command. `outRow` is the message's row under both names of the
contact, `phoneSaid` what the phone did to the message. A delegated send has no
lookup or connection of its own and runs next to sync's event handler.

### Accounts

`configFile` is the file as a reader finds it, absent (`NoFile`) or
half-written
included; `registry` is a history variable, the registry as the commands that
took effect left it.  `editor` is a command between lock, load, temporary file
and rename, `resolver` another command that reads the file twice and then takes
the lock of the default store, which is the same lock.

## 4. Runs

| Run | What it shows | Bounds and why they suffice |
|---|---|---|
| `commands` | message rows: order and repetition of edits, revocations, deletions, downloads racing every other writer, CLI mutations, crashes; a backfill; two `accounts` commands and a reader; one send of each kind | rows: one key (rows do not interact), fed either with a text message or with a captioned picture, three remote edits at two distinct seconds and a local one by a clock ahead, level or behind, so that newer, older and equal stamps meet, two media workers on the row, all deliveries unbounded; backfill: two messages, an edit of one and a revocation of the other, two per page, two requests and two answers, so that a late answer meets the next request, and one history page or live event that nobody asked for, so that the oldest row moves up between the two; accounts: two names, two editors, one reader; send: two attempts, two times, both names of the contact |
| `sync_safety` | growth beyond `--max-messages`, teardown, no lost disconnect | two dispatchers; called with a limit of two on an empty and on a full table and four messages or deletions for me, or without a limit and with three losses (during setup, during a reconnect, one more) and a delegated send; queues of one so that full queues happen |
| `sync_ends` | `sync --once` ends; a cancelled `sync --follow` ends | a batch of three against one worker and a queue of one, so that the handler blocks; a lost connection in a call of its own |
| `sync_stranded` (violation) | a failed delegated reconnect leaves sync without a connection | one loss, one delegated send |
| `send_safety` | lock, server and message copies over hand-overs and crashes | two syncs for the hand-over, two commands so that one is queued behind the other |
| `send_liveness` | queues drain, commands end | one sync; two commands |
| `polls_serial` | one writer: votes select options, a page resolves its own votes | one dispatcher, two voters, two votes, an added option; pages of three, so that a page holds poll, option and vote in any order |
| `polls_concurrent` | late, replayed and racing votes | two dispatchers, a `send poll`, a `poll vote`; one voter (voters' rows do not interact), three votes, so that old, new and retraction meet |
| `polls_replay` (violation) | a replayed creation racing an added option loses the option | two dispatchers, one option |
| `tables` | chat: repeated delivery, receipts, history pages, patches, commands, cleanup, failures and stops on one chat; the merge of a hidden id; groups, contacts and prune; calls | chat scenes: two messages with receipts and marks and three events on the phone (message, page of the other, mark), one message with four; archive and pin with four, archive and mute with three. Flags and unread state share no column, so their scenes are separate; two values in the queue are enough for an earlier change to be overtaken. Hidden id: one handler, feeds with an original, two edits and a deletion, with a poll and votes, with a call and a star, with replies that quote the hidden id and commands that record what they sent, all deliveries unbounded. Groups: two, so that one is refreshed while the other is left or joined, two changes on WhatsApp. Calls: one call and an event without an id, two types, two times, three goroutines, three rows |
| `schema` | what opens that race or end early do to index and counts | two processes, one early end at any statement, one message that arrives; stores: new, before the migrations table, versions 7, 8 (with and without an index), 17 with a count and with the old marker -1, and a pre-release that recorded a version without its column |
| `schema_legacy` (violation) | an undisturbed upgrade leaves old messages out of the index | one process, one old message |

`KeepsReconnecting` states a sentence of `docs/sync.md` (line 18) literally;
the code does otherwise, and `LostConnectionIsPending` states what does hold.
`OptionsOnlyGrow` states what `UpsertPoll` sets out to do by merging the stored
options; it holds with one writer. Line 19 of `docs/sync.md` says that
`--max-messages N` stops before storing more than N messages: every handler
between its check and its upsert adds one more, and two writers do not check at
all: a delegated send (`send.go`, lines 168-186) and a deletion for me of a
message that is not stored, of which there may be any number (`sync_events.go`,
lines 126-157). `GrowthIsBounded` counts all three. `SearchFindsAll` states
what `docs/index.md` (line 13) says of the index; `SearchIsExact` states for
which stores it holds. A vote that is handled after its own retraction comes
back, because a deleted row keeps no time to compare with: `NewestVoteWins`
excepts it.

`FlagsFollowPhone` states the sentence of `docs/sync.md` on changes made while
wacli was offline (line 31) for changes a sync takes. It excepts a change that
is delivered while a command is connected, which has no event handler, a failed
statement, a chat that cleanup deleted, and a process that dies between
WhatsApp and the row: after that death the row keeps the old flag, and no
property says otherwise. No property compares the unread count with the
phone's: a mark-read patch clears the whole count whenever it arrives, and a
history conversation carries the count of its time. That messages are
acknowledged after their handler and app-state patches recorded before it is
how whatsmeow is assumed to work; whatsmeow itself is not part of the
repository.

`MergedAsUnsplit` compares what a reader sees, without the time: if the row
under the number is an edit whose original was stored under the hidden id
together with another edit, the merged row has the edit's time.

`RefreshIsExact` and `OneRowPerCall` each except the one interleaving their
code leaves open, and say which. Other properties hold but for cases that the
code does not handle; each is part of the property, and its comment says so:

- `NewestEditWins` and `RedeliveryIsHarmless`: where the local clock is behind
  WhatsApp's, `messages edit` replaces an edit that is stamped later
  (`Overtaken`). That edit does not count until it is delivered again, and then
  it is back. Two edits of one second may win in either order.
- `NothingAskedTwice`: a revocation stored over its message gives the row the
  time of the revocation, so that the oldest row may be a newer one than
  before, and what lies between is asked for again; the requests from the row's
  old time on do not count any more (`StillAsked`). A loop that failed to read
  the oldest message takes that for progress. What an answer has brought is not
  asked for again only where its row is no newer than the event: a tombstone
  stands at the time of the deletion and an edit that came before its message
  may stand behind a later one. Events of one second, which the code orders by
  rowid, do not occur.
- `PhoneHasLastWord`: the phone's edit or revocation is stored by the number
  where the pair is known, the command's record by the recipient as given or as
  the warm-up returned it. A text, file, sticker or reaction that goes to the
  hidden id, and a vote or selection whose poll or target is stored so, is then
  recorded as sent beside the edited or revoked row, under the other name.
  Where the pair is not known this can happen under either name.
- `VoteJoinsPoll`: where the pair is known, the command looks for the poll by
  both names. Where it is not, it looks by the recipient's name after the
  warm-up; a poll under the other name, also one that the warm-up has just
  turned the recipient away from, is not found, and the vote is recorded by the
  name the command has.
- `HandlerSplitsNoMore`: a handler that was overtaken by the merge leaves a row
  for the next connect. The sender that a message quotes and the recipient of a
  command's own record are never resolved, so that hidden ids come back after a
  merge and stay until the next; the property says that nothing else writes
  them.

Where the code and a document differ and no run says so (observed while
modelling):

- `docs/history.md` (line 28) and `docs/spec.md` (line 194) have it that only
  on-demand history is downloaded and stored during a backfill; sync's handler
  (`sync_events.go`, lines 61-67) runs meanwhile and downloads and stores every
  other notification (`ReceiveInitial`).
- `docs/calls.md` (line 16) has it that calls are stored in `call_events`; the
  merge copies messages and polls, then deletes the chat row of the hidden id,
  and its calls go with it (`MigrateLIDChat`).
- `docs/messages.md` (line 34) orders stars by the time of the app-state event
  when there is one; a history page that comes later writes the message's time
  over it.  Stars stay under the hidden id after a merge.
- A vote retracted under the number while the vote is stored under the hidden
  id comes back with the merge.
- `media_caption` keeps the older of two captions in a merge.
- `groups prune --include-active` (`groups_prune.go`, lines 27-30) does not
  list a group without recent messages after a refresh, which writes the time
  of the refresh to its chat row.
- A file send that timed out may still be recorded; a text or poll send that
  timed out and was accepted never is.
- A media status is sent without the attempt's timeout and retry that
  `docs/send.md` (line 5) describes.
- The warning about rapid sends of a delegated send goes to the standard error
  of sync.
- `accounts` commands fail while another command holds the default store, whose
  lock file is theirs.
- `docs/sync.md` (line 31) has it that changes made while wacli was offline are
  caught up; those that WhatsApp delivers to a command without an event handler
  are not.

### Fairness

`SyncEngine` assumes weak fairness of the goroutine in `Sync`, of every
handler, worker and of the webhook poster: the Go scheduler runs them, and the
calls they make carry deadlines (connection attempts, downloads, posts).  It
assumes the clock advances and that a Disconnected event that was raised is
dispatched.  It assumes nothing of the network: connecting may fail forever,
WhatsApp may be silent, nobody has to press Ctrl-C.  Whether a message has
media and whether a job finds room are data and waiting, never a choice
fairness could force.

`Backfill` assumes that its loop and its handlers run and that `--wait` passes;
WhatsApp owes no answer.

`StoreSchema` assumes that a closed store is opened again and that a running
open runs on; opens may end early a bounded number of times.

`SendDelegation` assumes the same as `SyncEngine` of the process lifecycle and
of the steps
with a deadline (attempts: 45 s; reconnects; the connection of a client), and
strong fairness of `sendMu` because `sync.Mutex` hands over to starving
waiters.  WhatsApp may never answer an attempt.

## 5. Proofs

Each proof module belongs to a group of components and extends their modules;
it holds the inductive invariants, a lemma per action, and the theorems.
`MessageRowProofs` has the lemmas about single rows that `MessageStoreProofs`,
`CommandsProofs` and `TablesProofs` share.  The last two are about what
`MCCommands` and `MCTables` put together and extend these: one section per
component, and one for the composition.  Every theorem is for all values of the
constants: any number of handlers, processes, rows, times and events that the
named assumptions allow.

| Module | Theorem | States | Rests on |
|---|---|---|---|
| `MessageStoreProofs` | `TypeCorrect` | `TypeOK` | |
| | `TombstonesHideContent`, `DeletionsArePermanent` | `TombstoneHidesContent`, `DeletionIsPermanent` | `IInv` |
| | `PathsHaveFiles` | `LocalPathHasFile` | `FilesInv` |
| | `EditsWin`, `RedeliveryHarmless` | `NewestEditWins`, `RedeliveryIsHarmless` | `HistoryInv` (`HistoryKept`) |
| `PollsProofs` | `TypeCorrect`, `VotesKeepOrder` | `TypeOK`, `NewestVoteWins` | `Pending` |
| | `SerialVotesSelectOptions`, `SerialOptionsOnlyGrow` | `SelectedAreOptions`, `OptionsOnlyGrow`, one writer | `Fresh` |
| | `SerialPageResolves` | `PageResolvesItsVotes`, one writer | `Resolving` |
| `SendDelegationProofs` | `TypeCorrect` | `TypeOK` | `SendInv` |
| | `OnlineHoldsLock`, `ServingIsReachable` | `OnlyLockHolderIsOnline`, `ServerIsReachable` | `LockInv`, `ServerInv` |
| | `Refinement` | `ImplementsSendOutcome` | `SendInv` |
| `SyncEngineProofs` | `TypeCorrect` | `TypeOK` | |
| | `ClosedQuietly` | `ClosedIsQuiet` | `TeardownInv` |
| | `LossIsPending` | `LostConnectionIsPending` | `ConnectionInv` |
| | `BoundedGrowth` | `GrowthIsBounded` | `GrowthInv` |
| `StoreSchemaProofs` | `SchemaTyped` | `TypeOK` of `StoreSchema` | `SchemaInv` |
| | `SearchExact`, `UnreadStays` | `SearchIsExact`, `UnreadStaysUnread` | `SchemaInv` |
| `CommandsProofs` | `ConfigSerial` | `ConfigIsSerial` | `EditInv` |
| | `AskedOnce` | `NothingAskedTwice` | `ArchiveInv`, `AnchorInv`, `PageInv` |
| | `BackfillTyped` | `BackfillTypeOK` | `ChannelInv` |
| | `RecordsAreOfTheSent`, `PhoneStays`, `VotesWithPoll` | `RecordedAsAccepted`, `PhoneHasLastWord`, `VoteJoinsPoll` | `OutInv`, `NameInv` |
| | `PromiseKept` | `KeepsPromise` | `OneSent` |
| | `CommandsCompose`, `CommandsTyped` | the components' specifications, `CommandsTypeOK` | the types above |
| `TablesProofs` | `ChatTyped`, `CountsAreUnread`, `MessagesCountOnce` | `TypeOK`, `CountedIsUnread`, `CountsOnce` of `ChatState` | `Handling` |
| | `FlagsAreFollowed` | `FlagsFollowPhone` | `Following` |
| | `CleanupSparesActive` | `CleanupSparesRecent` | `Waiting` |
| | `SplitEnds` | `HandlerSplitsNoMore` | `SplitInv` (`Ended`) |
| | `UpsertsConverge`, `MergeIsJoin` | rows of one history | `UpsertJoins`, `MigrationJoins` |
| | `MergesAsUnsplit` | `MergedAsUnsplit`, feeds with one history | `MergeInv`, `VotesInv` |
| | `RefreshExact`, `PruneSpares`, `NamesKept` | `RefreshIsExact`, `PruneSparesActive`, `NamesAreKept` | `DirectoryInv` |
| | `CallHasOneRow` | `OneRowPerCall` | `CallsInv` |
| | `LIDTyped`, `DirectoryTyped`, `CallsAreTyped` | `LIDTypeOK`, `DirectoryTypeOK`, `CallTypeOK` | `LIDTypes`, `DirectoryInv`, `CallsTyped` |
| | `TablesCompose`, `TablesTyped` | the components' specifications, `TablesTypeOK` | the types above |

Why the properties need more than themselves:

- *Message rows.* The local half of `messages edit` resets both flags, and is
  harmless only because the row was validated when the lock was taken and
  nobody else can have written it since. `IInv` adds exactly that: while a CLI
  process is between its validation and its write, its row still passes the
  validation, and no half-applied deletion and no worker with a job exists
  outside a sync. Each SQL statement has a lemma that says which rows it
  produces. `FilesInv` adds that a worker which has fetched its file has it on
  disk, or `--delete-media` took it. `HistoryInv` explains each column of a row
  by the payloads and mutations applied to it, less the edits that a local one
  with a slow clock replaced (`Overtaken`); that a replayed payload changes
  nothing follows from it and from `OnConflict` alone.
- *Polls.*  Two writers can each drop the other's option, which `polls_replay`
  shows; with one, `Fresh` says that what it is about to write contains every
  stored option and what it matches a vote with is still stored - the fact a
  transaction around the read and the write would give to every writer.
  `Resolving` follows a page: the options it brings are stored, or their events
  are still to be handled, and handled before its votes.
- *Chats.* `Handling`: the message being handled is at the head of the queue
  until it is acknowledged, has not counted when its count is still to come,
  and a message without a row has not counted. `Following`: of each flag,
  either no pending change touches it and the row is right, or the last one
  that touches it has the phone's value. `Waiting`: a command's list stays true
  because no handler and no page runs while a command has the lock.
- *Delegated sends.*  `LockInv` ties the place of a process to the lock, and
  being online to both; `ServerInv` the socket's path to the process that
  listens; `SendInv` says of a message where its task may be while it was not
  accepted, that at most one of its two attempts is under way or accepted, and
  that a running one, which may have outlived its timeout, has not been
  accepted.  `Refinement` maps each step to one of `SendOutcome` or to a
  stutter.
- *Sync.* `TeardownInv` says of each place in the teardown what it has already
  waited for. `ConnectionInv` extends the property from the loop to the setup
  before it, which already depends on the connection. `GrowthInv` counts the
  handlers that passed the limit check and will add a row each whatever the
  others add (`Storing`); the rows of the writers that do not check are on both
  sides.
- *Accounts.*  `EditInv`: what a command is about to rename into place is its
  change to the file as it is now, because it holds the lock from load to
  rename; readers without a lock change nothing.
- *Backfill.* The oldest row exists because the rows are finitely many and
  their times well-founded (`WellFoundedInduction`), and each row has the time
  of an event of its message (`ArchiveInv`). While the loop waits, the row it
  asked with is no newer than any anchor that counts, because a row that a
  deletion moves up takes the anchors at its old time and above out of the
  count; so a request goes out only when some row is older than all of them
  (`AnchorInv`). What a handler has signalled of a page is stored or was lost
  to a failed statement (`PageInv`).
- *Schema.*  An open that finds a version recorded skips it, so `SchemaInv`
  says of each open how far it got in the migration it is in (`OpenerInv`) and
  what the tables then look like (`StoreInv`).  For stores that no two opens changed
  at once: `IndexInv` says at each stage of the index migration which of table
  and triggers exist and that no tombstone is in it, `CompleteInv` that a
  message which can be seen is in the index or an open is still filling it, and
  `CountInv` where between the two UPDATEs the count is.  The stores an earlier
  version can have left are an assumption (`Complete`).
- *Hidden ids.* `SplitInv`: once a merge overtook nobody, the pair is known and
  every handler holds the number, so that only the two who resolve nothing,
  kept in `raw`, write the hidden id (`Ended`). `MergeInv` relates three rows,
  the two names' and the one there would be under one name: the one has every
  deletion of the two and their newest edit, and each shows one of the bodies
  that WhatsApp delivered. Both the upsert and the merge keep that, each by
  lemmas of its own (`ConflictShows`, `MigrationShows`), which is what "the
  rules agree" comes to. The same lemmas give the algebra of the rows without a
  behaviour around them: `UpsertsConverge` (two payloads in either order, and a
  replay, leave the same message) and `MergeIsJoin` (the merge is symmetric,
  and a payload that comes before or after it, under either name, counts the
  same). For the types, `LIDTypes` adds that a tombstone has no content, on
  which the label that the next statement keeps depends.
- *Groups and calls.*  `DirectoryInv` says what a refresh has done so far to
  the
  groups nobody touched since its list, and that the groups a prune has listed
  stay spent because the lock keeps handlers and refreshes out; `CallsInv` that
  a call which no two goroutines looked for at once has one row, the one the
  goroutine at work on it has found.
- *Send commands.* `OutInv` splits the rows a kind has to record into those
  recorded, those the attempt still has to write and those the command has, and
  says that every row is of an accepted message, shows what the phone did to it
  since, and of a vote that it goes to the name its poll was found under.
  `NameInv` is about the two names: only the record shows the message as it was
  sent, and the phone's events go to the number once the pair is known.
  `OneSent`: a second attempt follows only one that sent nothing.
- *Compositions.*  In `MCCommands` and `MCTables` a step is a step of one
  component, and every other component stutters; so `CommandsSpec` and
  `TablesSpec` each imply the components' specifications, and every theorem
  about a component holds in what the runs check.  `ChannelInv`, for the types
  of a backfill: an answer that waits in the channel is one of the answers
  WhatsApp may give, and at most four wait.

Assumptions.  Constants have the assumptions the modules name, and the runs
evaluate all of them:

- labels are no message texts, `NULL` and the other markers are no values,
  payloads and stored rows are well formed, times are positive;
- `OriginalAssumption`: a message id names one message, so all its payloads
  have
  one sender and its original is the same whenever it comes;
- `DeletionAssumption`: a delete-for-me is an app-state event
  (`sync_events.go`,
  line 150), a revocation a message (`sync.go`, lines 426-457), so no payload
is
  both;
- `StoresAssumption`: a store is as a version that finished its migrations left
  it: versions in order, each flag column with its version, an index kept by
  its triggers or none, nothing left to move where `unread_count` exists;
- `EventsAssumption`: an edit or a deletion comes after the message it is
  about, and no two events of a backfilled chat are of one second;
- ballots select options, a scene has finitely many messages.

`MergesAsUnsplit`, `UpsertsConverge` and `MergeIsJoin` have a hypothesis
instead: `OneHistory` of the feed, which `MCTables` evaluates for the feeds of
`tables`.  The code does not ensure it.  Of
two different edits in one second the upsert takes the later to arrive and the
merge the one under the number; an edit that empties a caption stays empty in
one row, while the merge fills it from the older edit.  `DirectoryTyped`,
`CallsAreTyped` and with them `TablesTyped` suppose a group and a time for
calls:
an idle record in the model names some group and some event, and of an empty
set
there is none.

Only model-checked: liveness (`SyncReturns`, `OnceEnds`, `QueuedSendsFinish`,
`CommandsFinish`, `StoreOpens`, `BackfillTerminates`) and whatever needs
ENABLED, which the proof system does not handle, as it does not handle
induction
over data.  Every other property of a passing run, each component's types
included,
has a theorem.

## 6. Not modelled

- whatsmeow itself, which appears as nondeterministic events;
- protobuf parsing, output and formatting, file names, link previews: pure
  functions and single fetches;
- SQL queries that only read (lists, search, export, coverage), names and kinds
  of chats, `DeleteChatsOlderThan` (no command calls it), `messages purge`;
- participants of groups, tags of contacts, channels, presence, profile,
  received statuses: single statements or single calls without a second party;
- the HTTP daemon: it runs the command line tool once per request and keeps no
  state between requests;
- request signing and address filtering of webhooks.

Known to be lost, and therefore in no property: a webhook post when its queue
is full (a documented warning); app-state changes dispatched while a chat
command is connected without a handler; the exact unread count after a late
mark-read patch, which clears the whole count; a vote cast on the phone between
`poll vote`'s send and its record.  The goroutine that recovers the app state
(`sync_events.go`, line 262) is not awaited by the teardown; it talks to
whatsmeow only and writes nothing to the store.
