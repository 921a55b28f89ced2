----------------------------- MODULE SyncEngine -----------------------------
(***************************************************************************)
(* One run of App.Sync: the goroutine that calls it, whatsmeow's           *)
(* dispatchers running the event handler, the media workers, the webhook   *)
(* worker, the two bounded queues between them, the storage limit, and the *)
(* connection.                                                             *)
(*                                                                         *)
(* The handler runs on several dispatcher goroutines at once (the node     *)
(* queue, app-state fetches, a node that outlives its queue slot).  A live *)
(* message is a batch of one, a history sync a batch of several.           *)
(***************************************************************************)
EXTENDS Naturals, FiniteSets

CONSTANTS
    Dispatchers,    \* whatsmeow goroutines that run the event handler
    MediaWorkers,   \* 4 in Sync
    MediaCap,       \* capacity of the media queue (512 in the code)
    WebhookCap,     \* capacity of the webhook queue (512 in the code)
    Starts,         \* how Sync may be called, see `StartRecords`
    MaxBatch        \* bound: messages of one history sync

\* The options Sync gets (max_messages is 0 when unlimited, follow is FALSE
\* for once and bootstrap, max_reconnect says whether it is finite), the rows
\* earlier runs stored, and this run's bounds: messages and deletions WhatsApp
\* delivers, connections lost, messages stored by delegated sends.
StartRecords ==
    [max_messages : Nat, follow : BOOLEAN, max_reconnect : BOOLEAN,
     rows : Nat, arrivals : Nat, drops : Nat, delegated : Nat]

ASSUME SyncAssumption ==
    /\ MediaCap \in Nat \ {0} /\ WebhookCap \in Nat \ {0}
    /\ Starts \subseteq StartRecords /\ MaxBatch \in Nat
    /\ IsFiniteSet(Dispatchers) /\ IsFiniteSet(MediaWorkers)

VARIABLES
    main,       \* where the goroutine that called Sync is
    result,     \* what Sync will return
    cancelled,  \* syncCtx is done
    limitErr,   \* syncStorageLimits.err is set
    socket,     \* whatsmeow's websocket is up
    dropped,    \* a Disconnected event is still to be dispatched
    auto,       \* whatsmeow's own reconnect loop runs
    sender,     \* the reconnect of a delegated send
    signal,     \* content of the channel `disconnected` (capacity 1)
    quiet,      \* IdleExit has passed since lastEvent
    handler,    \* the event handler on each dispatcher
    rows,       \* COUNT(*) of messages
    mediaQ,     \* jobs in the media queue
    worker,     \* the media workers
    webhookQ,   \* messages in the webhook queue
    poster,     \* the webhook worker
    tombstones, \* history: rows inserted by a deletion for me
    arrivals, drops, delegated,    \* bounded environment
    start       \* how Sync was called

conn == <<socket, dropped, auto, sender, signal, drops>>
queues == <<mediaQ, webhookQ>>
workers == <<worker, poster>>
vars == <<main, result, cancelled, limitErr, socket, dropped, auto, sender,
          signal, quiet, handler, rows, mediaQ, worker, webhookQ, poster,
          tombstones, arrivals, drops, delegated, start>>

MaxMessages == start.max_messages
Follow == start.follow
MaxReconnect == start.max_reconnect

\* The stages of Sync.  From "detach" on they are its deferred calls, in the
\* order they run: RemoveEventHandler (which waits for running handlers),
\* stopWebhook, stopMedia, cancel.
Open   == {"connect", "prepare", "loop", "reconnect", "decide"}
Stages == Open \cup {"limits", "detach", "stopWebhook", "stopMedia", "cancel",
                      "closed"}

IdleHandler == [at |-> "idle", left |-> 0, live |-> FALSE]

Init ==
    /\ main = "limits" /\ result = "none"
    /\ cancelled = FALSE /\ limitErr = FALSE
    /\ socket = FALSE /\ dropped = FALSE /\ auto = FALSE /\ signal = 0
    /\ sender = "idle"
    /\ quiet = FALSE
    /\ handler = [d \in Dispatchers |-> IdleHandler]
    /\ start \in Starts /\ rows = start.rows
    /\ mediaQ = 0 /\ worker = [w \in MediaWorkers |-> "exited"]
    /\ webhookQ = 0 /\ poster = "exited" /\ tombstones = 0
    /\ arrivals = 0 /\ drops = 0 /\ delegated = 0

\* Variant: one message too many.
OverLimitByOne == MaxMessages > 0 /\ rows > MaxMessages

OverLimit == MaxMessages > 0 /\ rows >= MaxMessages

\* syncStorageLimits.setErr: the first error wins and cancels the context.
SetErr == limitErr' = TRUE /\ cancelled' = TRUE

-----------------------------------------------------------------------------
(* The goroutine that called Sync.                                         *)

MainUnchanged == UNCHANGED <<limitErr, handler, rows, queues, workers,
                             tombstones, arrivals, delegated, start>>

\* checkSyncStorageLimits comes before anything is started.
RefuseToStart ==
    /\ main = "limits" /\ OverLimit
    /\ main' = "closed" /\ result' = "limit"
    /\ UNCHANGED <<cancelled, conn, quiet>> /\ MainUnchanged

StartWorkers ==
    /\ main = "limits" /\ ~OverLimit
    /\ main' = "connect"
    /\ worker' = [w \in MediaWorkers |-> "waiting"]
    /\ poster' = "waiting"
    /\ UNCHANGED <<result, cancelled, conn, quiet, limitErr, handler, rows,
                   queues, tombstones, arrivals, delegated, start>>

ConnectForSync ==
    /\ main = "connect"
    /\ \/ /\ ~cancelled
          /\ main' = "prepare" /\ socket' = TRUE /\ quiet' = FALSE
          /\ UNCHANGED result
       \/ /\ main' = "detach" /\ result' = "error"
          /\ UNCHANGED <<socket, quiet>>
    /\ UNCHANGED <<cancelled, dropped, auto, sender, signal, drops>>
    /\ MainUnchanged

\* LID migration, app-state deltas, refreshes, AfterConnect.
Prepare ==
    /\ main = "prepare"
    /\ \/ main' = "loop" /\ UNCHANGED result
       \/ main' = "detach" /\ result' = "error"
    /\ UNCHANGED <<cancelled, conn, quiet>> /\ MainUnchanged

\* The select of runSyncFollow and runSyncUntilIdle.
LoopCancelled ==
    /\ main = "loop" /\ cancelled
    /\ main' = "decide" /\ result' = "ok"
    /\ UNCHANGED <<cancelled, conn, quiet>> /\ MainUnchanged

LoopDisconnected ==
    /\ main = "loop" /\ signal = 1
    /\ signal' = 0 /\ main' = "reconnect"
    /\ UNCHANGED <<result, cancelled, socket, dropped, auto, sender, drops, quiet>>
    /\ MainUnchanged

IdleExit ==
    /\ main = "loop" /\ ~Follow /\ quiet
    /\ main' = "decide" /\ result' = "ok"
    /\ UNCHANGED <<cancelled, conn, quiet>> /\ MainUnchanged

\* ReconnectWithBackoff: Connect succeeds (at once if the socket is up) ...
Reconnected ==
    /\ main = "reconnect" /\ ~cancelled
    /\ socket' = TRUE /\ main' = "loop"
    /\ UNCHANGED <<result, cancelled, dropped, auto, sender, signal, drops, quiet>>
    /\ MainUnchanged

\* Variant: --max-reconnect is not applied.
ReconnectEndsOnlyByCancel == cancelled

ReconnectEnds == cancelled \/ MaxReconnect

\* ... or the deadline passes or the context ends.
ReconnectGivesUp ==
    /\ main = "reconnect" /\ ReconnectEnds
    /\ main' = "decide" /\ result' = "error"
    /\ UNCHANGED <<cancelled, conn, quiet>> /\ MainUnchanged

\* limits.Err() goes before the loop's own result.
Decide ==
    /\ main = "decide"
    /\ result' = IF limitErr THEN "limit" ELSE result
    /\ main' = "detach"
    /\ UNCHANGED <<cancelled, conn, quiet>> /\ MainUnchanged

\* Variant: the handler is removed under its callers.
HandlersNotAwaited == TRUE

\* RemoveEventHandler takes whatsmeow's handler lock for writing.
HandlersDone == \A d \in Dispatchers : handler[d].at = "idle"

Detach ==
    /\ main = "detach"
    /\ HandlersDone
    /\ main' = "stopWebhook"
    /\ UNCHANGED <<result, cancelled, conn, quiet>> /\ MainUnchanged

StopWebhook ==
    /\ main = "stopWebhook"
    /\ poster = "exited"
    /\ main' = "stopMedia"
    /\ UNCHANGED <<result, cancelled, conn, quiet>> /\ MainUnchanged

StopMedia ==
    /\ main = "stopMedia"
    /\ \A w \in MediaWorkers : worker[w] = "exited"
    /\ main' = "cancel"
    /\ UNCHANGED <<result, cancelled, conn, quiet>> /\ MainUnchanged

Cancel ==
    /\ main = "cancel"
    /\ main' = "closed" /\ cancelled' = TRUE
    /\ UNCHANGED <<result, conn, quiet>> /\ MainUnchanged

-----------------------------------------------------------------------------
(* The event handler on dispatcher d.                                      *)

HandlerUnchanged == UNCHANGED <<main, result, conn, workers, tombstones,
                                delegated, start>>

At(d, stage) == handler[d].at = stage
Go(d, stage) == handler' = [handler EXCEPT ![d].at = stage]

EndBatch(d) == handler' = [handler EXCEPT ![d] = IdleHandler] /\ UNCHANGED quiet

\* The next message of the batch, or the end of it.
NextMessage(d) ==
    IF handler[d].left > 1
    THEN /\ handler' = [handler EXCEPT ![d].at = "check", ![d].left = @ - 1]
         /\ quiet' = FALSE
    ELSE EndBatch(d)

\* A message without media needs no job.
EndMessage(d) == (Go(d, "media") /\ UNCHANGED quiet) \/ NextMessage(d)

\* An event arrives; lastEvent is set before any work.
Dispatch(d, n, live) ==
    /\ main \in Open /\ socket
    /\ At(d, "idle")
    /\ arrivals + n =< start.arrivals
    /\ arrivals' = arrivals + n
    /\ handler' = [handler EXCEPT ![d] =
                     [at |-> "check", left |-> n, live |-> live]]
    /\ quiet' = FALSE
    /\ UNCHANGED <<cancelled, limitErr, rows, queues>> /\ HandlerUnchanged

\* A message is deleted for me on another device.
DispatchDeletion(d) ==
    /\ main \in Open /\ socket
    /\ At(d, "idle")
    /\ arrivals < start.arrivals
    /\ arrivals' = arrivals + 1
    /\ Go(d, "delete") /\ quiet' = FALSE
    /\ UNCHANGED <<cancelled, limitErr, rows, queues>> /\ HandlerUnchanged

\* handleDeleteForMeEvent: the row is marked, or one that is not stored is
\* inserted, or a statement fails.  The limit is not looked at.
StoreDeletion(d) ==
    /\ At(d, "delete")
    /\ \/ rows' = rows + 1 /\ tombstones' = tombstones + 1
       \/ UNCHANGED <<rows, tombstones>>
    /\ EndBatch(d)
    /\ UNCHANGED <<main, result, conn, workers, cancelled, limitErr, queues,
                   arrivals, delegated, start>>

\* First check of StoreParsedMessage.  A live message that was not stored is
\* still queued for media; a history batch ends once the context is done.
CheckBeforeStore(d) ==
    /\ At(d, "check")
    /\ IF OverLimit
       THEN /\ SetErr
            /\ IF handler[d].live THEN EndMessage(d) ELSE EndBatch(d)
       ELSE Go(d, "store") /\ UNCHANGED <<limitErr, cancelled, quiet>>
    /\ UNCHANGED <<rows, queues, arrivals>> /\ HandlerUnchanged

\* The upsert adds a row, updates one (edit, revoke, replay), or fails.
Store(d) ==
    /\ At(d, "store")
    /\ \/ rows' \in {rows, rows + 1} /\ Go(d, "recheck") /\ UNCHANGED quiet
       \/ /\ UNCHANGED rows
          /\ IF cancelled /\ ~handler[d].live
             THEN EndBatch(d) ELSE EndMessage(d)
    /\ UNCHANGED <<cancelled, limitErr, queues, arrivals>>
    /\ HandlerUnchanged

CheckAfterStore(d) ==
    /\ At(d, "recheck")
    /\ IF OverLimit THEN SetErr ELSE UNCHANGED <<limitErr, cancelled>>
    /\ IF handler[d].live THEN Go(d, "webhook") /\ UNCHANGED quiet
       ELSE EndMessage(d)
    /\ UNCHANGED <<rows, queues, arrivals>> /\ HandlerUnchanged

\* Never blocks: a full queue or a done context drops the message.
EnqueueWebhook(d) ==
    /\ At(d, "webhook")
    /\ \/ webhookQ < WebhookCap /\ webhookQ' = webhookQ + 1
       \/ (webhookQ = WebhookCap \/ cancelled) /\ UNCHANGED webhookQ
    /\ EndMessage(d)
    /\ UNCHANGED <<cancelled, limitErr, rows, mediaQ, arrivals>>
    /\ HandlerUnchanged

\* Variant: a plain send on the channel.
JobIsNeverDropped == FALSE

JobIsDropped == cancelled

\* Blocks while the queue is full and the context is live.
EnqueueMedia(d) ==
    /\ At(d, "media")
    /\ \/ mediaQ < MediaCap /\ mediaQ' = mediaQ + 1
       \/ JobIsDropped /\ UNCHANGED mediaQ
    /\ NextMessage(d)
    /\ UNCHANGED <<cancelled, limitErr, rows, webhookQ, arrivals>>
    /\ HandlerUnchanged

-----------------------------------------------------------------------------
(* Workers.  A worker whose context is done may still take a job: select   *)
(* picks among the ready cases at random.                                  *)

WorkerUnchanged == UNCHANGED <<main, result, cancelled, limitErr, conn, quiet,
                               handler, rows, tombstones, arrivals, delegated,
                               start>>

TakeMedia(w) ==
    /\ worker[w] = "waiting" /\ mediaQ > 0
    /\ mediaQ' = mediaQ - 1
    /\ worker' = [worker EXCEPT ![w] = "busy"]
    /\ UNCHANGED <<webhookQ, poster>> /\ WorkerUnchanged

\* Downloaded, failed, or panicked and recovered: the worker goes on.
FinishMedia(w) ==
    /\ worker[w] = "busy"
    /\ worker' = [worker EXCEPT ![w] = "waiting"]
    /\ UNCHANGED <<queues, poster>> /\ WorkerUnchanged

\* Variant: the workers are stopped before the handlers are detached.
MediaStoppedEarly == cancelled \/ main \in {"detach", "stopMedia"}

MediaStopped == cancelled \/ main = "stopMedia"

ExitMedia(w) ==
    /\ worker[w] = "waiting"
    /\ MediaStopped
    /\ worker' = [worker EXCEPT ![w] = "exited"]
    /\ UNCHANGED <<queues, poster>> /\ WorkerUnchanged

TakeWebhook ==
    /\ poster = "waiting" /\ webhookQ > 0
    /\ webhookQ' = webhookQ - 1 /\ poster' = "busy"
    /\ UNCHANGED <<mediaQ, worker>> /\ WorkerUnchanged

\* The request is bounded by syncWebhookRequestTimeout.
FinishWebhook ==
    /\ poster = "busy" /\ poster' = "waiting"
    /\ UNCHANGED <<queues, worker>> /\ WorkerUnchanged

ExitWebhook ==
    /\ poster = "waiting"
    /\ cancelled \/ main = "stopWebhook"
    /\ poster' = "exited"
    /\ UNCHANGED <<queues, worker>> /\ WorkerUnchanged

-----------------------------------------------------------------------------
(* The world outside.                                                      *)

EnvUnchanged == UNCHANGED <<main, result, limitErr, handler, queues, workers,
                            tombstones, arrivals, start>>

\* Ctrl-C, SIGTERM or the caller's deadline.
Interrupt ==
    /\ ~cancelled /\ main # "closed"
    /\ cancelled' = TRUE
    /\ UNCHANGED <<conn, quiet, rows, delegated>> /\ EnvUnchanged

TimePasses ==
    /\ ~quiet /\ main \in Open
    /\ quiet' = TRUE
    /\ UNCHANGED <<cancelled, conn, rows, delegated>> /\ EnvUnchanged

ConnectionDrops ==
    /\ socket /\ drops < start.drops
    /\ socket' = FALSE /\ dropped' = TRUE /\ auto' = TRUE
    /\ drops' = drops + 1
    /\ UNCHANGED <<cancelled, sender, signal, quiet, rows, delegated>>
    /\ EnvUnchanged

\* whatsmeow's own loop connects, or finds the socket up and ends.
AutoReconnect ==
    /\ auto /\ main \in Open
    /\ socket' = TRUE /\ auto' = FALSE
    /\ UNCHANGED <<cancelled, dropped, sender, signal, drops, quiet, rows,
                   delegated>>
    /\ EnvUnchanged

\* Variant: a channel without capacity.
RaiseSignalUnbuffered == signal' = IF main = "loop" THEN 1 ELSE signal

\* Non-blocking send on a channel of capacity one.
RaiseSignal == signal' = 1

\* The Disconnected case of the handler.
HandleDisconnected ==
    /\ dropped /\ main \in Open
    /\ dropped' = FALSE /\ RaiseSignal
    /\ UNCHANGED <<cancelled, socket, auto, sender, drops, quiet, rows,
                   delegated>>
    /\ EnvUnchanged

\* The StreamReplaced case: close the socket first, then signal.
HandleStreamReplaced ==
    /\ socket /\ drops < start.drops /\ main \in Open
    /\ socket' = FALSE /\ drops' = drops + 1 /\ RaiseSignal
    /\ UNCHANGED <<cancelled, dropped, auto, sender, quiet, rows, delegated>>
    /\ EnvUnchanged

\* A delegated send runs: the server is started at the end of the setup and
\* its connections are not awaited by Sync's teardown.
Sending ==
    /\ Follow /\ delegated < start.delegated
    /\ main \in {"loop", "reconnect", "decide", "detach", "stopWebhook",
                 "stopMedia", "cancel"}

\* reconnectForSend: close the socket that Sync watches, which emits no
\* event ...
CloseForSend ==
    /\ Sending /\ ~cancelled /\ sender # "closed"
    /\ socket' = FALSE /\ sender' = "closed"
    /\ UNCHANGED <<cancelled, dropped, auto, signal, drops, quiet, rows,
                   delegated>>
    /\ EnvUnchanged

\* ... and connect once.
ConnectForSend ==
    /\ sender = "closed" /\ main # "closed"
    /\ \/ socket' = TRUE /\ sender' = "idle"
       \/ ~socket /\ sender' = "failed" /\ UNCHANGED socket
    /\ UNCHANGED <<cancelled, dropped, auto, signal, drops, quiet, rows,
                   delegated>>
    /\ EnvUnchanged

\* persistOutboundText: an upsert without a storage check.
PersistDelegated ==
    /\ Sending /\ sender # "closed"
    /\ delegated' = delegated + 1 /\ rows' = rows + 1
    /\ UNCHANGED <<cancelled, conn, quiet>> /\ EnvUnchanged

Closed == main = "closed" /\ UNCHANGED vars

-----------------------------------------------------------------------------
Main ==
    \/ RefuseToStart \/ StartWorkers \/ ConnectForSync \/ Prepare
    \/ LoopCancelled \/ LoopDisconnected \/ IdleExit \/ Decide
    \/ Detach \/ StopWebhook \/ StopMedia \/ Cancel

Handle(d) ==
    \/ CheckBeforeStore(d) \/ Store(d) \/ CheckAfterStore(d)
    \/ EnqueueWebhook(d) \/ EnqueueMedia(d) \/ StoreDeletion(d)

DoMedia(w) == TakeMedia(w) \/ FinishMedia(w) \/ ExitMedia(w)
DoWebhook  == TakeWebhook \/ FinishWebhook \/ ExitWebhook

Next ==
    \/ Main \/ Reconnected \/ ReconnectGivesUp
    \/ \E d \in Dispatchers : Handle(d)
    \/ \E d \in Dispatchers, n \in 1..MaxBatch, live \in BOOLEAN :
         (live => n = 1) /\ Dispatch(d, n, live)
    \/ \E d \in Dispatchers : DispatchDeletion(d)
    \/ \E w \in MediaWorkers : DoMedia(w)
    \/ DoWebhook
    \/ Interrupt \/ TimePasses \/ ConnectionDrops \/ AutoReconnect
    \/ HandleDisconnected \/ HandleStreamReplaced
    \/ CloseForSend \/ ConnectForSend \/ PersistDelegated
    \/ Closed

Spec == Init /\ [][Next]_vars

\* Every goroutine of the process is scheduled; a connection attempt,
\* downloads and webhook posts end one way or the other (they carry
\* deadlines); the clock advances.  Nothing is assumed of WhatsApp or the
\* user, and a reconnect may fail forever.
Fairness ==
    /\ WF_vars(Main) /\ WF_vars(ReconnectGivesUp)
    /\ \A d \in Dispatchers : WF_vars(Handle(d))
    /\ \A w \in MediaWorkers : WF_vars(DoMedia(w))
    /\ WF_vars(DoWebhook)
    /\ WF_vars(HandleDisconnected)
    /\ WF_vars(TimePasses)

FairSpec == Spec /\ Fairness

-----------------------------------------------------------------------------
(* Properties.                                                             *)

HandlerStates ==
    [at : {"idle", "check", "store", "recheck", "webhook", "media", "delete"},
     left : 0..MaxBatch, live : BOOLEAN]

TypeOK ==
    /\ main \in Stages
    /\ result \in {"none", "ok", "error", "limit"}
    /\ cancelled \in BOOLEAN /\ limitErr \in BOOLEAN
    /\ socket \in BOOLEAN /\ dropped \in BOOLEAN /\ auto \in BOOLEAN
    /\ signal \in 0..1 /\ sender \in {"idle", "closed", "failed"}
    /\ quiet \in BOOLEAN
    /\ handler \in [Dispatchers -> HandlerStates]
    /\ rows \in Nat /\ tombstones \in Nat
    /\ mediaQ \in 0..MediaCap /\ webhookQ \in 0..WebhookCap
    /\ worker \in [MediaWorkers -> {"waiting", "busy", "exited"}]
    /\ poster \in {"waiting", "busy", "exited"}
    /\ arrivals \in 0..start.arrivals /\ drops \in 0..start.drops
    /\ delegated \in 0..start.delegated /\ start \in Starts

\* How far the table may outgrow --max-messages.  Nothing is locked between
\* the check and the upsert, so each handler caught between the two adds one
\* row.  Two writers do not check at all: a delegated send, and a deletion for
\* me of a message that is not stored.  Their rows come on top, and nothing in
\* the code bounds how many there are.
GrowthIsBounded ==
    MaxMessages > 0 /\ start.rows < MaxMessages =>
        rows =< (MaxMessages - 1) + Cardinality(Dispatchers)
                  + delegated + tombstones

\* When Sync returns, no handler and no worker is running: the caller closes
\* the database next.
ClosedIsQuiet ==
    main = "closed" =>
        /\ \A d \in Dispatchers : handler[d].at = "idle"
        /\ \A w \in MediaWorkers : worker[w] = "exited"
        /\ poster = "exited"

\* A connection that WhatsApp drops or replaces cannot go unnoticed while
\* Sync waits in its loop, no matter when it was lost (during setup, during a
\* reconnect, twice in a row): the event is still to come or its signal is in
\* the channel.  A socket closed for a delegated send is not covered.
LostConnectionIsPending ==
    main = "loop" /\ ~socket /\ sender = "idle" => dropped \/ signal = 1

\* docs/sync.md:18 as it is written: "`--max-reconnect 0` keeps reconnecting
\* indefinitely."  Without a connection, someone is about to reconnect: Sync,
\* whatsmeow or the delegated send.
KeepsReconnecting ==
    main = "loop" /\ ~socket =>
        dropped \/ signal = 1 \/ auto \/ sender = "closed"

\* Once the context ends (Ctrl-C, SIGTERM, storage limit), Sync returns: the
\* handler blocked on a full media queue, the webhook in flight and the
\* reconnect loop all let go.  Leaving the loop for any other reason also ends
\* in a return, although the context is still live and a handler may sit in
\* front of a full media queue: the workers must outlive the handlers.
SyncReturns == (cancelled \/ main = "decide") ~> (main = "closed")

\* `sync --once` ends by itself when WhatsApp falls silent.
OnceEnds == ~Follow /\ MaxReconnect => <>(main = "closed")
=============================================================================
