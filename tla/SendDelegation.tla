--------------------------- MODULE SendDelegation ---------------------------
(***************************************************************************)
(* The store lock, the `.send.sock` delegate server, and one send.         *)
(*                                                                         *)
(* `sync --follow` processes and `send` commands share one store.  Each    *)
(* needs the lock to use the WhatsApp session.  A send command that finds  *)
(* the lock taken dials the socket of the running sync, which carries out  *)
(* the send under sendMu; otherwise it takes the lock and sends by itself. *)
(* The attempt loop (runSendOperation) is the same in both cases; `host`   *)
(* is the process that runs it.                                            *)
(*                                                                         *)
(* A process may die at any time: the kernel frees its flock, its socket   *)
(* file stays behind.                                                      *)
(***************************************************************************)
EXTENDS Naturals, FiniteSets

CONSTANTS
    Syncs,      \* sync --follow processes
    Clients,    \* send commands, each with one message
    Prober,     \* `doctor`, which takes the lock to see if it is free
    NoProc

Procs == Syncs \cup Clients

ASSUME ProcAssumption ==
    /\ Syncs \cap Clients = {}
    /\ NoProc \notin Procs /\ Prober \notin Procs /\ Prober # NoProc

VARIABLES
    lock,       \* the process that holds <store>/LOCK
    stage,      \* where each process is
    online,     \* processes whose WhatsApp socket is up
    listening,  \* processes whose delegate listener is open
    socketFile, \* the process that bound the path .send.sock
    host,       \* the process that carries out each client's send
    task,       \* how far it got
    op,         \* the goroutines of its two attempts
    stored,     \* the sent message is in the store
    accepted, outcome

sends == <<host, task, op, stored, accepted, outcome>>
server == <<listening, socketFile>>
vars == <<lock, stage, online, listening, socketFile, host, task, op, stored,
          accepted, outcome>>

SyncStages == {"out", "locked", "online", "serving", "stopping", "unlinking",
               "closing", "closed", "exiting"}
ClientStages == {"start", "direct", "sending", "dialing", "waiting",
                 "closing", "closed", "exiting", "done"}
Tasks == {"none", "queued", "first", "reconnect", "second", "persist", "wait"}

NoOps == [n \in 1..2 |-> "none"]

Init ==
    /\ lock = NoProc
    /\ stage = [p \in Procs |-> IF p \in Syncs THEN "out" ELSE "start"]
    /\ online = {} /\ listening = {} /\ socketFile = NoProc
    /\ host = [c \in Clients |-> NoProc]
    /\ task = [c \in Clients |-> "none"]
    /\ op = [c \in Clients |-> NoOps]
    /\ stored = [c \in Clients |-> FALSE]
    /\ accepted = [c \in Clients |-> 0]
    /\ outcome = [c \in Clients |-> "none"]

Goto(p, s) == stage' = [stage EXCEPT ![p] = s]

\* Variant: a delegated send runs under a context of its own.
CtxOfItsOwn(p) == TRUE

\* sync's context ends before its server is stopped; a send command's own
\* context only ends its attempt.
CtxLive(p) == p \in Clients \/ stage[p] = "serving"

-----------------------------------------------------------------------------
(* The lock.                                                               *)

Acquire(p) ==
    /\ lock = NoProc
    /\ lock' = p

\* doctor: flock and unflock at once.
Probe ==
    /\ Acquire(Prober)
    /\ UNCHANGED <<stage, online, server, sends>>

ProbeEnds ==
    /\ lock = Prober /\ lock' = NoProc
    /\ UNCHANGED <<stage, online, server, sends>>

-----------------------------------------------------------------------------
(* sync --follow.                                                          *)

SyncStarts(p) ==
    /\ stage[p] = "out" /\ Acquire(p) /\ Goto(p, "locked")
    /\ UNCHANGED <<online, server, sends>>

SyncConnects(p) ==
    /\ stage[p] = "locked" /\ Goto(p, "online")
    /\ online' = online \cup {p}
    /\ UNCHANGED <<lock, server, sends>>

SetupFails(p) ==
    /\ stage[p] \in {"locked", "online"} /\ Goto(p, "closing")
    /\ UNCHANGED <<lock, online, server, sends>>

\* Remove a stale socket, then listen.
StartSendDelegateServer(p) ==
    /\ stage[p] = "online" /\ Goto(p, "serving")
    /\ socketFile' = p /\ listening' = listening \cup {p}
    /\ UNCHANGED <<lock, online, sends>>

\* Sync's context is cancelled and Sync returns; delegated sends go on.
SyncReturns(p) ==
    /\ stage[p] = "serving" /\ Goto(p, "stopping")
    /\ UNCHANGED <<lock, online, server, sends>>

\* stop: ln.Close unlinks the path, os.Remove does it again.
CloseListener(p) ==
    /\ stage[p] = "stopping" /\ Goto(p, "unlinking")
    /\ listening' = listening \ {p} /\ socketFile' = NoProc
    /\ UNCHANGED <<lock, online, sends>>

\* Variant: the path is removed once more after closeApp.
RemoveSocketLate(p) ==
    /\ stage[p] \in {"unlinking", "exiting"}
    /\ Goto(p, IF stage[p] = "unlinking" THEN "closing" ELSE "exiting")
    /\ socketFile' = NoProc
    /\ UNCHANGED <<lock, online, listening, sends>>

RemoveSocket(p) ==
    /\ stage[p] = "unlinking" /\ Goto(p, "closing")
    /\ socketFile' = NoProc
    /\ UNCHANGED <<lock, online, listening, sends>>

\* closeApp: App.Close, then Release.
CloseApp(p) ==
    /\ stage[p] = "closing" /\ Goto(p, "closed")
    /\ online' = online \ {p}
    /\ UNCHANGED <<lock, server, sends>>

Release(p) ==
    /\ stage[p] = "closed" /\ Goto(p, "exiting")
    /\ lock' = NoProc
    /\ UNCHANGED <<online, server, sends>>

ConnectionDrops(p) ==
    /\ p \in online /\ online' = online \ {p}
    /\ UNCHANGED <<lock, stage, server, sends>>

SyncReconnects(p) ==
    /\ stage[p] = "serving" /\ online' = online \cup {p}
    /\ UNCHANGED <<lock, stage, server, sends>>

\* The goroutines of p disappear with it.
EndProcess(p) ==
    LET Hosted(c) == host[c] = p
    IN  /\ host' = [c \in Clients |-> IF Hosted(c) THEN NoProc ELSE host[c]]
        /\ task' = [c \in Clients |-> IF Hosted(c) THEN "none" ELSE task[c]]
        /\ op' = [c \in Clients |-> IF Hosted(c) THEN NoOps ELSE op[c]]
        /\ Goto(p, IF p \in Syncs THEN "out" ELSE "done")
        /\ UNCHANGED <<stored, accepted, outcome>>

Exit(p) ==
    /\ stage[p] = "exiting"
    /\ EndProcess(p)
    /\ UNCHANGED <<lock, online, server>>

Crash(p) ==
    /\ stage[p] \notin {"out", "start", "done"}
    /\ EndProcess(p)
    /\ lock' = IF lock = p THEN NoProc ELSE lock
    /\ online' = online \ {p} /\ listening' = listening \ {p}
    /\ UNCHANGED socketFile

-----------------------------------------------------------------------------
(* The send command.                                                       *)

AcquireForSend(c) ==
    /\ stage[c] = "start" /\ Acquire(c) /\ Goto(c, "direct")
    /\ UNCHANGED <<online, server, sends>>

Report(c, result) == outcome' = [outcome EXCEPT ![c] = result]

Begin(c, p, t) ==
    /\ host' = [host EXCEPT ![c] = p]
    /\ task' = [task EXCEPT ![c] = t]
    /\ op' = IF t = "first" THEN [op EXCEPT ![c][1] = "running"] ELSE op
    /\ UNCHANGED <<stored, accepted>>

ConnectAndSend(c) ==
    /\ stage[c] = "direct" /\ Goto(c, "sending")
    /\ online' = online \cup {c}
    /\ Begin(c, c, "first")
    /\ UNCHANGED <<lock, server, outcome>>

ConnectFails(c) ==
    /\ stage[c] = "direct" /\ Goto(c, "closing")
    /\ Report(c, "error")
    /\ UNCHANGED <<lock, online, server, host, task, op, stored, accepted>>

\* The lock is taken, and still is after --lock-wait.
LockIsHeld(c) ==
    /\ stage[c] = "start" /\ lock # NoProc
    /\ Goto(c, "dialing")
    /\ UNCHANGED <<lock, online, server, sends>>

\* Connect to whoever bound the path, if it still listens.
DelegateSend(c) ==
    /\ stage[c] = "dialing" /\ socketFile \in listening
    /\ Goto(c, "waiting")
    /\ Begin(c, socketFile, "queued")
    /\ UNCHANGED <<lock, online, server, outcome>>

DelegateUnavailable(c) ==
    /\ stage[c] = "dialing" /\ socketFile \notin listening
    /\ Goto(c, "done") /\ Report(c, "error")
    /\ UNCHANGED <<lock, online, server, host, task, op, stored, accepted>>

\* The deadline of the connection passes, or the server's end is closed.
ClientGivesUp(c) ==
    /\ stage[c] = "waiting"
    /\ Goto(c, "done") /\ Report(c, "error")
    /\ UNCHANGED <<lock, online, server, host, task, op, stored, accepted>>

-----------------------------------------------------------------------------
(* The handler of c's connection, or the command itself.                   *)

SetTask(c, t) == task' = [task EXCEPT ![c] = t]
Attempt(c) == IF task[c] = "first" THEN 1 ELSE 2
Sending(c) == task[c] \in {"first", "second"}

\* Variant: writing to a client that is gone blocks for good.
FinishIfAwaited(c, result) ==
    IF host[c] = c \/ stage[c] = "waiting"
    THEN /\ SetTask(c, "none") /\ Report(c, result)
         /\ Goto(c, IF host[c] = c THEN "closing" ELSE "done")
    ELSE UNCHANGED <<task, outcome, stage>>

\* Encode the response if anyone still waits for it; unlock sendMu.
Finish(c, result) ==
    /\ SetTask(c, "none")
    /\ IF host[c] = c
       THEN Report(c, result) /\ Goto(c, "closing")
       ELSE IF stage[c] = "waiting"
       THEN Report(c, result) /\ Goto(c, "done")
       ELSE UNCHANGED <<outcome, stage>>

\* sendMu of a server.
Busy(p) == \E c \in Clients :
               host[c] = p /\ task[c] \notin {"none", "queued"}

TakeSendMu(c) ==
    /\ task[c] = "queued" /\ ~Busy(host[c])
    /\ SetTask(c, "first")
    /\ op' = [op EXCEPT ![c][1] = "running"]
    /\ UNCHANGED <<lock, stage, online, server, host, stored, accepted,
                   outcome>>

\* A request that is refused before the first attempt.
RejectRequest(c) ==
    /\ task[c] = "queued" /\ ~Busy(host[c])
    /\ Finish(c, "error")
    /\ UNCHANGED <<lock, online, server, host, op, stored, accepted>>

\* WhatsApp takes the message of a running attempt, waited for or not.
Accept(c, n) ==
    /\ op[c][n] = "running" /\ host[c] \in online
    /\ op' = [op EXCEPT ![c][n] = "accepted"]
    /\ accepted' = [accepted EXCEPT ![c] = @ + 1]
    /\ UNCHANGED <<lock, stage, online, server, host, task, stored, outcome>>

AttemptSucceeds(c) ==
    /\ Sending(c) /\ op[c][Attempt(c)] = "accepted"
    /\ SetTask(c, "persist")
    /\ op' = [op EXCEPT ![c][Attempt(c)] = "none"]
    /\ UNCHANGED <<lock, stage, online, server, host, stored, accepted,
                   outcome>>

\* The attempt returned an error, accepted or not.
AttemptFails(c) ==
    /\ Sending(c)
    /\ op' = [op EXCEPT ![c][Attempt(c)] = "none"]
    /\ Finish(c, "error")
    /\ UNCHANGED <<lock, online, server, host, stored, accepted>>

\* Variant: there is no timeout.
AttemptNeverTimesOut(c) == FALSE

\* 45 seconds passed or the context ended: its goroutine is left behind.
AttemptTimesOut(c) ==
    /\ Sending(c)
    /\ Finish(c, "error")
    /\ UNCHANGED <<lock, online, server, host, op, stored, accepted>>

\* Variant: any error is retried.
RetryAfterAnyError(c) ==
    /\ task[c] = "first" /\ CtxLive(host[c])
    /\ op' = [op EXCEPT ![c][1] = "none"]
    /\ SetTask(c, "reconnect")
    /\ online' = online \ {host[c]}
    /\ UNCHANGED <<lock, stage, server, host, stored, accepted, outcome>>

\* An error of isRetryableSendError: whatsmeow raises these before the
\* message is written.  reconnectForSend closes the socket first.
AttemptIsRetryable(c) ==
    /\ task[c] = "first" /\ op[c][1] = "running" /\ CtxLive(host[c])
    /\ op' = [op EXCEPT ![c][1] = "none"]
    /\ SetTask(c, "reconnect")
    /\ online' = online \ {host[c]}
    /\ UNCHANGED <<lock, stage, server, host, stored, accepted, outcome>>

Reconnect(c) ==
    /\ task[c] = "reconnect" /\ CtxLive(host[c])
    /\ online' = online \cup {host[c]}
    /\ SetTask(c, "second")
    /\ op' = [op EXCEPT ![c][2] = "running"]
    /\ UNCHANGED <<lock, stage, server, host, stored, accepted, outcome>>

ReconnectFails(c) ==
    /\ task[c] = "reconnect"
    /\ Finish(c, "error")
    /\ UNCHANGED <<lock, online, server, host, op, stored, accepted>>

\* Best effort: a failure is a warning.  The database of a process that
\* went past App.Close is closed.
PersistOutbound(c) ==
    /\ task[c] = "persist"
    /\ \/ /\ stage[host[c]] \notin {"closed", "exiting"}
          /\ stored' = [stored EXCEPT ![c] = TRUE]
       \/ UNCHANGED stored
    /\ SetTask(c, "wait")
    /\ UNCHANGED <<lock, stage, online, server, host, op, accepted, outcome>>

\* The post-send wait is over.
ReportSent(c) ==
    /\ task[c] = "wait"
    /\ Finish(c, "sent")
    /\ UNCHANGED <<lock, online, server, host, op, stored, accepted>>

-----------------------------------------------------------------------------
Lifecycle(p) == CloseApp(p) \/ Release(p) \/ Exit(p)

Stop(p) == CloseListener(p) \/ RemoveSocket(p)

Command(c) ==
    \/ AcquireForSend(c) \/ LockIsHeld(c) \/ ConnectAndSend(c)
    \/ ConnectFails(c) \/ DelegateSend(c) \/ DelegateUnavailable(c)

Answered(c) == AttemptSucceeds(c) \/ AttemptFails(c) \/ AttemptIsRetryable(c)

Bounded(c) ==
    \/ AttemptTimesOut(c) \/ Reconnect(c) \/ ReconnectFails(c)
    \/ PersistOutbound(c) \/ ReportSent(c)

Dequeue(c) == TakeSendMu(c) \/ RejectRequest(c)

AllDone == (\A c \in Clients : stage[c] = "done") /\ UNCHANGED vars

Next ==
    \/ Probe \/ ProbeEnds
    \/ \E p \in Syncs :
         \/ SyncStarts(p) \/ SyncConnects(p) \/ SetupFails(p)
         \/ StartSendDelegateServer(p) \/ SyncReturns(p) \/ Stop(p)
         \/ SyncReconnects(p)
    \/ \E p \in Procs : Lifecycle(p) \/ Crash(p) \/ ConnectionDrops(p)
    \/ \E c \in Clients : Command(c) \/ ClientGivesUp(c) \/ Dequeue(c)
                          \/ Answered(c) \/ Bounded(c)
    \/ \E c \in Clients, n \in 1..2 : Accept(c, n)
    \/ AllDone

Spec == Init /\ [][Next]_vars

\* Goroutines run; attempts, reconnects and connections have deadlines.
\* sync.Mutex does not starve a waiter.  Nothing is assumed of WhatsApp: an
\* attempt may never be answered.
Fairness ==
    /\ WF_vars(ProbeEnds)
    /\ \A p \in Syncs : WF_vars(Stop(p))
    /\ \A p \in Procs : WF_vars(Lifecycle(p))
    /\ \A c \in Clients :
         /\ WF_vars(Command(c)) /\ WF_vars(Bounded(c)) /\ SF_vars(Dequeue(c))
         /\ WF_vars(ClientGivesUp(c))

FairSpec == Spec /\ Fairness

-----------------------------------------------------------------------------
(* Properties.                                                             *)

TypeOK ==
    /\ lock \in Procs \cup {NoProc, Prober}
    /\ stage \in [Procs -> SyncStages \cup ClientStages]
    /\ online \subseteq Procs /\ listening \subseteq Syncs
    /\ socketFile \in Syncs \cup {NoProc}
    /\ host \in [Clients -> Procs \cup {NoProc}]
    /\ task \in [Clients -> Tasks]
    /\ op \in [Clients -> [1..2 -> {"none", "running", "accepted"}]]
    /\ stored \in [Clients -> BOOLEAN]
    /\ accepted \in [Clients -> 0..1]
    /\ outcome \in [Clients -> {"none", "sent", "error"}]

\* docs/spec.md: "Every command that accesses the WhatsApp session must
\* acquire an exclusive lock in the store dir."  A delegated send that
\* outlives its server cannot bring the session of a process back that has
\* released the lock.
OnlyLockHolderIsOnline == online \subseteq {lock}

\* A serving sync can be dialled: no other process's start, stop, crash or
\* stale socket takes its path away, so a command that finds the lock held by
\* a serving sync is delegated instead of failing.
ServerIsReachable ==
    \A p \in Syncs : stage[p] = "serving" =>
        lock = p /\ socketFile = p /\ p \in listening

\* docs/send.md: "`Sent to ...` and JSON `sent: true` mean WhatsApp accepted
\* the send request", and the retry after a reconnect, the abandoned attempt
\* and the lost answer never send a message twice: the send implements
\* SendOutcome.
Outcome == INSTANCE SendOutcome WITH
               Clients <- Clients, accepted <- accepted, outcome <- outcome
ImplementsSendOutcome == Outcome!Spec

\* Every request in the server's queue comes to an end: whatever the send
\* ahead of it ran into, sendMu is free again.
QueuedSendsFinish ==
    \A c \in Clients : (task[c] = "queued") ~> (task[c] = "none")

\* A send command ends and gives the lock back, also when WhatsApp never
\* answers.
CommandsFinish == \A c \in Clients : <>(stage[c] = "done")
=============================================================================
