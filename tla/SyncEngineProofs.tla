-------------------------- MODULE SyncEngineProofs --------------------------
(***************************************************************************)
(* Proofs about SyncEngine, for every number of dispatchers and workers,   *)
(* every capacity and every way of calling Sync: what still runs when Sync *)
(* returns, how far the store outgrows its limit, and that a lost          *)
(* connection does not go unnoticed.                                       *)
(***************************************************************************)
EXTENDS SyncEngine, FiniteSetTheorems, TLAPS

\* What the teardown has already waited for.  Workers start after the limit
\* check, handlers only run while the event handler is registered.
TeardownInv ==
    /\ main \notin Open \cup {"detach"} => HandlersDone
    /\ main \in {"limits", "stopMedia", "cancel", "closed"} =>
         poster = "exited"
    /\ main \in {"limits", "cancel", "closed"} =>
         \A w \in MediaWorkers : worker[w] = "exited"

\* Setup already depends on the connection that ConnectForSync made.
ConnectionInv ==
    main \in {"prepare", "loop"} /\ ~socket /\ sender = "idle" =>
        dropped \/ signal = 1

\* The handlers that have passed the check and will add their row whatever
\* the others add in the meantime.
Storing == {d \in Dispatchers : handler[d].at = "store"}

GrowthInv ==
    MaxMessages > 0 /\ start.rows < MaxMessages =>
        rows + Cardinality(Storing) =<
            (MaxMessages - 1) + Cardinality(Dispatchers)
              + delegated + tombstones

IInv == TypeOK /\ TeardownInv /\ ConnectionInv /\ GrowthInv

\* What one step of a running handler does to its dispatcher: it goes to
\* "store" only past the limit check, and leaves it with at most one row.  The
\* only row that comes from elsewhere is a tombstone.
HandlerMove(d, h) ==
    /\ handler' = [handler EXCEPT ![d] = h]
    /\ ~At(d, "idle")
    /\ h.at = "store" => At(d, "check") /\ ~OverLimit /\ rows' = rows
    /\ rows' \in {rows, rows + 1}
    /\ tombstones' \in {tombstones, tombstones + 1}
    /\ rows' # rows => At(d, "store") \/ tombstones' # tombstones

\* What a call of Sync starts with, and what is left of it, are numbers.
LEMMA StartTyped ==
    ASSUME TypeOK
    PROVE  /\ start.arrivals \in Nat /\ start.drops \in Nat
           /\ start.delegated \in Nat /\ start.rows \in Nat
           /\ MaxMessages \in Nat
           /\ arrivals \in Nat /\ drops \in Nat /\ delegated \in Nat
<1>1. start \in StartRecords
  BY SyncAssumption DEF TypeOK
<1>2. /\ start.arrivals \in Nat /\ start.drops \in Nat
      /\ start.delegated \in Nat /\ start.rows \in Nat
      /\ MaxMessages \in Nat
  BY <1>1 DEF StartRecords, MaxMessages
<1>. QED  BY <1>2 DEF TypeOK

\* A handler that ends its message is idle, or goes on to the next one or to
\* its media; it does not store anything.
LEMMA EndMoves ==
    ASSUME TypeOK, NEW d \in Dispatchers,
           EndBatch(d) \/ NextMessage(d) \/ EndMessage(d)
    PROVE  /\ quiet' \in BOOLEAN
           /\ \E h \in HandlerStates :
                /\ handler' = [handler EXCEPT ![d] = h]
                /\ h.at # "store"
<1>. DEFINE g == handler[d]
<1>0. g \in HandlerStates
  BY DEF TypeOK
<1>1. CASE EndBatch(d)
  <2>1. IdleHandler \in HandlerStates /\ IdleHandler.at # "store"
    BY SyncAssumption DEF IdleHandler, HandlerStates
  <2>. QED  BY <1>1, <2>1 DEF EndBatch, TypeOK
<1>2. CASE NextMessage(d)
  <2>1. CASE g.left > 1
    <3>. DEFINE h == [g EXCEPT !.at = "check", !.left = g.left - 1]
    <3>1. handler' = [handler EXCEPT ![d] = h] /\ quiet' = FALSE
      BY <1>2, <2>1 DEF NextMessage
    <3>2. g.left - 1 \in 0..MaxBatch
      BY <1>0, <2>1, SyncAssumption DEF HandlerStates
    <3>3. h \in HandlerStates /\ h.at # "store"
      BY <1>0, <3>2 DEF HandlerStates
    <3>. QED  BY <3>1, <3>3
  <2>2. CASE ~(g.left > 1)
    BY <1>1, <1>2, <2>2 DEF NextMessage
  <2>. QED  BY <2>1, <2>2
<1>3. CASE Go(d, "media") /\ UNCHANGED quiet
  <2>1. [g EXCEPT !.at = "media"] \in HandlerStates
    BY <1>0 DEF HandlerStates
  <2>2. [g EXCEPT !.at = "media"].at # "store"
    BY <1>0 DEF HandlerStates
  <2>. QED  BY <1>3, <2>1, <2>2 DEF Go, TypeOK
<1>. QED  BY <1>1, <1>2, <1>3 DEF EndMessage

\* A handler that goes to a stage is in that stage.
LEMMA GoMoves ==
    ASSUME TypeOK, NEW d \in Dispatchers, NEW s,
           s \in {"store", "recheck", "webhook", "delete"}, Go(d, s)
    PROVE  \E h \in HandlerStates :
             handler' = [handler EXCEPT ![d] = h] /\ h.at = s
<1>. DEFINE g == handler[d]
           h == [g EXCEPT !.at = s]
<1>1. g \in HandlerStates
  BY DEF TypeOK
<1>2. h \in HandlerStates /\ h.at = s
  BY <1>1 DEF HandlerStates
<1>3. handler' = [handler EXCEPT ![d] = h]
  BY DEF Go
<1>. QED  BY <1>2, <1>3

\* A handler's step keeps everything but the handlers well-typed.
LEMMA HandleTyped ==
    ASSUME TypeOK, NEW d \in Dispatchers, Handle(d)
    PROVE  /\ cancelled' \in BOOLEAN /\ limitErr' \in BOOLEAN
           /\ rows' \in Nat /\ tombstones' \in Nat
           /\ mediaQ' \in 0..MediaCap /\ webhookQ' \in 0..WebhookCap
           /\ UNCHANGED <<result, auto, arrivals, drops>>
<1>1. CASE CheckBeforeStore(d)
  <2>1. cancelled' \in BOOLEAN /\ limitErr' \in BOOLEAN
    BY <1>1 DEF CheckBeforeStore, SetErr, TypeOK
  <2>. QED
    BY <1>1, <2>1 DEF CheckBeforeStore, HandlerUnchanged, TypeOK, queues, conn
<1>2. CASE Store(d)
  BY <1>2 DEF Store, HandlerUnchanged, TypeOK, queues, conn
<1>3. CASE CheckAfterStore(d)
  <2>1. cancelled' \in BOOLEAN /\ limitErr' \in BOOLEAN
    BY <1>3 DEF CheckAfterStore, SetErr, TypeOK
  <2>. QED
    BY <1>3, <2>1 DEF CheckAfterStore, HandlerUnchanged, TypeOK, queues, conn
<1>4. CASE EnqueueWebhook(d)
  BY <1>4, SyncAssumption DEF EnqueueWebhook, HandlerUnchanged, TypeOK, conn
<1>5. CASE EnqueueMedia(d)
  BY <1>5, SyncAssumption DEF EnqueueMedia, HandlerUnchanged, TypeOK, conn
<1>6. CASE StoreDeletion(d)
  BY <1>6 DEF StoreDeletion, TypeOK, queues, conn
<1>. QED  BY <1>1, <1>2, <1>3, <1>4, <1>5, <1>6 DEF Handle

\* A handler's step moves one handler, and main, the workers and the
\* connection not at all.
LEMMA HandleMoves ==
    ASSUME TypeOK, NEW d \in Dispatchers, Handle(d)
    PROVE  /\ \E h \in HandlerStates : HandlerMove(d, h)
           /\ quiet' \in BOOLEAN
           /\ UNCHANGED <<main, worker, poster, socket, sender, dropped,
                          signal, delegated, start>>
<1>1. CASE CheckBeforeStore(d)
  BY <1>1, EndMoves, GoMoves
  DEF CheckBeforeStore, HandlerUnchanged, HandlerMove, At, workers, conn,
     TypeOK
<1>2. CASE Store(d)
  BY <1>2, EndMoves, GoMoves
  DEF Store, HandlerUnchanged, HandlerMove, At, workers, conn, TypeOK
<1>3. CASE CheckAfterStore(d)
  BY <1>3, EndMoves, GoMoves
  DEF CheckAfterStore, HandlerUnchanged, HandlerMove, At, workers, conn,
     TypeOK
<1>4. CASE EnqueueWebhook(d)
  BY <1>4, EndMoves
  DEF EnqueueWebhook, HandlerUnchanged, HandlerMove, At, workers, conn
<1>5. CASE EnqueueMedia(d)
  <2>1. NextMessage(d)
    BY <1>5 DEF EnqueueMedia
  <2>. QED
    BY <1>5, <2>1, EndMoves
    DEF EnqueueMedia, HandlerUnchanged, HandlerMove, At, workers, conn
<1>6. CASE StoreDeletion(d)
  BY <1>6, EndMoves
  DEF StoreDeletion, HandlerMove, At, workers, conn, TypeOK
<1>. QED  BY <1>1, <1>2, <1>3, <1>4, <1>5, <1>6 DEF Handle

\* Every step keeps the variables well-typed.
LEMMA TypeStep ==
    ASSUME TypeOK, [Next]_vars
    PROVE  TypeOK'
<1>1. CASE RefuseToStart
  BY <1>1
  DEF RefuseToStart, MainUnchanged, queues, workers, conn, TypeOK, Stages
<1>2. CASE StartWorkers
  BY <1>2 DEF StartWorkers, queues, conn, TypeOK, Stages, Open
<1>3. CASE ConnectForSync
  BY <1>3, SyncAssumption
  DEF ConnectForSync, MainUnchanged, queues, workers, conn, TypeOK, Stages,
     Open
<1>4. CASE Prepare
  BY <1>4
  DEF Prepare, MainUnchanged, queues, workers, conn, TypeOK, Stages, Open
<1>5. CASE LoopCancelled
  BY <1>5
  DEF LoopCancelled, MainUnchanged, queues, workers, conn, TypeOK, Stages,
     Open
<1>6. CASE LoopDisconnected
  BY <1>6
  DEF LoopDisconnected, MainUnchanged, queues, workers, TypeOK, Stages, Open
<1>7. CASE IdleExit
  BY <1>7
  DEF IdleExit, MainUnchanged, queues, workers, conn, TypeOK, Stages, Open
<1>8. CASE Decide
  BY <1>8 DEF Decide, MainUnchanged, queues, workers, conn, TypeOK, Stages
<1>9. CASE Detach
  BY <1>9 DEF Detach, MainUnchanged, queues, workers, conn, TypeOK, Stages
<1>10. CASE StopWebhook
  BY <1>10
  DEF StopWebhook, MainUnchanged, queues, workers, conn, TypeOK, Stages
<1>11. CASE StopMedia
  BY <1>11 DEF StopMedia, MainUnchanged, queues, workers, conn, TypeOK, Stages
<1>12. CASE Cancel
  BY <1>12 DEF Cancel, MainUnchanged, queues, workers, conn, TypeOK, Stages
<1>13. CASE Reconnected
  BY <1>13
  DEF Reconnected, MainUnchanged, queues, workers, TypeOK, Stages, Open
<1>14. CASE ReconnectGivesUp
  BY <1>14
  DEF ReconnectGivesUp, MainUnchanged, queues, workers, conn, TypeOK, Stages,
     Open
<1>15. ASSUME NEW d \in Dispatchers, Handle(d)
      PROVE  TypeOK'
  <2>1. PICK h \in HandlerStates : HandlerMove(d, h)
    BY <1>15, HandleMoves
  <2>2. handler' \in [Dispatchers -> HandlerStates]
    BY <2>1 DEF HandlerMove, TypeOK
  <2>. QED  BY <1>15, <2>2, HandleMoves, HandleTyped DEF TypeOK
<1>16. ASSUME NEW d \in Dispatchers, NEW n \in 1..MaxBatch,
             NEW live \in BOOLEAN, Dispatch(d, n, live)
      PROVE  TypeOK'
  <2>1. [at |-> "check", left |-> n, live |-> live] \in HandlerStates
    BY DEF HandlerStates
  <2>2. handler' \in [Dispatchers -> HandlerStates]
    BY <1>16, <2>1 DEF Dispatch, TypeOK
  <2>3. arrivals' \in 0..start.arrivals
    BY <1>16, StartTyped DEF Dispatch
  <2>. QED
    BY <1>16, <2>2, <2>3
    DEF Dispatch, HandlerUnchanged, TypeOK, queues, workers, conn
<1>17. ASSUME NEW w \in MediaWorkers, TakeMedia(w)
      PROVE  TypeOK'
  BY <1>17, SyncAssumption DEF TakeMedia, WorkerUnchanged, conn, TypeOK
<1>18. ASSUME NEW w \in MediaWorkers, FinishMedia(w)
      PROVE  TypeOK'
  BY <1>18 DEF FinishMedia, WorkerUnchanged, queues, conn, TypeOK
<1>19. ASSUME NEW w \in MediaWorkers, ExitMedia(w)
      PROVE  TypeOK'
  BY <1>19 DEF ExitMedia, WorkerUnchanged, queues, conn, TypeOK
<1>20. CASE TakeWebhook
  BY <1>20, SyncAssumption DEF TakeWebhook, WorkerUnchanged, conn, TypeOK
<1>21. CASE FinishWebhook
  BY <1>21 DEF FinishWebhook, WorkerUnchanged, queues, conn, TypeOK
<1>22. CASE ExitWebhook
  BY <1>22 DEF ExitWebhook, WorkerUnchanged, queues, conn, TypeOK
<1>23. CASE Interrupt
  BY <1>23 DEF Interrupt, EnvUnchanged, queues, workers, conn, TypeOK
<1>24. CASE TimePasses
  BY <1>24 DEF TimePasses, EnvUnchanged, queues, workers, conn, TypeOK
<1>25. CASE ConnectionDrops
  <2>1. /\ socket' \in BOOLEAN /\ dropped' \in BOOLEAN
        /\ auto' \in BOOLEAN
    BY <1>25, Zenon DEF ConnectionDrops
  <2>2. signal' = 1 \/ signal' = signal
    BY <1>25, Zenon DEF ConnectionDrops
  <2>3. signal' \in 0..1
    BY <2>2 DEF TypeOK
  <2>4. drops' \in 0..start.drops
    BY <1>25, StartTyped DEF ConnectionDrops
  <2>5. UNCHANGED <<main, result, cancelled, limitErr, sender, quiet, handler,
                    rows, queues, worker, poster, tombstones, arrivals,
                    delegated, start>>
    BY <1>25 DEF ConnectionDrops, EnvUnchanged, workers
  <2>. QED  BY <2>1, <2>3, <2>4, <2>5 DEF TypeOK, queues
<1>26. CASE AutoReconnect
  BY <1>26 DEF AutoReconnect, EnvUnchanged, queues, workers, TypeOK
<1>27. CASE HandleDisconnected
  <2>1. /\ socket' \in BOOLEAN /\ dropped' \in BOOLEAN
        /\ auto' \in BOOLEAN
    BY <1>27, Zenon DEF HandleDisconnected, TypeOK
  <2>2. signal' = 1 \/ signal' = signal
    BY <1>27, Zenon DEF HandleDisconnected, RaiseSignal
  <2>3. signal' \in 0..1
    BY <2>2 DEF TypeOK
  <2>4. drops' \in 0..start.drops
    BY <1>27 DEF HandleDisconnected, TypeOK
  <2>5. UNCHANGED <<main, result, cancelled, limitErr, sender, quiet, handler,
                    rows, queues, worker, poster, tombstones, arrivals,
                    delegated, start>>
    BY <1>27 DEF HandleDisconnected, EnvUnchanged, workers
  <2>. QED  BY <2>1, <2>3, <2>4, <2>5 DEF TypeOK, queues
<1>28. CASE HandleStreamReplaced
  <2>1. /\ socket' \in BOOLEAN /\ dropped' \in BOOLEAN
        /\ auto' \in BOOLEAN
    BY <1>28, Zenon DEF HandleStreamReplaced, TypeOK
  <2>2. signal' = 1 \/ signal' = signal
    BY <1>28, Zenon DEF HandleStreamReplaced, RaiseSignal
  <2>3. signal' \in 0..1
    BY <2>2 DEF TypeOK
  <2>4. drops' \in 0..start.drops
    BY <1>28, StartTyped DEF HandleStreamReplaced
  <2>5. UNCHANGED <<main, result, cancelled, limitErr, sender, quiet, handler,
                    rows, queues, worker, poster, tombstones, arrivals,
                    delegated, start>>
    BY <1>28 DEF HandleStreamReplaced, EnvUnchanged, workers
  <2>. QED  BY <2>1, <2>3, <2>4, <2>5 DEF TypeOK, queues
<1>29. CASE CloseForSend
  BY <1>29 DEF CloseForSend, EnvUnchanged, queues, workers, TypeOK
<1>30. CASE ConnectForSend
  BY <1>30 DEF ConnectForSend, EnvUnchanged, queues, workers, TypeOK
<1>31. CASE PersistDelegated
  BY <1>31, StartTyped
  DEF PersistDelegated, EnvUnchanged, Sending, queues, workers, conn, TypeOK
<1>32. CASE UNCHANGED vars
  BY <1>32 DEF vars, TypeOK
<1>33. ASSUME NEW d \in Dispatchers, DispatchDeletion(d)
      PROVE  TypeOK'
  <2>1. handler' \in [Dispatchers -> HandlerStates]
    BY <1>33, GoMoves DEF DispatchDeletion, TypeOK
  <2>2. arrivals' \in 0..start.arrivals
    BY <1>33, StartTyped DEF DispatchDeletion, TypeOK
  <2>. QED
    BY <1>33, <2>1, <2>2
    DEF DispatchDeletion, HandlerUnchanged, TypeOK, queues, workers, conn
<1>. QED
  BY <1>1, <1>2, <1>3, <1>4, <1>5, <1>6, <1>7, <1>8, <1>9, <1>10, <1>11,
     <1>12, <1>13, <1>14, <1>15, <1>16, <1>17, <1>18, <1>19, <1>20, <1>21,
     <1>22, <1>23, <1>24, <1>25, <1>26, <1>27, <1>28, <1>29, <1>30, <1>31,
     <1>32, <1>33 DEF Next, Main, DoMedia, DoWebhook, Closed

\* Every step keeps the order of the teardown.
LEMMA TeardownStep ==
    ASSUME TypeOK, TeardownInv, [Next]_vars
    PROVE  TeardownInv'
<1>1. CASE RefuseToStart
  BY <1>1
  DEF RefuseToStart, MainUnchanged, workers, TeardownInv, HandlersDone, Open
<1>2. CASE StartWorkers
  BY <1>2 DEF StartWorkers, TeardownInv, Open
<1>3. CASE ConnectForSync
  BY <1>3 DEF ConnectForSync, TeardownInv, Open
<1>4. CASE Prepare
  BY <1>4 DEF Prepare, TeardownInv, Open
<1>5. CASE LoopCancelled
  BY <1>5 DEF LoopCancelled, TeardownInv, Open
<1>6. CASE LoopDisconnected
  BY <1>6 DEF LoopDisconnected, TeardownInv, Open
<1>7. CASE IdleExit
  BY <1>7 DEF IdleExit, TeardownInv, Open
<1>8. CASE Decide
  BY <1>8 DEF Decide, TeardownInv
<1>9. CASE Detach
  BY <1>9 DEF Detach, MainUnchanged, TeardownInv, HandlersDone
<1>10. CASE StopWebhook
  BY <1>10
  DEF StopWebhook, MainUnchanged, workers, TeardownInv, HandlersDone, Open
<1>11. CASE StopMedia
  BY <1>11
  DEF StopMedia, MainUnchanged, workers, TeardownInv, HandlersDone, Open
<1>12. CASE Cancel
  BY <1>12 DEF Cancel, MainUnchanged, workers, TeardownInv, HandlersDone, Open
<1>13. CASE Reconnected
  BY <1>13 DEF Reconnected, TeardownInv, Open
<1>14. CASE ReconnectGivesUp
  BY <1>14 DEF ReconnectGivesUp, TeardownInv, Open
<1>15. ASSUME NEW d \in Dispatchers, Handle(d)
      PROVE  TeardownInv'
  BY <1>15, HandleMoves DEF HandlerMove, At, TeardownInv, HandlersDone
<1>16. ASSUME NEW d \in Dispatchers, NEW n \in 1..MaxBatch,
             NEW live \in BOOLEAN, Dispatch(d, n, live)
      PROVE  TeardownInv'
  BY <1>16 DEF Dispatch, HandlerUnchanged, workers, TeardownInv
<1>17. ASSUME NEW w \in MediaWorkers, TakeMedia(w)
      PROVE  TeardownInv'
  BY <1>17 DEF TakeMedia, WorkerUnchanged, TeardownInv, HandlersDone
<1>18. ASSUME NEW w \in MediaWorkers, FinishMedia(w)
      PROVE  TeardownInv'
  BY <1>18 DEF FinishMedia, WorkerUnchanged, TeardownInv, HandlersDone
<1>19. ASSUME NEW w \in MediaWorkers, ExitMedia(w)
      PROVE  TeardownInv'
  BY <1>19 DEF ExitMedia, WorkerUnchanged, TeardownInv, HandlersDone
<1>20. CASE TakeWebhook
  BY <1>20 DEF TakeWebhook, WorkerUnchanged, TeardownInv, HandlersDone
<1>21. CASE FinishWebhook
  BY <1>21 DEF FinishWebhook, WorkerUnchanged, TeardownInv, HandlersDone
<1>22. CASE ExitWebhook
  BY <1>22 DEF ExitWebhook, WorkerUnchanged, TeardownInv, HandlersDone
<1>23. CASE Interrupt
  BY <1>23 DEF Interrupt, EnvUnchanged, workers, TeardownInv, HandlersDone
<1>24. CASE TimePasses
  BY <1>24 DEF TimePasses, EnvUnchanged, workers, TeardownInv
<1>25. CASE ConnectionDrops
  BY <1>25
  DEF ConnectionDrops, EnvUnchanged, workers, TeardownInv, HandlersDone
<1>26. CASE AutoReconnect
  BY <1>26 DEF AutoReconnect, EnvUnchanged, workers, TeardownInv
<1>27. CASE HandleDisconnected
  BY <1>27 DEF HandleDisconnected, EnvUnchanged, workers, TeardownInv
<1>28. CASE HandleStreamReplaced
  BY <1>28 DEF HandleStreamReplaced, EnvUnchanged, workers, TeardownInv
<1>29. CASE CloseForSend
  BY <1>29 DEF CloseForSend, EnvUnchanged, workers, TeardownInv, HandlersDone
<1>30. CASE ConnectForSend
  BY <1>30
  DEF ConnectForSend, EnvUnchanged, workers, TeardownInv, HandlersDone
<1>31. CASE PersistDelegated
  BY <1>31
  DEF PersistDelegated, EnvUnchanged, workers, TeardownInv, HandlersDone
<1>32. CASE UNCHANGED vars
  BY <1>32 DEF vars, TeardownInv, HandlersDone
<1>33. ASSUME NEW d \in Dispatchers, DispatchDeletion(d)
      PROVE  TeardownInv'
  BY <1>33 DEF DispatchDeletion, HandlerUnchanged, workers, TeardownInv, Open
<1>. QED
  BY <1>1, <1>2, <1>3, <1>4, <1>5, <1>6, <1>7, <1>8, <1>9, <1>10, <1>11,
     <1>12, <1>13, <1>14, <1>15, <1>16, <1>17, <1>18, <1>19, <1>20, <1>21,
     <1>22, <1>23, <1>24, <1>25, <1>26, <1>27, <1>28, <1>29, <1>30, <1>31,
     <1>32, <1>33 DEF Next, Main, DoMedia, DoWebhook, Closed

\* Every step that takes the socket away leaves a sign of it.
LEMMA ConnectionStep ==
    ASSUME TypeOK, ConnectionInv, [Next]_vars
    PROVE  ConnectionInv'
<1>1. CASE RefuseToStart
  BY <1>1 DEF RefuseToStart, ConnectionInv
<1>2. CASE StartWorkers
  BY <1>2 DEF StartWorkers, ConnectionInv
<1>3. CASE ConnectForSync
  BY <1>3 DEF ConnectForSync, ConnectionInv
<1>4. CASE Prepare
  BY <1>4 DEF Prepare, conn, ConnectionInv
<1>5. CASE LoopCancelled
  BY <1>5 DEF LoopCancelled, ConnectionInv
<1>6. CASE LoopDisconnected
  BY <1>6 DEF LoopDisconnected, ConnectionInv
<1>7. CASE IdleExit
  BY <1>7 DEF IdleExit, ConnectionInv
<1>8. CASE Decide
  BY <1>8 DEF Decide, ConnectionInv
<1>9. CASE Detach
  BY <1>9 DEF Detach, ConnectionInv
<1>10. CASE StopWebhook
  BY <1>10 DEF StopWebhook, ConnectionInv
<1>11. CASE StopMedia
  BY <1>11 DEF StopMedia, ConnectionInv
<1>12. CASE Cancel
  BY <1>12 DEF Cancel, ConnectionInv
<1>13. CASE Reconnected
  BY <1>13 DEF Reconnected, ConnectionInv
<1>14. CASE ReconnectGivesUp
  BY <1>14 DEF ReconnectGivesUp, ConnectionInv
<1>15. ASSUME NEW d \in Dispatchers, Handle(d)
      PROVE  ConnectionInv'
  BY <1>15, HandleMoves DEF ConnectionInv
<1>16. ASSUME NEW d \in Dispatchers, NEW n \in 1..MaxBatch,
             NEW live \in BOOLEAN, Dispatch(d, n, live)
      PROVE  ConnectionInv'
  BY <1>16 DEF Dispatch, HandlerUnchanged, conn, ConnectionInv
<1>17. ASSUME NEW w \in MediaWorkers, TakeMedia(w)
      PROVE  ConnectionInv'
  BY <1>17 DEF TakeMedia, WorkerUnchanged, conn, ConnectionInv
<1>18. ASSUME NEW w \in MediaWorkers, FinishMedia(w)
      PROVE  ConnectionInv'
  BY <1>18 DEF FinishMedia, WorkerUnchanged, conn, ConnectionInv
<1>19. ASSUME NEW w \in MediaWorkers, ExitMedia(w)
      PROVE  ConnectionInv'
  BY <1>19 DEF ExitMedia, WorkerUnchanged, conn, ConnectionInv
<1>20. CASE TakeWebhook
  BY <1>20 DEF TakeWebhook, WorkerUnchanged, conn, ConnectionInv
<1>21. CASE FinishWebhook
  BY <1>21 DEF FinishWebhook, WorkerUnchanged, conn, ConnectionInv
<1>22. CASE ExitWebhook
  BY <1>22 DEF ExitWebhook, WorkerUnchanged, conn, ConnectionInv
<1>23. CASE Interrupt
  BY <1>23 DEF Interrupt, EnvUnchanged, conn, ConnectionInv
<1>24. CASE TimePasses
  BY <1>24 DEF TimePasses, EnvUnchanged, conn, ConnectionInv
<1>25. CASE ConnectionDrops
  BY <1>25 DEF ConnectionDrops, ConnectionInv
<1>26. CASE AutoReconnect
  BY <1>26 DEF AutoReconnect, ConnectionInv
<1>27. CASE HandleDisconnected
  BY <1>27 DEF HandleDisconnected, RaiseSignal, ConnectionInv
<1>28. CASE HandleStreamReplaced
  BY <1>28 DEF HandleStreamReplaced, RaiseSignal, ConnectionInv
<1>29. CASE CloseForSend
  BY <1>29 DEF CloseForSend, ConnectionInv
<1>30. CASE ConnectForSend
  BY <1>30 DEF ConnectForSend, ConnectionInv
<1>31. CASE PersistDelegated
  BY <1>31 DEF PersistDelegated, EnvUnchanged, conn, ConnectionInv
<1>32. CASE UNCHANGED vars
  BY <1>32 DEF vars, ConnectionInv
<1>33. ASSUME NEW d \in Dispatchers, DispatchDeletion(d)
      PROVE  ConnectionInv'
  BY <1>33 DEF DispatchDeletion, HandlerUnchanged, conn, ConnectionInv
<1>. QED
  BY <1>1, <1>2, <1>3, <1>4, <1>5, <1>6, <1>7, <1>8, <1>9, <1>10, <1>11,
     <1>12, <1>13, <1>14, <1>15, <1>16, <1>17, <1>18, <1>19, <1>20, <1>21,
     <1>22, <1>23, <1>24, <1>25, <1>26, <1>27, <1>28, <1>29, <1>30, <1>31,
     <1>32, <1>33 DEF Next, Main, DoMedia, DoWebhook, Closed

\* The handlers that are about to store are finitely many.
LEMMA StoringFinite ==
    /\ IsFiniteSet(Dispatchers) /\ Cardinality(Dispatchers) \in Nat
    /\ IsFiniteSet(Storing) /\ Cardinality(Storing) \in Nat
    /\ Cardinality(Storing) =< Cardinality(Dispatchers)
<1>1. Storing \subseteq Dispatchers
  BY DEF Storing
<1>2. IsFiniteSet(Dispatchers)
  BY SyncAssumption
<1>. QED  BY <1>1, <1>2, FS_Subset, FS_CardinalityType

\* A handler that goes past the check finds the store below the limit, and a
\* handler that stores was counted before.
LEMMA HandleGrowth ==
    ASSUME TypeOK, GrowthInv, NEW d \in Dispatchers, Handle(d)
    PROVE  GrowthInv'
<1>1. PICK h \in HandlerStates : HandlerMove(d, h)
  BY HandleMoves
<1>2. UNCHANGED <<delegated, start>>
  BY HandleMoves
<1>. SUFFICES ASSUME MaxMessages > 0, start.rows < MaxMessages
              PROVE  rows' + Cardinality(Storing') =<
                       (MaxMessages - 1) + Cardinality(Dispatchers)
                         + delegated + tombstones'
  BY <1>2 DEF GrowthInv, MaxMessages
<1>3. /\ rows \in Nat /\ delegated \in Nat /\ MaxMessages \in Nat
      /\ tombstones \in Nat /\ tombstones' \in {tombstones, tombstones + 1}
  BY <1>1, SyncAssumption DEF TypeOK, StartRecords, MaxMessages, HandlerMove
<1>4. CASE h.at = "store"
  <2>1. rows' = rows /\ rows < MaxMessages
    BY <1>1, <1>3, <1>4 DEF HandlerMove, OverLimit
  <2>2. Cardinality(Storing') =< Cardinality(Dispatchers)
    <3>1. Storing' \subseteq Dispatchers
      BY DEF Storing
    <3>. QED  BY <3>1, SyncAssumption, FS_Subset
  <2>3. Cardinality(Storing') \in Nat
    <3>1. Storing' \subseteq Dispatchers
      BY DEF Storing
    <3>. QED  BY <3>1, SyncAssumption, FS_Subset, FS_CardinalityType
  <2>. QED  BY <1>3, <2>1, <2>2, <2>3, StoringFinite
<1>5. CASE h.at # "store"
  <2>1. Storing' = Storing \ {d}
    BY <1>1, <1>5 DEF HandlerMove, Storing, TypeOK
  <2>2. rows + Cardinality(Storing) =<
          (MaxMessages - 1) + Cardinality(Dispatchers)
            + delegated + tombstones
    BY DEF GrowthInv
  <2>3. CASE At(d, "store")
    <3>1. d \in Storing
      BY <2>3 DEF At, Storing
    <3>2. Cardinality(Storing') = Cardinality(Storing) - 1
      BY <2>1, <3>1, StoringFinite, FS_RemoveElement
    <3>3. rows' \in {rows, rows + 1}
      BY <1>1 DEF HandlerMove
    <3>. QED  BY <1>3, <2>2, <3>2, <3>3, StoringFinite
  <2>4. CASE ~At(d, "store")
    <3>1. Storing' = Storing
      BY <2>1, <2>4 DEF At, Storing
    <3>2. rows' = rows \/ (rows' = rows + 1 /\ tombstones' = tombstones + 1)
      BY <1>1, <2>4 DEF HandlerMove
    <3>. QED  BY <1>3, <2>2, <3>1, <3>2, StoringFinite
  <2>. QED  BY <2>3, <2>4
<1>. QED  BY <1>4, <1>5

\* A delegated send's row is counted as one.
LEMMA PersistGrowth ==
    ASSUME TypeOK, GrowthInv, PersistDelegated
    PROVE  GrowthInv'
<1>1. Storing' = Storing
  BY DEF PersistDelegated, EnvUnchanged, Storing
<1>2. /\ UNCHANGED <<MaxMessages, start>>
      /\ rows' = rows + 1 /\ delegated' = delegated + 1
      /\ UNCHANGED tombstones
  BY DEF PersistDelegated, EnvUnchanged, MaxMessages
<1>3. rows \in Nat /\ tombstones \in Nat
  BY DEF TypeOK
<1>. QED
  BY <1>1, <1>2, <1>3, StoringFinite, StartTyped DEF GrowthInv

\* A new handler has the check still before it.
LEMMA DispatchGrowth ==
    ASSUME TypeOK, GrowthInv, NEW d \in Dispatchers, NEW n \in 1..MaxBatch,
           NEW live \in BOOLEAN, Dispatch(d, n, live)
    PROVE  GrowthInv'
<1>1. Storing' = Storing
  BY DEF Dispatch, At, Storing
<1>. QED
  BY <1>1 DEF Dispatch, HandlerUnchanged, GrowthInv, MaxMessages

\* A deletion that has only arrived has not inserted anything.
LEMMA DeletionGrowth ==
    ASSUME TypeOK, GrowthInv, NEW d \in Dispatchers, DispatchDeletion(d)
    PROVE  GrowthInv'
<1>1. PICK h \in HandlerStates :
        handler' = [handler EXCEPT ![d] = h] /\ h.at = "delete"
  BY GoMoves DEF DispatchDeletion
<1>2. Storing' = Storing
  BY <1>1 DEF DispatchDeletion, At, Storing, TypeOK
<1>. QED
  BY <1>2 DEF DispatchDeletion, HandlerUnchanged, GrowthInv, MaxMessages

\* Every step keeps the bound on the rows.
LEMMA GrowthStep ==
    ASSUME TypeOK, GrowthInv, [Next]_vars
    PROVE  GrowthInv'
<1>1. CASE RefuseToStart
  BY <1>1 DEF RefuseToStart, MainUnchanged, GrowthInv, Storing, MaxMessages
<1>2. CASE StartWorkers
  BY <1>2 DEF StartWorkers, GrowthInv, Storing, MaxMessages
<1>3. CASE ConnectForSync
  BY <1>3 DEF ConnectForSync, MainUnchanged, GrowthInv, Storing, MaxMessages
<1>4. CASE Prepare
  BY <1>4 DEF Prepare, MainUnchanged, GrowthInv, Storing, MaxMessages
<1>5. CASE LoopCancelled
  BY <1>5 DEF LoopCancelled, MainUnchanged, GrowthInv, Storing, MaxMessages
<1>6. CASE LoopDisconnected
  BY <1>6 DEF LoopDisconnected, MainUnchanged, GrowthInv, Storing, MaxMessages
<1>7. CASE IdleExit
  BY <1>7 DEF IdleExit, MainUnchanged, GrowthInv, Storing, MaxMessages
<1>8. CASE Decide
  BY <1>8 DEF Decide, MainUnchanged, GrowthInv, Storing, MaxMessages
<1>9. CASE Detach
  BY <1>9 DEF Detach, MainUnchanged, GrowthInv, Storing, MaxMessages
<1>10. CASE StopWebhook
  BY <1>10 DEF StopWebhook, MainUnchanged, GrowthInv, Storing, MaxMessages
<1>11. CASE StopMedia
  BY <1>11 DEF StopMedia, MainUnchanged, GrowthInv, Storing, MaxMessages
<1>12. CASE Cancel
  BY <1>12 DEF Cancel, MainUnchanged, GrowthInv, Storing, MaxMessages
<1>13. CASE Reconnected
  BY <1>13 DEF Reconnected, MainUnchanged, GrowthInv, Storing, MaxMessages
<1>14. CASE ReconnectGivesUp
  BY <1>14
  DEF ReconnectGivesUp, MainUnchanged, GrowthInv, Storing, MaxMessages
<1>15. ASSUME NEW d \in Dispatchers, Handle(d)
      PROVE  GrowthInv'
  BY <1>15, HandleGrowth
<1>16. ASSUME NEW d \in Dispatchers, NEW n \in 1..MaxBatch,
             NEW live \in BOOLEAN, Dispatch(d, n, live)
      PROVE  GrowthInv'
  BY <1>16, DispatchGrowth
<1>17. ASSUME NEW w \in MediaWorkers, TakeMedia(w)
      PROVE  GrowthInv'
  BY <1>17 DEF TakeMedia, WorkerUnchanged, GrowthInv, Storing, MaxMessages
<1>18. ASSUME NEW w \in MediaWorkers, FinishMedia(w)
      PROVE  GrowthInv'
  BY <1>18 DEF FinishMedia, WorkerUnchanged, GrowthInv, Storing, MaxMessages
<1>19. ASSUME NEW w \in MediaWorkers, ExitMedia(w)
      PROVE  GrowthInv'
  BY <1>19 DEF ExitMedia, WorkerUnchanged, GrowthInv, Storing, MaxMessages
<1>20. CASE TakeWebhook
  BY <1>20 DEF TakeWebhook, WorkerUnchanged, GrowthInv, Storing, MaxMessages
<1>21. CASE FinishWebhook
  BY <1>21 DEF FinishWebhook, WorkerUnchanged, GrowthInv, Storing, MaxMessages
<1>22. CASE ExitWebhook
  BY <1>22 DEF ExitWebhook, WorkerUnchanged, GrowthInv, Storing, MaxMessages
<1>23. CASE Interrupt
  BY <1>23 DEF Interrupt, EnvUnchanged, GrowthInv, Storing, MaxMessages
<1>24. CASE TimePasses
  BY <1>24 DEF TimePasses, EnvUnchanged, GrowthInv, Storing, MaxMessages
<1>25. CASE ConnectionDrops
  BY <1>25 DEF ConnectionDrops, EnvUnchanged, GrowthInv, Storing, MaxMessages
<1>26. CASE AutoReconnect
  BY <1>26 DEF AutoReconnect, EnvUnchanged, GrowthInv, Storing, MaxMessages
<1>27. CASE HandleDisconnected
  BY <1>27
  DEF HandleDisconnected, EnvUnchanged, GrowthInv, Storing, MaxMessages
<1>28. CASE HandleStreamReplaced
  BY <1>28
  DEF HandleStreamReplaced, EnvUnchanged, GrowthInv, Storing, MaxMessages
<1>29. CASE CloseForSend
  BY <1>29 DEF CloseForSend, EnvUnchanged, GrowthInv, Storing, MaxMessages
<1>30. CASE ConnectForSend
  BY <1>30 DEF ConnectForSend, EnvUnchanged, GrowthInv, Storing, MaxMessages
<1>31. CASE PersistDelegated
  BY <1>31, PersistGrowth
<1>32. CASE UNCHANGED vars
  BY <1>32 DEF vars, GrowthInv, Storing, MaxMessages
<1>33. ASSUME NEW d \in Dispatchers, DispatchDeletion(d)
      PROVE  GrowthInv'
  BY <1>33, DeletionGrowth
<1>. QED
  BY <1>1, <1>2, <1>3, <1>4, <1>5, <1>6, <1>7, <1>8, <1>9, <1>10, <1>11,
     <1>12, <1>13, <1>14, <1>15, <1>16, <1>17, <1>18, <1>19, <1>20, <1>21,
     <1>22, <1>23, <1>24, <1>25, <1>26, <1>27, <1>28, <1>29, <1>30, <1>31,
     <1>32, <1>33 DEF Next, Main, DoMedia, DoWebhook, Closed

\* Sync has not started anything.
LEMMA InitInv == Init => IInv
<1>. SUFFICES ASSUME Init PROVE IInv
  OBVIOUS
<1>1. TypeOK
  <2>1. start.rows \in Nat /\ start.arrivals \in Nat /\ start.drops \in Nat
        /\ start.delegated \in Nat
    BY SyncAssumption DEF Init, StartRecords
  <2>2. IdleHandler \in HandlerStates
    BY SyncAssumption DEF IdleHandler, HandlerStates
  <2>3. handler \in [Dispatchers -> HandlerStates]
    BY <2>2 DEF Init
  <2>4. rows \in Nat /\ start \in Starts /\ tombstones \in Nat
    BY <2>1 DEF Init
  <2>5. /\ mediaQ \in 0..MediaCap /\ webhookQ \in 0..WebhookCap
        /\ arrivals \in 0..start.arrivals /\ drops \in 0..start.drops
        /\ delegated \in 0..start.delegated
    BY <2>1, SyncAssumption DEF Init
  <2>6. /\ worker \in [MediaWorkers -> {"waiting", "busy", "exited"}]
        /\ poster \in {"waiting", "busy", "exited"}
        /\ signal \in 0..1 /\ sender \in {"idle", "closed", "failed"}
        /\ main \in Stages /\ result \in {"none", "ok", "error", "limit"}
    BY DEF Init, Stages
  <2>. QED  BY <2>3, <2>4, <2>5, <2>6 DEF Init, TypeOK
<1>2. TeardownInv
  BY DEF Init, TeardownInv, HandlersDone, IdleHandler
<1>3. ConnectionInv
  BY DEF Init, ConnectionInv
<1>4. GrowthInv
  <2>1. Storing = {}
    BY DEF Init, Storing, IdleHandler
  <2>2. Cardinality(Storing) = 0
    BY <2>1, FS_EmptySet
  <2>3. /\ rows \in Nat /\ MaxMessages \in Nat /\ delegated = 0
        /\ rows = start.rows /\ tombstones = 0
    BY SyncAssumption DEF Init, StartRecords, MaxMessages
  <2>. QED  BY <2>2, <2>3, StoringFinite DEF GrowthInv
<1>. QED  BY <1>1, <1>2, <1>3, <1>4 DEF IInv

\* The invariant is inductive.
LEMMA StepInv == IInv /\ [Next]_vars => IInv'
BY TypeStep, TeardownStep, ConnectionStep, GrowthStep DEF IInv

\* The invariant, for every number of dispatchers and workers.
LEMMA Invariance == Spec => []IInv
BY InitInv, StepInv, PTL DEF Spec

\* Type correctness: in particular no channel or queue holds more than it can.
THEOREM TypeCorrect == Spec => []TypeOK
BY Invariance, PTL DEF IInv

\* When Sync has returned no handler, media worker or webhook poster still
\* runs (the teardown at the end of App.Sync).
THEOREM ClosedQuietly == Spec => []ClosedIsQuiet
<1>1. IInv => ClosedIsQuiet
  BY DEF IInv, TeardownInv, HandlersDone, ClosedIsQuiet, Open
<1>. QED  BY <1>1, Invariance, PTL

\* A loop whose connection is gone has a disconnect that is not handled yet,
\* or its one-place signal is full: no loss goes unnoticed (the
\* Disconnected case of addSyncEventHandler).
THEOREM LossIsPending == Spec => []LostConnectionIsPending
<1>1. IInv => LostConnectionIsPending
  BY DEF IInv, ConnectionInv, LostConnectionIsPending
<1>. QED  BY <1>1, Invariance, PTL

\* With --max-messages the store outgrows its limit by no more than one
\* message of each dispatcher (checkSyncStorageLimits), the sends that were
\* delegated and the deletions for me of messages that were not stored, which
\* are the two writers that do not check (handleDeleteForMeEvent).
THEOREM BoundedGrowth == Spec => []GrowthIsBounded
<1>1. IInv => GrowthIsBounded
  <2>1. TypeOK => /\ rows \in Nat /\ delegated \in Nat /\ MaxMessages \in Nat
                  /\ tombstones \in Nat
    BY SyncAssumption DEF TypeOK, StartRecords, MaxMessages
  <2>. QED  BY <2>1, StoringFinite DEF IInv, GrowthInv, GrowthIsBounded
<1>. QED  BY <1>1, Invariance, PTL
=============================================================================
