------------------------ MODULE SendDelegationProofs ------------------------
(***************************************************************************)
(* Proofs about SendDelegation, for every number of syncs and commands:    *)
(* who may be online, that a serving sync can be dialled, and that a send  *)
(* implements SendOutcome.                                                 *)
(***************************************************************************)
EXTENDS SendDelegation, TLAPS

Stages(p) == IF p \in Syncs THEN SyncStages ELSE ClientStages

\* Where a process holds the lock.
Inside == {"locked", "online", "serving", "stopping", "unlinking", "closing",
           "closed", "direct", "sending"}

\* Before a command has handed its message to anyone.
Unsent == {"start", "direct", "dialing"}

\* The lock follows the stage.  Nobody is online who has closed the app.
LockInv ==
    /\ \A p \in Procs : stage[p] \in Stages(p)
    /\ \A p \in Procs : stage[p] \in Inside => lock = p
    /\ \A p \in online : lock = p /\ stage[p] \in Inside \ {"closed"}

\* The listener is open while it serves, and its path leads to it.
ServerInv ==
    /\ \A p \in listening : stage[p] \in {"serving", "stopping"}
    /\ \A p \in Syncs :
         stage[p] \in {"serving", "stopping"} => p \in listening
    /\ \A p \in Syncs : stage[p] = "serving" => socketFile = p

\* Who runs c's send: c itself while it is "sending", or a sync.
HostInv(c) ==
    /\ host[c] \in Syncs \cup {c, NoProc}
    /\ host[c] = NoProc => task[c] = "none" /\ op[c] = NoOps
    /\ host[c] = c =>
         /\ stage[c] \in {"sending", "closing", "closed", "exiting"}
         /\ task[c] # "none" => task[c] # "queued" /\ stage[c] = "sending"
    /\ host[c] \in Syncs => stage[c] \in {"waiting", "done"}
    /\ stage[c] \in Unsent => host[c] = NoProc

\* How often c's message can have been accepted by now.  At most one attempt
\* has a goroutine, an abandoned one is never followed by another.
AttemptInv(c) ==
    /\ stage[c] \in Unsent => accepted[c] = 0
    /\ task[c] \in {"queued", "reconnect"} => op[c] = NoOps /\ accepted[c] = 0
    /\ task[c] \in {"persist", "wait"} => accepted[c] = 1
    /\ op[c][1] = "none" \/ op[c][2] = "none"
    /\ \A n \in 1..2 : /\ op[c][n] = "running" => accepted[c] = 0
                       /\ op[c][n] = "accepted" => accepted[c] = 1
    /\ stage[c] \in Unsent \cup {"sending", "waiting"} => outcome[c] = "none"

SendInv == \A c \in Clients : HostInv(c) /\ AttemptInv(c)

IInv == TypeOK /\ LockInv /\ ServerInv /\ SendInv

\* Every step keeps the store lock with the process whose stage says so.
LEMMA LockStep ==
    ASSUME TypeOK, LockInv, SendInv, [Next]_vars
    PROVE  LockInv'
<1>1. CASE Probe
  BY <1>1, ProcAssumption DEF Probe, Acquire, LockInv, TypeOK
<1>2. CASE ProbeEnds
  BY <1>2, ProcAssumption DEF ProbeEnds, LockInv, TypeOK
<1>3. ASSUME NEW p \in Syncs, SyncStarts(p)
      PROVE  LockInv'
  BY <1>3, ProcAssumption
  DEF SyncStarts, Acquire, Goto, LockInv, TypeOK, Stages, SyncStages
<1>4. ASSUME NEW p \in Syncs, SyncConnects(p)
      PROVE  LockInv'
  BY <1>4 DEF SyncConnects, Goto, Procs, LockInv, Inside, Stages, SyncStages
<1>5. ASSUME NEW p \in Syncs, SetupFails(p)
      PROVE  LockInv'
  BY <1>5 DEF SetupFails, Goto, LockInv, Inside, Stages, SyncStages
<1>6. ASSUME NEW p \in Syncs, StartSendDelegateServer(p)
      PROVE  LockInv'
  BY <1>6
  DEF StartSendDelegateServer, Goto, LockInv, Inside, Stages, SyncStages
<1>7. ASSUME NEW p \in Syncs, SyncReturns(p)
      PROVE  LockInv'
  BY <1>7 DEF SyncReturns, Goto, LockInv, Inside, Stages, SyncStages
<1>8. ASSUME NEW p \in Syncs, CloseListener(p)
      PROVE  LockInv'
  BY <1>8 DEF CloseListener, Goto, LockInv, Inside, Stages, SyncStages
<1>9. ASSUME NEW p \in Syncs, RemoveSocket(p)
      PROVE  LockInv'
  BY <1>9 DEF RemoveSocket, Goto, LockInv, Inside, Stages, SyncStages
<1>10. ASSUME NEW p \in Syncs, SyncReconnects(p)
      PROVE  LockInv'
  BY <1>10 DEF SyncReconnects, Procs, LockInv, Inside
<1>11. ASSUME NEW p \in Procs, CloseApp(p)
      PROVE  LockInv'
  BY <1>11
  DEF CloseApp, Goto, LockInv, Inside, Stages, SyncStages, ClientStages
<1>12. ASSUME NEW p \in Procs, Release(p)
      PROVE  LockInv'
  BY <1>12
  DEF Release, Goto, LockInv, Inside, TypeOK, Stages, SyncStages, ClientStages
<1>13. ASSUME NEW p \in Procs, Exit(p)
      PROVE  LockInv'
  BY <1>13
  DEF Exit, Goto, EndProcess, LockInv, Inside, Stages, SyncStages,
     ClientStages
<1>14. ASSUME NEW p \in Procs, Crash(p)
      PROVE  LockInv'
  BY <1>14
  DEF Crash, Goto, EndProcess, LockInv, Inside, TypeOK, Stages, SyncStages,
     ClientStages
<1>15. ASSUME NEW p \in Procs, ConnectionDrops(p)
      PROVE  LockInv'
  BY <1>15 DEF ConnectionDrops, LockInv
<1>16. ASSUME NEW c \in Clients, AcquireForSend(c)
      PROVE  LockInv'
  BY <1>16, ProcAssumption
  DEF AcquireForSend, Acquire, Goto, LockInv, TypeOK, Stages, ClientStages
<1>17. ASSUME NEW c \in Clients, LockIsHeld(c)
      PROVE  LockInv'
  BY <1>17, ProcAssumption
  DEF LockIsHeld, Goto, LockInv, Inside, Stages, ClientStages
<1>18. ASSUME NEW c \in Clients, ConnectAndSend(c)
      PROVE  LockInv'
  BY <1>18, ProcAssumption
  DEF ConnectAndSend, Goto, Procs, LockInv, Inside, Stages, ClientStages
<1>19. ASSUME NEW c \in Clients, ConnectFails(c)
      PROVE  LockInv'
  BY <1>19, ProcAssumption
  DEF ConnectFails, Goto, LockInv, Inside, Stages, ClientStages
<1>20. ASSUME NEW c \in Clients, DelegateSend(c)
      PROVE  LockInv'
  BY <1>20, ProcAssumption
  DEF DelegateSend, Goto, LockInv, Inside, Stages, ClientStages
<1>21. ASSUME NEW c \in Clients, DelegateUnavailable(c)
      PROVE  LockInv'
  BY <1>21, ProcAssumption
  DEF DelegateUnavailable, Goto, LockInv, Inside, Stages, ClientStages
<1>22. ASSUME NEW c \in Clients, ClientGivesUp(c)
      PROVE  LockInv'
  BY <1>22, ProcAssumption
  DEF ClientGivesUp, Goto, LockInv, Inside, Stages, ClientStages
<1>23. ASSUME NEW c \in Clients, TakeSendMu(c)
      PROVE  LockInv'
  BY <1>23 DEF TakeSendMu, LockInv
<1>24. ASSUME NEW c \in Clients, RejectRequest(c)
      PROVE  LockInv'
  BY <1>24, ProcAssumption
  DEF RejectRequest, Finish, Report, SetTask, Goto, Procs, LockInv, Inside,
     TypeOK, Stages, SyncStages, ClientStages, SendInv, HostInv
<1>25. ASSUME NEW c \in Clients, AttemptSucceeds(c)
      PROVE  LockInv'
  BY <1>25 DEF AttemptSucceeds, LockInv
<1>26. ASSUME NEW c \in Clients, AttemptFails(c)
      PROVE  LockInv'
  BY <1>26, ProcAssumption
  DEF AttemptFails, Finish, Report, SetTask, Goto, Sending, Procs, LockInv,
     Inside, TypeOK, Stages, SyncStages, ClientStages, SendInv, HostInv
<1>27. ASSUME NEW c \in Clients, AttemptIsRetryable(c)
      PROVE  LockInv'
  BY <1>27 DEF AttemptIsRetryable, LockInv
<1>28. ASSUME NEW c \in Clients, AttemptTimesOut(c)
      PROVE  LockInv'
  BY <1>28, ProcAssumption
  DEF AttemptTimesOut, Finish, Report, SetTask, Goto, Attempt, Sending, Procs,
     LockInv, Inside, TypeOK, Stages, SyncStages, ClientStages, SendInv,
     HostInv
<1>29. ASSUME NEW c \in Clients, Reconnect(c)
      PROVE  LockInv'
  BY <1>29, ProcAssumption
  DEF Reconnect, CtxLive, Procs, LockInv, Inside, SendInv, HostInv
<1>30. ASSUME NEW c \in Clients, ReconnectFails(c)
      PROVE  LockInv'
  BY <1>30, ProcAssumption
  DEF ReconnectFails, Finish, Report, Goto, LockInv, Inside, TypeOK, Stages,
     SyncStages, ClientStages, SendInv, HostInv
<1>31. ASSUME NEW c \in Clients, PersistOutbound(c)
      PROVE  LockInv'
  BY <1>31 DEF PersistOutbound, LockInv
<1>32. ASSUME NEW c \in Clients, ReportSent(c)
      PROVE  LockInv'
  BY <1>32
  DEF ReportSent, Finish, Report, Goto, LockInv, Inside, TypeOK, Stages,
     SyncStages, ClientStages, SendInv, HostInv
<1>33. ASSUME NEW c \in Clients, NEW n \in 1..2, Accept(c, n)
      PROVE  LockInv'
  BY <1>33 DEF Accept, LockInv
<1>34. CASE UNCHANGED vars
  BY <1>34 DEF vars, LockInv
<1>. QED
  BY <1>1, <1>2, <1>3, <1>4, <1>5, <1>6, <1>7, <1>8, <1>9, <1>10, <1>11,
     <1>12, <1>13, <1>14, <1>15, <1>16, <1>17, <1>18, <1>19, <1>20, <1>21,
     <1>22, <1>23, <1>24, <1>25, <1>26, <1>27, <1>28, <1>29, <1>30, <1>31,
     <1>32, <1>33, <1>34 DEF Next, AllDone, Lifecycle, Stop, Command, Dequeue,
     Answered, Bounded

\* Every step keeps the socket's path leading to an open listener.
LEMMA ServerStep ==
    ASSUME TypeOK, LockInv, ServerInv, [Next]_vars
    PROVE  ServerInv'
<1>1. CASE Probe
  BY <1>1 DEF Probe, ServerInv, server
<1>2. CASE ProbeEnds
  BY <1>2 DEF ProbeEnds, ServerInv, server
<1>3. ASSUME NEW p \in Syncs, SyncStarts(p)
      PROVE  ServerInv'
  BY <1>3 DEF SyncStarts, Goto, ServerInv, server
<1>4. ASSUME NEW p \in Syncs, SyncConnects(p)
      PROVE  ServerInv'
  BY <1>4 DEF SyncConnects, Goto, ServerInv, server
<1>5. ASSUME NEW p \in Syncs, SetupFails(p)
      PROVE  ServerInv'
  BY <1>5 DEF SetupFails, Goto, ServerInv, server
<1>6. ASSUME NEW p \in Syncs, StartSendDelegateServer(p)
      PROVE  ServerInv'
  BY <1>6
  DEF StartSendDelegateServer, Goto, Procs, TypeOK, ServerInv, LockInv, Inside
<1>7. ASSUME NEW p \in Syncs, SyncReturns(p)
      PROVE  ServerInv'
  BY <1>7 DEF SyncReturns, Goto, ServerInv, server
<1>8. ASSUME NEW p \in Syncs, CloseListener(p)
      PROVE  ServerInv'
  BY <1>8 DEF CloseListener, Goto, Procs, TypeOK, ServerInv, LockInv, Inside
<1>9. ASSUME NEW p \in Syncs, RemoveSocket(p)
      PROVE  ServerInv'
  BY <1>9 DEF RemoveSocket, Goto, Procs, ServerInv, LockInv, Inside
<1>10. ASSUME NEW p \in Syncs, SyncReconnects(p)
      PROVE  ServerInv'
  BY <1>10 DEF SyncReconnects, ServerInv, server
<1>11. ASSUME NEW p \in Procs, CloseApp(p)
      PROVE  ServerInv'
  BY <1>11 DEF CloseApp, Goto, ServerInv, server
<1>12. ASSUME NEW p \in Procs, Release(p)
      PROVE  ServerInv'
  BY <1>12 DEF Release, Goto, ServerInv, server
<1>13. ASSUME NEW p \in Procs, Exit(p)
      PROVE  ServerInv'
  BY <1>13 DEF Exit, Goto, EndProcess, ServerInv, server
<1>14. ASSUME NEW p \in Procs, Crash(p)
      PROVE  ServerInv'
  BY <1>14 DEF Crash, Goto, EndProcess, TypeOK, ServerInv
<1>15. ASSUME NEW p \in Procs, ConnectionDrops(p)
      PROVE  ServerInv'
  BY <1>15 DEF ConnectionDrops, ServerInv, server
<1>16. ASSUME NEW c \in Clients, AcquireForSend(c)
      PROVE  ServerInv'
  BY <1>16 DEF AcquireForSend, Goto, ServerInv, server
<1>17. ASSUME NEW c \in Clients, LockIsHeld(c)
      PROVE  ServerInv'
  BY <1>17 DEF LockIsHeld, Goto, ServerInv, server
<1>18. ASSUME NEW c \in Clients, ConnectAndSend(c)
      PROVE  ServerInv'
  BY <1>18 DEF ConnectAndSend, Goto, ServerInv, server
<1>19. ASSUME NEW c \in Clients, ConnectFails(c)
      PROVE  ServerInv'
  BY <1>19 DEF ConnectFails, Goto, ServerInv, server
<1>20. ASSUME NEW c \in Clients, DelegateSend(c)
      PROVE  ServerInv'
  BY <1>20 DEF DelegateSend, Goto, ServerInv, server
<1>21. ASSUME NEW c \in Clients, DelegateUnavailable(c)
      PROVE  ServerInv'
  BY <1>21 DEF DelegateUnavailable, Goto, ServerInv, server
<1>22. ASSUME NEW c \in Clients, ClientGivesUp(c)
      PROVE  ServerInv'
  BY <1>22 DEF ClientGivesUp, Goto, ServerInv, server
<1>23. ASSUME NEW c \in Clients, TakeSendMu(c)
      PROVE  ServerInv'
  BY <1>23 DEF TakeSendMu, ServerInv, server
<1>24. ASSUME NEW c \in Clients, RejectRequest(c)
      PROVE  ServerInv'
  BY <1>24, ProcAssumption
  DEF RejectRequest, Finish, Goto, Procs, TypeOK, ServerInv, server
<1>25. ASSUME NEW c \in Clients, AttemptSucceeds(c)
      PROVE  ServerInv'
  BY <1>25 DEF AttemptSucceeds, ServerInv, server
<1>26. ASSUME NEW c \in Clients, AttemptFails(c)
      PROVE  ServerInv'
  BY <1>26, ProcAssumption
  DEF AttemptFails, Finish, Goto, Procs, TypeOK, ServerInv, server
<1>27. ASSUME NEW c \in Clients, AttemptIsRetryable(c)
      PROVE  ServerInv'
  BY <1>27 DEF AttemptIsRetryable, ServerInv, server
<1>28. ASSUME NEW c \in Clients, AttemptTimesOut(c)
      PROVE  ServerInv'
  BY <1>28, ProcAssumption
  DEF AttemptTimesOut, Finish, Goto, Procs, TypeOK, ServerInv, server
<1>29. ASSUME NEW c \in Clients, Reconnect(c)
      PROVE  ServerInv'
  BY <1>29 DEF Reconnect, ServerInv, server
<1>30. ASSUME NEW c \in Clients, ReconnectFails(c)
      PROVE  ServerInv'
  BY <1>30, ProcAssumption
  DEF ReconnectFails, Finish, Goto, Procs, TypeOK, ServerInv, server
<1>31. ASSUME NEW c \in Clients, PersistOutbound(c)
      PROVE  ServerInv'
  BY <1>31 DEF PersistOutbound, ServerInv, server
<1>32. ASSUME NEW c \in Clients, ReportSent(c)
      PROVE  ServerInv'
  BY <1>32, ProcAssumption
  DEF ReportSent, Finish, Goto, Procs, TypeOK, ServerInv, server
<1>33. ASSUME NEW c \in Clients, NEW n \in 1..2, Accept(c, n)
      PROVE  ServerInv'
  BY <1>33 DEF Accept, server, ServerInv
<1>34. CASE UNCHANGED vars
  BY <1>34 DEF vars, ServerInv
<1>. QED
  BY <1>1, <1>2, <1>3, <1>4, <1>5, <1>6, <1>7, <1>8, <1>9, <1>10, <1>11,
     <1>12, <1>13, <1>14, <1>15, <1>16, <1>17, <1>18, <1>19, <1>20, <1>21,
     <1>22, <1>23, <1>24, <1>25, <1>26, <1>27, <1>28, <1>29, <1>30, <1>31,
     <1>32, <1>33, <1>34 DEF Next, AllDone, Lifecycle, Stop, Command, Dequeue,
     Answered, Bounded

\* Every step keeps the variables well-typed.
LEMMA TypeStep ==
    ASSUME TypeOK, SendInv, [Next]_vars
    PROVE  TypeOK'
<1>1. CASE Probe
  BY <1>1 DEF Probe, Acquire, TypeOK, sends, server
<1>2. CASE ProbeEnds
  BY <1>2 DEF ProbeEnds, TypeOK, sends, server
<1>3. ASSUME NEW p \in Syncs, SyncStarts(p)
      PROVE  TypeOK'
  BY <1>3
  DEF SyncStarts, Acquire, Goto, Procs, TypeOK, SyncStages, sends, server
<1>4. ASSUME NEW p \in Syncs, SyncConnects(p)
      PROVE  TypeOK'
  BY <1>4 DEF SyncConnects, Goto, Procs, TypeOK, SyncStages, sends, server
<1>5. ASSUME NEW p \in Syncs, SetupFails(p)
      PROVE  TypeOK'
  BY <1>5 DEF SetupFails, Goto, TypeOK, SyncStages, sends, server
<1>6. ASSUME NEW p \in Syncs, StartSendDelegateServer(p)
      PROVE  TypeOK'
  BY <1>6 DEF StartSendDelegateServer, Goto, TypeOK, SyncStages, sends
<1>7. ASSUME NEW p \in Syncs, SyncReturns(p)
      PROVE  TypeOK'
  BY <1>7 DEF SyncReturns, Goto, TypeOK, SyncStages, sends, server
<1>8. ASSUME NEW p \in Syncs, CloseListener(p)
      PROVE  TypeOK'
  BY <1>8 DEF CloseListener, Goto, TypeOK, SyncStages, sends
<1>9. ASSUME NEW p \in Syncs, RemoveSocket(p)
      PROVE  TypeOK'
  BY <1>9 DEF RemoveSocket, Goto, TypeOK, SyncStages, sends
<1>10. ASSUME NEW p \in Syncs, SyncReconnects(p)
      PROVE  TypeOK'
  BY <1>10 DEF SyncReconnects, Procs, TypeOK, sends, server
<1>11. ASSUME NEW p \in Procs, CloseApp(p)
      PROVE  TypeOK'
  BY <1>11 DEF CloseApp, Goto, TypeOK, SyncStages, sends, server
<1>12. ASSUME NEW p \in Procs, Release(p)
      PROVE  TypeOK'
  BY <1>12 DEF Release, Goto, TypeOK, SyncStages, sends, server
<1>13. ASSUME NEW p \in Procs, Exit(p)
      PROVE  TypeOK'
  BY <1>13
  DEF Exit, Goto, EndProcess, TypeOK, SyncStages, ClientStages, server, Tasks,
     NoOps
<1>14. ASSUME NEW p \in Procs, Crash(p)
      PROVE  TypeOK'
  BY <1>14
  DEF Crash, Goto, EndProcess, TypeOK, SyncStages, ClientStages, Tasks, NoOps
<1>15. ASSUME NEW p \in Procs, ConnectionDrops(p)
      PROVE  TypeOK'
  BY <1>15 DEF ConnectionDrops, TypeOK, sends, server
<1>16. ASSUME NEW c \in Clients, AcquireForSend(c)
      PROVE  TypeOK'
  BY <1>16
  DEF AcquireForSend, Acquire, Goto, Procs, TypeOK, ClientStages, sends,
     server
<1>17. ASSUME NEW c \in Clients, LockIsHeld(c)
      PROVE  TypeOK'
  BY <1>17 DEF LockIsHeld, Goto, TypeOK, ClientStages, sends, server
<1>18. ASSUME NEW c \in Clients, ConnectAndSend(c)
      PROVE  TypeOK'
  BY <1>18
  DEF ConnectAndSend, Goto, Begin, Procs, TypeOK, ClientStages, server, Tasks
<1>19. ASSUME NEW c \in Clients, ConnectFails(c)
      PROVE  TypeOK'
  BY <1>19 DEF ConnectFails, Goto, Report, TypeOK, SyncStages, server
<1>20. ASSUME NEW c \in Clients, DelegateSend(c)
      PROVE  TypeOK'
  BY <1>20
  DEF DelegateSend, Goto, Begin, Procs, TypeOK, ClientStages, server, Tasks
<1>21. ASSUME NEW c \in Clients, DelegateUnavailable(c)
      PROVE  TypeOK'
  BY <1>21 DEF DelegateUnavailable, Goto, Report, TypeOK, ClientStages, server
<1>22. ASSUME NEW c \in Clients, ClientGivesUp(c)
      PROVE  TypeOK'
  BY <1>22 DEF ClientGivesUp, Goto, Report, TypeOK, ClientStages, server
<1>23. ASSUME NEW c \in Clients, TakeSendMu(c)
      PROVE  TypeOK'
  BY <1>23 DEF TakeSendMu, SetTask, TypeOK, server, Tasks
<1>24. ASSUME NEW c \in Clients, RejectRequest(c)
      PROVE  TypeOK'
  BY <1>24
  DEF RejectRequest, Finish, Report, SetTask, Goto, TypeOK, SyncStages,
     ClientStages, server, Tasks
<1>25. ASSUME NEW c \in Clients, AttemptSucceeds(c)
      PROVE  TypeOK'
  BY <1>25 DEF AttemptSucceeds, SetTask, TypeOK, server, Tasks
<1>26. ASSUME NEW c \in Clients, AttemptFails(c)
      PROVE  TypeOK'
  BY <1>26, ProcAssumption
  DEF AttemptFails, Finish, Report, SetTask, Goto, Attempt, Sending, Procs,
     TypeOK, SyncStages, ClientStages, sends, server, Tasks
<1>27. ASSUME NEW c \in Clients, AttemptIsRetryable(c)
      PROVE  TypeOK'
  BY <1>27 DEF AttemptIsRetryable, SetTask, TypeOK, server, Tasks
<1>28. ASSUME NEW c \in Clients, AttemptTimesOut(c)
      PROVE  TypeOK'
  BY <1>28
  DEF AttemptTimesOut, Finish, Report, SetTask, Goto, TypeOK, SyncStages,
     ClientStages, server, Tasks
<1>29. ASSUME NEW c \in Clients, Reconnect(c)
      PROVE  TypeOK'
  <2>1. host[c] \in Procs
    BY <1>29 DEF Reconnect, TypeOK, SendInv, HostInv
  <2>2. online' \subseteq Procs
    BY <1>29, <2>1 DEF Reconnect, TypeOK
  <2>3. task' \in [Clients -> Tasks]
    BY <1>29 DEF Reconnect, SetTask, TypeOK, Tasks
  <2>4. op' \in [Clients -> [1..2 -> {"none", "running", "accepted"}]]
    BY <1>29 DEF Reconnect, TypeOK
  <2>. QED  BY <1>29, <2>2, <2>3, <2>4 DEF Reconnect, TypeOK, server
<1>30. ASSUME NEW c \in Clients, ReconnectFails(c)
      PROVE  TypeOK'
  BY <1>30, ProcAssumption
  DEF ReconnectFails, Finish, Report, SetTask, Goto, Procs, TypeOK,
     SyncStages, ClientStages, sends, server, Tasks
<1>31. ASSUME NEW c \in Clients, PersistOutbound(c)
      PROVE  TypeOK'
  BY <1>31 DEF PersistOutbound, SetTask, TypeOK, server, Tasks
<1>32. ASSUME NEW c \in Clients, ReportSent(c)
      PROVE  TypeOK'
  BY <1>32, ProcAssumption
  DEF ReportSent, Finish, Report, SetTask, Goto, Procs, TypeOK, SyncStages,
     ClientStages, sends, server, Tasks
<1>33. ASSUME NEW c \in Clients, NEW n \in 1..2, Accept(c, n)
      PROVE  TypeOK'
  BY <1>33 DEF Accept, TypeOK, server, SendInv, AttemptInv
<1>34. CASE UNCHANGED vars
  BY <1>34 DEF vars, TypeOK
<1>. QED
  BY <1>1, <1>2, <1>3, <1>4, <1>5, <1>6, <1>7, <1>8, <1>9, <1>10, <1>11,
     <1>12, <1>13, <1>14, <1>15, <1>16, <1>17, <1>18, <1>19, <1>20, <1>21,
     <1>22, <1>23, <1>24, <1>25, <1>26, <1>27, <1>28, <1>29, <1>30, <1>31,
     <1>32, <1>33, <1>34 DEF Next, AllDone, Lifecycle, Stop, Command, Dequeue,
     Answered, Bounded

\* Every step keeps a send with the process that runs it: the command itself
\* or one sync.
LEMMA HostStep ==
    ASSUME TypeOK, ServerInv, SendInv, [Next]_vars
    PROVE  \A d \in Clients : HostInv(d)'
<1>1. CASE Probe
  BY <1>1 DEF Probe, SendInv, HostInv, sends
<1>2. CASE ProbeEnds
  BY <1>2 DEF ProbeEnds, SendInv, HostInv, sends
<1>3. ASSUME NEW p \in Syncs, SyncStarts(p)
      PROVE  \A d \in Clients : HostInv(d)'
  BY <1>3 DEF SyncStarts, Goto, SendInv, HostInv, sends
<1>4. ASSUME NEW p \in Syncs, SyncConnects(p)
      PROVE  \A d \in Clients : HostInv(d)'
  BY <1>4 DEF SyncConnects, Goto, SendInv, HostInv, sends
<1>5. ASSUME NEW p \in Syncs, SetupFails(p)
      PROVE  \A d \in Clients : HostInv(d)'
  BY <1>5 DEF SetupFails, Goto, SendInv, HostInv, sends
<1>6. ASSUME NEW p \in Syncs, StartSendDelegateServer(p)
      PROVE  \A d \in Clients : HostInv(d)'
  BY <1>6 DEF StartSendDelegateServer, Goto, SendInv, HostInv, sends
<1>7. ASSUME NEW p \in Syncs, SyncReturns(p)
      PROVE  \A d \in Clients : HostInv(d)'
  BY <1>7 DEF SyncReturns, Goto, SendInv, HostInv, sends
<1>8. ASSUME NEW p \in Syncs, CloseListener(p)
      PROVE  \A d \in Clients : HostInv(d)'
  BY <1>8 DEF CloseListener, Goto, SendInv, HostInv, sends
<1>9. ASSUME NEW p \in Syncs, RemoveSocket(p)
      PROVE  \A d \in Clients : HostInv(d)'
  BY <1>9 DEF RemoveSocket, Goto, SendInv, HostInv, sends
<1>10. ASSUME NEW p \in Syncs, SyncReconnects(p)
      PROVE  \A d \in Clients : HostInv(d)'
  BY <1>10 DEF SyncReconnects, SendInv, HostInv, sends
<1>11. ASSUME NEW p \in Procs, CloseApp(p)
      PROVE  \A d \in Clients : HostInv(d)'
  BY <1>11 DEF CloseApp, Goto, SendInv, HostInv, sends, Unsent
<1>12. ASSUME NEW p \in Procs, Release(p)
      PROVE  \A d \in Clients : HostInv(d)'
  BY <1>12 DEF Release, Goto, SendInv, HostInv, sends, Unsent
<1>13. ASSUME NEW p \in Procs, Exit(p)
      PROVE  \A d \in Clients : HostInv(d)'
  BY <1>13, ProcAssumption DEF Exit, Goto, EndProcess, Procs, SendInv, HostInv
<1>14. ASSUME NEW p \in Procs, Crash(p)
      PROVE  \A d \in Clients : HostInv(d)'
  BY <1>14, ProcAssumption
  DEF Crash, Goto, EndProcess, Procs, SendInv, HostInv, Unsent
<1>15. ASSUME NEW p \in Procs, ConnectionDrops(p)
      PROVE  \A d \in Clients : HostInv(d)'
  BY <1>15 DEF ConnectionDrops, SendInv, HostInv, sends
<1>16. ASSUME NEW c \in Clients, AcquireForSend(c)
      PROVE  \A d \in Clients : HostInv(d)'
  BY <1>16 DEF AcquireForSend, Goto, SendInv, HostInv, sends
<1>17. ASSUME NEW c \in Clients, LockIsHeld(c)
      PROVE  \A d \in Clients : HostInv(d)'
  BY <1>17 DEF LockIsHeld, Goto, SendInv, HostInv, sends
<1>18. ASSUME NEW c \in Clients, ConnectAndSend(c)
      PROVE  \A d \in Clients : HostInv(d)'
  BY <1>18, ProcAssumption
  DEF ConnectAndSend, Goto, Begin, Procs, TypeOK, SendInv, HostInv, Unsent
<1>19. ASSUME NEW c \in Clients, ConnectFails(c)
      PROVE  \A d \in Clients : HostInv(d)'
  BY <1>19 DEF ConnectFails, Goto, SendInv, HostInv
<1>20. ASSUME NEW c \in Clients, DelegateSend(c)
      PROVE  \A d \in Clients : HostInv(d)'
  BY <1>20, ProcAssumption
  DEF DelegateSend, Goto, Begin, Procs, TypeOK, SendInv, HostInv, Unsent
<1>21. ASSUME NEW c \in Clients, DelegateUnavailable(c)
      PROVE  \A d \in Clients : HostInv(d)'
  BY <1>21 DEF DelegateUnavailable, Goto, SendInv, HostInv
<1>22. ASSUME NEW c \in Clients, ClientGivesUp(c)
      PROVE  \A d \in Clients : HostInv(d)'
  BY <1>22 DEF ClientGivesUp, Goto, SendInv, HostInv, Unsent
<1>23. ASSUME NEW c \in Clients, TakeSendMu(c)
      PROVE  \A d \in Clients : HostInv(d)'
  BY <1>23 DEF TakeSendMu, SetTask, SendInv, HostInv
<1>24. ASSUME NEW c \in Clients, RejectRequest(c)
      PROVE  \A d \in Clients : HostInv(d)'
  BY <1>24
  DEF RejectRequest, Finish, SetTask, Goto, Procs, TypeOK, SendInv, HostInv,
     Unsent
<1>25. ASSUME NEW c \in Clients, AttemptSucceeds(c)
      PROVE  \A d \in Clients : HostInv(d)'
  BY <1>25 DEF AttemptSucceeds, SetTask, Sending, SendInv, HostInv
<1>26. ASSUME NEW c \in Clients, AttemptFails(c)
      PROVE  \A d \in Clients : HostInv(d)'
  BY <1>26
  DEF AttemptFails, Finish, SetTask, Goto, Sending, Procs, TypeOK, SendInv,
     HostInv, Unsent, ServerInv
<1>27. ASSUME NEW c \in Clients, AttemptIsRetryable(c)
      PROVE  \A d \in Clients : HostInv(d)'
  BY <1>27 DEF AttemptIsRetryable, SetTask, SendInv, HostInv
<1>28. ASSUME NEW c \in Clients, AttemptTimesOut(c)
      PROVE  \A d \in Clients : HostInv(d)'
  BY <1>28
  DEF AttemptTimesOut, Finish, SetTask, Goto, Procs, TypeOK, SendInv, HostInv,
     Unsent
<1>29. ASSUME NEW c \in Clients, Reconnect(c)
      PROVE  \A d \in Clients : HostInv(d)'
  BY <1>29 DEF Reconnect, SetTask, SendInv, HostInv
<1>30. ASSUME NEW c \in Clients, ReconnectFails(c)
      PROVE  \A d \in Clients : HostInv(d)'
  BY <1>30
  DEF ReconnectFails, Finish, SetTask, Goto, Procs, TypeOK, SendInv, HostInv,
     Unsent
<1>31. ASSUME NEW c \in Clients, PersistOutbound(c)
      PROVE  \A d \in Clients : HostInv(d)'
  BY <1>31 DEF PersistOutbound, SetTask, SendInv, HostInv
<1>32. ASSUME NEW c \in Clients, ReportSent(c)
      PROVE  \A d \in Clients : HostInv(d)'
  BY <1>32
  DEF ReportSent, Finish, SetTask, Goto, Procs, TypeOK, SendInv, HostInv,
     Unsent
<1>33. ASSUME NEW c \in Clients, NEW n \in 1..2, Accept(c, n)
      PROVE  \A d \in Clients : HostInv(d)'
  BY <1>33, ProcAssumption
  DEF Accept, TypeOK, SendInv, HostInv, Unsent, ServerInv
<1>34. CASE UNCHANGED vars
  BY <1>34 DEF vars, SendInv, HostInv
<1>. QED
  BY <1>1, <1>2, <1>3, <1>4, <1>5, <1>6, <1>7, <1>8, <1>9, <1>10, <1>11,
     <1>12, <1>13, <1>14, <1>15, <1>16, <1>17, <1>18, <1>19, <1>20, <1>21,
     <1>22, <1>23, <1>24, <1>25, <1>26, <1>27, <1>28, <1>29, <1>30, <1>31,
     <1>32, <1>33, <1>34 DEF Next, AllDone, Lifecycle, Stop, Command, Dequeue,
     Answered, Bounded

\* Every step keeps a command's message from being accepted by two attempts.
LEMMA AttemptStep ==
    ASSUME TypeOK, SendInv, [Next]_vars
    PROVE  \A d \in Clients : AttemptInv(d)'
<1>1. CASE Probe
  BY <1>1 DEF Probe, SendInv, AttemptInv, sends
<1>2. CASE ProbeEnds
  BY <1>2 DEF ProbeEnds, SendInv, AttemptInv, sends
<1>3. ASSUME NEW p \in Syncs, SyncStarts(p)
      PROVE  \A d \in Clients : AttemptInv(d)'
  BY <1>3, ProcAssumption DEF SyncStarts, Goto, SendInv, AttemptInv, sends
<1>4. ASSUME NEW p \in Syncs, SyncConnects(p)
      PROVE  \A d \in Clients : AttemptInv(d)'
  BY <1>4, ProcAssumption DEF SyncConnects, Goto, SendInv, AttemptInv, sends
<1>5. ASSUME NEW p \in Syncs, SetupFails(p)
      PROVE  \A d \in Clients : AttemptInv(d)'
  BY <1>5, ProcAssumption DEF SetupFails, Goto, SendInv, AttemptInv, sends
<1>6. ASSUME NEW p \in Syncs, StartSendDelegateServer(p)
      PROVE  \A d \in Clients : AttemptInv(d)'
  BY <1>6, ProcAssumption
  DEF StartSendDelegateServer, Goto, SendInv, AttemptInv, sends
<1>7. ASSUME NEW p \in Syncs, SyncReturns(p)
      PROVE  \A d \in Clients : AttemptInv(d)'
  BY <1>7, ProcAssumption DEF SyncReturns, Goto, SendInv, AttemptInv, sends
<1>8. ASSUME NEW p \in Syncs, CloseListener(p)
      PROVE  \A d \in Clients : AttemptInv(d)'
  BY <1>8, ProcAssumption DEF CloseListener, Goto, SendInv, AttemptInv, sends
<1>9. ASSUME NEW p \in Syncs, RemoveSocket(p)
      PROVE  \A d \in Clients : AttemptInv(d)'
  BY <1>9, ProcAssumption DEF RemoveSocket, Goto, SendInv, AttemptInv, sends
<1>10. ASSUME NEW p \in Syncs, SyncReconnects(p)
      PROVE  \A d \in Clients : AttemptInv(d)'
  BY <1>10 DEF SyncReconnects, SendInv, AttemptInv, sends
<1>11. ASSUME NEW p \in Procs, CloseApp(p)
      PROVE  \A d \in Clients : AttemptInv(d)'
  BY <1>11 DEF CloseApp, Goto, SendInv, AttemptInv, sends, Unsent
<1>12. ASSUME NEW p \in Procs, Release(p)
      PROVE  \A d \in Clients : AttemptInv(d)'
  BY <1>12 DEF Release, Goto, SendInv, AttemptInv, sends, Unsent
<1>13. ASSUME NEW p \in Procs, Exit(p)
      PROVE  \A d \in Clients : AttemptInv(d)'
  BY <1>13 DEF Exit, Goto, EndProcess, SendInv, AttemptInv, NoOps, Unsent
<1>14. ASSUME NEW p \in Procs, Crash(p)
      PROVE  \A d \in Clients : AttemptInv(d)'
  BY <1>14 DEF Crash, Goto, EndProcess, SendInv, AttemptInv, NoOps, Unsent
<1>15. ASSUME NEW p \in Procs, ConnectionDrops(p)
      PROVE  \A d \in Clients : AttemptInv(d)'
  BY <1>15 DEF ConnectionDrops, SendInv, AttemptInv, sends
<1>16. ASSUME NEW c \in Clients, AcquireForSend(c)
      PROVE  \A d \in Clients : AttemptInv(d)'
  BY <1>16 DEF AcquireForSend, Goto, SendInv, AttemptInv, sends, Unsent
<1>17. ASSUME NEW c \in Clients, LockIsHeld(c)
      PROVE  \A d \in Clients : AttemptInv(d)'
  BY <1>17 DEF LockIsHeld, Goto, SendInv, AttemptInv, sends, Unsent
<1>18. ASSUME NEW c \in Clients, ConnectAndSend(c)
      PROVE  \A d \in Clients : AttemptInv(d)'
  BY <1>18
  DEF ConnectAndSend, Goto, Begin, SendInv, HostInv, AttemptInv, NoOps, Unsent
<1>19. ASSUME NEW c \in Clients, ConnectFails(c)
      PROVE  \A d \in Clients : AttemptInv(d)'
  BY <1>19
  DEF ConnectFails, Goto, Report, Procs, TypeOK, SendInv, AttemptInv, Unsent
<1>20. ASSUME NEW c \in Clients, DelegateSend(c)
      PROVE  \A d \in Clients : AttemptInv(d)'
  BY <1>20 DEF DelegateSend, Goto, Begin, SendInv, HostInv, AttemptInv, Unsent
<1>21. ASSUME NEW c \in Clients, DelegateUnavailable(c)
      PROVE  \A d \in Clients : AttemptInv(d)'
  BY <1>21
  DEF DelegateUnavailable, Goto, Report, Procs, TypeOK, SendInv, AttemptInv,
     Unsent
<1>22. ASSUME NEW c \in Clients, ClientGivesUp(c)
      PROVE  \A d \in Clients : AttemptInv(d)'
  BY <1>22
  DEF ClientGivesUp, Goto, Report, Procs, TypeOK, SendInv, AttemptInv, Unsent
<1>23. ASSUME NEW c \in Clients, TakeSendMu(c)
      PROVE  \A d \in Clients : AttemptInv(d)'
  BY <1>23 DEF TakeSendMu, SetTask, TypeOK, SendInv, AttemptInv, NoOps
<1>24. ASSUME NEW c \in Clients, RejectRequest(c)
      PROVE  \A d \in Clients : AttemptInv(d)'
  BY <1>24
  DEF RejectRequest, Finish, Report, SetTask, Goto, Procs, TypeOK, SendInv,
     AttemptInv, Unsent
<1>25. ASSUME NEW c \in Clients, AttemptSucceeds(c)
      PROVE  \A d \in Clients : AttemptInv(d)'
  BY <1>25 DEF AttemptSucceeds, SetTask, Attempt, SendInv, AttemptInv
<1>26. ASSUME NEW c \in Clients, AttemptFails(c)
      PROVE  \A d \in Clients : AttemptInv(d)'
  BY <1>26
  DEF AttemptFails, Finish, Report, SetTask, Goto, Procs, TypeOK, SendInv,
     AttemptInv, Unsent
<1>27. ASSUME NEW c \in Clients, AttemptIsRetryable(c)
      PROVE  \A d \in Clients : AttemptInv(d)'
  <2>1. accepted[c] = 0 /\ op[c][2] = "none"
    BY <1>27 DEF AttemptIsRetryable, SendInv, AttemptInv
  <2>2. op'[c] = NoOps
    <3>1. op[c] \in [1..2 -> {"none", "running", "accepted"}]
      BY DEF TypeOK
    <3>2. op'[c] = [op[c] EXCEPT ![1] = "none"]
      BY <1>27 DEF AttemptIsRetryable, TypeOK
    <3>3. op'[c] = [n \in 1..2 |-> IF n = 1 THEN "none" ELSE op[c][n]]
      BY <3>1, <3>2
    <3>. QED  BY <2>1, <3>3 DEF NoOps
  <2>3. AttemptInv(c)'
    BY <1>27, <2>1, <2>2 DEF AttemptIsRetryable, SetTask, SendInv, AttemptInv
  <2>4. ASSUME NEW d \in Clients \ {c}
        PROVE  AttemptInv(d)'
    BY <1>27 DEF AttemptIsRetryable, SetTask, SendInv, AttemptInv
  <2>. QED  BY <2>3, <2>4
<1>28. ASSUME NEW c \in Clients, AttemptTimesOut(c)
      PROVE  \A d \in Clients : AttemptInv(d)'
  BY <1>28
  DEF AttemptTimesOut, Finish, Report, SetTask, Goto, Procs, TypeOK, SendInv,
     AttemptInv, Unsent
<1>29. ASSUME NEW c \in Clients, Reconnect(c)
      PROVE  \A d \in Clients : AttemptInv(d)'
  BY <1>29 DEF Reconnect, SetTask, TypeOK, SendInv, AttemptInv, NoOps
<1>30. ASSUME NEW c \in Clients, ReconnectFails(c)
      PROVE  \A d \in Clients : AttemptInv(d)'
  BY <1>30
  DEF ReconnectFails, Finish, Report, SetTask, Goto, Procs, TypeOK, SendInv,
     AttemptInv, Unsent
<1>31. ASSUME NEW c \in Clients, PersistOutbound(c)
      PROVE  \A d \in Clients : AttemptInv(d)'
  BY <1>31 DEF PersistOutbound, SetTask, SendInv, AttemptInv
<1>32. ASSUME NEW c \in Clients, ReportSent(c)
      PROVE  \A d \in Clients : AttemptInv(d)'
  BY <1>32
  DEF ReportSent, Finish, Report, SetTask, Goto, Procs, TypeOK, SendInv,
     AttemptInv, Unsent
<1>33. ASSUME NEW c \in Clients, NEW n \in 1..2, Accept(c, n)
      PROVE  \A d \in Clients : AttemptInv(d)'
  BY <1>33
  DEF Accept, Procs, TypeOK, SendInv, HostInv, AttemptInv, NoOps, Unsent
<1>34. CASE UNCHANGED vars
  BY <1>34 DEF vars, SendInv, AttemptInv
<1>. QED
  BY <1>1, <1>2, <1>3, <1>4, <1>5, <1>6, <1>7, <1>8, <1>9, <1>10, <1>11,
     <1>12, <1>13, <1>14, <1>15, <1>16, <1>17, <1>18, <1>19, <1>20, <1>21,
     <1>22, <1>23, <1>24, <1>25, <1>26, <1>27, <1>28, <1>29, <1>30, <1>31,
     <1>32, <1>33, <1>34 DEF Next, AllDone, Lifecycle, Stop, Command, Dequeue,
     Answered, Bounded

\* No process runs, and nothing has been sent.
LEMMA InitInv == Init => IInv
<1>. SUFFICES ASSUME Init PROVE IInv
  OBVIOUS
<1>1. TypeOK
  BY DEF Init, TypeOK, SyncStages, ClientStages, Tasks, NoOps
<1>2. LockInv
  BY DEF Init, LockInv, Stages, SyncStages, ClientStages, Inside
<1>3. ServerInv
  BY DEF Init, ServerInv, Procs
<1>4. SendInv
  BY ProcAssumption DEF Init, SendInv, HostInv, AttemptInv, Procs, NoOps
<1>. QED  BY <1>1, <1>2, <1>3, <1>4 DEF IInv

\* The invariant is inductive.
LEMMA StepInv == IInv /\ [Next]_vars => IInv'
BY LockStep, ServerStep, TypeStep, HostStep, AttemptStep DEF IInv, SendInv

\* The invariant, for every number of syncs and commands.
LEMMA Invariance == Spec => []IInv
BY InitInv, StepInv, PTL DEF Spec

\* Type correctness: in particular WhatsApp accepts no message twice.
THEOREM TypeCorrect == Spec => []TypeOK
BY Invariance, PTL DEF IInv

\* A process that is online to WhatsApp is the one that holds the store lock,
\* through probes, crashes, retries of lock acquisition and reconnects
\* (lock.Acquire, App.Close).
THEOREM OnlineHoldsLock == Spec => []OnlyLockHolderIsOnline
<1>1. IInv => OnlyLockHolderIsOnline
  BY DEF IInv, LockInv, OnlyLockHolderIsOnline
<1>. QED  BY <1>1, Invariance, PTL

\* The path of a serving sync's socket leads to that sync, whatever stale
\* files earlier syncs left and whoever removed them
\* (startSendDelegateServer).
THEOREM ServingIsReachable == Spec => []ServerIsReachable
<1>1. IInv => ServerIsReachable
  BY DEF IInv, LockInv, ServerInv, ServerIsReachable, Inside, Procs
<1>. QED  BY <1>1, Invariance, PTL

\* Each step accepts a message for the first time, makes the one report that
\* SendOutcome allows, or leaves both alone.
LEMMA OutcomeStep ==
    ASSUME TypeOK, SendInv, [Next]_vars
    PROVE  [Outcome!Next]_<<accepted, outcome>>
<1>1. CASE Probe
  BY <1>1 DEF Probe, sends
<1>2. CASE ProbeEnds
  BY <1>2 DEF ProbeEnds, sends
<1>3. ASSUME NEW p \in Syncs, SyncStarts(p)
      PROVE  [Outcome!Next]_<<accepted, outcome>>
  BY <1>3 DEF SyncStarts, sends
<1>4. ASSUME NEW p \in Syncs, SyncConnects(p)
      PROVE  [Outcome!Next]_<<accepted, outcome>>
  BY <1>4 DEF SyncConnects, sends
<1>5. ASSUME NEW p \in Syncs, SetupFails(p)
      PROVE  [Outcome!Next]_<<accepted, outcome>>
  BY <1>5 DEF SetupFails, sends
<1>6. ASSUME NEW p \in Syncs, StartSendDelegateServer(p)
      PROVE  [Outcome!Next]_<<accepted, outcome>>
  BY <1>6 DEF StartSendDelegateServer, sends
<1>7. ASSUME NEW p \in Syncs, SyncReturns(p)
      PROVE  [Outcome!Next]_<<accepted, outcome>>
  BY <1>7 DEF SyncReturns, sends
<1>8. ASSUME NEW p \in Syncs, CloseListener(p)
      PROVE  [Outcome!Next]_<<accepted, outcome>>
  BY <1>8 DEF CloseListener, sends
<1>9. ASSUME NEW p \in Syncs, RemoveSocket(p)
      PROVE  [Outcome!Next]_<<accepted, outcome>>
  BY <1>9 DEF RemoveSocket, sends
<1>10. ASSUME NEW p \in Syncs, SyncReconnects(p)
      PROVE  [Outcome!Next]_<<accepted, outcome>>
  BY <1>10 DEF SyncReconnects, sends
<1>11. ASSUME NEW p \in Procs, CloseApp(p)
      PROVE  [Outcome!Next]_<<accepted, outcome>>
  BY <1>11 DEF CloseApp, sends
<1>12. ASSUME NEW p \in Procs, Release(p)
      PROVE  [Outcome!Next]_<<accepted, outcome>>
  BY <1>12 DEF Release, sends
<1>13. ASSUME NEW p \in Procs, Exit(p)
      PROVE  [Outcome!Next]_<<accepted, outcome>>
  BY <1>13 DEF Exit, EndProcess
<1>14. ASSUME NEW p \in Procs, Crash(p)
      PROVE  [Outcome!Next]_<<accepted, outcome>>
  BY <1>14 DEF Crash, EndProcess
<1>15. ASSUME NEW p \in Procs, ConnectionDrops(p)
      PROVE  [Outcome!Next]_<<accepted, outcome>>
  BY <1>15 DEF ConnectionDrops, sends
<1>16. ASSUME NEW c \in Clients, AcquireForSend(c)
      PROVE  [Outcome!Next]_<<accepted, outcome>>
  BY <1>16 DEF AcquireForSend, sends
<1>17. ASSUME NEW c \in Clients, LockIsHeld(c)
      PROVE  [Outcome!Next]_<<accepted, outcome>>
  BY <1>17 DEF LockIsHeld, sends
<1>18. ASSUME NEW c \in Clients, ConnectAndSend(c)
      PROVE  [Outcome!Next]_<<accepted, outcome>>
  BY <1>18 DEF ConnectAndSend, Begin
<1>19. ASSUME NEW c \in Clients, ConnectFails(c)
      PROVE  [Outcome!Next]_<<accepted, outcome>>
  BY <1>19
  DEF ConnectFails, Report, SendInv, AttemptInv, Unsent, Outcome!Next,
     Outcome!ReportError
<1>20. ASSUME NEW c \in Clients, DelegateSend(c)
      PROVE  [Outcome!Next]_<<accepted, outcome>>
  BY <1>20 DEF DelegateSend, Begin
<1>21. ASSUME NEW c \in Clients, DelegateUnavailable(c)
      PROVE  [Outcome!Next]_<<accepted, outcome>>
  BY <1>21
  DEF DelegateUnavailable, Report, SendInv, AttemptInv, Unsent, Outcome!Next,
     Outcome!ReportError
<1>22. ASSUME NEW c \in Clients, ClientGivesUp(c)
      PROVE  [Outcome!Next]_<<accepted, outcome>>
  BY <1>22
  DEF ClientGivesUp, Report, SendInv, AttemptInv, Outcome!Next,
     Outcome!ReportError
<1>23. ASSUME NEW c \in Clients, TakeSendMu(c)
      PROVE  [Outcome!Next]_<<accepted, outcome>>
  BY <1>23 DEF TakeSendMu
<1>24. ASSUME NEW c \in Clients, RejectRequest(c)
      PROVE  [Outcome!Next]_<<accepted, outcome>>
  BY <1>24
  DEF RejectRequest, Finish, Report, SendInv, HostInv, AttemptInv,
     Outcome!Next, Outcome!ReportError
<1>25. ASSUME NEW c \in Clients, AttemptSucceeds(c)
      PROVE  [Outcome!Next]_<<accepted, outcome>>
  BY <1>25 DEF AttemptSucceeds
<1>26. ASSUME NEW c \in Clients, AttemptFails(c)
      PROVE  [Outcome!Next]_<<accepted, outcome>>
  BY <1>26
  DEF AttemptFails, Finish, Report, Sending, SendInv, HostInv, AttemptInv,
     Outcome!Next, Outcome!ReportError
<1>27. ASSUME NEW c \in Clients, AttemptIsRetryable(c)
      PROVE  [Outcome!Next]_<<accepted, outcome>>
  BY <1>27 DEF AttemptIsRetryable
<1>28. ASSUME NEW c \in Clients, AttemptTimesOut(c)
      PROVE  [Outcome!Next]_<<accepted, outcome>>
  BY <1>28
  DEF AttemptTimesOut, Finish, Report, Sending, SendInv, HostInv, AttemptInv,
     Outcome!Next, Outcome!ReportError
<1>29. ASSUME NEW c \in Clients, Reconnect(c)
      PROVE  [Outcome!Next]_<<accepted, outcome>>
  BY <1>29 DEF Reconnect
<1>30. ASSUME NEW c \in Clients, ReconnectFails(c)
      PROVE  [Outcome!Next]_<<accepted, outcome>>
  BY <1>30
  DEF ReconnectFails, Finish, Report, SendInv, HostInv, AttemptInv,
     Outcome!Next, Outcome!ReportError
<1>31. ASSUME NEW c \in Clients, PersistOutbound(c)
      PROVE  [Outcome!Next]_<<accepted, outcome>>
  BY <1>31 DEF PersistOutbound
<1>32. ASSUME NEW c \in Clients, ReportSent(c)
      PROVE  [Outcome!Next]_<<accepted, outcome>>
  BY <1>32
  DEF ReportSent, Finish, Report, SendInv, HostInv, AttemptInv, Outcome!Next,
     Outcome!ReportSent
<1>33. ASSUME NEW c \in Clients, NEW n \in 1..2, Accept(c, n)
      PROVE  [Outcome!Next]_<<accepted, outcome>>
  <2>1. accepted[c] = 0
    BY <1>33 DEF Accept, SendInv, AttemptInv
  <2>2. accepted' = [accepted EXCEPT ![c] = 1]
    BY <1>33, <2>1 DEF Accept
  <2>3. Outcome!Accept(c)
    BY <1>33, <2>1, <2>2 DEF Accept, Outcome!Accept
  <2>. QED  BY <2>3 DEF Outcome!Next
<1>34. CASE UNCHANGED vars
  BY <1>34 DEF vars
<1>. QED
  BY <1>1, <1>2, <1>3, <1>4, <1>5, <1>6, <1>7, <1>8, <1>9, <1>10, <1>11,
     <1>12, <1>13, <1>14, <1>15, <1>16, <1>17, <1>18, <1>19, <1>20, <1>21,
     <1>22, <1>23, <1>24, <1>25, <1>26, <1>27, <1>28, <1>29, <1>30, <1>31,
     <1>32, <1>33, <1>34 DEF Next, AllDone, Lifecycle, Stop, Command, Dequeue,
     Answered, Bounded

\* A send, delegated or direct, implements SendOutcome: at most once accepted,
\* and reported as sent only if it was (runSendOperation, delegateSend).
THEOREM Refinement == Spec => ImplementsSendOutcome
<1>1. Init => Outcome!Init
  BY DEF Init, Outcome!Init
<1>2. IInv /\ [Next]_vars => [Outcome!Next]_<<accepted, outcome>>
  BY OutcomeStep DEF IInv
<1>. QED
  BY <1>1, <1>2, Invariance, PTL DEF Spec, ImplementsSendOutcome, Outcome!Spec
=============================================================================
