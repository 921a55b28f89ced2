---------------------------- MODULE TablesProofs ----------------------------
(***************************************************************************)
(* Proofs about the tables beside `messages`: chat state, what is stored   *)
(* under a hidden id, groups and contacts, call events.                    *)
(***************************************************************************)
EXTENDS MessageRowProofs, MCTables, FiniteSetTheorems

-----------------------------------------------------------------------------
(* ChatState.                                                              *)

ChatRow == [archived : BOOLEAN, pinned : BOOLEAN, muted : Mutes,
            unread : BOOLEAN, count : Nat]
Account == [archived : BOOLEAN, pinned : BOOLEAN, muted : Mutes,
            marked : BOOLEAN, unread : SUBSET Messages,
            seen : SUBSET Messages]

\* The message being handled is the first of the queue; it has not counted
\* when it is about to; what is not stored has not counted.  A command has the
\* lock.
Handling ==
    /\ handler.at # "idle" =>
         mode = "sync" /\ inbox # <<>> /\ Head(inbox).kind = "message"
    /\ handler.at # "idle" /\ handler.fresh => counted[Head(inbox).id] = 0
    /\ handler.at = "count" => handler.fresh /\ Head(inbox).id \in stored
    /\ \A m \in Messages \ stored : counted[m] = 0
    /\ cli.at # "idle" => mode = "cli"

ChatInv == TypeOK /\ Handling

\* The statements write rows.
LEMMA Statements ==
    ASSUME NEW c \in ChatRow
    PROVE  /\ \A b \in BOOLEAN : /\ SetChatArchived(c, b) \in ChatRow
                                 /\ SetChatPinned(c, b) \in ChatRow
                                 /\ SetChatUnread(c, b) \in ChatRow
           /\ \A u \in Mutes : SetChatMutedUntil(c, u) \in ChatRow
           /\ \A n \in Nat : SetChatUnreadCount(c, n) \in ChatRow
           /\ IncrementChatUnread(c) \in ChatRow
<1>1. ASSUME NEW b \in BOOLEAN
      PROVE  /\ SetChatArchived(c, b) \in ChatRow
             /\ SetChatPinned(c, b) \in ChatRow
             /\ SetChatUnread(c, b) \in ChatRow
  <2>1. SetChatArchived(c, b) \in ChatRow
    <3>1. (c.pinned /\ ~b) \in BOOLEAN
        OBVIOUS
    <3>. QED  BY <3>1 DEF ChatRow, SetChatArchived
  <2>2. SetChatPinned(c, b) \in ChatRow
    BY DEF ChatRow, SetChatPinned
  <2>3. SetChatUnread(c, b) \in ChatRow
    <3>1. (IF b THEN c.count ELSE 0) \in Nat
        BY DEF ChatRow
    <3>. QED  BY <3>1 DEF ChatRow, SetChatUnread
  <2>. QED  BY <2>1, <2>2, <2>3
<1>2. ASSUME NEW u \in Mutes
      PROVE  SetChatMutedUntil(c, u) \in ChatRow
    BY DEF ChatRow, SetChatMutedUntil
<1>3. ASSUME NEW n \in Nat
      PROVE  SetChatUnreadCount(c, n) \in ChatRow
  <2>1. (n > 0) \in BOOLEAN
    OBVIOUS
  <2>. QED  BY <2>1 DEF ChatRow, SetChatUnreadCount
<1>4. IncrementChatUnread(c) \in ChatRow
  <2>1. c.count + 1 \in Nat
    BY DEF ChatRow
  <2>. QED  BY <2>1 DEF ChatRow, IncrementChatUnread
<1>. QED  BY <1>1, <1>2, <1>3, <1>4

\* A change of either kind.
LEMMA ChangeCases ==
    ASSUME NEW p \in Changes
    PROVE  \/ p.kind \in {"archive", "pin", "read"} /\ p.value \in BOOLEAN
           \/ p.kind = "mute" /\ p.value \in Mutes
  BY DEF Changes

\* A change of the chat's state writes a row.
LEMMA ChangedTyped ==
    ASSUME NEW c \in ChatRow, NEW p \in Changes
    PROVE  Changed(c, p) \in ChatRow
<1>1. CASE p.kind = "archive"
    BY <1>1, ChangeCases, Statements DEF Changed
<1>2. CASE p.kind = "pin"
    BY <1>2, ChangeCases, Statements DEF Changed
<1>3. CASE p.kind = "mute"
    BY <1>3, ChangeCases, Statements DEF Changed
<1>4. CASE p.kind = "read"
  <2>1. (~p.value) \in BOOLEAN /\ Changed(c, p) = SetChatUnread(c, ~p.value)
    BY <1>4, ChangeCases DEF Changed
  <2>. QED  BY <2>1, Statements
<1>. QED  BY <1>1, <1>2, <1>3, <1>4, ChangeCases

\* A change leaves the phone well typed.
LEMMA PhoneTyped ==
    ASSUME phone \in Account, NEW p \in Changes
    PROVE  OnPhone(p) \in Account
<1>1. CASE p.kind = "archive"
  <2>1. (phone.pinned /\ ~p.value) \in BOOLEAN /\ p.value \in BOOLEAN
    BY <1>1, ChangeCases
  <2>2. OnPhone(p) = [phone EXCEPT !.archived = p.value,
                                   !.pinned = phone.pinned /\ ~p.value]
    BY <1>1 DEF OnPhone, Account
  <2>. QED  BY <2>1, <2>2 DEF Account
<1>2. CASE p.kind = "pin"
    BY <1>2, ChangeCases DEF OnPhone, Account
<1>3. CASE p.kind = "mute"
    BY <1>3, ChangeCases DEF OnPhone, Account
<1>4. CASE p.kind = "read"
  <2>1. (~p.value) \in BOOLEAN
    BY <1>4, ChangeCases
  <2>2. OnPhone(p) =
           [phone EXCEPT !.marked = ~p.value,
                         !.unread = IF p.value THEN {} ELSE phone.unread]
    BY <1>4 DEF OnPhone, Account
  <2>. QED  BY <2>1, <2>2 DEF Account
<1>. QED  BY <1>1, <1>2, <1>3, <1>4, ChangeCases

\* The events of the node queue, by kind.
LEMMA EventCases ==
    ASSUME NEW e \in NodeEvents
    PROVE  /\ e.kind = "message" => e.id \in Messages
           /\ e.kind = "history" =>
                /\ e.msgs \in SUBSET Messages /\ e.told \in BOOLEAN
                /\ e.marked \in BOOLEAN /\ e.count \in Nat
  BY DEF NodeEvents

\* A history conversation writes a row.
LEMMA HistoryTyped ==
    ASSUME NEW c \in ChatRow, NEW e \in NodeEvents, e.kind = "history"
    PROVE  WithHistory(c, e) \in ChatRow
  BY Statements, EventCases DEF WithHistory

\* What waits in a queue keeps its place when something is appended.
LEMMA AppendKeeps ==
    ASSUME NEW S, NEW s \in Seq(S), NEW e \in S
    PROVE  /\ Append(s, e) \in Seq(S)
           /\ s # <<>> => Append(s, e) # <<>> /\ Head(Append(s, e)) = Head(s)
  OBVIOUS

\* What is taken from a queue was in it.
LEMMA TailTyped ==
    ASSUME NEW S, NEW s \in Seq(S), s # <<>>
    PROVE  Tail(s) \in Seq(S) /\ Head(s) \in S
  OBVIOUS

-----------------------------------------------------------------------------

\* Nothing is stored, counted or under way at first.
THEOREM ChatInitInv == Init => ChatInv
<1>. SUFFICES ASSUME Init
              PROVE  ChatInv
    OBVIOUS
<1>. USE ChatStateAssumption
<1>1. chat \in ChatRow
    BY DEF Init, Fresh, ChatRow, Mutes
<1>2. phone \in Account
    BY DEF Init, Account, Mutes
<1>3. cli \in [at : {"idle", "open", "write", "cleanup"}, change : Changes]
    BY DEF Init, NoCommand, Changes
<1>4. handler \in [at : {"idle", "store", "count"}, fresh : BOOLEAN]
    BY DEF Init, Idle
<1>5. counted \in [Messages -> Nat] /\ Handling
    BY DEF Init, Handling, Idle, NoCommand
<1>6. /\ scene \in Scenes /\ mode \in {"none", "sync", "cli"}
      /\ stored = {} /\ page = {} /\ uncounted = {} /\ missed \in BOOLEAN
      /\ inbox = <<>> /\ patches = <<>>
    BY DEF Init
<1>7. changes \in 0 .. scene.events
    BY DEF Init
<1>. QED  BY <1>1, <1>2, <1>3, <1>4, <1>5, <1>6, <1>7
          DEF ChatInv, TypeOK, ChatRow, Account

\* What happens on the phone appends to a queue.
LEMMA PhoneKeepsInv ==
    ASSUME ChatInv, Phone, UNCHANGED scene
    PROVE  ChatInv'
<1>. USE ChatStateAssumption DEF ChatInv
<1>0. /\ phone \in Account /\ inbox \in Seq(NodeEvents)
      /\ patches \in Seq(Changes) /\ changes \in 0 .. scene.events
      /\ scene.messages \subseteq Messages /\ scene.events \in Nat
    BY DEF TypeOK, Account
<1>1. ASSUME PhoneStep, phone' \in Account, patches' \in Seq(Changes),
             \/ inbox' = inbox
             \/ \E e \in NodeEvents : inbox' = Append(inbox, e)
      PROVE  ChatInv'
  <2>1. /\ inbox' \in Seq(NodeEvents)
        /\ inbox # <<>> => inbox' # <<>> /\ Head(inbox') = Head(inbox)
    <3>0. inbox \in Seq(NodeEvents)
        BY <1>0
    <3>1. CASE inbox' = inbox
        BY <3>0, <3>1
    <3>2. ASSUME NEW e \in NodeEvents, inbox' = Append(inbox, e)
          PROVE  /\ inbox' \in Seq(NodeEvents)
                 /\ inbox # <<>> =>
                      inbox' # <<>> /\ Head(inbox') = Head(inbox)
        BY <3>0, <3>2, AppendKeeps
    <3>. QED  BY <1>1, <3>1, <3>2
  <2>2. changes' \in 0 .. scene'.events
    BY <1>0, <1>1 DEF PhoneStep
  <2>3. TypeOK'
    BY <1>1, <2>1, <2>2 DEF PhoneStep, TypeOK, Account, rows
  <2>4. Handling'
    BY <1>1, <2>1 DEF PhoneStep, Handling, rows
  <2>. QED  BY <2>3, <2>4
<1>2. ASSUME NEW m \in scene.messages, Receive(m)
      PROVE  ChatInv'
  <2>1. phone' \in Account
    BY <1>0, <1>2 DEF Receive, Account
  <2>2. [kind |-> "message", id |-> m] \in NodeEvents
    BY <1>0, <1>2 DEF NodeEvents
  <2>. QED  BY <1>0, <1>1, <1>2, <2>1, <2>2 DEF Receive
<1>3. CASE ReadElsewhere
  <2>1. [kind |-> "read", value |-> TRUE] \in Changes
    BY DEF Changes
  <2>2. [kind |-> "read"] \in NodeEvents
    BY DEF NodeEvents
  <2>. QED  BY <1>0, <1>1, <1>3, <2>1, <2>2, PhoneTyped DEF ReadElsewhere
<1>4. ASSUME NEW p \in Changes, ChangeOnPhone(p)
      PROVE  ChatInv'
    BY <1>0, <1>1, <1>4, PhoneTyped, AppendKeeps DEF ChangeOnPhone
<1>5. ASSUME NEW msgs \in SUBSET phone.seen, NEW told \in BOOLEAN,
             ShareHistory(msgs, told)
      PROVE  ChatInv'
  <2>1. Cardinality(phone.unread) \in Nat
    BY <1>0, FS_Subset, FS_CardinalityType DEF Account
  <2>2. [kind |-> "history", msgs |-> msgs, told |-> told,
         marked |-> phone.marked, count |-> Cardinality(phone.unread)]
           \in NodeEvents
    BY <1>0, <2>1 DEF NodeEvents, Account
  <2>. QED  BY <1>0, <1>1, <1>5, <2>2 DEF ShareHistory
<1>. QED  BY <1>2, <1>3, <1>4, <1>5 DEF Phone, Possible

\* Acknowledging leaves a queue.
LEMMA AcknowledgeTyped ==
    ASSUME inbox \in Seq(NodeEvents), inbox # <<>>, Acknowledge
    PROVE  inbox' \in Seq(NodeEvents)
  BY TailTyped DEF Acknowledge

\* The event handler and the app-state dispatcher.
LEMMA SyncKeepsInv ==
    ASSUME ChatInv, Sync, UNCHANGED scene
    PROVE  ChatInv'
<1>. USE ChatStateAssumption DEF ChatInv
<1>0. /\ chat \in ChatRow
      /\ inbox \in Seq(NodeEvents) /\ patches \in Seq(Changes)
      /\ handler \in [at : {"idle", "store", "count"}, fresh : BOOLEAN]
      /\ counted \in [Messages -> Nat] /\ stored \subseteq Messages
    BY DEF TypeOK, ChatRow
<1>1. handler.at # "idle" =>
         inbox # <<>> /\ Head(inbox).id \in Messages
    BY <1>0, TailTyped, EventCases DEF Handling
<1>2. CASE SyncStarts
    BY <1>2, <1>0 DEF SyncStarts, TypeOK, Handling, rows, world
<1>3. CASE CheckMessage
  <2>1. PICK fresh \in {FALSE, ShouldIncrementLiveUnread(Head(inbox).id)} :
             handler' = [at |-> "store", fresh |-> fresh]
    BY <1>3 DEF CheckMessage
  <2>2. /\ fresh \in BOOLEAN /\ Head(inbox).id \in Messages
        /\ fresh => Head(inbox).id \notin stored
    BY <1>0, <1>3, <2>1, TailTyped, EventCases
    DEF CheckMessage, Awaits, ShouldIncrementLiveUnread
  <2>3. TypeOK'
    BY <1>3, <2>1, <2>2 DEF CheckMessage, HandlerStep, TypeOK, rows
  <2>4. Handling'
    BY <1>3, <2>1, <2>2
    DEF CheckMessage, Awaits, HandlerStep, Handling, rows
  <2>. QED  BY <2>3, <2>4
<1>4. CASE StoreFails
  <2>1. inbox' \in Seq(NodeEvents)
    BY <1>0, <1>1, <1>4, TailTyped DEF StoreFails
  <2>2. handler' = Idle /\ Idle.at = "idle"
    BY <1>4 DEF StoreFails, Idle
  <2>3. handler' \in [at : {"idle", "store", "count"}, fresh : BOOLEAN]
    BY <2>2 DEF Idle
  <2>4. TypeOK'
    BY <1>4, <2>1, <2>3 DEF StoreFails, HandlerStep, TypeOK, rows
  <2>5. Handling'
    BY <1>4, <2>2 DEF StoreFails, HandlerStep, Handling, rows
  <2>. QED  BY <2>4, <2>5
<1>5. CASE StoreMessage
  <2>1. Head(inbox).id \in Messages /\ inbox # <<>>
    BY <1>1, <1>5 DEF StoreMessage
  <2>2. CASE handler.fresh
    <3>1. handler' = [handler EXCEPT !.at = "count"] /\ inbox' = inbox
        BY <1>5, <2>2 DEF StoreMessage
    <3>2. /\ handler' \in [at : {"idle", "store", "count"}, fresh : BOOLEAN]
          /\ inbox' \in Seq(NodeEvents)
        BY <1>0, <3>1
    <3>3. stored' \subseteq Messages
        BY <1>0, <1>5, <2>1 DEF StoreMessage
    <3>4. UNCHANGED <<chat, counted, uncounted>>
        BY <1>5, <2>2 DEF StoreMessage
    <3>5. TypeOK'
        BY <1>5, <3>2, <3>3, <3>4 DEF StoreMessage, HandlerStep, TypeOK
    <3>6. Handling'
        BY <1>0, <1>5, <2>1, <2>2, <3>1
        DEF StoreMessage, HandlerStep, Handling
    <3>. QED  BY <3>5, <3>6
  <2>3. CASE ~handler.fresh
    <3>1. handler' = Idle /\ inbox' \in Seq(NodeEvents)
        BY <1>0, <1>5, <2>1, <2>3, AcknowledgeTyped DEF StoreMessage
    <3>. QED  BY <1>5, <2>1, <2>3, <3>1
              DEF StoreMessage, HandlerStep, TypeOK, Handling, Idle
  <2>. QED  BY <2>2, <2>3
<1>6. CASE IncrementLiveUnread
  <2>1. /\ Head(inbox).id \in Messages /\ inbox # <<>>
        /\ inbox' \in Seq(NodeEvents)
    BY <1>0, <1>1, <1>6, AcknowledgeTyped DEF IncrementLiveUnread
  <2>2. chat' \in ChatRow
    BY <1>0, <1>6, Statements DEF IncrementLiveUnread
  <2>3. counted' \in [Messages -> Nat]
    BY <1>0, <1>6, <2>1 DEF IncrementLiveUnread
  <2>4. TypeOK'
    BY <1>6, <2>1, <2>2, <2>3
    DEF IncrementLiveUnread, HandlerStep, TypeOK, ChatRow, Idle
  <2>5. Handling'
    BY <1>0, <1>6, <2>1 DEF IncrementLiveUnread, HandlerStep, Handling, Idle
  <2>. QED  BY <2>4, <2>5
<1>7. CASE IncrementFails
  <2>1. /\ Head(inbox).id \in Messages /\ inbox # <<>>
        /\ inbox' \in Seq(NodeEvents)
    BY <1>0, <1>1, <1>7, AcknowledgeTyped DEF IncrementFails
  <2>. QED  BY <1>7, <2>1
            DEF IncrementFails, HandlerStep, TypeOK, Handling, Idle
<1>8. CASE HandleReceipt
  <2>1. inbox' \in Seq(NodeEvents) /\ handler.at = "idle"
    BY <1>0, <1>8, AcknowledgeTyped DEF HandleReceipt, Awaits
  <2>2. chat' \in ChatRow
    BY <1>0, <1>8, Statements DEF HandleReceipt
  <2>. QED  BY <1>8, <2>1, <2>2
            DEF HandleReceipt, HandlerStep, TypeOK, Handling, ChatRow
<1>9. CASE StartPage
  <2>1. /\ inbox' \in Seq(NodeEvents) /\ handler.at = "idle"
        /\ Head(inbox) \in NodeEvents /\ Head(inbox).kind = "history"
    BY <1>0, <1>9, TailTyped DEF StartPage, Awaits
  <2>2. chat' \in ChatRow /\ page' \subseteq Messages
    BY <1>0, <1>9, <2>1, HistoryTyped, EventCases DEF StartPage
  <2>. QED  BY <1>9, <2>1, <2>2 DEF StartPage, TypeOK, Handling, ChatRow
<1>10. ASSUME NEW m \in page, StoreFromPage(m)
       PROVE  ChatInv'
  <2>1. m \in Messages /\ page' \subseteq Messages
    BY <1>10 DEF StoreFromPage, TypeOK
  <2>. QED  BY <1>10, <2>1 DEF StoreFromPage, TypeOK, Handling, world
<1>11. CASE HandleChatStateEvent
  <2>1. patches' \in Seq(Changes) /\ Head(patches) \in Changes
    BY <1>0, <1>11, TailTyped DEF HandleChatStateEvent
  <2>2. chat' \in ChatRow
    BY <1>0, <1>11, <2>1, ChangedTyped DEF HandleChatStateEvent
  <2>3. missed' \in BOOLEAN
    BY <1>11 DEF HandleChatStateEvent, TypeOK
  <2>. QED  BY <1>11, <2>1, <2>2, <2>3
            DEF HandleChatStateEvent, TypeOK, Handling, ChatRow
<1>12. CASE SyncEnds
  <2>1. patches' \in Seq(Changes) /\ missed' \in BOOLEAN
    <3>1. CASE UNCHANGED <<patches, missed>>
        BY <3>1 DEF TypeOK
    <3>2. CASE patches # <<>> /\ patches' = Tail(patches) /\ missed' = TRUE
        BY <1>0, <3>2, TailTyped
    <3>. QED  BY <1>12, <3>1, <3>2, Zenon DEF SyncEnds
  <2>2. uncounted' \subseteq Messages
    BY <1>1, <1>12 DEF SyncEnds, TypeOK
  <2>. QED  BY <1>12, <2>1, <2>2 DEF SyncEnds, TypeOK, Handling, Idle
<1>. QED  BY <1>2, <1>3, <1>4, <1>5, <1>6, <1>7, <1>8, <1>9, <1>10, <1>11,
             <1>12 DEF Sync

\* Commands run while no handler does.
LEMMA CommandKeepsInv ==
    ASSUME ChatInv, Command, UNCHANGED scene
    PROVE  ChatInv'
<1>. USE ChatStateAssumption DEF ChatInv
<1>. DEFINE Cli == [at : {"idle", "open", "write", "cleanup"},
                    change : Changes]
<1>0. /\ chat \in ChatRow /\ phone \in Account /\ cli \in Cli
      /\ inbox \in Seq(NodeEvents) /\ patches \in Seq(Changes)
      /\ NoCommand \in Cli /\ missed \in BOOLEAN
    BY DEF TypeOK, ChatRow, Account, NoCommand, Changes
<1>1. CASE CommandStarts
  <2>1. cli' \in Cli
    BY <1>0, <1>1 DEF CommandStarts
  <2>. QED  BY <1>1, <2>1
            DEF CommandStarts, CommandStep, TypeOK, Handling, rows
<1>2. CASE DeliveredToCommand
  <2>1. /\ inbox' \in Seq(NodeEvents) /\ patches' \in Seq(Changes)
        /\ missed' \in BOOLEAN
    <3>1. CASE inbox # <<>> /\ inbox' = Tail(inbox)
               /\ UNCHANGED <<patches, missed>>
        BY <1>0, <3>1, TailTyped
    <3>2. CASE patches # <<>> /\ patches' = Tail(patches)
               /\ missed' = TRUE /\ UNCHANGED inbox
        BY <1>0, <3>2, TailTyped
    <3>. QED  BY <1>2, <3>1, <3>2, Zenon DEF DeliveredToCommand
  <2>2. handler.at = "idle"
    BY <1>2 DEF DeliveredToCommand, Handling
  <2>. QED  BY <1>2, <2>1, <2>2
            DEF DeliveredToCommand, CommandStep, TypeOK, Handling, rows
<1>3. ASSUME NEW p \in Changes, PatchPhone(p)
      PROVE  ChatInv'
  <2>1. phone' \in Account /\ cli' \in Cli
    BY <1>0, <1>3, PhoneTyped DEF PatchPhone
  <2>. QED  BY <1>3, <2>1
            DEF PatchPhone, CommandStep, TypeOK, Handling, rows, Account
<1>4. CASE WriteChange
  <2>1. chat' \in ChatRow /\ cli' \in Cli
    BY <1>0, <1>4, ChangedTyped DEF WriteChange
  <2>2. handler.at = "idle"
    BY <1>4 DEF WriteChange, Handling
  <2>. QED  BY <1>4, <2>1, <2>2
            DEF WriteChange, CommandStep, TypeOK, Handling, ChatRow, NoCommand
<1>5. CASE ListChatsOlderThan
  <2>1. cli' \in Cli
    BY <1>0, <1>5 DEF ListChatsOlderThan
  <2>. QED  BY <1>5, <2>1
            DEF ListChatsOlderThan, CommandStep, TypeOK, Handling, rows
<1>6. CASE CommandEnds
  <2>1. missed' \in BOOLEAN
    BY <1>0, <1>6 DEF CommandEnds
  <2>2. cli' \in Cli
    BY <1>0, <1>6 DEF CommandEnds
  <2>. QED  BY <1>6, <2>1, <2>2
            DEF CommandEnds, CommandStep, TypeOK, Handling, rows, NoCommand
<1>7. ASSUME NEW at, Cleanup(at)
      PROVE  ChatInv'
  <2>1. chat' \in ChatRow /\ counted' \in [Messages -> Nat]
    BY <1>7 DEF Cleanup, DeleteChat, Fresh, ChatRow, Mutes
  <2>2. handler.at = "idle"
    BY <1>7 DEF Cleanup, Handling
  <2>3. cli' \in Cli /\ missed' \in BOOLEAN
    BY <1>0, <1>7 DEF Cleanup, DeleteChat
  <2>4. TypeOK'
    BY <1>7, <2>1, <2>3 DEF Cleanup, DeleteChat, CommandStep, TypeOK, ChatRow
  <2>5. Handling'
    BY <1>7, <2>2
    DEF Cleanup, DeleteChat, CommandStep, Handling, NoCommand
  <2>. QED  BY <2>4, <2>5
<1>. QED  BY <1>1, <1>2, <1>3, <1>4, <1>5, <1>6, <1>7
          DEF Command, Possible

\* Every step keeps the types and the state of the handler.
THEOREM ChatStepInv == ChatInv /\ [Next]_vars => ChatInv'
<1>1. ASSUME ChatInv, UNCHANGED vars
      PROVE  ChatInv'
    BY <1>1 DEF vars, state, ChatInv, TypeOK, Handling
<1>. QED  BY <1>1, PhoneKeepsInv, SyncKeepsInv, CommandKeepsInv DEF Next

\* Type correctness.
THEOREM ChatTyped == Spec => []TypeOK
<1>. QED  BY ChatInitInv, ChatStepInv, PTL DEF Spec, ChatInv

-----------------------------------------------------------------------------

\* A row that says unread when it counts.
Honest(c) == c.count > 0 => c.unread

\* No statement counts on a row that reads as read.
LEMMA StatementsHonest ==
    ASSUME NEW c \in ChatRow, Honest(c)
    PROVE  /\ \A b : /\ Honest(SetChatArchived(c, b))
                     /\ Honest(SetChatPinned(c, b))
                     /\ Honest(SetChatMutedUntil(c, b))
           /\ \A b \in BOOLEAN : Honest(SetChatUnread(c, b))
           /\ \A n \in Nat : Honest(SetChatUnreadCount(c, n))
           /\ Honest(IncrementChatUnread(c))
<1>1. ASSUME NEW b
      PROVE  /\ Honest(SetChatArchived(c, b)) /\ Honest(SetChatPinned(c, b))
             /\ Honest(SetChatMutedUntil(c, b))
    BY DEF Honest, ChatRow, SetChatArchived, SetChatPinned, SetChatMutedUntil
<1>2. ASSUME NEW b \in BOOLEAN
      PROVE  Honest(SetChatUnread(c, b))
  <2>1. CASE b
    BY <2>1 DEF Honest, ChatRow, SetChatUnread
  <2>2. CASE ~b
    BY <2>2 DEF Honest, ChatRow, SetChatUnread
  <2>. QED  BY <2>1, <2>2
<1>3. ASSUME NEW n \in Nat
      PROVE  Honest(SetChatUnreadCount(c, n))
    BY DEF Honest, ChatRow, SetChatUnreadCount
<1>4. Honest(IncrementChatUnread(c))
    BY DEF Honest, ChatRow, IncrementChatUnread
<1>. QED  BY <1>1, <1>2, <1>3, <1>4

\* Nor does a change of the chat's state.
LEMMA ChangedHonest ==
    ASSUME NEW c \in ChatRow, Honest(c), NEW p \in Changes
    PROVE  Honest(Changed(c, p))
<1>1. CASE p.kind = "read"
  <2>1. (~p.value) \in BOOLEAN /\ Changed(c, p) = SetChatUnread(c, ~p.value)
    BY <1>1, ChangeCases DEF Changed
  <2>. QED  BY <2>1, StatementsHonest
<1>2. CASE p.kind = "archive"
    BY <1>2, StatementsHonest DEF Changed
<1>3. CASE p.kind = "pin"
    BY <1>3, StatementsHonest DEF Changed
<1>4. CASE p.kind = "mute"
    BY <1>4, StatementsHonest DEF Changed
<1>. QED  BY <1>1, <1>2, <1>3, <1>4, ChangeCases

\* Whatever the order of receipts, marks, history, increments and cleanup, a
\* chat that counts is a chat that reads as unread.
THEOREM CountsAreUnread == Spec => []CountedIsUnread
<1>1. Init => CountedIsUnread
    BY DEF Init, CountedIsUnread, Fresh
<1>2. ASSUME ChatInv, CountedIsUnread, [Next]_vars
      PROVE  CountedIsUnread'
  <2>0. /\ chat \in ChatRow /\ Honest(chat) /\ inbox \in Seq(NodeEvents)
        /\ patches \in Seq(Changes) /\ cli.change \in Changes
    BY <1>2 DEF ChatInv, TypeOK, ChatRow, Honest, CountedIsUnread
  <2>1. Honest(chat') => CountedIsUnread'
    BY DEF Honest, CountedIsUnread
  <2>2. CASE chat' = chat
    BY <2>0, <2>1, <2>2
  <2>3. CASE IncrementLiveUnread
    BY <2>0, <2>1, <2>3, StatementsHonest DEF IncrementLiveUnread
  <2>4. CASE HandleReceipt
    BY <2>0, <2>1, <2>4, StatementsHonest DEF HandleReceipt
  <2>5. CASE StartPage
    <3>1. Head(inbox) \in NodeEvents /\ Head(inbox).kind = "history"
        BY <2>0, <2>5, TailTyped DEF StartPage, Awaits
    <3>2. Honest(WithHistory(chat, Head(inbox)))
        BY <2>0, <3>1, EventCases, StatementsHonest DEF WithHistory
    <3>. QED  BY <2>0, <2>1, <2>5, <3>2 DEF StartPage
  <2>6. CASE HandleChatStateEvent
    <3>1. Head(patches) \in Changes
        BY <2>0, <2>6, TailTyped DEF HandleChatStateEvent
    <3>. QED  BY <2>0, <2>1, <2>6, <3>1, ChangedHonest
              DEF HandleChatStateEvent
  <2>7. CASE WriteChange
    BY <2>0, <2>1, <2>7, ChangedHonest DEF WriteChange
  <2>8. ASSUME NEW at, Cleanup(at)
        PROVE  CountedIsUnread'
    BY <2>8 DEF Cleanup, DeleteChat, Fresh, CountedIsUnread
  <2>9. \/ chat' = chat \/ IncrementLiveUnread \/ HandleReceipt \/ StartPage
        \/ HandleChatStateEvent \/ WriteChange \/ \E at : Cleanup(at)
    BY <1>2 DEF Next, Phone, Sync, Command, vars, state, rows, Receive,
         ReadElsewhere, ChangeOnPhone, ShareHistory, PhoneStep, SyncStarts,
         CheckMessage, StoreFails, StoreMessage, IncrementFails,
         HandlerStep, StoreFromPage, SyncEnds, CommandStarts,
         DeliveredToCommand, PatchPhone, ListChatsOlderThan, CommandEnds
  <2>. QED  BY <2>2, <2>3, <2>4, <2>5, <2>6, <2>7, <2>8, <2>9
<1>. QED  BY <1>1, <1>2, ChatInitInv, ChatStepInv, PTL DEF Spec

-----------------------------------------------------------------------------

\* However often a message is delivered, whatever stores it meanwhile and
\* wherever the process dies: it counts once, or something kept it from it.
THEOREM MessagesCountOnce == Spec => []CountsOnce
<1>1. Init => CountsOnce
    BY DEF Init, CountsOnce
<1>2. ASSUME ChatInv, CountsOnce, [Next]_vars
      PROVE  CountsOnce'
  <2>0. /\ inbox \in Seq(NodeEvents) /\ counted \in [Messages -> Nat]
        /\ stored \subseteq Messages
    BY <1>2 DEF ChatInv, TypeOK
  <2>1. ASSUME UNCHANGED <<stored, counted, uncounted, handler>>,
               inbox # <<>> => Head(inbox') = Head(inbox)
        PROVE  CountsOnce'
    BY <1>2, <2>1 DEF CountsOnce, ChatInv, Handling
  <2>2. ASSUME UNCHANGED <<stored, counted, uncounted>>, handler.at # "count"
        PROVE  CountsOnce'
    BY <1>2, <2>2 DEF CountsOnce
  <2>3. CASE Phone
    <3>1. UNCHANGED <<stored, counted, uncounted, handler>>
        BY <2>3 DEF Phone, Receive, ReadElsewhere, ChangeOnPhone,
                    ShareHistory, PhoneStep, rows
    <3>2. \/ inbox' = inbox \/ \E e : inbox' = Append(inbox, e)
        BY <2>3 DEF Phone, Receive, ReadElsewhere, ChangeOnPhone,
                    ShareHistory
    <3>. QED  BY <2>0, <2>1, <3>1, <3>2
  <2>4. CASE CheckMessage \/ StoreFails
    BY <2>2, <2>4 DEF CheckMessage, Awaits, StoreFails, rows
  <2>5. CASE StoreMessage
    <3>1. /\ handler.at = "store" /\ stored' = stored \cup {Head(inbox).id}
          /\ UNCHANGED counted
        BY <2>5 DEF StoreMessage
    <3>2. CASE handler.fresh
      <4>1. /\ handler'.at = "count" /\ UNCHANGED <<inbox, uncounted>>
        BY <1>2, <2>5, <3>2 DEF StoreMessage, ChatInv, TypeOK
      <4>. QED  BY <1>2, <2>0, <3>1, <3>2, <4>1
                DEF CountsOnce, ChatInv, Handling
    <3>3. CASE ~handler.fresh
      <4>1. uncounted' = uncounted \cup ({Head(inbox).id} \ stored)
        BY <2>5, <3>3 DEF StoreMessage
      <4>2. \A m \in stored' \ stored : counted[m] = 0
        <5>1. stored' \subseteq Messages
            BY <1>2, ChatStepInv DEF ChatInv, TypeOK
        <5>. QED  BY <1>2, <5>1 DEF ChatInv, Handling
      <4>. QED  BY <1>2, <2>0, <3>1, <4>1, <4>2 DEF CountsOnce
    <3>. QED  BY <3>2, <3>3
  <2>6. CASE IncrementLiveUnread
    <3>1. /\ handler.at = "count" /\ counted[Head(inbox).id] = 0
          /\ counted' = [counted EXCEPT ![Head(inbox).id] =
                                          counted[Head(inbox).id] + 1]
          /\ UNCHANGED <<stored, uncounted>>
        BY <1>2, <2>6 DEF IncrementLiveUnread, ChatInv, Handling
    <3>. QED  BY <1>2, <2>0, <3>1 DEF CountsOnce
  <2>7. CASE IncrementFails
    <3>1. /\ handler.at = "count" /\ UNCHANGED <<stored, counted>>
          /\ uncounted' = uncounted \cup {Head(inbox).id}
        BY <2>7 DEF IncrementFails
    <3>. QED  BY <1>2, <3>1 DEF CountsOnce
  <2>8. CASE HandleReceipt \/ StartPage
    BY <2>2, <2>8 DEF HandleReceipt, StartPage, Awaits
  <2>9. ASSUME NEW m \in page, StoreFromPage(m)
        PROVE  CountsOnce'
    <3>1. /\ UNCHANGED <<counted, handler, inbox>>
          /\ stored \subseteq stored' /\ stored' \subseteq stored \cup {m}
          /\ uncounted \subseteq uncounted'
          /\ m \in stored' \ stored => m \in uncounted'
        BY <2>9 DEF StoreFromPage, world
    <3>2. \A n \in stored' \ stored : counted[n] = 0
      <4>1. stored' \subseteq Messages
        BY <1>2, ChatStepInv DEF ChatInv, TypeOK
      <4>. QED  BY <1>2, <4>1 DEF ChatInv, Handling
    <3>. QED  BY <1>2, <2>0, <3>1, <3>2 DEF CountsOnce
  <2>10. CASE SyncEnds
    <3>1. /\ UNCHANGED <<stored, counted>>
          /\ uncounted' = IF handler.at = "count"
                          THEN uncounted \cup {Head(inbox).id} ELSE uncounted
        BY <2>10 DEF SyncEnds
    <3>. QED  BY <1>2, <3>1 DEF CountsOnce
  <2>11. CASE DeliveredToCommand
    <3>1. handler.at # "count" /\ UNCHANGED <<stored, counted, uncounted>>
        BY <1>2, <2>11 DEF DeliveredToCommand, ChatInv, Handling, rows
    <3>. QED  BY <2>2, <3>1
  <2>12. ASSUME NEW at, Cleanup(at)
         PROVE  CountsOnce'
    BY <2>12 DEF Cleanup, DeleteChat, CountsOnce
  <2>13. CASE UNCHANGED <<stored, counted, uncounted, handler, inbox>>
    BY <2>1, <2>13
  <2>14. CASE Sync
    BY <2>4, <2>5, <2>6, <2>7, <2>8, <2>9, <2>10, <2>13, <2>14
    DEF Sync, SyncStarts, HandleChatStateEvent, rows, world
  <2>15. CASE Command
    BY <2>11, <2>12, <2>13, <2>15
    DEF Command, CommandStarts, CommandStep, PatchPhone, WriteChange,
        ListChatsOlderThan, CommandEnds, rows
  <2>16. CASE UNCHANGED vars
    BY <2>13, <2>16 DEF vars, state
  <2>. QED  BY <1>2, <2>3, <2>14, <2>15, <2>16 DEF Next
<1>. QED  BY <1>1, <1>2, ChatInitInv, ChatStepInv, PTL DEF Spec

-----------------------------------------------------------------------------

Flags == {"archived", "pinned", "muted"}

\* The value a change gives a flag, if it gives it one.
Sets(p, f) ==
    CASE f = "archived" -> IF p.kind = "archive" THEN {p.value} ELSE {}
      [] f = "muted"    -> IF p.kind = "mute" THEN {p.value} ELSE {}
      [] f = "pinned"   -> IF p.kind = "pin" THEN {p.value}
                           ELSE IF p.kind = "archive" /\ p.value THEN {FALSE}
                           ELSE {}

\* A flag is right, or the last pending change of it makes it right.
Settled(queue, flag, at, f) ==
    \/ flag = at /\ \A i \in 1 .. Len(queue) : Sets(queue[i], f) = {}
    \/ \E i \in 1 .. Len(queue) :
         /\ Sets(queue[i], f) = {at}
         /\ \A j \in (i + 1) .. Len(queue) : Sets(queue[j], f) = {}

\* The row a command is about to leave.
Due == IF cli.at = "write" THEN Changed(chat, cli.change) ELSE chat

Following ==
    ~missed => \A f \in Flags : Settled(patches, Due[f], phone[f], f)

\* A change gives a flag at most one value.
LEMMA SetsOne ==
    ASSUME NEW p \in Changes, NEW f \in Flags
    PROVE  \/ Sets(p, f) = {} \/ \E v : Sets(p, f) = {v}
<1>. QED  BY ChangeCases DEF Sets, Flags

\* ChatRow and phone take the value a change gives a flag, and keep the others.
LEMMA ChangeGives ==
    ASSUME NEW c \in ChatRow, phone \in Account, NEW p \in Changes,
           NEW f \in Flags
    PROVE  /\ Sets(p, f) = {} => /\ Changed(c, p)[f] = c[f]
                                 /\ OnPhone(p)[f] = phone[f]
           /\ \A v : Sets(p, f) = {v} => /\ Changed(c, p)[f] = v
                                         /\ OnPhone(p)[f] = v
<1>1. CASE p.kind = "archive"
  <2>1. p.value \in BOOLEAN /\ c.pinned \in BOOLEAN /\ phone.pinned \in BOOLEAN
    BY <1>1, ChangeCases DEF ChatRow, Account
  <2>2. /\ Changed(c, p) = [c EXCEPT !.archived = p.value,
                                     !.pinned = c.pinned /\ ~p.value]
        /\ OnPhone(p) = [phone EXCEPT !.archived = p.value,
                                      !.pinned = phone.pinned /\ ~p.value]
    BY <1>1 DEF Changed, OnPhone, SetChatArchived, ChatRow, Account
  <2>3. CASE f = "archived"
    <3>1. Sets(p, f) = {p.value}
        BY <1>1, <2>1, <2>3 DEF Sets
    <3>2. Changed(c, p)[f] = p.value /\ OnPhone(p)[f] = p.value
        BY <2>2, <2>3 DEF ChatRow, Account
    <3>. QED  BY <3>1, <3>2
  <2>4. CASE f = "pinned" /\ p.value
    <3>1. Sets(p, f) = {FALSE}
        BY <1>1, <2>1, <2>4 DEF Sets
    <3>2. Changed(c, p)[f] = FALSE /\ OnPhone(p)[f] = FALSE
        BY <2>1, <2>2, <2>4 DEF ChatRow, Account
    <3>. QED  BY <3>1, <3>2
  <2>5. CASE f = "pinned" /\ ~p.value
    <3>1. Sets(p, f) = {}
        BY <1>1, <2>1, <2>5 DEF Sets
    <3>2. Changed(c, p)[f] = c[f] /\ OnPhone(p)[f] = phone[f]
        BY <2>1, <2>2, <2>5 DEF ChatRow, Account
    <3>. QED  BY <3>1, <3>2
  <2>6. CASE f = "muted"
    <3>1. Sets(p, f) = {}
        BY <1>1, <2>6 DEF Sets
    <3>2. Changed(c, p)[f] = c[f] /\ OnPhone(p)[f] = phone[f]
        BY <2>2, <2>6 DEF ChatRow, Account
    <3>. QED  BY <3>1, <3>2
  <2>. QED  BY <2>3, <2>4, <2>5, <2>6 DEF Flags
<1>2. CASE p.kind = "pin"
  <2>1. /\ Changed(c, p) = [c EXCEPT !.pinned = p.value]
        /\ OnPhone(p) = [phone EXCEPT !.pinned = p.value]
    BY <1>2 DEF Changed, OnPhone, SetChatPinned
  <2>2. CASE f = "pinned"
    <3>1. Sets(p, f) = {p.value}
        BY <1>2, <2>2 DEF Sets
    <3>2. Changed(c, p)[f] = p.value /\ OnPhone(p)[f] = p.value
        BY <2>1, <2>2 DEF ChatRow, Account
    <3>. QED  BY <3>1, <3>2
  <2>3. CASE f # "pinned"
    <3>1. Sets(p, f) = {}
        BY <1>2, <2>3 DEF Sets, Flags
    <3>2. Changed(c, p)[f] = c[f] /\ OnPhone(p)[f] = phone[f]
        BY <2>1, <2>3 DEF ChatRow, Account, Flags
    <3>. QED  BY <3>1, <3>2
  <2>. QED  BY <2>2, <2>3
<1>3. CASE p.kind = "mute"
  <2>1. /\ Changed(c, p) = [c EXCEPT !.muted = p.value]
        /\ OnPhone(p) = [phone EXCEPT !.muted = p.value]
    BY <1>3 DEF Changed, OnPhone, SetChatMutedUntil
  <2>2. CASE f = "muted"
    <3>1. Sets(p, f) = {p.value}
        BY <1>3, <2>2 DEF Sets
    <3>2. Changed(c, p)[f] = p.value /\ OnPhone(p)[f] = p.value
        BY <2>1, <2>2 DEF ChatRow, Account
    <3>. QED  BY <3>1, <3>2
  <2>3. CASE f # "muted"
    <3>1. Sets(p, f) = {}
        BY <1>3, <2>3 DEF Sets, Flags
    <3>2. Changed(c, p)[f] = c[f] /\ OnPhone(p)[f] = phone[f]
        BY <2>1, <2>3 DEF ChatRow, Account, Flags
    <3>. QED  BY <3>1, <3>2
  <2>. QED  BY <2>2, <2>3
<1>4. CASE p.kind = "read"
  <2>1. Sets(p, f) = {}
    BY <1>4 DEF Sets, Flags
  <2>2. Changed(c, p)[f] = c[f] /\ OnPhone(p)[f] = phone[f]
    BY <1>4 DEF Changed, OnPhone, SetChatUnread, ChatRow, Account, Flags
  <2>. QED  BY <2>1, <2>2
<1>. QED  BY <1>1, <1>2, <1>3, <1>4, ChangeCases

\* A change that arrives at the end of the queue settles what it changes.
LEMMA SettledByLast ==
    ASSUME NEW q \in Seq(Changes), NEW p \in Changes, NEW f \in Flags,
           NEW flag, NEW old, NEW at, Settled(q, flag, old, f),
           Sets(p, f) = {} => at = old,
           \A v : Sets(p, f) = {v} => at = v
    PROVE  \A r : r = Append(q, p) => Settled(r, flag, at, f)
<1>. TAKE r
<1>. HAVE r = Append(q, p)
<1>1. /\ Len(r) = Len(q) + 1 /\ Len(q) \in Nat /\ r[Len(q) + 1] = p
      /\ \A i \in 1 .. Len(q) : r[i] = q[i]
      /\ \A i \in 1 .. Len(r) : i = Len(q) + 1 \/ i \in 1 .. Len(q)
    OBVIOUS
<1>2. CASE Sets(p, f) = {}
  <2>1. at = old
    BY <1>2
  <2>2. CASE flag = old /\ \A i \in 1 .. Len(q) : Sets(q[i], f) = {}
    <3>1. \A i \in 1 .. Len(r) : Sets(r[i], f) = {}
        BY <1>1, <1>2, <2>2
    <3>. QED  BY <2>1, <2>2, <3>1 DEF Settled
  <2>3. ASSUME NEW i \in 1 .. Len(q), Sets(q[i], f) = {old},
               \A j \in (i + 1) .. Len(q) : Sets(q[j], f) = {}
        PROVE  Settled(r, flag, at, f)
    <3>1. i \in 1 .. Len(r) /\ Sets(r[i], f) = {at}
        BY <1>1, <2>1, <2>3
    <3>2. ASSUME NEW j \in (i + 1) .. Len(r)
          PROVE  Sets(r[j], f) = {}
      <4>1. CASE j = Len(q) + 1
        BY <1>1, <1>2, <4>1
      <4>2. CASE j # Len(q) + 1
        <5>1. j \in (i + 1) .. Len(q) /\ j \in 1 .. Len(q)
            BY <1>1, <4>2
        <5>. QED  BY <1>1, <2>3, <5>1
      <4>. QED  BY <4>1, <4>2
    <3>. QED  BY <3>1, <3>2 DEF Settled
  <2>. QED  BY <2>2, <2>3 DEF Settled
<1>3. CASE Sets(p, f) = {at}
  <2>1. /\ Len(r) \in 1 .. Len(r) /\ Sets(r[Len(r)], f) = {at}
        /\ \A j \in (Len(r) + 1) .. Len(r) : Sets(r[j], f) = {}
    BY <1>1, <1>3
  <2>. QED  BY <2>1 DEF Settled
<1>. QED  BY <1>2, <1>3, SetsOne

\* The first change of the queue, once the row has taken it, is settled.
LEMMA SettledWithoutFirst ==
    ASSUME NEW q \in Seq(Changes), q # <<>>, NEW f \in Flags,
           NEW old, NEW flag, NEW at, Settled(q, old, at, f),
           Sets(Head(q), f) = {} => flag = old,
           \A v : Sets(Head(q), f) = {v} => flag = v
    PROVE  \A r : r = Tail(q) => Settled(r, flag, at, f)
<1>. TAKE r
<1>. HAVE r = Tail(q)
<1>1. /\ Len(r) = Len(q) - 1 /\ Len(q) \in Nat \ {0}
      /\ \A i \in 1 .. Len(r) : i + 1 \in 1 .. Len(q) /\ r[i] = q[i + 1]
      /\ 1 \in 1 .. Len(q) /\ Head(q) = q[1] /\ Len(r) \in Nat
    OBVIOUS
<1>2. CASE old = at /\ \A i \in 1 .. Len(q) : Sets(q[i], f) = {}
  <2>1. flag = at /\ \A i \in 1 .. Len(r) : Sets(r[i], f) = {}
    BY <1>1, <1>2
  <2>. QED  BY <2>1 DEF Settled
<1>3. ASSUME NEW i \in 1 .. Len(q), Sets(q[i], f) = {at},
             \A j \in (i + 1) .. Len(q) : Sets(q[j], f) = {}
      PROVE  Settled(r, flag, at, f)
  <2>1. CASE i = 1
    <3>1. flag = at
        BY <1>1, <1>3, <2>1
    <3>2. ASSUME NEW j \in 1 .. Len(r)
          PROVE  Sets(r[j], f) = {}
      <4>1. j + 1 \in (i + 1) .. Len(q)
        BY <1>1, <2>1
      <4>. QED  BY <1>1, <1>3, <4>1
    <3>. QED  BY <3>1, <3>2 DEF Settled
  <2>2. CASE i # 1
    <3>1. i - 1 \in 1 .. Len(r) /\ Sets(r[i - 1], f) = {at}
        BY <1>1, <1>3, <2>2
    <3>2. ASSUME NEW j \in ((i - 1) + 1) .. Len(r)
          PROVE  Sets(r[j], f) = {}
      <4>1. j + 1 \in (i + 1) .. Len(q) /\ j \in 1 .. Len(r)
        BY <1>1
      <4>. QED  BY <1>1, <1>3, <4>1
    <3>. QED  BY <3>1, <3>2 DEF Settled
  <2>. QED  BY <2>1, <2>2
<1>. QED  BY <1>2, <1>3 DEF Settled

\* What does not touch the flags: they are the same afterwards.
SameFlags(c, d) == \A f \in Flags : c[f] = d[f]

\* Counting and marking leave the flags.
LEMMA CountingKeepsFlags ==
    ASSUME NEW c \in ChatRow, NEW e \in NodeEvents
    PROVE  /\ SameFlags(IncrementChatUnread(c), c)
           /\ SameFlags(SetChatUnreadCount(c, 0), c)
           /\ e.kind = "history" => SameFlags(WithHistory(c, e), c)
<1>1. \A n : SameFlags(SetChatUnreadCount(c, n), c)
    BY DEF SameFlags, Flags, SetChatUnreadCount, ChatRow
<1>2. SameFlags(SetChatUnread(c, TRUE), c)
    BY DEF SameFlags, Flags, SetChatUnread, ChatRow
<1>3. SameFlags(IncrementChatUnread(c), c)
    BY DEF SameFlags, Flags, IncrementChatUnread, ChatRow
<1>4. SameFlags(c, c)
    BY DEF SameFlags
<1>. QED  BY <1>1, <1>2, <1>3, <1>4 DEF WithHistory

\* Nothing changed that a flag depends on.
LEMMA SameFollows ==
    ASSUME Following, UNCHANGED <<missed, patches>>, SameFlags(Due', Due),
           SameFlags(phone', phone)
    PROVE  Following'
  BY DEF Following, SameFlags

\* The phone takes a change, and the change is queued.
LEMMA ChangeOnPhoneFollows ==
    ASSUME ChatInv, Following, NEW p \in Changes, ChangeOnPhone(p)
    PROVE  Following'
<1>. SUFFICES ASSUME ~missed, NEW f \in Flags
              PROVE  Settled(patches', Due'[f], phone'[f], f)
    BY DEF Following, ChangeOnPhone, PhoneStep
<1>1. /\ chat \in ChatRow /\ phone \in Account /\ patches \in Seq(Changes)
    BY DEF ChatInv, TypeOK, ChatRow, Account
<1>2. /\ Due' = Due /\ patches' = Append(patches, p) /\ phone' = OnPhone(p)
    BY DEF ChangeOnPhone, PhoneStep, Due, rows
<1>3. Settled(patches, Due[f], phone[f], f)
    BY DEF Following
<1>4. /\ Sets(p, f) = {} => /\ Changed(chat, p)[f] = chat[f]
                           /\ OnPhone(p)[f] = phone[f]
      /\ \A v : Sets(p, f) = {v} => /\ Changed(chat, p)[f] = v
                                    /\ OnPhone(p)[f] = v
    BY <1>1, ChangeGives
<1>5. PICK flag, old, at :
        flag = Due[f] /\ old = phone[f] /\ at = OnPhone(p)[f]
    OBVIOUS
<1>6. /\ Settled(patches, flag, old, f)
      /\ Sets(p, f) = {} => at = old
      /\ \A v : Sets(p, f) = {v} => at = v
    BY <1>3, <1>4, <1>5
<1>7. \A r : r = Append(patches, p) => Settled(r, flag, at, f)
    BY <1>1, <1>6, SettledByLast, Zenon
<1>. QED  BY <1>2, <1>5, <1>7

\* The row takes the change at the head of the queue.
LEMMA PatchFollows ==
    ASSUME ChatInv, Following, HandleChatStateEvent
    PROVE  Following'
<1>. SUFFICES ASSUME ~missed', NEW f \in Flags
              PROVE  Settled(patches', Due'[f], phone'[f], f)
    BY DEF Following
<1>0. /\ chat \in ChatRow /\ phone \in Account /\ patches \in Seq(Changes)
      /\ patches # <<>>
    BY DEF ChatInv, TypeOK, ChatRow, Account, HandleChatStateEvent
<1>1. Head(patches) \in Changes
    BY <1>0, TailTyped
<1>2. /\ ~missed /\ chat' = Changed(chat, Head(patches))
      /\ patches' = Tail(patches) /\ UNCHANGED <<phone, cli>>
    BY DEF HandleChatStateEvent
<1>3. cli.at # "write"
    BY DEF HandleChatStateEvent, ChatInv, Handling
<1>4. Due = chat /\ Due' = chat'
    BY <1>2, <1>3 DEF Due
<1>5. Settled(patches, chat[f], phone[f], f)
    BY <1>2, <1>4 DEF Following
<1>6. PICK p \in Changes : p = Head(patches)
    BY <1>1
<1>7. /\ Sets(p, f) = {} => Changed(chat, p)[f] = chat[f]
      /\ \A v : Sets(p, f) = {v} => Changed(chat, p)[f] = v
  <2>1. chat \in ChatRow /\ phone \in Account
    BY <1>0
  <2>. QED  BY <2>1, ChangeGives
<1>8. Settled(Tail(patches), Changed(chat, p)[f], phone[f], f)
    BY <1>0, <1>5, <1>6, <1>7, SettledWithoutFirst
<1>. QED  BY <1>2, <1>4, <1>6, <1>8

\* A command changes the phone when nothing is pending.
LEMMA PatchPhoneFollows ==
    ASSUME ChatInv, Following, NEW p \in Changes, PatchPhone(p)
    PROVE  Following'
<1>. SUFFICES ASSUME ~missed, NEW f \in Flags
              PROVE  Settled(patches', Due'[f], phone'[f], f)
    BY DEF Following, PatchPhone
<1>1. chat \in ChatRow /\ phone \in Account
    BY DEF ChatInv, TypeOK, ChatRow, Account
<1>2. /\ patches = <<>> /\ patches' = <<>> /\ phone' = OnPhone(p)
      /\ Due = chat /\ Due' = Changed(chat, p)
    BY DEF PatchPhone, Due, rows
<1>3. Settled(<<>>, chat[f], phone[f], f)
    BY <1>2 DEF Following
<1>4. chat[f] = phone[f]
    BY <1>3 DEF Settled
<1>5. Changed(chat, p)[f] = OnPhone(p)[f]
  <2>1. /\ Sets(p, f) = {} => Changed(chat, p)[f] = chat[f]
                              /\ OnPhone(p)[f] = phone[f]
        /\ \A v : Sets(p, f) = {v} => Changed(chat, p)[f] = v
                                      /\ OnPhone(p)[f] = v
    BY <1>1, ChangeGives
  <2>. QED  BY <1>4, <2>1, SetsOne
<1>6. Settled(<<>>, Due'[f], Due'[f], f)
    BY DEF Settled
<1>. QED  BY <1>2, <1>5, <1>6

\* Whatever is changed where, in any order and with any number of stops: the
\* row's flags are the phone's when no change is pending or lost.
THEOREM FlagsAreFollowed == Spec => []FlagsFollowPhone
<1>1. Init => Following
  <2>1. ASSUME Init, NEW f \in Flags
        PROVE  Settled(patches, Due[f], phone[f], f)
    <3>1. patches = <<>> /\ Due = Fresh
        BY <2>1 DEF Init, Due, NoCommand
    <3>2. Fresh[f] = phone[f]
      <4>1. CASE f = "archived"
        BY <2>1, <4>1 DEF Init, Fresh
      <4>2. CASE f = "pinned"
        BY <2>1, <4>2 DEF Init, Fresh
      <4>3. CASE f = "muted"
        BY <2>1, <4>3 DEF Init, Fresh
      <4>. QED  BY <4>1, <4>2, <4>3 DEF Flags
    <3>. QED  BY <3>1, <3>2 DEF Settled
  <2>. QED  BY <2>1 DEF Following
<1>2. ASSUME ChatInv, Following, [Next]_vars
      PROVE  Following'
  <2>0. /\ chat \in ChatRow /\ phone \in Account /\ inbox \in Seq(NodeEvents)
        /\ cli.at # "idle" => mode = "cli"
        /\ handler.at # "idle" => mode = "sync"
    BY <1>2 DEF ChatInv, TypeOK, ChatRow, Account, Handling
  <2>1. CASE missed'
    BY <2>1 DEF Following
  <2>2. \A c : SameFlags(c, c)
    BY DEF SameFlags
  <2>3. CASE /\ UNCHANGED <<missed, patches, phone, chat>>
             /\ cli.at # "write" /\ cli'.at # "write"
    <3>1. Due' = Due
        BY <2>3 DEF Due
    <3>. QED  BY <1>2, <2>2, <2>3, <3>1, SameFollows
  <2>4. CASE UNCHANGED <<missed, patches, phone, chat, cli>>
    <3>1. Due' = Due
        BY <2>4 DEF Due
    <3>. QED  BY <1>2, <2>2, <2>4, <3>1, SameFollows
  <2>5. ASSUME NEW m, Receive(m)
        PROVE  Following'
    <3>1. Due' = Due /\ SameFlags(phone', phone)
        BY <2>0, <2>5 DEF Receive, PhoneStep, rows, Due, SameFlags, Flags,
                          Account
    <3>. QED  BY <1>2, <2>2, <2>5, <3>1, SameFollows DEF Receive, PhoneStep
  <2>6. CASE ReadElsewhere
    <3>1. Due' = Due
        BY <2>6 DEF ReadElsewhere, PhoneStep, rows, Due
    <3>2. SameFlags(phone', phone)
        BY <2>0, <2>6 DEF ReadElsewhere, OnPhone, SameFlags, Flags, Account
    <3>. QED  BY <1>2, <2>2, <2>6, <3>1, <3>2, SameFollows
              DEF ReadElsewhere, PhoneStep
  <2>7. CASE IncrementLiveUnread \/ HandleReceipt \/ StartPage
    <3>1. mode = "sync" /\ UNCHANGED <<missed, patches, phone, cli>>
        BY <2>0, <2>7 DEF IncrementLiveUnread, HandleReceipt, StartPage,
                          Awaits, HandlerStep
    <3>2. Due = chat /\ Due' = chat'
        BY <2>0, <3>1 DEF Due
    <3>3. SameFlags(chat', chat)
      <4>1. CASE IncrementLiveUnread
        <5>1. [kind |-> "read"] \in NodeEvents
            BY DEF NodeEvents
        <5>. QED  BY <2>0, <4>1, <5>1, CountingKeepsFlags
                  DEF IncrementLiveUnread
      <4>2. CASE HandleReceipt
        <5>1. [kind |-> "read"] \in NodeEvents
            BY DEF NodeEvents
        <5>. QED  BY <2>0, <2>2, <4>2, <5>1, CountingKeepsFlags
                  DEF HandleReceipt
      <4>3. CASE StartPage
        <5>1. Head(inbox) \in NodeEvents /\ Head(inbox).kind = "history"
            BY <2>0, <4>3, TailTyped DEF StartPage, Awaits
        <5>. QED  BY <2>0, <2>2, <4>3, <5>1, CountingKeepsFlags
                  DEF StartPage
      <4>. QED  BY <2>7, <4>1, <4>2, <4>3
    <3>. QED  BY <1>2, <2>2, <3>1, <3>2, <3>3, SameFollows
  <2>8. CASE WriteChange
    <3>1. /\ cli.at = "write" /\ chat' = Changed(chat, cli.change)
          /\ cli' = NoCommand /\ UNCHANGED <<missed, patches, phone>>
        BY <2>8 DEF WriteChange
    <3>2. Due' = Due
        BY <3>1 DEF Due, NoCommand
    <3>. QED  BY <1>2, <2>2, <3>1, <3>2, SameFollows
  <2>9. CASE Phone
    <3>1. \A p \in Possible : p \in Changes
        BY DEF Possible
    <3>2. ASSUME NEW msgs, NEW told, ShareHistory(msgs, told)
          PROVE  Following'
        BY <2>4, <3>2 DEF ShareHistory, PhoneStep, rows
    <3>. QED  BY <1>2, <2>5, <2>6, <2>9, <3>1, <3>2, ChangeOnPhoneFollows
              DEF Phone
  <2>10. CASE Sync
    <3>1. CASE HandleChatStateEvent
        BY <1>2, <3>1, PatchFollows
    <3>2. CASE SyncEnds
        BY <2>1, <2>4, <3>2 DEF SyncEnds
    <3>. QED  BY <2>4, <2>7, <2>10, <3>1, <3>2
              DEF Sync, SyncStarts, CheckMessage, StoreFails, StoreMessage,
                  IncrementFails, StoreFromPage, HandlerStep, rows, world
  <2>11. CASE Command
    <3>1. ASSUME NEW p \in Possible, PatchPhone(p)
          PROVE  Following'
        BY <1>2, <3>1, PatchPhoneFollows DEF Possible
    <3>2. CASE CommandStarts \/ ListChatsOlderThan
      <4>1. cli.at # "write" /\ cli'.at # "write"
        BY <2>0, <3>2
        DEF CommandStarts, ListChatsOlderThan, NoCommand
      <4>. QED  BY <2>3, <3>2, <4>1
                DEF CommandStarts, ListChatsOlderThan, rows
    <3>3. CASE CommandEnds
      <4>1. CASE cli.at = "write"
        BY <2>1, <3>3, <4>1 DEF CommandEnds
      <4>2. CASE cli.at # "write" /\ ~missed'
        <5>1. missed' = missed
            BY <1>2, <3>3, <4>2 DEF CommandEnds, ChatInv, TypeOK
        <5>. QED  BY <2>3, <3>3, <4>2, <5>1 DEF CommandEnds, rows, NoCommand
      <4>. QED  BY <2>1, <4>1, <4>2
    <3>4. ASSUME NEW at, Cleanup(at)
          PROVE  Following'
        BY <2>1, <3>4 DEF Cleanup, DeleteChat
    <3>5. CASE DeliveredToCommand
        BY <2>1, <2>4, <3>5 DEF DeliveredToCommand, CommandStep, rows
    <3>. QED  BY <2>8, <2>11, <3>1, <3>2, <3>3, <3>4, <3>5 DEF Command
  <2>12. CASE UNCHANGED vars
    BY <2>4, <2>12 DEF vars, state
  <2>. QED  BY <1>2, <2>9, <2>10, <2>11, <2>12 DEF Next
<1>3. Following => FlagsFollowPhone
  <2>1. ASSUME Following, ~missed, patches = <<>>, cli.at # "write",
               NEW f \in Flags
        PROVE  chat[f] = phone[f]
    <3>1. Settled(<<>>, chat[f], phone[f], f)
        BY <2>1 DEF Following, Due
    <3>. QED  BY <3>1 DEF Settled
  <2>. QED  BY <2>1 DEF FlagsFollowPhone, Flags
<1>. QED  BY <1>1, <1>2, <1>3, ChatInitInv, ChatStepInv, PTL DEF Spec

-----------------------------------------------------------------------------

\* What cleanup listed stays old while it waits, for no page and no handler
\* runs next to it.
Waiting ==
    /\ page # {} => mode = "sync"
    /\ cli.at = "cleanup" => Inactive

\* cleanup --days deletes nothing that became active since it listed it.
THEOREM CleanupSparesActive == Spec => CleanupSparesRecent
<1>1. Init => Waiting
    BY DEF Init, Waiting, NoCommand
<1>2. ASSUME ChatInv, Waiting, [Next]_vars
      PROVE  Waiting'
  <2>0. /\ handler.at # "idle" => mode = "sync"
        /\ cli.at # "idle" => mode = "cli"
    BY <1>2 DEF ChatInv, Handling
  <2>1. CASE UNCHANGED <<page, mode, cli, stored>>
    BY <1>2, <2>1 DEF Waiting, Inactive
  <2>2. CASE Phone
    <3>1. PhoneStep
      <4>1. \A m : Receive(m) => PhoneStep
        BY DEF Receive
      <4>2. \A p : ChangeOnPhone(p) => PhoneStep
        BY DEF ChangeOnPhone
      <4>3. \A msgs, told : ShareHistory(msgs, told) => PhoneStep
        BY DEF ShareHistory
      <4>. QED  BY <2>2, <4>1, <4>2, <4>3 DEF Phone, ReadElsewhere
    <3>. QED  BY <2>1, <3>1 DEF PhoneStep, rows
  <2>3. CASE Sync
    <3>1. CASE SyncStarts
        BY <1>2, <2>0, <3>1 DEF SyncStarts, Waiting, rows
    <3>2. CASE StoreMessage
        BY <1>2, <2>0, <3>2 DEF StoreMessage, HandlerStep, Waiting
    <3>3. CASE StartPage
        BY <1>2, <2>0, <3>3 DEF StartPage, Awaits, Waiting
    <3>4. ASSUME NEW m \in page, StoreFromPage(m)
          PROVE  Waiting'
        BY <1>2, <2>0, <3>4 DEF StoreFromPage, Waiting
    <3>5. CASE SyncEnds
        BY <1>2, <2>0, <3>5 DEF SyncEnds, Waiting
    <3>. QED  BY <2>1, <2>3, <3>1, <3>2, <3>3, <3>4, <3>5
              DEF Sync, CheckMessage, StoreFails, IncrementLiveUnread,
                  IncrementFails, HandleReceipt, HandleChatStateEvent,
                  HandlerStep, rows
  <2>4. CASE Command
    <3>1. cli'.at # "cleanup" \/ ListChatsOlderThan \/ DeliveredToCommand
        BY <2>4 DEF Command, CommandStarts, PatchPhone, WriteChange,
                    CommandEnds, Cleanup, NoCommand
    <3>2. page' = page /\ mode # "sync"
        BY <2>0, <2>4 DEF Command, CommandStep, CommandStarts,
             DeliveredToCommand, PatchPhone, WriteChange,
             ListChatsOlderThan, CommandEnds, Cleanup
    <3>3. CASE ListChatsOlderThan
        BY <1>2, <3>2, <3>3 DEF ListChatsOlderThan, Waiting, Inactive, rows
    <3>4. CASE DeliveredToCommand
        BY <2>1, <3>4 DEF DeliveredToCommand, CommandStep, rows
    <3>. QED  BY <1>2, <3>1, <3>2, <3>3, <3>4 DEF Waiting
  <2>5. CASE UNCHANGED vars
    BY <2>1, <2>5 DEF vars, state
  <2>. QED  BY <1>2, <2>2, <2>3, <2>4, <2>5 DEF Next
<1>3. Waiting =>
        [cli.at = "cleanup" /\ stored' # stored
           => stored \cap Recent = {}]_vars
    BY DEF Waiting, Inactive
<1>. QED  BY <1>1, <1>2, <1>3, ChatInitInv, ChatStepInv, PTL
          DEF Spec, CleanupSparesRecent

-----------------------------------------------------------------------------
(* LIDMigration.                                                           *)

\* The tables have a place for each name, and a resolved name is a name.
LIDShape ==
    /\ row = [n \in LIDNames |-> row[n]]
    /\ options = [n \in LIDNames |-> options[n]]
    /\ vote = [n \in LIDNames |-> vote[n]]
    /\ resolved = [d \in LIDHandlers |-> resolved[d]]
    /\ \A d \in LIDHandlers : resolved[d].name \in LIDNames

\* Nothing is stored by the hidden id but what was stored unresolved.
Ended ==
    /\ row["lid"] = NULL /\ author # "lid"
    /\ options["lid"] = {} /\ vote["lid"] = NoVoteRow
    /\ "lid" \in known \cup sent => "sent" \in raw
    /\ quoted = "lid" => "quoted" \in raw

\* After a merge that overtook nobody the mapping is known, so that every
\* handler, and every later one, holds the phone number.
SplitInv ==
    settled =>
        /\ mapped
        /\ \A d \in LIDHandlers :
             resolved[d].at # "idle" => resolved[d].name = "pn"
        /\ Ended

LIDInv == LIDShape /\ SplitInv

\* Nothing is stored, and nobody has resolved a name.
LEMMA LIDInitInv == LIDInit => LIDInv
<1>. SUFFICES ASSUME LIDInit PROVE LIDInv
  OBVIOUS
<1>1. LIDShape
  BY DEF LIDInit, LIDShape, LIDNames, Unresolved
<1>2. SplitInv
  BY DEF LIDInit, SplitInv
<1>. QED  BY <1>1, <1>2 DEF LIDInv

\* A statement under the phone number leaves what is under the hidden id.
LEMMA WritesUnderTheNumber ==
    ASSUME LIDShape, NEW d \in LIDHandlers, resolved[d].name = "pn",
           WriteEvent(d)
    PROVE  Ended => Ended'
<1>. DEFINE e == resolved[d].event
<1>1. known' = known
  BY DEF WriteEvent
<1>2. row'["lid"] = row["lid"] /\ options'["lid"] = options["lid"]
        /\ vote'["lid"] = vote["lid"]
  <2>1. CASE WriteMessage("pn", e)
    BY <2>1 DEF WriteMessage, LIDShape, LIDNames
  <2>2. CASE WriteCall("pn", e)
    BY <2>2 DEF WriteCall
  <2>3. CASE ForeignKeyFails("pn", e)
    BY <2>3 DEF ForeignKeyFails
  <2>4. CASE DeleteCall("pn", e)
    BY <2>4 DEF DeleteCall
  <2>5. CASE WriteContactPoll("pn", e)
    BY <2>5 DEF WriteContactPoll, LIDShape, LIDNames
  <2>6. CASE WriteContactVote("pn", e)
    BY <2>6 DEF WriteContactVote, LIDShape, LIDNames
  <2>7. CASE WriteStar("pn", e)
    BY <2>7 DEF WriteStar
  <2>8. CASE WriteReply("pn", e)
    BY <2>8 DEF WriteReply
  <2>. QED
    BY <2>1, <2>2, <2>3, <2>4, <2>5, <2>6, <2>7, <2>8 DEF WriteEvent
<1>3. /\ sent' = sent /\ author' \in {author, "pn"}
      /\ "sent" \in raw => "sent" \in raw'
      /\ \/ quoted' = quoted /\ raw' = raw
         \/ quoted' = "lid" => "quoted" \in raw'
  <2>1. CASE WriteReply("pn", e)
    BY <2>1 DEF WriteReply
  <2>2. CASE UNCHANGED elsewhere
    BY <2>2 DEF elsewhere
  <2>3. WriteReply("pn", e) \/ UNCHANGED elsewhere
    BY DEF WriteEvent, WriteMessage, WriteCall, ForeignKeyFails, DeleteCall,
         WriteContactPoll, WriteContactVote, WriteStar
  <2>. QED  BY <2>1, <2>2, <2>3
<1>. QED  BY <1>1, <1>2, <1>3 DEF Ended

\* No statement makes a table forget one of the names.
LEMMA LIDShapeStep == LIDShape /\ [LIDNext]_lidVars => LIDShape'
<1>. SUFFICES ASSUME LIDShape, [LIDNext]_lidVars PROVE LIDShape'
  OBVIOUS
<1>1. ASSUME NEW d \in LIDHandlers, NEW e \in contactFeed, NEW n \in LIDNames,
             ResolveEvent(d, e, n)
      PROVE  LIDShape'
  BY <1>1 DEF ResolveEvent, CanonicalStoreJID, LIDShape, LIDNames, tables
<1>2. ASSUME NEW d \in LIDHandlers, UpsertContactChat(d)
      PROVE  LIDShape'
  BY <1>2 DEF UpsertContactChat, LIDShape
<1>3. ASSUME NEW d \in LIDHandlers, WriteEvent(d)
      PROVE  LIDShape'
  <2>. DEFINE e == resolved[d].event   n == resolved[d].name
  <2>1. resolved' = [resolved EXCEPT ![d] = Unresolved]
    BY <1>3 DEF WriteEvent, HandlerDone
  <2>2. /\ resolved' = [c \in LIDHandlers |-> resolved'[c]]
        /\ \A c \in LIDHandlers : resolved'[c].name \in LIDNames
    BY <2>1 DEF LIDShape, Unresolved, LIDNames
  <2>3. /\ row' = [m \in LIDNames |-> row'[m]]
        /\ options' = [m \in LIDNames |-> options'[m]]
        /\ vote' = [m \in LIDNames |-> vote'[m]]
    <3>1. CASE WriteMessage(n, e)
      BY <3>1 DEF WriteMessage, LIDShape
    <3>2. CASE WriteCall(n, e)
      BY <3>2 DEF WriteCall, LIDShape
    <3>3. CASE ForeignKeyFails(n, e)
      BY <3>3 DEF ForeignKeyFails, LIDShape
    <3>4. CASE DeleteCall(n, e)
      BY <3>4 DEF DeleteCall, LIDShape
    <3>5. CASE WriteContactPoll(n, e)
      BY <3>5 DEF WriteContactPoll, LIDShape
    <3>6. CASE WriteContactVote(n, e)
      BY <3>6 DEF WriteContactVote, LIDShape
    <3>7. CASE WriteStar(n, e)
      BY <3>7 DEF WriteStar, LIDShape
    <3>8. CASE WriteReply(n, e)
      BY <3>8 DEF WriteReply, LIDShape
    <3>. QED
      BY <1>3, <3>1, <3>2, <3>3, <3>4, <3>5, <3>6, <3>7, <3>8 DEF WriteEvent
  <2>. QED  BY <2>2, <2>3 DEF LIDShape
<1>4. CASE ListHistoricalLIDs \/ SkipLID \/ LearnMapping
  BY <1>4 DEF ListHistoricalLIDs, SkipLID, LearnMapping, LIDShape, tables
<1>5. CASE MigrateLIDToPN
  BY <1>5 DEF MigrateLIDToPN, MigrateLIDMessagesToPN, MigrateLIDPollsToPN,
              LIDShape, LIDNames
<1>6. CASE LIDCrash
  BY <1>6 DEF LIDCrash, Unresolved, LIDShape, LIDNames, tables
<1>7. CASE UNCHANGED lidVars
  BY <1>7 DEF lidVars, tables, LIDShape
<1>8. ASSUME NEW n \in LIDNames, RecordSent(n)
      PROVE  LIDShape'
  BY <1>8 DEF RecordSent, LIDShape
<1>. QED  BY <1>1, <1>2, <1>3, <1>4, <1>5, <1>6, <1>7, <1>8 DEF LIDNext

\* Every step of a handler, of the migration and of a crash keeps the end of
\* the split final.
LEMMA SplitStep == LIDShape /\ SplitInv /\ [LIDNext]_lidVars => SplitInv'
<1>. SUFFICES ASSUME LIDShape, SplitInv, [LIDNext]_lidVars, settled'
              PROVE  /\ mapped'
                     /\ \A d \in LIDHandlers :
                          resolved'[d].at # "idle" => resolved'[d].name = "pn"
                     /\ Ended'
  BY DEF SplitInv
<1>1. ASSUME NEW d \in LIDHandlers, NEW e \in contactFeed, NEW n \in LIDNames,
             ResolveEvent(d, e, n)
      PROVE  mapped' /\ Ended'
             /\ \A c \in LIDHandlers :
                  resolved'[c].at # "idle" => resolved'[c].name = "pn"
  BY <1>1 DEF ResolveEvent, CanonicalStoreJID, SplitInv, LIDShape, tables,
              elsewhere, Ended
<1>2. ASSUME NEW d \in LIDHandlers, UpsertContactChat(d)
      PROVE  mapped' /\ Ended'
             /\ \A c \in LIDHandlers :
                  resolved'[c].at # "idle" => resolved'[c].name = "pn"
  <2>1. mapped /\ Ended /\ resolved[d].name = "pn"
    BY <1>2 DEF UpsertContactChat, SplitInv
  <2>2. mapped' /\ Ended'
    BY <1>2, <2>1 DEF UpsertContactChat, elsewhere, Ended
  <2>3. \A c \in LIDHandlers :
          resolved'[c].at # "idle" => resolved'[c].name = "pn"
    BY <1>2, <2>1 DEF UpsertContactChat, SplitInv, LIDShape
  <2>. QED  BY <2>2, <2>3
<1>3. ASSUME NEW d \in LIDHandlers, WriteEvent(d)
      PROVE  mapped' /\ Ended'
             /\ \A c \in LIDHandlers :
                  resolved'[c].at # "idle" => resolved'[c].name = "pn"
  <2>1. settled /\ mapped' = mapped /\ resolved[d].at = "row"
          /\ resolved' = [resolved EXCEPT ![d] = Unresolved]
    BY <1>3 DEF WriteEvent, HandlerDone
  <2>2. resolved[d].name = "pn" /\ Ended
    BY <2>1 DEF SplitInv
  <2>3. Ended'
    BY <1>3, <2>2, WritesUnderTheNumber
  <2>4. \A c \in LIDHandlers :
          resolved'[c].at # "idle" => resolved'[c].name = "pn"
    BY <2>1 DEF SplitInv, LIDShape, Unresolved
  <2>. QED  BY <2>1, <2>3, <2>4 DEF SplitInv
<1>4. CASE ListHistoricalLIDs \/ SkipLID \/ LearnMapping
  BY <1>4 DEF ListHistoricalLIDs, SkipLID, LearnMapping, SplitInv, tables,
              elsewhere, Ended
<1>5. CASE MigrateLIDToPN
  BY <1>5 DEF MigrateLIDToPN, MigrateLIDChat, MigrateLIDMessagesToPN,
              MigrateLIDPollsToPN, MigrateLIDSenderToPN, ToPN, Ended
<1>6. CASE LIDCrash
  BY <1>6 DEF LIDCrash, SplitInv, Unresolved, Ended, tables,
              elsewhere
<1>7. CASE UNCHANGED lidVars
  BY <1>7 DEF lidVars, tables, elsewhere, SplitInv, Ended
<1>8. ASSUME NEW n \in LIDNames, RecordSent(n)
      PROVE  mapped' /\ Ended'
             /\ \A c \in LIDHandlers :
                  resolved'[c].at # "idle" => resolved'[c].name = "pn"
  BY <1>8 DEF RecordSent, SplitInv, Ended
<1>. QED  BY <1>1, <1>2, <1>3, <1>4, <1>5, <1>6, <1>7, <1>8 DEF LIDNext

\* Once a merge has overtaken no handler, nothing is stored by the hidden id
\* any more, whatever arrives later, but by the two who do not resolve names
\* (canonicalStoreJID, MigrateLIDToPN).
THEOREM SplitEnds == LIDSpec => []HandlerSplitsNoMore
<1>1. LIDInv /\ [LIDNext]_lidVars => LIDInv'
  BY LIDShapeStep, SplitStep DEF LIDInv
<1>2. LIDInv => HandlerSplitsNoMore
  BY DEF LIDInv, SplitInv, Ended, HandlerSplitsNoMore
<1>. QED  BY LIDInitInv, <1>1, <1>2, PTL DEF LIDSpec

\* The row m shows what the body b says.
Shows(m, b) ==
    /\ m.text = b.text /\ m.display_text = DisplayOf(b)
    /\ m.edited = b.edited /\ m.edited_ts = EditStamp(b)

\* A row is blank and labelled, or shows one of the bodies.
Explained(m, told) ==
    m # NULL =>
        /\ m \in Row /\ Hidden(m)
        /\ ~Tombstone(m) =>
             \E b \in Bodies(told) : ~Tombstone(b) /\ Shows(m, b)

IsRevoked(m) == m # NULL /\ m.revoked
IsDeleted(m) == m # NULL /\ m.deleted_for_me
Stamp(m) == IF m = NULL THEN 0 ELSE m.edited_ts
Later(s, t) == IF s > t THEN s ELSE t

\* The row u has every deletion and the newest edit of the rows l and p.
Joins(u, l, p) ==
    /\ u # NULL <=> l # NULL \/ p # NULL
    /\ IsRevoked(u) <=> IsRevoked(l) \/ IsRevoked(p)
    /\ IsDeleted(u) <=> IsDeleted(l) \/ IsDeleted(p)
    /\ ~IsRevoked(u) /\ ~IsDeleted(u) =>
         Stamp(u) = Later(Stamp(l), Stamp(p))

\* A body of a told is the content of one of its messages.
LEMMA BodiesAreContent ==
    ASSUME NEW told \in LIDFeeds, NEW b \in Bodies(told)
    PROVE  b \in Content
<1>1. PICK e \in told : e.kind = "message" /\ b = e.body
  BY DEF Bodies
<1>2. e \in ContactEvents
  BY <1>1, LIDAssumption
<1>3. \E c \in Content : e = Message(c)
  BY <1>1, <1>2 DEF ContactEvents, Message, Poll, Vote, Call, CallDeleted,
                    Star, Reply, Sent
<1>. QED  BY <1>1, <1>3 DEF Message

\* What UpsertMessage inserts shows its body.
LEMMA InsertShows ==
    ASSUME NEW b \in Content, ~Tombstone(b)
    PROVE  Shows(Excluded(b), b)
  BY DEF Shows, Excluded

\* ON CONFLICT adds the deletions, takes the newer edit, and shows the old
\* body or the new one.
LEMMA ConflictShows ==
    ASSUME NEW told, OneHistory(told),
           NEW b \in Bodies(told), b \in Content,
           NEW c \in Bodies(told), c \in Content,
           ~Tombstone(b), ~Tombstone(c),
           NEW m \in Row, ~Tombstone(m), Shows(m, c)
    PROVE  LET n == OnConflict(m, Excluded(b)) IN
             /\ Shows(n, b) \/ Shows(n, c)
             /\ n.edited_ts = Later(m.edited_ts, EditStamp(b))
<1>. DEFINE x == Excluded(b)   n == OnConflict(m, x)
<1>1. /\ x.text = b.text /\ x.display_text = DisplayOf(b)
      /\ x.edited = b.edited /\ x.edited_ts = EditStamp(b) /\ ~Tombstone(x)
  BY DEF Excluded, Tombstone
<1>2. DisplayOf(b) # NULL
  BY DEF OneHistory, DisplayOf, Tombstone
<1>3. /\ n.text = IF Stale(m, x) THEN m.text ELSE x.text
      /\ n.display_text = IF Stale(m, x) THEN m.display_text
                          ELSE x.display_text
      /\ n.edited = (b.edited \/ c.edited)
      /\ n.edited_ts = IF b.edited /\ (~c.edited \/ b.ts > EditStamp(c))
                       THEN b.ts ELSE IF c.edited THEN c.ts ELSE 0
  BY <1>1, <1>2 DEF OnConflict, MergedBody, MergedDisplay, MergedEditedTs,
                    Tombstone, Shows, EditStamp
<1>4. b.ts \in Nat \ {0} /\ c.ts \in Nat \ {0}
        /\ b.edited \in BOOLEAN /\ c.edited \in BOOLEAN
  BY LIDAssumption DEF Content
<1>5. n.edited_ts = Later(m.edited_ts, EditStamp(b))
  BY <1>3, <1>4 DEF Later, EditStamp, Shows
<1>6. CASE Stale(m, x)
  <2>1. c.edited \/ ~b.edited
    BY <1>1, <1>6 DEF Stale, Shows
  <2>2. ~(b.edited /\ (~c.edited \/ b.ts > EditStamp(c)))
    BY <1>1, <1>4, <1>6 DEF Stale, Shows, EditStamp
  <2>. QED  BY <1>3, <1>4, <1>5, <1>6, <2>1, <2>2 DEF Shows, EditStamp
<1>7. CASE ~Stale(m, x)
  <2>1. c.edited => b.edited /\ b.ts >= c.ts
    BY <1>1, <1>4, <1>7 DEF Stale, Shows, EditStamp
  <2>2. n.edited = b.edited /\ n.edited_ts = EditStamp(b)
    BY <1>3, <1>4, <2>1 DEF EditStamp
  <2>. QED  BY <1>1, <1>3, <1>5, <1>7, <2>2 DEF Shows
<1>. QED  BY <1>5, <1>6, <1>7

\* An event's statement: the row has every deletion and the newest edit of
\* what was there and what came.
LEMMA UpsertJoins ==
    ASSUME NEW told \in LIDFeeds, OneHistory(told), NEW b \in Bodies(told),
           NEW m, Explained(m, told)
    PROVE  LET n == Upsert(m, b) IN
             /\ n # NULL /\ Explained(n, told)
             /\ IsRevoked(n) <=> IsRevoked(m) \/ b.revoked
             /\ IsDeleted(n) <=> IsDeleted(m) \/ b.deleted_for_me
             /\ ~Tombstone(n) => Stamp(n) = Later(Stamp(m), EditStamp(b))
<1>. DEFINE n == Upsert(m, b)   x == Excluded(b)
<1>1. b \in Content /\ ~(b.revoked /\ b.deleted_for_me)
  BY BodiesAreContent DEF OneHistory
<1>2. x \in Row /\ Hidden(x) /\ x.revoked = b.revoked
        /\ x.deleted_for_me = b.deleted_for_me /\ x.edited_ts = EditStamp(b)
  BY <1>1, ExcludedRow DEF Excluded
<1>3. b.ts \in Nat \ {0} /\ b.edited \in BOOLEAN
  BY <1>1, LIDAssumption DEF Content
<1>4. CASE m = NULL
  <2>1. n = x
    BY <1>4 DEF Upsert
  <2>2. n # NULL
    BY <1>2, <2>1, NullAssumption
  <2>3. Explained(n, told)
    BY <1>1, <1>2, <2>1, InsertShows DEF Explained, Tombstone
  <2>4. Stamp(n) = Later(Stamp(m), EditStamp(b))
    BY <1>2, <1>3, <1>4, <2>1, <2>2 DEF Stamp, Later, EditStamp
  <2>5. IsRevoked(n) = b.revoked /\ IsDeleted(n) = b.deleted_for_me
    BY <1>1, <1>2, <2>1, <2>2 DEF IsRevoked, IsDeleted, Content
  <2>. QED  BY <1>4, <2>2, <2>3, <2>4, <2>5 DEF IsRevoked, IsDeleted
<1>5. CASE m # NULL /\ b.deleted_for_me
  <2>1. n = MarkMessageDeletedForMe(m) /\ m \in Row /\ Hidden(m)
    BY <1>5 DEF Upsert, Explained
  <2>2. n \in Row /\ Hidden(n) /\ n # NULL
    BY <2>1, DeletionRow, NullAssumption
  <2>3. n.deleted_for_me /\ n.revoked = m.revoked
    BY <2>1 DEF MarkMessageDeletedForMe, Blank, Row
  <2>4. Tombstone(n) /\ Explained(n, told)
    BY <2>2, <2>3 DEF Explained, Tombstone
  <2>. QED
    BY <1>1, <1>5, <2>2, <2>3, <2>4 DEF IsRevoked, IsDeleted
<1>6. CASE m # NULL /\ ~b.deleted_for_me
  <2>1. n = OnConflict(m, x) /\ m \in Row /\ Hidden(m)
    BY <1>6 DEF Upsert, Explained
  <2>2. n \in Row /\ Hidden(n) /\ n # NULL
    BY <1>2, <2>1, OnConflictRow, NullAssumption
  <2>3. /\ n.revoked = (m.revoked \/ b.revoked)
        /\ n.deleted_for_me = (m.deleted_for_me \/ b.deleted_for_me)
    BY <1>2, <2>1 DEF OnConflict
  <2>4. ASSUME ~Tombstone(n)
        PROVE  Explained(n, told)
               /\ n.edited_ts = Later(m.edited_ts, EditStamp(b))
    <3>1. ~Tombstone(m) /\ ~Tombstone(b)
      BY <2>3, <2>4 DEF Tombstone
    <3>2. PICK c \in Bodies(told) : ~Tombstone(c) /\ Shows(m, c)
      BY <1>6, <3>1 DEF Explained
    <3>3. c \in Content
      BY BodiesAreContent
    <3>4. /\ Shows(n, b) \/ Shows(n, c)
          /\ n.edited_ts = Later(m.edited_ts, EditStamp(b))
      BY <1>1, <2>1, <3>1, <3>2, <3>3, ConflictShows
    <3>. QED  BY <2>2, <3>1, <3>2, <3>4 DEF Explained
  <2>5. Explained(n, told)
    BY <2>2, <2>4 DEF Explained
  <2>. QED
    BY <1>6, <2>2, <2>3, <2>4, <2>5 DEF IsRevoked, IsDeleted, Stamp
<1>. QED  BY <1>4, <1>5, <1>6

\* Of two rows that show bodies, the merge shows the one with the newer edit.
LEMMA MigrationShows ==
    ASSUME NEW told, OneHistory(told),
           NEW b \in Bodies(told), b \in Content,
           NEW c \in Bodies(told), c \in Content,
           ~Tombstone(b), ~Tombstone(c),
           NEW m \in Row, ~Tombstone(m), Shows(m, b),
           NEW x \in Row, ~Tombstone(x), Shows(x, c)
    PROVE  LET n == MigratedRow(m, x) IN
             /\ Shows(n, b) \/ Shows(n, c)
             /\ n.edited_ts = Later(m.edited_ts, x.edited_ts)
<1>. DEFINE n == MigratedRow(m, x)
<1>1. /\ n.text = MigratedBody(m, x, m.text, x.text)
      /\ n.display_text =
           MigratedBody(m, x, m.display_text, x.display_text)
      /\ n.edited = (m.edited \/ x.edited)
      /\ n.edited_ts = IF x.edited_ts > m.edited_ts THEN x.edited_ts
                       ELSE m.edited_ts
  BY DEF MigratedRow, MigratedDisplay, Tombstone
<1>. HIDE DEF n
<1>2. /\ b.ts \in Nat \ {0} /\ b.edited \in BOOLEAN
      /\ c.ts \in Nat \ {0} /\ c.edited \in BOOLEAN
  BY LIDAssumption DEF Content
<1>3. DisplayOf(b) # NULL /\ (b.edited => b.text # NULL)
  BY DEF OneHistory, DisplayOf, Tombstone
<1>4. /\ m.text = b.text /\ m.display_text = DisplayOf(b)
      /\ m.edited = b.edited /\ m.edited_ts = EditStamp(b)
      /\ x.text = c.text /\ x.display_text = DisplayOf(c)
      /\ x.edited = c.edited /\ x.edited_ts = EditStamp(c)
  BY DEF Shows
<1>5. ASSUME b.edited, ~c.edited \/ c.ts <= b.ts
      PROVE  Shows(n, b)
  <2>1. ~NewerEdit(m, x)
    BY <1>2, <1>4, <1>5 DEF NewerEdit, EditStamp
  <2>2. n.text = b.text /\ n.display_text = DisplayOf(b)
    BY <1>1, <1>3, <1>4, <1>5, <2>1 DEF MigratedBody, OrElse
  <2>3. n.edited_ts = EditStamp(b)
    BY <1>1, <1>2, <1>4, <1>5 DEF EditStamp
  <2>4. n.edited = b.edited
    BY <1>1, <1>2, <1>4, <1>5
  <2>. QED  BY <2>2, <2>3, <2>4 DEF Shows
<1>6. ASSUME c.edited, ~b.edited \/ c.ts > b.ts
      PROVE  Shows(n, c)
  <2>1. NewerEdit(m, x)
    BY <1>2, <1>4, <1>6 DEF NewerEdit, EditStamp
  <2>2. n.text = c.text /\ n.display_text = DisplayOf(c)
    BY <1>1, <1>4, <2>1 DEF MigratedBody
  <2>3. n.edited_ts = EditStamp(c)
    BY <1>1, <1>2, <1>4, <1>6 DEF EditStamp
  <2>4. n.edited = c.edited
    BY <1>1, <1>2, <1>4, <1>6
  <2>. QED  BY <2>2, <2>3, <2>4 DEF Shows
<1>7. ASSUME ~b.edited, ~c.edited
      PROVE  Shows(n, b)
  <2>1. EditStamp(b) = 0 /\ EditStamp(c) = 0
    BY <1>7 DEF EditStamp
  <2>2. b.text = c.text
    BY <2>1 DEF OneHistory
  <2>3. n.text = b.text /\ n.display_text = DisplayOf(b)
    BY <1>1, <1>3, <1>4, <1>7, <2>2 DEF MigratedBody, NewerEdit, OrElse
  <2>4. n.edited_ts = EditStamp(b)
    BY <1>1, <1>4, <2>1
  <2>5. n.edited = b.edited
    BY <1>1, <1>2, <1>4, <1>7
  <2>. QED  BY <2>3, <2>4, <2>5 DEF Shows
<1>8. Shows(n, b) \/ Shows(n, c)
  BY <1>2, <1>5, <1>6, <1>7
<1>9. n.edited_ts = Later(m.edited_ts, x.edited_ts)
  BY <1>1, <1>2, <1>4 DEF Later, EditStamp
<1>. QED  BY <1>8, <1>9 DEF n

\* The merge of two rows is a row, blank if one of them was.
LEMMA MigrationRow ==
    ASSUME NEW m \in Row, NEW x \in Row
    PROVE  MigratedRow(m, x) \in Row /\ Hidden(MigratedRow(m, x))
<1>. DEFINE n == MigratedRow(m, x)
<1>1. MigratedTs(m, x) \in Times
  BY DEF MigratedTs, Row
<1>2. /\ MigratedBody(m, x, m.text, x.text) \in Texts \cup {NULL}
      /\ MigratedBody(m, x, m.display_text, x.display_text)
           \in Texts \cup Media \cup Labels \cup {NULL}
  BY DEF MigratedBody, OrElse, Row
<1>3. /\ OrElse(m.media_type, x.media_type) \in Media \cup {NULL}
      /\ OrElse(m.media_key, x.media_key) \in Media \cup {NULL}
  BY DEF OrElse, Row
<1>4. MigratedDisplay(m, x) \in Texts \cup Media \cup Labels \cup {NULL}
  BY <1>2 DEF MigratedDisplay, Labels
<1>5. n \in Row
  BY <1>1, <1>2, <1>3, <1>4 DEF MigratedRow, Row
<1>6. Hidden(n)
  BY DEF Hidden, MigratedRow, MigratedDisplay, Tombstone, Row
<1>. QED  BY <1>5, <1>6

\* The merge has every deletion and the newest edit of both rows, and shows
\* what one of them showed.
LEMMA MigrationJoins ==
    ASSUME NEW told \in LIDFeeds, OneHistory(told),
           NEW m, m # NULL, Explained(m, told),
           NEW x, x # NULL, Explained(x, told)
    PROVE  LET n == MigratedRow(m, x) IN
             /\ n # NULL /\ Explained(n, told)
             /\ n.revoked <=> m.revoked \/ x.revoked
             /\ n.deleted_for_me <=> m.deleted_for_me \/ x.deleted_for_me
             /\ ~Tombstone(n) => n.edited_ts = Later(m.edited_ts, x.edited_ts)
<1>. DEFINE n == MigratedRow(m, x)
<1>1. m \in Row /\ x \in Row
  BY DEF Explained
<1>2. n \in Row /\ Hidden(n) /\ n # NULL
  BY <1>1, MigrationRow, NullAssumption
<1>3. /\ n.revoked = (m.revoked \/ x.revoked)
      /\ n.deleted_for_me = (m.deleted_for_me \/ x.deleted_for_me)
  BY DEF MigratedRow
<1>4. ASSUME ~Tombstone(n)
      PROVE  Explained(n, told)
             /\ n.edited_ts = Later(m.edited_ts, x.edited_ts)
  <2>1. ~Tombstone(m) /\ ~Tombstone(x)
    BY <1>3, <1>4 DEF Tombstone
  <2>2. PICK b \in Bodies(told) : ~Tombstone(b) /\ Shows(m, b)
    BY <2>1 DEF Explained
  <2>3. PICK c \in Bodies(told) : ~Tombstone(c) /\ Shows(x, c)
    BY <2>1 DEF Explained
  <2>4. b \in Content /\ c \in Content
    BY BodiesAreContent
  <2>5. /\ Shows(n, b) \/ Shows(n, c)
        /\ n.edited_ts = Later(m.edited_ts, x.edited_ts)
    BY <1>1, <2>1, <2>2, <2>3, <2>4, MigrationShows
  <2>. QED  BY <1>2, <2>2, <2>3, <2>5 DEF Explained
<1>5. Explained(n, told)
  BY <1>2, <1>4 DEF Explained
<1>. QED  BY <1>2, <1>3, <1>4, <1>5

\* Edits are stamped with their second, all else with 0.
LEMMA StampIsNat ==
    ASSUME NEW told, NEW m, Explained(m, told)
    PROVE  Stamp(m) \in Nat
  BY LIDAssumption DEF Explained, Stamp, Row

\* The same event applied to the one row and to either of the two.
LEMMA WriteJoins ==
    ASSUME NEW told \in LIDFeeds, OneHistory(told), NEW b \in Bodies(told),
           NEW u, NEW l, NEW p, Explained(u, told), Explained(l, told),
           Explained(p, told), Joins(u, l, p)
    PROVE  Joins(Upsert(u, b), Upsert(l, b), p)
<1>. DEFINE v == Upsert(u, b)   k == Upsert(l, b)
<1>1. /\ v # NULL
      /\ IsRevoked(v) <=> IsRevoked(u) \/ b.revoked
      /\ IsDeleted(v) <=> IsDeleted(u) \/ b.deleted_for_me
      /\ ~Tombstone(v) => Stamp(v) = Later(Stamp(u), EditStamp(b))
  BY UpsertJoins
<1>2. /\ k # NULL
      /\ IsRevoked(k) <=> IsRevoked(l) \/ b.revoked
      /\ IsDeleted(k) <=> IsDeleted(l) \/ b.deleted_for_me
      /\ ~Tombstone(k) => Stamp(k) = Later(Stamp(l), EditStamp(b))
  BY UpsertJoins
<1>. HIDE DEF v, k
<1>3. /\ IsRevoked(v) <=> IsRevoked(k) \/ IsRevoked(p)
      /\ IsDeleted(v) <=> IsDeleted(k) \/ IsDeleted(p)
  BY <1>1, <1>2 DEF Joins
<1>4. ASSUME ~IsRevoked(v), ~IsDeleted(v)
      PROVE  Stamp(v) = Later(Stamp(k), Stamp(p))
  <2>1. /\ ~Tombstone(v) /\ ~Tombstone(k)
        /\ ~IsRevoked(u) /\ ~IsDeleted(u)
    BY <1>1, <1>2, <1>3, <1>4 DEF IsRevoked, IsDeleted, Tombstone
  <2>2. /\ Stamp(v) = Later(Stamp(u), EditStamp(b))
        /\ Stamp(k) = Later(Stamp(l), EditStamp(b))
        /\ Stamp(u) = Later(Stamp(l), Stamp(p))
    BY <1>1, <1>2, <2>1 DEF Joins
  <2>3. /\ Stamp(u) \in Nat /\ Stamp(l) \in Nat /\ Stamp(p) \in Nat
        /\ EditStamp(b) \in Nat
    <3>1. b \in Content
      BY BodiesAreContent
    <3>2. EditStamp(b) \in Nat
      BY <3>1, LIDAssumption DEF EditStamp, Content
    <3>. QED  BY <3>2, StampIsNat
  <2>. QED  BY <2>2, <2>3 DEF Later
<1>5. v # NULL <=> k # NULL \/ p # NULL
  BY <1>1, <1>2
<1>. QED  BY <1>3, <1>4, <1>5 DEF Joins, v, k

\* The two names may change places.
LEMMA JoinsEither ==
    ASSUME NEW told, NEW u, NEW l, NEW p, Explained(l, told),
           Explained(p, told), Joins(u, l, p)
    PROVE  Joins(u, p, l)
<1>1. Later(Stamp(l), Stamp(p)) = Later(Stamp(p), Stamp(l))
  <2>1. Stamp(l) \in Nat /\ Stamp(p) \in Nat
    BY StampIsNat
  <2>. QED  BY <2>1 DEF Later
<1>. QED  BY <1>1 DEF Joins

\* A handler holds an event that WhatsApp may deliver.
HandledInv ==
    /\ contactFeed \in LIDFeeds
    /\ \A d \in LIDHandlers :
         resolved[d].at # "idle" => resolved[d].event \in contactFeed

\* The rows under the two names and the row there would be under one.
MergeInv ==
    /\ \A n \in LIDNames : Explained(row[n], contactFeed)
    /\ Explained(unsplit, contactFeed)
    /\ Joins(unsplit, row["lid"], row["pn"])

\* A vote that was stored is still there, or a newer one, or was retracted.
Remembered(b) ==
    \/ \E n \in LIDNames : vote[n].ts >= b.ts
    \/ \E r \in voted : r.sel = {} /\ r.ts >= b.ts

VotesInv ==
    /\ \A n \in LIDNames : vote[n].ts \in Nat
    /\ \A b \in voted : b.ts \in Nat /\ Remembered(b)

\* Handlers only take events of the feed.
LEMMA HandledStep ==
    LIDShape /\ HandledInv /\ [LIDNext]_lidVars => HandledInv'
<1>. SUFFICES ASSUME LIDShape, HandledInv, [LIDNext]_lidVars
              PROVE  HandledInv'
  OBVIOUS
<1>1. contactFeed' = contactFeed
  BY DEF LIDNext, ResolveEvent, UpsertContactChat, WriteEvent,
         RecordSent, ListHistoricalLIDs, MigrateLIDToPN, SkipLID,
         LearnMapping, LIDCrash, lidVars
<1>2. ASSUME NEW d \in LIDHandlers, resolved'[d].at # "idle"
      PROVE  resolved'[d].event \in contactFeed
  <2>1. ASSUME NEW c \in LIDHandlers, NEW e \in contactFeed,
               NEW n \in LIDNames, ResolveEvent(c, e, n)
        PROVE  resolved'[d].event \in contactFeed
    BY <1>2, <2>1 DEF ResolveEvent, LIDShape, HandledInv
  <2>2. ASSUME NEW c \in LIDHandlers, UpsertContactChat(c)
        PROVE  resolved'[d].event \in contactFeed
    BY <1>2, <2>2 DEF UpsertContactChat, LIDShape, HandledInv
  <2>3. ASSUME NEW c \in LIDHandlers, WriteEvent(c)
        PROVE  resolved'[d].event \in contactFeed
    <3>1. resolved' = [resolved EXCEPT ![c] = Unresolved]
      BY <2>3 DEF WriteEvent, HandlerDone
    <3>. QED  BY <1>2, <3>1 DEF LIDShape, HandledInv, Unresolved
  <2>4. CASE \/ ListHistoricalLIDs \/ MigrateLIDToPN \/ SkipLID
             \/ LearnMapping \/ UNCHANGED lidVars
             \/ \E n \in LIDNames : RecordSent(n)
    <3>1. resolved' = resolved
      BY <2>4 DEF ListHistoricalLIDs, MigrateLIDToPN, SkipLID, LearnMapping,
                  RecordSent, lidVars
    <3>. QED  BY <1>2, <3>1 DEF HandledInv
  <2>5. CASE LIDCrash
    BY <1>2, <2>5 DEF LIDCrash, Unresolved
  <2>. QED  BY <2>1, <2>2, <2>3, <2>4, <2>5 DEF LIDNext
<1>. QED  BY <1>1, <1>2 DEF HandledInv

\* A handler's statement on `messages`.
LEMMA MessageMerges ==
    ASSUME LIDShape, MergeInv, contactFeed \in LIDFeeds,
           OneHistory(contactFeed), contactFeed' = contactFeed,
           NEW n \in LIDNames, NEW e \in contactFeed, WriteMessage(n, e)
    PROVE  MergeInv'
<1>. DEFINE b == e.body
<1>1. b \in Bodies(contactFeed)
  BY DEF WriteMessage, Bodies
<1>2. unsplit' = Upsert(unsplit, b) /\ row'[n] = Upsert(row[n], b)
        /\ \A k \in LIDNames : k # n => row'[k] = row[k]
  BY DEF WriteMessage, LIDShape
<1>. HIDE DEF b
<1>3. /\ Explained(Upsert(unsplit, b), contactFeed)
      /\ Explained(Upsert(row[n], b), contactFeed)
  BY <1>1, UpsertJoins DEF MergeInv
<1>4. \A k \in LIDNames : Explained(row'[k], contactFeed)
  BY <1>2, <1>3 DEF MergeInv
<1>5. Joins(unsplit', row'["lid"], row'["pn"])
  <2>0. /\ Explained(unsplit, contactFeed)
        /\ Explained(row["lid"], contactFeed)
        /\ Explained(row["pn"], contactFeed)
        /\ Joins(unsplit, row["lid"], row["pn"])
        /\ "lid" \in LIDNames /\ "pn" \in LIDNames
    BY DEF MergeInv, LIDNames
  <2>1. CASE n = "lid"
    <3>1. row'["lid"] = Upsert(row["lid"], b) /\ row'["pn"] = row["pn"]
      BY <1>2, <2>0, <2>1
    <3>. QED  BY <1>1, <1>2, <2>0, <3>1, WriteJoins
  <2>2. CASE n = "pn"
    <3>1. row'["pn"] = Upsert(row["pn"], b) /\ row'["lid"] = row["lid"]
      BY <1>2, <2>0, <2>2
    <3>2. Joins(unsplit, row["pn"], row["lid"])
      BY <2>0, JoinsEither
    <3>3. Joins(Upsert(unsplit, b), Upsert(row["pn"], b), row["lid"])
      BY <1>1, <2>0, <3>2, WriteJoins
    <3>4. Explained(Upsert(row["pn"], b), contactFeed)
      BY <1>3, <2>2
    <3>5. Joins(Upsert(unsplit, b), row["lid"], Upsert(row["pn"], b))
      BY <2>0, <3>3, <3>4, JoinsEither
    <3>. QED  BY <1>2, <3>1, <3>5
  <2>. QED  BY <2>1, <2>2 DEF LIDNames
<1>6. Explained(unsplit', contactFeed)
  BY <1>2, <1>3
<1>. QED  BY <1>4, <1>5, <1>6 DEF MergeInv

\* The merge of the two rows.
LEMMA MigrationMerges ==
    ASSUME MergeInv, contactFeed \in LIDFeeds, OneHistory(contactFeed),
           contactFeed' = contactFeed, unsplit' = unsplit,
           MigrateLIDMessagesToPN
    PROVE  MergeInv'
<1>. DEFINE l == row["lid"]   p == row["pn"]   m == row'["pn"]
<1>1. row'["lid"] = NULL
        /\ m = IF l = NULL THEN p ELSE IF p = NULL THEN l
               ELSE MigratedRow(p, l)
  BY DEF MigrateLIDMessagesToPN
<1>2. /\ Explained(l, contactFeed) /\ Explained(p, contactFeed)
      /\ Joins(unsplit, l, p)
  BY DEF MergeInv, LIDNames
<1>3. Stamp(l) \in Nat /\ Stamp(p) \in Nat
  BY <1>2, StampIsNat
<1>. HIDE DEF l, p, m
<1>4. Explained(m, contactFeed) /\ Joins(unsplit, NULL, m)
  <2>1. CASE l = NULL
    <3>1. m = p /\ l = NULL
      BY <1>1, <2>1
    <3>. QED  BY <1>2, <3>1
  <2>2. CASE l # NULL /\ p = NULL
    <3>1. m = l /\ p = NULL
      BY <1>1, <2>2
    <3>. QED  BY <1>2, <3>1, JoinsEither
  <2>3. CASE l # NULL /\ p # NULL
    <3>1. m = MigratedRow(p, l)
      BY <1>1, <2>3
    <3>2. /\ m # NULL /\ Explained(m, contactFeed)
          /\ m.revoked <=> p.revoked \/ l.revoked
          /\ m.deleted_for_me <=> p.deleted_for_me \/ l.deleted_for_me
          /\ ~Tombstone(m) => m.edited_ts = Later(p.edited_ts, l.edited_ts)
      BY <1>2, <2>3, <3>1, MigrationJoins
    <3>3. /\ IsRevoked(unsplit) <=> IsRevoked(NULL) \/ IsRevoked(m)
          /\ IsDeleted(unsplit) <=> IsDeleted(NULL) \/ IsDeleted(m)
          /\ unsplit # NULL
      BY <1>2, <2>3, <3>2 DEF Joins, IsRevoked, IsDeleted
    <3>4. ASSUME ~IsRevoked(unsplit), ~IsDeleted(unsplit)
          PROVE  Stamp(unsplit) = Later(Stamp(NULL), Stamp(m))
      <4>1. ~Tombstone(m)
        BY <3>2, <3>3, <3>4 DEF IsRevoked, IsDeleted, Tombstone
      <4>2. Stamp(m) = Later(Stamp(p), Stamp(l)) /\ Stamp(NULL) = 0
        BY <2>3, <3>2, <4>1 DEF Stamp
      <4>3. Stamp(unsplit) = Later(Stamp(l), Stamp(p))
        BY <1>2, <3>4 DEF Joins
      <4>. QED  BY <1>3, <4>2, <4>3 DEF Later
    <3>. QED  BY <3>2, <3>3, <3>4 DEF Joins
  <2>. QED  BY <2>1, <2>2, <2>3
<1>5. Explained(row'["lid"], contactFeed)
  BY <1>1 DEF Explained
<1>6. Explained(row'["pn"], contactFeed)
        /\ Joins(unsplit, row'["lid"], row'["pn"])
  BY <1>1, <1>4 DEF m
<1>. QED  BY <1>5, <1>6 DEF MergeInv, LIDNames

\* All other steps leave the message alone.
LEMMA MergeStep ==
    ASSUME LIDShape, HandledInv, MergeInv,
           \A told \in LIDFeeds : OneHistory(told), [LIDNext]_lidVars
    PROVE  MergeInv'
<1>0. contactFeed \in LIDFeeds /\ OneHistory(contactFeed)
  BY DEF HandledInv
<1>1. contactFeed' = contactFeed
  BY DEF LIDNext, ResolveEvent, UpsertContactChat, WriteEvent,
         RecordSent, ListHistoricalLIDs, MigrateLIDToPN, SkipLID,
         LearnMapping, LIDCrash, lidVars
<1>2. CASE UNCHANGED <<row, unsplit>>
  BY <1>1, <1>2 DEF MergeInv
<1>3. ASSUME NEW d \in LIDHandlers, WriteEvent(d)
      PROVE  MergeInv'
  <2>. DEFINE e == resolved[d].event   n == resolved[d].name
  <2>1. n \in LIDNames /\ e \in contactFeed
    BY <1>3 DEF WriteEvent, HandledInv, LIDShape
  <2>2. CASE WriteMessage(n, e)
    BY <1>0, <1>1, <2>1, <2>2, MessageMerges
  <2>3. CASE ~WriteMessage(n, e)
    <3>1. UNCHANGED <<row, unsplit>>
      BY <1>3, <2>3 DEF WriteEvent, WriteCall, ForeignKeyFails, DeleteCall,
                        WriteContactPoll, WriteContactVote, WriteStar,
                        WriteReply, written
    <3>. QED  BY <1>2, <3>1
  <2>. QED  BY <2>2, <2>3
<1>4. CASE MigrateLIDToPN
  <2>1. MigrateLIDMessagesToPN /\ unsplit' = unsplit
    BY <1>4 DEF MigrateLIDToPN, written
  <2>. QED  BY <1>0, <1>1, <2>1, MigrationMerges
<1>5. CASE \/ \E d \in LIDHandlers, e \in contactFeed, n \in LIDNames :
                ResolveEvent(d, e, n)
           \/ \E d \in LIDHandlers : UpsertContactChat(d)
           \/ \E n \in LIDNames : RecordSent(n)
           \/ ListHistoricalLIDs \/ SkipLID \/ LearnMapping \/ LIDCrash
           \/ UNCHANGED lidVars
  <2>1. UNCHANGED <<row, unsplit>>
    BY <1>5 DEF ResolveEvent, UpsertContactChat, RecordSent,
                ListHistoricalLIDs, SkipLID, LearnMapping, LIDCrash, lidVars,
                tables, written
  <2>. QED  BY <1>2, <2>1
<1>. QED  BY <1>3, <1>4, <1>5 DEF LIDNext

\* A vote has a time.
LEMMA VoteTime ==
    ASSUME NEW e \in ContactEvents, e.kind = "vote"
    PROVE  e.ts \in Nat
<1>1. PICK t \in Times, sel \in SUBSET PollOptions : e = Vote(t, sel)
  BY DEF ContactEvents, Message, Poll, Vote, Call, CallDeleted, Star, Reply,
         Sent
<1>. QED  BY <1>1, LIDAssumption DEF Vote

\* A vote, a retraction: what was there is older, newer, or retracted.
LEMMA VoteRemembered ==
    ASSUME LIDShape, VotesInv, NEW n \in LIDNames, NEW e, e.ts \in Nat,
           WriteContactVote(n, e)
    PROVE  VotesInv'
<1>1. voted' = voted \cup {e}
  BY DEF WriteContactVote
<1>2. CASE e.ts < vote[n].ts
  <2>1. vote' = vote
    BY <1>2 DEF WriteContactVote, VotesInv
  <2>2. \E k \in LIDNames : vote'[k].ts >= e.ts
    BY <1>2, <2>1 DEF VotesInv
  <2>. QED  BY <1>1, <2>1, <2>2 DEF VotesInv, Remembered
<1>3. CASE e.ts >= vote[n].ts /\ e.sel # {}
  <2>1. vote' = [vote EXCEPT ![n] = [ts |-> e.ts, sel |-> e.sel]]
    BY <1>3 DEF WriteContactVote
  <2>2. vote'[n].ts = e.ts /\ \A k \in LIDNames \ {n} : vote'[k] = vote[k]
    BY <2>1 DEF LIDShape
  <2>3. \A k \in LIDNames : vote'[k].ts \in Nat /\ vote'[k].ts >= vote[k].ts
    BY <1>3, <2>2 DEF VotesInv
  <2>4. ASSUME NEW b \in voted'
        PROVE  b.ts \in Nat /\ Remembered(b)'
    <3>1. CASE b = e
      BY <2>2, <3>1 DEF Remembered
    <3>2. ASSUME b \in voted, NEW k \in LIDNames, vote[k].ts >= b.ts
          PROVE  b.ts \in Nat /\ vote'[k].ts >= b.ts
      BY <2>3, <3>2 DEF VotesInv
    <3>. QED  BY <1>1, <3>1, <3>2 DEF VotesInv, Remembered
  <2>. QED  BY <2>3, <2>4 DEF VotesInv
<1>4. CASE e.ts >= vote[n].ts /\ e.sel = {}
  <2>1. vote' = [vote EXCEPT ![n] = NoVoteRow]
    BY <1>4 DEF WriteContactVote
  <2>2. vote'[n].ts = 0 /\ \A k \in LIDNames \ {n} : vote'[k] = vote[k]
    BY <2>1 DEF LIDShape, NoVoteRow
  <2>3. ASSUME NEW b \in voted'
        PROVE  b.ts \in Nat /\ Remembered(b)'
    <3>1. CASE b = e
      BY <1>1, <1>4, <3>1 DEF Remembered
    <3>2. ASSUME b \in voted, vote[n].ts >= b.ts
          PROVE  b.ts \in Nat /\ e.ts >= b.ts
      BY <1>4, <3>2 DEF VotesInv
    <3>3. ASSUME b \in voted, NEW k \in LIDNames \ {n}, vote[k].ts >= b.ts
          PROVE  b.ts \in Nat /\ vote'[k].ts >= b.ts
      BY <2>2, <3>3 DEF VotesInv
    <3>. QED
      BY <1>1, <1>4, <3>1, <3>2, <3>3 DEF VotesInv, Remembered
  <2>. QED  BY <2>2, <2>3 DEF VotesInv
<1>. QED
  BY <1>2, <1>3, <1>4 DEF VotesInv

\* The merge keeps the newer of the two votes.
LEMMA MigrationRemembers ==
    ASSUME VotesInv, voted' = voted, MigrateLIDPollsToPN
    PROVE  VotesInv'
<1>1. vote' = [lid |-> NoVoteRow, pn |-> NewerVote]
  BY DEF MigrateLIDPollsToPN
<1>2. vote'["lid"].ts = 0 /\ vote'["pn"] = NewerVote
  BY <1>1 DEF NoVoteRow
<1>3. vote["lid"].ts \in Nat /\ vote["pn"].ts \in Nat
  BY DEF VotesInv, LIDNames
<1>4. /\ NewerVote.ts \in Nat /\ NewerVote.ts >= vote["lid"].ts
      /\ NewerVote.ts >= vote["pn"].ts
  BY <1>3 DEF NewerVote
<1>5. \A k \in LIDNames : vote'[k].ts \in Nat
  BY <1>2, <1>4 DEF LIDNames
<1>6. ASSUME NEW b \in voted, NEW k \in LIDNames, vote[k].ts >= b.ts
      PROVE  vote'["pn"].ts >= b.ts
  BY <1>2, <1>3, <1>4, <1>6 DEF VotesInv, LIDNames
<1>. QED  BY <1>5, <1>6 DEF VotesInv, Remembered, LIDNames

\* All other steps leave votes alone.
LEMMA VotesStep ==
    ASSUME LIDShape, HandledInv, VotesInv, [LIDNext]_lidVars
    PROVE  VotesInv'
<1>2. CASE UNCHANGED <<vote, voted>>
  BY <1>2 DEF VotesInv, Remembered
<1>3. ASSUME NEW d \in LIDHandlers, WriteEvent(d)
      PROVE  VotesInv'
  <2>. DEFINE e == resolved[d].event   n == resolved[d].name
  <2>1. n \in LIDNames /\ e \in ContactEvents
    BY <1>3, LIDAssumption DEF WriteEvent, HandledInv, LIDShape
  <2>2. CASE WriteContactVote(n, e)
    <3>1. e.ts \in Nat
      BY <2>1, <2>2, VoteTime DEF WriteContactVote
    <3>. QED  BY <2>1, <2>2, <3>1, VoteRemembered
  <2>3. CASE ~WriteContactVote(n, e)
    <3>1. UNCHANGED <<vote, voted>>
      BY <1>3, <2>3 DEF WriteEvent, WriteCall, ForeignKeyFails, DeleteCall,
                        WriteContactPoll, WriteMessage, WriteStar,
                        WriteReply, written
    <3>. QED  BY <1>2, <3>1
  <2>. QED  BY <2>2, <2>3
<1>4. CASE MigrateLIDToPN
  <2>1. MigrateLIDPollsToPN /\ voted' = voted
    BY <1>4 DEF MigrateLIDToPN, written
  <2>. QED  BY <2>1, MigrationRemembers
<1>5. CASE \/ \E d \in LIDHandlers, e \in contactFeed, n \in LIDNames :
                ResolveEvent(d, e, n)
           \/ \E d \in LIDHandlers : UpsertContactChat(d)
           \/ \E n \in LIDNames : RecordSent(n)
           \/ ListHistoricalLIDs \/ SkipLID \/ LearnMapping \/ LIDCrash
           \/ UNCHANGED lidVars
  <2>1. UNCHANGED <<vote, voted>>
    BY <1>5 DEF ResolveEvent, UpsertContactChat, RecordSent,
                ListHistoricalLIDs, SkipLID, LearnMapping, LIDCrash, lidVars,
                tables, written
  <2>. QED  BY <1>2, <2>1
<1>. QED  BY <1>3, <1>4, <1>5 DEF LIDNext

\* Two rows with the same deletions and, if there are none, edits of the same
\* second show the same.
LEMMA AlikeShown ==
    ASSUME NEW told \in LIDFeeds, OneHistory(told),
           NEW m, m # NULL, Explained(m, told),
           NEW u, u # NULL, Explained(u, told),
           IsRevoked(m) <=> IsRevoked(u), IsDeleted(m) <=> IsDeleted(u),
           ~Tombstone(m) => Stamp(m) = Stamp(u)
    PROVE  Shown(m) = Shown(u)
<1>1. m \in Row /\ u \in Row /\ Hidden(m) /\ Hidden(u)
  BY DEF Explained
<1>2. u.revoked = m.revoked /\ u.deleted_for_me = m.deleted_for_me
  BY <1>1 DEF IsRevoked, IsDeleted, Row
<1>3. CASE Tombstone(m)
  <2>1. m.text = u.text /\ m.display_text = u.display_text /\ Tombstone(u)
    BY <1>1, <1>2, <1>3 DEF Hidden, Tombstone
  <2>. QED  BY <1>2, <1>3, <2>1 DEF Shown
<1>4. CASE ~Tombstone(m)
  <2>1. ~Tombstone(u) /\ u.edited_ts = m.edited_ts
    BY <1>2, <1>4 DEF Tombstone, Stamp
  <2>2. PICK b \in Bodies(told) : ~Tombstone(b) /\ Shows(m, b)
    BY <1>4 DEF Explained
  <2>3. PICK c \in Bodies(told) : ~Tombstone(c) /\ Shows(u, c)
    BY <2>1 DEF Explained
  <2>4. b.text = c.text /\ b.media = c.media
    <3>1. EditStamp(b) = EditStamp(c)
      BY <2>1, <2>2, <2>3 DEF Shows
    <3>. QED  BY <2>2, <2>3, <3>1 DEF OneHistory
  <2>5. DisplayOf(b) = DisplayOf(c)
    BY <2>2, <2>3, <2>4 DEF DisplayOf, Tombstone
  <2>6. m.text = u.text /\ m.display_text = u.display_text
    BY <2>2, <2>3, <2>4, <2>5 DEF Shows
  <2>. QED  BY <1>2, <1>4, <2>1, <2>6 DEF Shown
<1>. QED  BY <1>3, <1>4

\* A single row that is left shows what the row of one name shows.
LEMMA OneRowLeft ==
    ASSUME NEW told \in LIDFeeds, OneHistory(told), NEW m, NEW u, m # NULL,
           Explained(m, told), Explained(u, told), Joins(u, m, NULL)
    PROVE  Shown(m) = Shown(u)
<1>1. u # NULL
  BY DEF Joins
<1>2. /\ IsRevoked(m) <=> IsRevoked(u)
      /\ IsDeleted(m) <=> IsDeleted(u)
  BY DEF Joins, IsRevoked, IsDeleted
<1>3. ASSUME ~Tombstone(m)
      PROVE  Stamp(m) = Stamp(u)
  <2>1. ~IsRevoked(u) /\ ~IsDeleted(u)
    BY <1>2, <1>3 DEF Tombstone, IsRevoked, IsDeleted
  <2>2. Stamp(u) = Later(Stamp(m), Stamp(NULL))
    BY <2>1 DEF Joins
  <2>3. Stamp(NULL) = 0 /\ Stamp(m) \in Nat
    BY StampIsNat DEF Stamp
  <2>. QED  BY <2>2, <2>3 DEF Later
<1>. QED  BY <1>1, <1>2, <1>3, AlikeShown

\* UpsertMessage makes of a set of payloads one message: in either order two
\* payloads leave rows that show the same, and a replay changes nothing that
\* is shown (store/messages.go, ON CONFLICT), where an edit is told by its
\* second and a delete-for-me is no revocation.
THEOREM UpsertsConverge ==
    ASSUME NEW told \in LIDFeeds, OneHistory(told),
           NEW m, Explained(m, told),
           NEW b \in Bodies(told), NEW c \in Bodies(told)
    PROVE  /\ Shown(Upsert(Upsert(m, b), c)) = Shown(Upsert(Upsert(m, c), b))
           /\ Shown(Upsert(Upsert(m, b), b)) = Shown(Upsert(m, b))
<1>. DEFINE mb == Upsert(m, b)        mc == Upsert(m, c)
            mbc == Upsert(mb, c)      mcb == Upsert(mc, b)
            mbb == Upsert(mb, b)
<1>1. /\ mb # NULL /\ Explained(mb, told)
      /\ IsRevoked(mb) <=> IsRevoked(m) \/ b.revoked
      /\ IsDeleted(mb) <=> IsDeleted(m) \/ b.deleted_for_me
      /\ ~Tombstone(mb) => Stamp(mb) = Later(Stamp(m), EditStamp(b))
  BY UpsertJoins
<1>2. /\ mc # NULL /\ Explained(mc, told)
      /\ IsRevoked(mc) <=> IsRevoked(m) \/ c.revoked
      /\ IsDeleted(mc) <=> IsDeleted(m) \/ c.deleted_for_me
      /\ ~Tombstone(mc) => Stamp(mc) = Later(Stamp(m), EditStamp(c))
  BY UpsertJoins
<1>. HIDE DEF mb, mc
<1>3. /\ mbc # NULL /\ Explained(mbc, told)
      /\ IsRevoked(mbc) <=> IsRevoked(mb) \/ c.revoked
      /\ IsDeleted(mbc) <=> IsDeleted(mb) \/ c.deleted_for_me
      /\ ~Tombstone(mbc) => Stamp(mbc) = Later(Stamp(mb), EditStamp(c))
  BY <1>1, UpsertJoins
<1>4. /\ mcb # NULL /\ Explained(mcb, told)
      /\ IsRevoked(mcb) <=> IsRevoked(mc) \/ b.revoked
      /\ IsDeleted(mcb) <=> IsDeleted(mc) \/ b.deleted_for_me
      /\ ~Tombstone(mcb) => Stamp(mcb) = Later(Stamp(mc), EditStamp(b))
  BY <1>2, UpsertJoins
<1>5. /\ mbb # NULL /\ Explained(mbb, told)
      /\ IsRevoked(mbb) <=> IsRevoked(mb) \/ b.revoked
      /\ IsDeleted(mbb) <=> IsDeleted(mb) \/ b.deleted_for_me
      /\ ~Tombstone(mbb) => Stamp(mbb) = Later(Stamp(mb), EditStamp(b))
  BY <1>1, UpsertJoins
<1>. HIDE DEF mbc, mcb, mbb
<1>6. Stamp(m) \in Nat /\ EditStamp(b) \in Nat /\ EditStamp(c) \in Nat
  <2>1. b \in Content /\ c \in Content
    BY BodiesAreContent
  <2>. QED  BY <2>1, StampIsNat, LIDAssumption DEF EditStamp, Content
<1>7. Shown(mbc) = Shown(mcb)
  <2>1. /\ IsRevoked(mbc) <=> IsRevoked(mcb)
        /\ IsDeleted(mbc) <=> IsDeleted(mcb)
    BY <1>1, <1>2, <1>3, <1>4
  <2>2. ASSUME ~Tombstone(mbc)
        PROVE  Stamp(mbc) = Stamp(mcb)
    <3>1. ~Tombstone(mb) /\ ~Tombstone(mc) /\ ~Tombstone(mcb)
      BY <1>1, <1>2, <1>3, <1>4, <2>2 DEF IsRevoked, IsDeleted, Tombstone
    <3>2. /\ Stamp(mbc) = Later(Later(Stamp(m), EditStamp(b)), EditStamp(c))
          /\ Stamp(mcb) = Later(Later(Stamp(m), EditStamp(c)), EditStamp(b))
      BY <1>1, <1>2, <1>3, <1>4, <2>2, <3>1
    <3>. QED  BY <1>6, <3>2 DEF Later
  <2>. QED  BY <1>3, <1>4, <2>1, <2>2, AlikeShown
<1>8. Shown(mbb) = Shown(mb)
  <2>1. /\ IsRevoked(mbb) <=> IsRevoked(mb)
        /\ IsDeleted(mbb) <=> IsDeleted(mb)
    BY <1>1, <1>5
  <2>2. ASSUME ~Tombstone(mbb)
        PROVE  Stamp(mbb) = Stamp(mb)
    <3>1. ~Tombstone(mb)
      BY <1>1, <1>5, <2>2 DEF IsRevoked, IsDeleted, Tombstone
    <3>2. /\ Stamp(mbb) = Later(Stamp(mb), EditStamp(b))
          /\ Stamp(mb) = Later(Stamp(m), EditStamp(b))
      BY <1>1, <1>5, <2>2, <3>1
    <3>. QED  BY <1>6, <3>2 DEF Later
  <2>. QED  BY <1>1, <1>5, <2>1, <2>2, AlikeShown
<1>. QED  BY <1>7, <1>8 DEF mbc, mcb, mbb, mb, mc

\* The merge of store/lid_migration.go, written with rules of its own, is the
\* join that UpsertMessage computes: it does not matter which of the two rows
\* had the phone number, nor whether a payload came before the merge, under
\* either name, or after it.
THEOREM MergeIsJoin ==
    ASSUME NEW told \in LIDFeeds, OneHistory(told),
           NEW m, m # NULL, Explained(m, told),
           NEW x, x # NULL, Explained(x, told),
           NEW b \in Bodies(told)
    PROVE  /\ Shown(MigratedRow(m, x)) = Shown(MigratedRow(x, m))
           /\ Shown(MigratedRow(Upsert(m, b), x))
                = Shown(Upsert(MigratedRow(m, x), b))
<1>. DEFINE mx == MigratedRow(m, x)        xm == MigratedRow(x, m)
            mb == Upsert(m, b)
            early == MigratedRow(mb, x)    late == Upsert(mx, b)
<1>1. /\ mx # NULL /\ Explained(mx, told)
      /\ mx.revoked <=> m.revoked \/ x.revoked
      /\ mx.deleted_for_me <=> m.deleted_for_me \/ x.deleted_for_me
      /\ ~Tombstone(mx) => mx.edited_ts = Later(m.edited_ts, x.edited_ts)
  BY MigrationJoins
<1>2. /\ xm # NULL /\ Explained(xm, told)
      /\ xm.revoked <=> m.revoked \/ x.revoked
      /\ xm.deleted_for_me <=> m.deleted_for_me \/ x.deleted_for_me
      /\ ~Tombstone(xm) => xm.edited_ts = Later(x.edited_ts, m.edited_ts)
  BY MigrationJoins
<1>3. /\ mb # NULL /\ Explained(mb, told)
      /\ IsRevoked(mb) <=> IsRevoked(m) \/ b.revoked
      /\ IsDeleted(mb) <=> IsDeleted(m) \/ b.deleted_for_me
      /\ ~Tombstone(mb) => Stamp(mb) = Later(Stamp(m), EditStamp(b))
  BY UpsertJoins
<1>. HIDE DEF mx, xm, mb
<1>4. /\ early # NULL /\ Explained(early, told)
      /\ early.revoked <=> mb.revoked \/ x.revoked
      /\ early.deleted_for_me <=> mb.deleted_for_me \/ x.deleted_for_me
      /\ ~Tombstone(early) =>
           early.edited_ts = Later(mb.edited_ts, x.edited_ts)
  BY <1>3, MigrationJoins
<1>5. /\ late # NULL /\ Explained(late, told)
      /\ IsRevoked(late) <=> IsRevoked(mx) \/ b.revoked
      /\ IsDeleted(late) <=> IsDeleted(mx) \/ b.deleted_for_me
      /\ ~Tombstone(late) => Stamp(late) = Later(Stamp(mx), EditStamp(b))
  BY <1>1, UpsertJoins
<1>. HIDE DEF early, late
<1>6. m.edited_ts \in Nat /\ x.edited_ts \in Nat /\ EditStamp(b) \in Nat
  <2>1. b \in Content
    BY BodiesAreContent
  <2>2. EditStamp(b) \in Nat
    BY <2>1, LIDAssumption DEF EditStamp, Content
  <2>3. Stamp(m) \in Nat /\ Stamp(x) \in Nat
    BY StampIsNat
  <2>. QED  BY <2>2, <2>3 DEF Stamp
<1>7. Shown(mx) = Shown(xm)
  <2>1. /\ IsRevoked(mx) <=> IsRevoked(xm)
        /\ IsDeleted(mx) <=> IsDeleted(xm)
    BY <1>1, <1>2 DEF IsRevoked, IsDeleted
  <2>2. ASSUME ~Tombstone(mx)
        PROVE  Stamp(mx) = Stamp(xm)
    <3>1. ~Tombstone(xm)
      BY <1>1, <1>2, <2>2 DEF Tombstone
    <3>2. /\ Stamp(mx) = Later(m.edited_ts, x.edited_ts)
          /\ Stamp(xm) = Later(x.edited_ts, m.edited_ts)
      BY <1>1, <1>2, <2>2, <3>1 DEF Stamp
    <3>. QED  BY <1>6, <3>2 DEF Later
  <2>. QED  BY <1>1, <1>2, <2>1, <2>2, AlikeShown
<1>8. Shown(early) = Shown(late)
  <2>1. /\ IsRevoked(early) <=> IsRevoked(late)
        /\ IsDeleted(early) <=> IsDeleted(late)
    BY <1>1, <1>3, <1>4, <1>5 DEF IsRevoked, IsDeleted
  <2>2. ASSUME ~Tombstone(early)
        PROVE  Stamp(early) = Stamp(late)
    <3>1. ~Tombstone(mb) /\ ~Tombstone(mx) /\ ~Tombstone(late)
      BY <1>1, <1>3, <1>4, <1>5, <2>1, <2>2
      DEF Tombstone, IsRevoked, IsDeleted
    <3>2. /\ Stamp(early)
               = Later(Later(m.edited_ts, EditStamp(b)), x.edited_ts)
          /\ Stamp(late)
               = Later(Later(m.edited_ts, x.edited_ts), EditStamp(b))
      BY <1>1, <1>3, <1>4, <1>5, <2>2, <3>1 DEF Stamp
    <3>. QED  BY <1>6, <3>2 DEF Later
  <2>. QED  BY <1>4, <1>5, <2>1, <2>2, AlikeShown
<1>. QED  BY <1>7, <1>8 DEF mx, xm, mb, early, late

\* Merging what was stored under two names gives the message and the vote
\* that one name would have, whichever part came under which name, in
\* whatever order and however often (lid_migration.go), for feeds in which
\* an edit is told by its second: of two edits in one second each name may
\* keep another.
THEOREM MergesAsUnsplit ==
    ASSUME \A told \in LIDFeeds : OneHistory(told)
    PROVE  LIDSpec => []MergedAsUnsplit
<1>. DEFINE Inv == LIDShape /\ HandledInv /\ MergeInv /\ VotesInv
<1>1. LIDInit => Inv
  <2>. SUFFICES ASSUME LIDInit PROVE Inv
    OBVIOUS
  <2>1. LIDShape
    BY LIDInitInv DEF LIDInv
  <2>2. HandledInv
    BY DEF LIDInit, HandledInv, Unresolved
  <2>3. MergeInv
    BY DEF LIDInit, MergeInv, Explained, Joins, IsRevoked, IsDeleted, Stamp,
           Later, LIDNames
  <2>4. VotesInv
    BY DEF LIDInit, VotesInv, NoVoteRow
  <2>. QED  BY <2>1, <2>2, <2>3, <2>4
<1>2. Inv /\ [LIDNext]_lidVars => Inv'
  BY LIDShapeStep, HandledStep, MergeStep, VotesStep
<1>3. Inv => MergedAsUnsplit
  <2>. SUFFICES ASSUME Inv PROVE MergedAsUnsplit
    OBVIOUS
  <2>1. /\ contactFeed \in LIDFeeds /\ OneHistory(contactFeed)
        /\ Explained(row["lid"], contactFeed)
        /\ Explained(row["pn"], contactFeed)
        /\ Explained(unsplit, contactFeed)
        /\ Joins(unsplit, row["lid"], row["pn"])
    BY DEF HandledInv, MergeInv, LIDNames
  <2>2. ASSUME row["lid"] = NULL, row["pn"] # NULL
        PROVE  Shown(row["pn"]) = Shown(unsplit)
    <3>1. Joins(unsplit, row["pn"], NULL)
      BY <2>1, <2>2, JoinsEither
    <3>. QED  BY <2>1, <2>2, <3>1, OneRowLeft
  <2>3. ASSUME row["lid"] # NULL, row["pn"] = NULL
        PROVE  Shown(row["lid"]) = Shown(unsplit)
    BY <2>1, <2>3, OneRowLeft
  <2>4. \A b \in voted : Remembered(b)
    BY DEF VotesInv
  <2>. QED  BY <2>2, <2>3, <2>4 DEF MergedAsUnsplit, Remembered
<1>. QED  BY <1>1, <1>2, <1>3, PTL DEF LIDSpec

\* A row that is there is well typed, and blank if it is deleted.
Sound(m) == m # NULL => m \in Row /\ Hidden(m)

LIDTypes ==
    /\ LIDTypeOK
    /\ \A n \in LIDNames : Sound(row[n])
    /\ Sound(unsplit)

\* An event has the fields of its kind.
LEMMA EventFields ==
    ASSUME NEW e \in ContactEvents
    PROVE  /\ e.kind = "message" => e.body \in Content
           /\ e.kind = "poll" => e.options \subseteq PollOptions
           /\ e.kind = "vote" => e.ts \in Times /\ e.sel \subseteq PollOptions
           /\ e.kind = "reply" => e.quotes \in LIDNames
  BY DEF ContactEvents, Message, Poll, Vote, Call, CallDeleted, Star, Reply,
         Sent

\* The rows that are not in the contact's chat with it.
ElsewhereTyped ==
    /\ sent \subseteq LIDNames /\ raw \subseteq {"sent", "quoted"}
    /\ author \in LIDNames \cup {NULL} /\ quoted \in LIDNames \cup {NULL}

\* What storing a payload makes of a row, or of none, is well typed, and blank
\* if it is deleted.
LEMMA UpsertSound ==
    ASSUME NEW m, Sound(m), NEW b \in Content
    PROVE  Upsert(m, b) \in Row /\ Hidden(Upsert(m, b))
<1>1. Excluded(b) \in Row /\ Hidden(Excluded(b))
  BY ExcludedRow
<1>2. CASE m = NULL
  BY <1>1, <1>2 DEF Upsert
<1>3. CASE m # NULL
  <2>1. m \in Row /\ Hidden(m)
    BY <1>3 DEF Sound
  <2>. QED  BY <1>1, <1>3, <2>1, OnConflictRow, DeletionRow DEF Upsert
<1>. QED  BY <1>2, <1>3

\* The statement of an event that was resolved.
LEMMA WriteEventTyped ==
    ASSUME LIDTypes, NEW d \in LIDHandlers, WriteEvent(d)
    PROVE  LIDTypes'
<1>. DEFINE n == resolved[d].name   e == resolved[d].event
<1>1. n \in LIDNames /\ e \in ContactEvents
  BY DEF LIDTypes, LIDTypeOK
<1>. HIDE DEF n, e
<1>2. /\ e.kind = "message" => e.body \in Content
      /\ e.kind = "poll" => e.options \subseteq PollOptions
      /\ e.kind = "vote" => e.ts \in Times /\ e.sel \subseteq PollOptions
      /\ e.kind = "reply" => e.quotes \in LIDNames
  BY <1>1, EventFields
<1>3. /\ UNCHANGED <<mapped, known, migration, settled, contactFeed>>
      /\ resolved' = [resolved EXCEPT ![d] = Unresolved]
  BY DEF WriteEvent, HandlerDone
<1>4. resolved' \in [LIDHandlers -> [at : {"idle", "chat", "row"},
                                     name : LIDNames, event : ContactEvents]]
  BY <1>3 DEF LIDTypes, LIDTypeOK, Unresolved, LIDNames, ContactEvents
<1>5. ASSUME WriteMessage(n, e)
      PROVE  /\ row' \in [LIDNames -> Row \cup {NULL}]
             /\ \A k \in LIDNames : Sound(row'[k])
             /\ unsplit' \in Row /\ Sound(unsplit')
             /\ UNCHANGED <<options, vote, call, starred, voted>>
  <2>1. /\ row' = [row EXCEPT ![n] = Upsert(row[n], e.body)]
        /\ unsplit' = Upsert(unsplit, e.body)
        /\ UNCHANGED <<options, vote, call, starred, voted>>
    BY <1>5 DEF WriteMessage
  <2>2. /\ Upsert(row[n], e.body) \in Row /\ Sound(Upsert(row[n], e.body))
        /\ Upsert(unsplit, e.body) \in Row
        /\ Sound(Upsert(unsplit, e.body))
    <3>1. e.body \in Content /\ Sound(row[n]) /\ Sound(unsplit)
      BY <1>1, <1>2, <1>5 DEF WriteMessage, LIDTypes
    <3>. QED  BY <3>1, UpsertSound DEF Sound
  <2>3. row \in [LIDNames -> Row \cup {NULL}]
          /\ \A k \in LIDNames : Sound(row[k])
    BY DEF LIDTypes, LIDTypeOK
  <2>. QED  BY <1>1, <2>1, <2>2, <2>3
<1>6. ASSUME WriteContactPoll(n, e)
      PROVE  /\ options' \in [LIDNames -> SUBSET PollOptions]
             /\ UNCHANGED <<row, vote, call, starred, written>>
  BY <1>1, <1>2, <1>6 DEF WriteContactPoll, LIDTypes, LIDTypeOK
<1>7. ASSUME WriteContactVote(n, e)
      PROVE  /\ vote' \in [LIDNames -> [ts : Times \cup {0},
                                        sel : SUBSET PollOptions]]
             /\ voted' \subseteq ContactEvents
             /\ UNCHANGED <<row, options, call, starred, unsplit>>
  <2>1. /\ e.ts \in Times /\ e.sel \subseteq PollOptions
        /\ voted' = voted \cup {e}
        /\ UNCHANGED <<row, options, call, starred, unsplit>>
        /\ \/ vote' = vote
           \/ vote' = [vote EXCEPT ![n] = NoVoteRow]
           \/ vote' = [vote EXCEPT ![n] = [ts |-> e.ts, sel |-> e.sel]]
    BY <1>2, <1>7 DEF WriteContactVote
  <2>. QED  BY <1>1, <2>1 DEF LIDTypes, LIDTypeOK, NoVoteRow
<1>8. ASSUME \/ WriteCall(n, e) \/ ForeignKeyFails(n, e)
             \/ DeleteCall(n, e) \/ WriteStar(n, e) \/ WriteReply(n, e)
      PROVE  /\ call' \subseteq LIDNames /\ starred' \subseteq LIDNames
             /\ UNCHANGED <<row, options, vote, written>>
  BY <1>1, <1>8 DEF WriteCall, ForeignKeyFails, DeleteCall, WriteStar,
                    WriteReply, LIDTypes, LIDTypeOK, written
<1>9. /\ row' \in [LIDNames -> Row \cup {NULL}]
      /\ \A k \in LIDNames : Sound(row'[k])
      /\ unsplit' \in Row \cup {NULL} /\ Sound(unsplit')
      /\ options' \in [LIDNames -> SUBSET PollOptions]
      /\ vote' \in [LIDNames -> [ts : Times \cup {0},
                                 sel : SUBSET PollOptions]]
      /\ call' \subseteq LIDNames /\ starred' \subseteq LIDNames
      /\ voted' \subseteq ContactEvents
  BY <1>5, <1>6, <1>7, <1>8
  DEF WriteEvent, LIDTypes, LIDTypeOK, written, n, e
<1>10. ElsewhereTyped'
  <2>1. ElsewhereTyped
    BY DEF LIDTypes, LIDTypeOK, ElsewhereTyped
  <2>2. CASE WriteReply(n, e)
    BY <1>1, <1>2, <2>1, <2>2 DEF WriteReply, ElsewhereTyped
  <2>3. CASE UNCHANGED elsewhere
    BY <2>1, <2>3 DEF elsewhere, ElsewhereTyped
  <2>4. WriteReply(n, e) \/ UNCHANGED elsewhere
    BY DEF WriteEvent, WriteMessage, WriteCall, ForeignKeyFails, DeleteCall,
         WriteContactPoll, WriteContactVote, WriteStar, n, e
  <2>. QED  BY <2>2, <2>3, <2>4
<1>. QED  BY <1>3, <1>4, <1>9, <1>10 DEF LIDTypes, LIDTypeOK, ElsewhereTyped

\* The merge of the two names.
LEMMA MigrationTyped ==
    ASSUME LIDTypes, MigrateLIDToPN
    PROVE  LIDTypes'
<1>1. /\ UNCHANGED <<mapped, starred, resolved, written, contactFeed>>
      /\ migration' = "idle" /\ settled' \in BOOLEAN
  BY DEF MigrateLIDToPN
<1>2. known' \subseteq LIDNames /\ call' \subseteq LIDNames
  BY DEF MigrateLIDToPN, MigrateLIDChat, LIDTypes, LIDTypeOK, LIDNames
<1>3. /\ options' \in [LIDNames -> SUBSET PollOptions]
      /\ vote' \in [LIDNames -> [ts : Times \cup {0},
                                 sel : SUBSET PollOptions]]
  BY DEF MigrateLIDToPN, MigrateLIDPollsToPN, NewerVote, NoVoteRow,
         LIDTypes, LIDTypeOK, LIDNames
<1>4. /\ row' \in [LIDNames -> Row \cup {NULL}]
      /\ \A k \in LIDNames : Sound(row'[k])
  <2>. DEFINE m == row["pn"]   x == row["lid"]
              merged == IF x = NULL THEN m ELSE IF m = NULL THEN x
                        ELSE MigratedRow(m, x)
  <2>1. row' = [lid |-> NULL, pn |-> merged]
    BY DEF MigrateLIDToPN, MigrateLIDMessagesToPN
  <2>2. /\ Sound(m) /\ m \in Row \cup {NULL}
        /\ Sound(x) /\ x \in Row \cup {NULL}
    BY DEF LIDTypes, LIDTypeOK, LIDNames
  <2>. HIDE DEF m, x
  <2>3. merged \in Row \cup {NULL} /\ Sound(merged)
    BY <2>2, MigrationRow DEF Sound
  <2>. HIDE DEF merged
  <2>4. Sound(NULL)
    BY DEF Sound
  <2>. QED  BY <2>1, <2>3, <2>4 DEF LIDNames
<1>5. ElsewhereTyped'
  BY DEF MigrateLIDToPN, MigrateLIDMessagesToPN, MigrateLIDSenderToPN, ToPN,
         LIDTypes, LIDTypeOK, LIDNames, ElsewhereTyped
<1>. QED
  BY <1>1, <1>2, <1>3, <1>4, <1>5
  DEF LIDTypes, LIDTypeOK, written, ElsewhereTyped

\* Every table, record and history has values of its type, for all feeds.
THEOREM LIDTyped == LIDSpec => []LIDTypeOK
<1>1. LIDInit => LIDTypes
  <2>. SUFFICES ASSUME LIDInit PROVE LIDTypes
    OBVIOUS
  <2>1. row = [n \in LIDNames |-> NULL] /\ unsplit = NULL
    BY DEF LIDInit
  <2>2. resolved \in [LIDHandlers -> [at : {"idle", "chat", "row"},
                                      name : LIDNames,
                                      event : ContactEvents]]
    BY DEF LIDInit, Unresolved, LIDNames, ContactEvents
  <2>3. /\ options \in [LIDNames -> SUBSET PollOptions]
        /\ vote \in [LIDNames -> [ts : Times \cup {0},
                                  sel : SUBSET PollOptions]]
    BY DEF LIDInit, NoVoteRow
  <2>4. /\ mapped \in BOOLEAN /\ settled \in BOOLEAN
        /\ known \subseteq LIDNames /\ call \subseteq LIDNames
        /\ starred \subseteq LIDNames /\ migration \in {"idle", "listed"}
        /\ voted \subseteq ContactEvents /\ contactFeed \in LIDFeeds
        /\ ElsewhereTyped
    BY DEF LIDInit, ElsewhereTyped
  <2>. QED  BY <2>1, <2>2, <2>3, <2>4 DEF LIDTypes, LIDTypeOK, Sound,
                                          ElsewhereTyped
<1>2. LIDTypes /\ [LIDNext]_lidVars => LIDTypes'
  <2>. SUFFICES ASSUME LIDTypes, [LIDNext]_lidVars PROVE LIDTypes'
    OBVIOUS
  <2>1. ASSUME NEW d \in LIDHandlers, NEW e \in contactFeed,
               NEW n \in LIDNames, ResolveEvent(d, e, n)
        PROVE  LIDTypes'
    <3>1. e \in ContactEvents /\ CanonicalStoreJID(n) \in LIDNames
      BY LIDAssumption DEF LIDTypes, LIDTypeOK, CanonicalStoreJID, LIDNames
    <3>2. resolved' \in [LIDHandlers -> [at : {"idle", "chat", "row"},
                                         name : LIDNames,
                                         event : ContactEvents]]
      BY <2>1, <3>1 DEF ResolveEvent, LIDTypes, LIDTypeOK
    <3>. QED
      BY <2>1, <3>2 DEF ResolveEvent, LIDTypes, LIDTypeOK, tables, elsewhere,
                written
  <2>2. ASSUME NEW d \in LIDHandlers, UpsertContactChat(d)
        PROVE  LIDTypes'
    <3>1. /\ resolved' \in [LIDHandlers -> [at : {"idle", "chat", "row"},
                                            name : LIDNames,
                                            event : ContactEvents]]
          /\ known' \subseteq LIDNames
      BY <2>2 DEF UpsertContactChat, LIDTypes, LIDTypeOK
    <3>. QED
      BY <2>2, <3>1
      DEF UpsertContactChat, LIDTypes, LIDTypeOK, elsewhere, written
  <2>3. ASSUME NEW d \in LIDHandlers, WriteEvent(d)
        PROVE  LIDTypes'
    BY <2>3, WriteEventTyped
  <2>4. CASE ListHistoricalLIDs \/ SkipLID \/ LearnMapping
    BY <2>4 DEF ListHistoricalLIDs, SkipLID, LearnMapping, LIDTypes,
                LIDTypeOK, tables, elsewhere,
                written
  <2>5. CASE MigrateLIDToPN
    BY <2>5, MigrationTyped
  <2>6. CASE LIDCrash
    BY <2>6 DEF LIDCrash, LIDTypes, LIDTypeOK, tables, elsewhere, written,
                Unresolved, LIDNames, ContactEvents
  <2>7. CASE UNCHANGED lidVars
    BY <2>7 DEF lidVars, LIDTypes, LIDTypeOK, tables, elsewhere,
                written
  <2>8. ASSUME NEW n \in LIDNames, RecordSent(n)
        PROVE  LIDTypes'
    BY <2>8 DEF RecordSent, LIDTypes, LIDTypeOK, written
  <2>. QED
    BY <2>1, <2>2, <2>3, <2>4, <2>5, <2>6, <2>7, <2>8 DEF LIDNext
<1>. QED  BY <1>1, <1>2, PTL DEF LIDSpec, LIDTypes

-----------------------------------------------------------------------------
(* Directory.                                                              *)

\* The rows and the records of those who write them have values of their
\* types.
RowsTyped ==
    /\ groupRow \in [Groups -> GroupRows]
    /\ groupChat \in [Groups -> Ages] /\ lastMessage \in [Groups -> Ages]
    /\ profile \in [Groups -> AnyName]

\* (With no groups at all the idle record names an arbitrary one.)
EventStates == [at : {"idle", "info", "row"},
                group : Groups \cup {EventIdle.group}, name : AnyName]

WritersTyped ==
    /\ refresh \in [at : {"idle", "upsert", "mark"}, list : SUBSET Groups,
                    names : [Groups -> AnyName], todo : SUBSET Groups]
    /\ groupEvent \in [GroupHandlers -> EventStates]
    /\ \A d \in GroupHandlers :
         groupEvent[d].at # "idle" => groupEvent[d].group \in Groups
    /\ command \in [op : {"none", "persist", "leave", "prune"},
                    groups : SUBSET Groups]
    /\ member \subseteq Groups

ContactTyped ==
    contact \in [stored : BOOLEAN, whatsapp : AnyName, system : AnyName,
                 alias : AnyName]

\* The store lock keeps a command from a sync process' handlers, and a command
\* that is under way from a refresh.
LockInv ==
    /\ command # NoGroupCommand => dirLock = "command" /\ refresh.at = "idle"
    /\ \A d \in GroupHandlers : groupEvent[d].at # "idle" => dirLock = "sync"
    /\ refresh.at # "idle" => dirLock # "free"

\* The groups `groups prune` has yet to delete are still to be deleted.
Spent(g) == \/ groupRow[g].left # NEVER
            \/ groupChat[g] # RECENT /\ lastMessage[g] # RECENT

PruneInv ==
    command.op = "prune" =>
        \A g \in command.groups : groupRow[g].stored => Spent(g)

\* How far a refresh has come, for every row it may still rely on.
RefreshInv ==
    /\ refresh.at = "upsert" =>
         \A g \in refresh.list \ (refresh.todo \cup touched) :
             groupRow[g].left = NEVER
    /\ refresh.at = "mark" =>
         /\ refresh.todo \cap refresh.list = {}
         /\ \A g \in Groups \ touched :
              groupRow[g].stored =>
                /\ g \in refresh.list \cup refresh.todo
                     => groupRow[g].left = NEVER
                /\ g \notin refresh.list \cup refresh.todo
                     => groupRow[g].left # NEVER

\* An idle handler's record is one of a handler's records.
LEMMA IdleEvent == EventIdle \in EventStates /\ EventIdle.at = "idle"
BY DEF EventIdle, EventStates, AnyName

\* UpsertGroup stores the row as joined, keeps a name it has, and leaves the
\* other rows.
LEMMA UpsertGroupTyped ==
    ASSUME RowsTyped, NEW g \in Groups, NEW n \in AnyName, UpsertGroup(g, n)
    PROVE  /\ groupRow' \in [Groups -> GroupRows]
           /\ groupRow'[g].stored /\ groupRow'[g].left = NEVER
           /\ groupRow[g].name # NoName => groupRow'[g].name # NoName
           /\ \A h \in Groups \ {g} : groupRow'[h] = groupRow[h]
<1>. DEFINE new == [name |-> KeepName(groupRow[g].name, n), left |-> NEVER,
                    stored |-> TRUE]
<1>1. new \in GroupRows
  BY DEF RowsTyped, GroupRows, KeepName, Ages, NEVER
<1>2. groupRow' = [groupRow EXCEPT ![g] = new]
  BY DEF UpsertGroup
<1>3. groupRow[g].name # NoName => new.name # NoName
  BY DEF KeepName
<1>4. new.stored /\ new.left = NEVER
  OBVIOUS
<1>. HIDE DEF new
<1>. QED  BY <1>1, <1>2, <1>3, <1>4 DEF RowsTyped

\* MarkGroupLeft changes nothing but the time the group was left.
LEMMA MarkLeftTyped ==
    ASSUME RowsTyped, NEW g \in Groups, MarkLeft(g)
    PROVE  /\ groupRow' \in [Groups -> GroupRows]
           /\ groupRow'[g].stored = groupRow[g].stored
           /\ groupRow'[g].left = RECENT
           /\ groupRow'[g].name = groupRow[g].name
           /\ \A h \in Groups \ {g} : groupRow'[h] = groupRow[h]
BY DEF MarkLeft, RowsTyped, GroupRows, Ages, RECENT

\* UpsertChat keeps the newest age.
LEMMA UpsertGroupChatTyped ==
    ASSUME RowsTyped, NEW g \in Groups, NEW age \in Ages,
           UpsertGroupChat(g, age)
    PROVE  groupChat' \in [Groups -> Ages]
BY DEF UpsertGroupChat, RowsTyped

\* Time makes no row recent, and none of them joined or left.
LEMMA TimePassesTyped ==
    ASSUME RowsTyped, TimePassesBy
    PROVE  /\ RowsTyped'
           /\ \A g \in Groups : /\ groupRow'[g].stored = groupRow[g].stored
                                /\ groupRow'[g].name = groupRow[g].name
                                /\ groupRow'[g].left = Aged(groupRow[g].left)
                                /\ groupChat'[g] # RECENT
                                /\ lastMessage'[g] # RECENT
<1>1. \A age \in Ages : Aged(age) \in Ages /\ Aged(age) # RECENT
  BY DEF Ages, Aged, NEVER, OLD, RECENT
<1>2. \A g \in Groups : groupRow[g] \in GroupRows
  BY DEF RowsTyped
<1>3. \A g \in Groups :
        [groupRow[g] EXCEPT !.left = Aged(groupRow[g].left)] \in GroupRows
  BY <1>1, <1>2 DEF GroupRows
<1>. QED  BY <1>1, <1>2, <1>3 DEF TimePassesBy, RowsTyped, whatsapp, GroupRows

\* Every step keeps the rows well-typed.
LEMMA RowsTypedStep ==
    RowsTyped /\ WritersTyped /\ [DirectoryNext]_directoryVars => RowsTyped'
<1>. SUFFICES ASSUME RowsTyped, WritersTyped, [DirectoryNext]_directoryVars
              PROVE  RowsTyped'
  OBVIOUS
<1>. DEFINE Same == UNCHANGED <<rowsOfGroups, profile>>
<1>0. Same => RowsTyped'
  BY DEF rowsOfGroups, RowsTyped
<1>1. ASSUME NEW g \in Groups, JoinOrLeave(g) PROVE RowsTyped'
  BY <1>0, <1>1 DEF JoinOrLeave, StoreUnchanged
<1>2. ASSUME NEW g \in Groups, NEW n \in AnyName, RenameOnPhone(g, n)
      PROVE  RowsTyped'
  BY <1>2 DEF RenameOnPhone, StoreUnchanged, rowsOfGroups, RowsTyped
<1>3. CASE TimePassesBy
  BY <1>3, TimePassesTyped
<1>4. CASE OpenDirectory \/ CloseDirectory \/ PruneEnds
           \/ UNCHANGED directoryVars
  BY <1>0, <1>4 DEF OpenDirectory, CloseDirectory, PruneEnds, whatsapp,
                    directoryVars
<1>5. CASE GetJoinedGroups \/ ListJoinedGroupJIDs \/ RefreshEnds
           \/ RefreshFails
  BY <1>0, <1>5 DEF GetJoinedGroups, ListJoinedGroupJIDs, RefreshEnds,
                    RefreshFails, RefreshStep, whatsapp, rowsOfGroups
<1>6. ASSUME NEW g \in Groups, RefreshGroup(g) PROVE RowsTyped'
  <2>1. lastMessage' = lastMessage /\ profile' = profile
    BY <1>6 DEF RefreshGroup, RefreshStep, whatsapp
  <2>2. groupChat' \in [Groups -> Ages]
    BY <1>6, UpsertGroupChatTyped DEF RefreshGroup, Ages
  <2>3. refresh.names[g] \in AnyName
    BY DEF WritersTyped
  <2>4. groupRow' \in [Groups -> GroupRows]
    BY <1>6, <2>3, UpsertGroupTyped DEF RefreshGroup, Fails, RowsTyped
  <2>. QED  BY <2>1, <2>2, <2>4 DEF RowsTyped
<1>7. ASSUME NEW g \in Groups, MarkGroupLeft(g) PROVE RowsTyped'
  BY <1>7, MarkLeftTyped DEF MarkGroupLeft, RefreshStep, whatsapp, RowsTyped
<1>8. ASSUME NEW d \in GroupHandlers, NEW g \in Groups,
             NEW age \in {OLD, RECENT}, StoreGroupMessage(d, g, age)
      PROVE  RowsTyped'
  <2>1. age \in Ages
    BY DEF Ages
  <2>2. groupRow' = groupRow /\ profile' = profile
    BY <1>8 DEF StoreGroupMessage, EventStep
  <2>3. groupChat' \in [Groups -> Ages]
    BY <1>8, <2>1, UpsertGroupChatTyped DEF StoreGroupMessage
  <2>4. lastMessage' \in [Groups -> Ages]
    BY <1>8, <2>1 DEF StoreGroupMessage, RowsTyped
  <2>. QED  BY <2>2, <2>3, <2>4 DEF RowsTyped
<1>9. ASSUME NEW d \in GroupHandlers, GetGroupInfo(d) PROVE RowsTyped'
  BY <1>0, <1>9 DEF GetGroupInfo, EventStep
<1>10. ASSUME NEW d \in GroupHandlers, WriteGroupInfo(d) PROVE RowsTyped'
  <2>1. UNCHANGED <<groupChat, lastMessage, profile>>
    BY <1>10 DEF WriteGroupInfo, EventStep
  <2>2. groupEvent[d].group \in Groups /\ groupEvent[d].name \in AnyName
    BY <1>10 DEF WriteGroupInfo, WritersTyped, EventStates
  <2>3. groupRow' \in [Groups -> GroupRows]
    BY <1>10, <2>2, UpsertGroupTyped DEF WriteGroupInfo, Fails, RowsTyped
  <2>. QED  BY <2>1, <2>3 DEF RowsTyped
<1>11. ASSUME NEW g \in Groups,
              \/ ShowGroupInfo(g) \/ SetGroupTopic(g) \/ ToggleGroup(g)
              \/ UpdateRequests(g) \/ JoinGroup(g)
       PROVE  RowsTyped'
  BY <1>0, <1>11 DEF ShowGroupInfo, SetGroupTopic, ToggleGroup,
                     UpdateRequests, JoinGroup, AskFirst, whatsapp
<1>12. ASSUME NEW g \in Groups, NEW n \in Subjects,
              RenameGroup(g, n) \/ CreateGroup(g, n)
       PROVE  RowsTyped'
  BY <1>12 DEF RenameGroup, CreateGroup, AskFirst, rowsOfGroups, RowsTyped,
               AnyName
<1>13. ASSUME NEW g \in Groups, NEW self \in BOOLEAN,
              UpdateParticipants(g, self)
       PROVE  RowsTyped'
  BY <1>0, <1>13 DEF UpdateParticipants, AskFirst
<1>14. ASSUME NEW g \in Groups, PersistGroupInfo(g) PROVE RowsTyped'
  <2>1. UNCHANGED <<groupChat, lastMessage, profile>>
    BY <1>14 DEF PersistGroupInfo, whatsapp
  <2>2. profile[g] \in AnyName
    BY DEF RowsTyped
  <2>3. groupRow' \in [Groups -> GroupRows]
    BY <1>14, <2>2, UpsertGroupTyped DEF PersistGroupInfo, RowsTyped
  <2>. QED  BY <2>1, <2>3 DEF RowsTyped
<1>15. ASSUME NEW g \in Groups, LeaveGroup(g) PROVE RowsTyped'
  BY <1>0, <1>15 DEF LeaveGroup
<1>16. ASSUME NEW g \in Groups, WriteLeft(g) PROVE RowsTyped'
  <2>1. UNCHANGED <<groupChat, lastMessage, profile>>
    BY <1>16 DEF WriteLeft, whatsapp
  <2>2. groupRow' \in [Groups -> GroupRows]
    BY <1>16, MarkLeftTyped DEF WriteLeft, RowsTyped
  <2>. QED  BY <2>1, <2>2 DEF RowsTyped
<1>17. ASSUME NEW days \in BOOLEAN, NEW includeActive \in BOOLEAN,
              ListPrunableGroups(days, includeActive)
       PROVE  RowsTyped'
  BY <1>0, <1>17 DEF ListPrunableGroups, whatsapp
<1>18. ASSUME NEW g \in Groups, DeleteGroupLocalData(g) PROVE RowsTyped'
  <2>1. NoGroup \in GroupRows /\ NEVER \in Ages
    BY DEF NoGroup, GroupRows, AnyName, Ages
  <2>. QED  BY <1>18, <2>1 DEF DeleteGroupLocalData, whatsapp, rowsOfGroups,
                             RowsTyped
<1>19. CASE ContactsNext
  BY <1>0, <1>19 DEF ContactsNext, OpenDirectory, CloseDirectory,
       RefreshContact, StoreSender, ImportSystemName, SetAlias,
       ClearSystemNames, RemoveAlias, ContactCommand, ContactStep, whatsapp
<1>. HIDE DEF Same
<1>. QED
  BY <1>1, <1>2, <1>3, <1>4, <1>5, <1>6, <1>7, <1>8, <1>9, <1>10, <1>11,
     <1>12, <1>13, <1>14, <1>15, <1>16, <1>17, <1>18, <1>19
     DEF DirectoryNext, GroupsNext

\* Steps of a command on one group that only ask WhatsApp.
Asks(g) ==
    \/ ShowGroupInfo(g) \/ SetGroupTopic(g) \/ ToggleGroup(g)
    \/ UpdateRequests(g) \/ JoinGroup(g)
    \/ \E n \in Subjects : RenameGroup(g, n) \/ CreateGroup(g, n)
    \/ \E self \in BOOLEAN : UpdateParticipants(g, self)

\* A command that asks WhatsApp finds no other command and no refresh under
\* way, and changes no row yet.
LEMMA AskMoves ==
    ASSUME NEW g \in Groups, Asks(g)
    PROVE  /\ dirLock = "command" /\ command.op = "none"
           /\ refresh.at = "idle"
           /\ command' = [op |-> "persist", groups |-> {g}]
           /\ UNCHANGED <<rowsOfGroups, contact, dirLock, refresh, groupEvent,
                          touched>>
           /\ WritersTyped => member' \subseteq Groups
<1>1. AskFirst(g) => /\ dirLock = "command" /\ command.op = "none"
                     /\ refresh.at = "idle"
                     /\ command' = [op |-> "persist", groups |-> {g}]
                     /\ UNCHANGED <<rowsOfGroups, contact, dirLock, refresh,
                                    groupEvent, touched>>
  BY DEF AskFirst, Commanding, Refreshing, GroupCommandStep
<1>. QED
  BY <1>1 DEF Asks, ShowGroupInfo, SetGroupTopic, ToggleGroup, UpdateRequests,
              JoinGroup, RenameGroup, CreateGroup, UpdateParticipants,
              WritersTyped, whatsapp

\* Steps of a contact's commands and events.
LEMMA ContactMoves ==
    ASSUME ContactsNext
    PROVE  \/ OpenDirectory \/ CloseDirectory
           \/ UNCHANGED <<whatsapp, rowsOfGroups, dirLock, refresh,
                          groupEvent, command, touched>>
BY DEF ContactsNext, RefreshContact, StoreSender, ImportSystemName, SetAlias,
       ClearSystemNames, RemoveAlias, ContactCommand, ContactStep

\* The steps of the specification, with those that touch neither the rows nor
\* their writers as one case.
LEMMA DirectorySteps ==
    ASSUME [DirectoryNext]_directoryVars
    PROVE  \/ TimePassesBy \/ OpenDirectory \/ CloseDirectory
           \/ GetJoinedGroups \/ ListJoinedGroupJIDs \/ RefreshEnds
           \/ RefreshFails \/ PruneEnds
           \/ \E g \in Groups : RefreshGroup(g) \/ MarkGroupLeft(g)
           \/ \E d \in GroupHandlers, g \in Groups, age \in {OLD, RECENT} :
                StoreGroupMessage(d, g, age)
           \/ \E d \in GroupHandlers : GetGroupInfo(d) \/ WriteGroupInfo(d)
           \/ \E g \in Groups : Asks(g)
           \/ \E g \in Groups : \/ PersistGroupInfo(g) \/ LeaveGroup(g)
                                \/ WriteLeft(g) \/ DeleteGroupLocalData(g)
           \/ \E days \in BOOLEAN, includeActive \in BOOLEAN :
                ListPrunableGroups(days, includeActive)
           \/ /\ UNCHANGED <<rowsOfGroups, dirLock, refresh, groupEvent,
                             command, touched>>
              /\ WritersTyped => member' \subseteq Groups
<1>1. ASSUME NEW g \in Groups, JoinOrLeave(g)
      PROVE  /\ UNCHANGED <<rowsOfGroups, dirLock, refresh, groupEvent,
                            command, touched>>
             /\ WritersTyped => member' \subseteq Groups
  BY <1>1 DEF JoinOrLeave, StoreUnchanged, WritersTyped
<1>2. ASSUME NEW g \in Groups, NEW n \in AnyName, RenameOnPhone(g, n)
      PROVE  /\ UNCHANGED <<rowsOfGroups, dirLock, refresh, groupEvent,
                            command, touched>>
             /\ WritersTyped => member' \subseteq Groups
  BY <1>2 DEF RenameOnPhone, StoreUnchanged, WritersTyped
<1>3. CASE UNCHANGED directoryVars
  BY <1>3 DEF directoryVars, whatsapp, WritersTyped
<1>4. CASE ContactsNext
  BY <1>4, ContactMoves DEF whatsapp, WritersTyped
<1>5. CASE GroupsNext
  BY <1>1, <1>2, <1>5 DEF GroupsNext, Asks
<1>. QED  BY <1>3, <1>4, <1>5 DEF DirectoryNext

\* Every step keeps the store lock's promise.
LEMMA LockInvStep ==
    ASSUME WritersTyped, LockInv, [DirectoryNext]_directoryVars
    PROVE  LockInv'
<1>1. CASE OpenDirectory \/ CloseDirectory
  BY <1>1 DEF OpenDirectory, CloseDirectory, LockInv, RefreshIdle, EventIdle,
              NoGroupCommand
<1>2. CASE TimePassesBy \/ UNCHANGED <<rowsOfGroups, dirLock, refresh,
                                       groupEvent, command, touched>>
  BY <1>2 DEF TimePassesBy, LockInv
<1>3. CASE \/ GetJoinedGroups \/ ListJoinedGroupJIDs \/ RefreshEnds
           \/ RefreshFails
           \/ \E g \in Groups : RefreshGroup(g) \/ MarkGroupLeft(g)
  <2>1. /\ command = NoGroupCommand /\ command' = command
        /\ dirLock # "free" /\ dirLock' = dirLock /\ groupEvent' = groupEvent
    BY <1>3 DEF GetJoinedGroups, ListJoinedGroupJIDs, RefreshEnds,
                RefreshFails, RefreshGroup, MarkGroupLeft, RefreshStep,
                Refreshing, LockInv
  <2>. QED  BY <2>1 DEF LockInv
<1>4. ASSUME NEW d \in GroupHandlers,
             \/ GetGroupInfo(d) \/ WriteGroupInfo(d)
             \/ \E g \in Groups, age \in {OLD, RECENT} :
                  StoreGroupMessage(d, g, age)
      PROVE  LockInv'
  <2>1. /\ dirLock = "sync" /\ UNCHANGED <<dirLock, refresh, command>>
        /\ \A c \in GroupHandlers \ {d} : groupEvent'[c] = groupEvent[c]
    BY <1>4 DEF GetGroupInfo, WriteGroupInfo, StoreGroupMessage, EventStep,
                LockInv, WritersTyped
  <2>. QED  BY <2>1 DEF LockInv
<1>5. ASSUME NEW g \in Groups, Asks(g)
      PROVE  LockInv'
  BY <1>5, AskMoves DEF LockInv
<1>6. CASE \/ \E g \in Groups : \/ PersistGroupInfo(g) \/ LeaveGroup(g)
                                \/ WriteLeft(g) \/ DeleteGroupLocalData(g)
           \/ \E days \in BOOLEAN, includeActive \in BOOLEAN :
                ListPrunableGroups(days, includeActive)
           \/ PruneEnds
  <2>1. /\ dirLock = "command" /\ refresh.at = "idle"
        /\ UNCHANGED <<dirLock, refresh, groupEvent>>
    BY <1>6 DEF PersistGroupInfo, LeaveGroup, WriteLeft, DeleteGroupLocalData,
                ListPrunableGroups, PruneEnds, GroupCommandStep, Commanding,
                Refreshing, LockInv, NoGroupCommand
  <2>. QED  BY <2>1 DEF LockInv
<1>. QED  BY <1>1, <1>2, <1>3, <1>4, <1>5, <1>6, DirectorySteps

\* Every step keeps the records of those who write the rows well-typed.
LEMMA WritersTypedStep ==
    ASSUME RowsTyped, WritersTyped, [DirectoryNext]_directoryVars
    PROVE  WritersTyped'
<1>. DEFINE Refreshes ==
       refresh \in [at : {"idle", "upsert", "mark"}, list : SUBSET Groups,
                    names : [Groups -> AnyName], todo : SUBSET Groups]
     Events ==
       /\ groupEvent \in [GroupHandlers -> EventStates]
       /\ \A d \in GroupHandlers :
            groupEvent[d].at # "idle" => groupEvent[d].group \in Groups
     Commands ==
       command \in [op : {"none", "persist", "leave", "prune"},
                    groups : SUBSET Groups]
     Members == member \subseteq Groups
<1>0. WritersTyped <=> Refreshes /\ Events /\ Commands /\ Members
  BY DEF WritersTyped
<1>1. CASE OpenDirectory \/ TimePassesBy
  BY <1>1 DEF OpenDirectory, TimePassesBy, whatsapp, WritersTyped
<1>2. CASE CloseDirectory
  <2>1. Refreshes'
    BY <1>2 DEF CloseDirectory, RefreshIdle, AnyName
  <2>2. Events'
    BY <1>2, IdleEvent DEF CloseDirectory
  <2>3. Commands' /\ Members'
    BY <1>2 DEF CloseDirectory, NoGroupCommand, whatsapp,
           WritersTyped, EventStates
  <2>. QED  BY <2>1, <2>2, <2>3 DEF WritersTyped
<1>3. CASE \/ GetJoinedGroups \/ ListJoinedGroupJIDs \/ RefreshEnds
           \/ RefreshFails
           \/ \E g \in Groups : RefreshGroup(g) \/ MarkGroupLeft(g)
  <2>1. Events' /\ Commands' /\ Members'
    <3>1. UNCHANGED <<groupEvent, command, member>>
      BY <1>3 DEF GetJoinedGroups, ListJoinedGroupJIDs, RefreshEnds,
                  RefreshFails, RefreshGroup, MarkGroupLeft, RefreshStep,
                  whatsapp
    <3>. QED  BY <3>1 DEF WritersTyped
  <2>2. CASE GetJoinedGroups
    <3>1. Refreshes'
      BY <2>2 DEF GetJoinedGroups, WritersTyped, RowsTyped
    <3>. QED  BY <2>1, <3>1 DEF WritersTyped
  <2>3. CASE ListJoinedGroupJIDs
    <3>1. Missing \subseteq Groups
      BY DEF Missing
    <3>2. Refreshes'
      BY <2>3, <3>1 DEF ListJoinedGroupJIDs, WritersTyped
    <3>. QED  BY <2>1, <3>2 DEF WritersTyped
  <2>4. CASE RefreshEnds \/ RefreshFails
    <3>1. Refreshes'
      BY <2>4 DEF RefreshEnds, RefreshFails, RefreshIdle, AnyName
    <3>. QED  BY <2>1, <3>1 DEF WritersTyped
  <2>5. CASE \E g \in Groups : RefreshGroup(g) \/ MarkGroupLeft(g)
    <3>1. Refreshes'
      BY <2>5 DEF RefreshGroup, MarkGroupLeft, WritersTyped
    <3>. QED  BY <2>1, <3>1 DEF WritersTyped
  <2>. QED  BY <1>3, <2>2, <2>3, <2>4, <2>5
<1>4. ASSUME NEW d \in GroupHandlers,
             \/ GetGroupInfo(d) \/ WriteGroupInfo(d)
             \/ \E g \in Groups, age \in {OLD, RECENT} :
                  StoreGroupMessage(d, g, age)
      PROVE  WritersTyped'
  <2>1. Refreshes' /\ Commands' /\ Members'
    <3>1. UNCHANGED <<refresh, command, member>>
      BY <1>4 DEF GetGroupInfo, WriteGroupInfo, StoreGroupMessage, EventStep
    <3>. QED  BY <3>1 DEF WritersTyped
  <2>2. CASE \E g \in Groups, age \in {OLD, RECENT} :
               StoreGroupMessage(d, g, age)
    <3>1. Events'
      BY <2>2 DEF StoreGroupMessage, WritersTyped, EventStates, AnyName
    <3>. QED  BY <2>1, <3>1 DEF WritersTyped
  <2>3. CASE GetGroupInfo(d)
    <3>1. groupEvent[d].group \in Groups /\ groupEvent[d].name \in AnyName
      BY <2>3 DEF GetGroupInfo, WritersTyped, EventStates
    <3>2. profile[groupEvent[d].group] \in AnyName
      BY <3>1 DEF RowsTyped
    <3>. DEFINE v == [groupEvent[d] EXCEPT
                        !.at = "row", !.name = profile[groupEvent[d].group]]
    <3>3. groupEvent[d] \in EventStates
      BY DEF WritersTyped
    <3>4. v \in EventStates /\ v.group = groupEvent[d].group
      BY <3>2, <3>3 DEF EventStates
    <3>5. \/ groupEvent' = [groupEvent EXCEPT ![d] = v]
          \/ groupEvent' = [groupEvent EXCEPT ![d] = EventIdle]
      BY <2>3 DEF GetGroupInfo
    <3>. HIDE DEF v
    <3>6. Events'
      BY <3>1, <3>4, <3>5, IdleEvent DEF WritersTyped
    <3>. QED  BY <2>1, <3>6 DEF WritersTyped
  <2>4. CASE WriteGroupInfo(d)
    <3>1. Events'
      BY <2>4, IdleEvent DEF WriteGroupInfo, WritersTyped
    <3>. QED  BY <2>1, <3>1 DEF WritersTyped
  <2>. QED  BY <1>4, <2>2, <2>3, <2>4
<1>5. ASSUME NEW g \in Groups, Asks(g)
      PROVE  WritersTyped'
  BY <1>5, AskMoves DEF WritersTyped
<1>6. CASE \/ \E g \in Groups : \/ PersistGroupInfo(g) \/ LeaveGroup(g)
                                \/ WriteLeft(g) \/ DeleteGroupLocalData(g)
           \/ \E days \in BOOLEAN, includeActive \in BOOLEAN :
                ListPrunableGroups(days, includeActive)
           \/ PruneEnds
  <2>1. Refreshes' /\ Events'
    <3>1. UNCHANGED <<refresh, groupEvent>>
      BY <1>6 DEF PersistGroupInfo, LeaveGroup, WriteLeft,
                  DeleteGroupLocalData, ListPrunableGroups, PruneEnds,
                  GroupCommandStep
    <3>. QED  BY <3>1 DEF WritersTyped
  <2>2. Commands' /\ Members'
    BY <1>6 DEF PersistGroupInfo, LeaveGroup, WriteLeft, DeleteGroupLocalData,
                ListPrunableGroups, PruneEnds, NoGroupCommand, whatsapp,
                WritersTyped
  <2>. QED  BY <2>1, <2>2 DEF WritersTyped
<1>7. CASE /\ UNCHANGED <<rowsOfGroups, dirLock, refresh, groupEvent,
                          command, touched>>
           /\ WritersTyped => member' \subseteq Groups
  BY <1>7 DEF WritersTyped
<1>. HIDE DEF Refreshes, Events, Commands, Members
<1>. QED  BY <1>1, <1>2, <1>3, <1>4, <1>5, <1>6, <1>7, DirectorySteps

\* A command on one group, and which rows it can change.
LEMMA CommandMoves ==
    ASSUME RowsTyped, WritersTyped, NEW g \in Groups,
           \/ PersistGroupInfo(g) \/ LeaveGroup(g)
           \/ WriteLeft(g) \/ DeleteGroupLocalData(g)
    PROVE  /\ dirLock = "command" /\ UNCHANGED <<refresh, touched>>
           /\ command.op # "prune" => command'.op # "prune"
           /\ \A h \in Groups \ {g} : groupRow'[h] = groupRow[h]
           /\ \A h \in Groups \ {g} : /\ groupChat'[h] = groupChat[h]
                                      /\ lastMessage'[h] = lastMessage[h]
<1>1. CASE PersistGroupInfo(g)
  <2>1. profile[g] \in AnyName
    BY DEF RowsTyped
  <2>2. \A h \in Groups \ {g} : groupRow'[h] = groupRow[h]
    BY <1>1, <2>1, UpsertGroupTyped DEF PersistGroupInfo
  <2>. QED  BY <1>1, <2>2 DEF PersistGroupInfo, Commanding, GroupCommandStep,
                            NoGroupCommand
<1>2. CASE LeaveGroup(g)
  BY <1>2 DEF LeaveGroup, Commanding, GroupCommandStep, rowsOfGroups
<1>3. CASE WriteLeft(g)
  <2>1. \A h \in Groups \ {g} : groupRow'[h] = groupRow[h]
    BY <1>3, MarkLeftTyped DEF WriteLeft
  <2>. QED  BY <1>3, <2>1 DEF WriteLeft, Commanding, GroupCommandStep,
                            NoGroupCommand
<1>4. CASE DeleteGroupLocalData(g)
  BY <1>4 DEF DeleteGroupLocalData, Commanding, GroupCommandStep,
              rowsOfGroups, RowsTyped
<1>. QED  BY <1>1, <1>2, <1>3, <1>4

\* What was listed to be pruned stays prunable until it is deleted: a sync
\* process cannot run, and time only makes a group older.
LEMMA PruneInvStep ==
    ASSUME RowsTyped, WritersTyped, LockInv, PruneInv,
           [DirectoryNext]_directoryVars
    PROVE  PruneInv'
<1>. SUFFICES ASSUME command'.op = "prune", NEW g \in command'.groups,
                     groupRow'[g].stored
              PROVE  Spent(g)'
  BY DEF PruneInv
<1>0. g \in Groups /\ NoGroupCommand.op = "none"
  BY WritersTypedStep DEF WritersTyped, NoGroupCommand
<1>1. CASE CloseDirectory \/ PruneEnds
  BY <1>0, <1>1 DEF CloseDirectory, PruneEnds
<1>2. CASE TimePassesBy
  BY <1>0, <1>2, TimePassesTyped DEF Spent
<1>3. CASE \/ OpenDirectory
           \/ UNCHANGED <<rowsOfGroups, dirLock, refresh, groupEvent,
                          command, touched>>
  BY <1>3 DEF OpenDirectory, rowsOfGroups, PruneInv, Spent
<1>4. CASE \/ GetJoinedGroups \/ ListJoinedGroupJIDs \/ RefreshEnds
           \/ RefreshFails
           \/ \E h \in Groups : RefreshGroup(h) \/ MarkGroupLeft(h)
  BY <1>0, <1>4 DEF GetJoinedGroups, ListJoinedGroupJIDs, RefreshEnds,
       RefreshFails, RefreshGroup, MarkGroupLeft, RefreshStep, Refreshing,
       LockInv
<1>5. CASE \E d \in GroupHandlers :
             \/ GetGroupInfo(d) \/ WriteGroupInfo(d)
             \/ \E h \in Groups, age \in {OLD, RECENT} :
                  StoreGroupMessage(d, h, age)
  BY <1>0, <1>5 DEF GetGroupInfo, WriteGroupInfo, StoreGroupMessage,
       EventStep, LockInv
<1>6. CASE \E h \in Groups : Asks(h)
  BY <1>6, AskMoves
<1>7. ASSUME NEW h \in Groups,
             PersistGroupInfo(h) \/ LeaveGroup(h) \/ WriteLeft(h)
      PROVE  FALSE
  BY <1>0, <1>7 DEF PersistGroupInfo, LeaveGroup, WriteLeft
<1>8. ASSUME NEW h \in Groups, DeleteGroupLocalData(h)
      PROVE  Spent(g)'
  <2>1. command.op = "prune" /\ g \in command.groups /\ g # h
    BY <1>8 DEF DeleteGroupLocalData, Commanding, WritersTyped
  <2>2. /\ groupRow'[g] = groupRow[g] /\ groupChat'[g] = groupChat[g]
        /\ lastMessage'[g] = lastMessage[g]
    BY <1>0, <1>8, <2>1, CommandMoves
  <2>. QED  BY <2>1, <2>2 DEF PruneInv, Spent
<1>9. ASSUME NEW days \in BOOLEAN, NEW includeActive \in BOOLEAN,
             ListPrunableGroups(days, includeActive)
      PROVE  Spent(g)'
  <2>1. UNCHANGED rowsOfGroups /\ Prunable(g, days, includeActive)
    BY <1>9 DEF ListPrunableGroups
  <2>2. groupChat[g] \in Ages /\ lastMessage[g] \in Ages
    BY <1>0 DEF RowsTyped
  <2>3. Activity(g) = OLD =>
          groupChat[g] # RECENT /\ lastMessage[g] # RECENT
    BY <2>2 DEF Activity, Ages, NEVER, OLD, RECENT
  <2>. QED  BY <2>1, <2>3 DEF Prunable, Spent, rowsOfGroups, NEVER, OLD,
                              RECENT
<1>. QED
  BY <1>1, <1>2, <1>3, <1>4, <1>5, <1>6, <1>7, <1>8, <1>9, DirectorySteps

\* Each step of a refresh does its part for one row, and nothing but the
\* handler, which marks the row as touched, interferes.
LEMMA RefreshInvStep ==
    ASSUME RowsTyped, WritersTyped, LockInv, RefreshInv,
           [DirectoryNext]_directoryVars
    PROVE  RefreshInv'
<1>0. refresh.list \subseteq Groups /\ refresh.todo \subseteq Groups
  BY DEF WritersTyped
<1>1. CASE CloseDirectory \/ RefreshEnds \/ RefreshFails
  BY <1>1 DEF CloseDirectory, RefreshEnds, RefreshFails, RefreshIdle,
              RefreshInv
<1>2. CASE \/ OpenDirectory
           \/ UNCHANGED <<rowsOfGroups, dirLock, refresh, groupEvent,
                          command, touched>>
  BY <1>2 DEF OpenDirectory, rowsOfGroups, RefreshInv
<1>3. CASE TimePassesBy
  <2>1. \A g \in Groups :
          /\ groupRow'[g].stored = groupRow[g].stored
          /\ groupRow'[g].left = NEVER <=> groupRow[g].left = NEVER
    BY <1>3, TimePassesTyped DEF Aged, NEVER, OLD, RECENT
  <2>2. refresh' = refresh /\ touched' = touched
    BY <1>3 DEF TimePassesBy
  <2>. QED  BY <1>0, <2>1, <2>2 DEF RefreshInv
<1>4. CASE GetJoinedGroups
  BY <1>4 DEF GetJoinedGroups, RefreshInv
<1>5. ASSUME NEW h \in Groups, RefreshGroup(h)
      PROVE  RefreshInv'
  <2>1. /\ refresh.at = "upsert" /\ refresh'.at = "upsert"
        /\ refresh'.list = refresh.list
        /\ refresh'.todo = refresh.todo \ {h}
    BY <1>5 DEF RefreshGroup, Refreshing, WritersTyped
  <2>2. refresh.names[h] \in AnyName
    BY DEF WritersTyped
  <2>3. \/ /\ groupRow'[h].left = NEVER /\ touched' = touched
           /\ \A g \in Groups \ {h} : groupRow'[g] = groupRow[g]
        \/ groupRow' = groupRow /\ touched' = touched \cup {h}
    BY <1>5, <2>2, UpsertGroupTyped DEF RefreshGroup, Fails
  <2>. QED  BY <1>0, <2>1, <2>3 DEF RefreshInv
<1>6. CASE ListJoinedGroupJIDs
  <2>1. /\ refresh.at = "upsert" /\ refresh.todo = {}
        /\ refresh'.at = "mark" /\ refresh'.list = refresh.list
        /\ refresh'.todo = Missing
        /\ groupRow' = groupRow /\ touched' = touched
    BY <1>6 DEF ListJoinedGroupJIDs, Refreshing, WritersTyped
  <2>2. \A g \in Groups \ touched :
          /\ groupRow[g].stored /\ g \in refresh.list
               => groupRow[g].left = NEVER
          /\ groupRow[g].stored /\ g \notin refresh.list
               => (groupRow[g].left = NEVER <=> g \in Missing)
    BY <2>1 DEF RefreshInv, Missing
  <2>3. Missing \cap refresh.list = {}
    BY DEF Missing
  <2>. QED  BY <2>1, <2>2, <2>3 DEF RefreshInv
<1>7. ASSUME NEW h \in Groups, MarkGroupLeft(h)
      PROVE  RefreshInv'
  <2>1. /\ refresh.at = "mark" /\ refresh'.at = "mark" /\ h \in refresh.todo
        /\ refresh'.list = refresh.list
        /\ refresh'.todo = refresh.todo \ {h} /\ touched' = touched
    BY <1>7 DEF MarkGroupLeft, Refreshing, WritersTyped
  <2>2. /\ groupRow'[h].left = RECENT
        /\ \A g \in Groups \ {h} : groupRow'[g] = groupRow[g]
    BY <1>7, MarkLeftTyped DEF MarkGroupLeft
  <2>3. RECENT # NEVER
    BY DEF RECENT, NEVER
  <2>4. h \notin refresh.list
    BY <2>1 DEF RefreshInv
  <2>. QED  BY <1>0, <2>1, <2>2, <2>3, <2>4 DEF RefreshInv
<1>8. ASSUME NEW d \in GroupHandlers,
             \/ GetGroupInfo(d) \/ WriteGroupInfo(d)
             \/ \E h \in Groups, age \in {OLD, RECENT} :
                  StoreGroupMessage(d, h, age)
      PROVE  RefreshInv'
  <2>1. refresh' = refresh
    BY <1>8 DEF GetGroupInfo, WriteGroupInfo, StoreGroupMessage, EventStep
  <2>2. CASE WriteGroupInfo(d)
    <3>1. groupEvent[d].group \in Groups /\ groupEvent[d].name \in AnyName
      BY <2>2 DEF WriteGroupInfo, WritersTyped, EventStates
    <3>2. /\ touched' = touched \cup {groupEvent[d].group}
          /\ \A g \in Groups \ {groupEvent[d].group} :
               groupRow'[g] = groupRow[g]
      BY <2>2, <3>1, UpsertGroupTyped DEF WriteGroupInfo, Fails
    <3>. QED  BY <1>0, <2>1, <3>2 DEF RefreshInv
  <2>3. CASE \/ GetGroupInfo(d)
             \/ \E h \in Groups, age \in {OLD, RECENT} :
                  StoreGroupMessage(d, h, age)
    <3>1. groupRow' = groupRow /\ touched' = touched
      BY <2>3 DEF GetGroupInfo, StoreGroupMessage, rowsOfGroups
    <3>. QED  BY <2>1, <3>1 DEF RefreshInv
  <2>. QED  BY <1>8, <2>2, <2>3
<1>9. CASE \E g \in Groups : Asks(g)
  BY <1>9, AskMoves DEF RefreshInv
<1>10. CASE \/ \E g \in Groups : \/ PersistGroupInfo(g) \/ LeaveGroup(g)
                                 \/ WriteLeft(g) \/ DeleteGroupLocalData(g)
            \/ \E days \in BOOLEAN, includeActive \in BOOLEAN :
                 ListPrunableGroups(days, includeActive)
            \/ PruneEnds
  <2>1. refresh.at = "idle" /\ refresh' = refresh
    BY <1>10 DEF PersistGroupInfo, LeaveGroup, WriteLeft,
         DeleteGroupLocalData, ListPrunableGroups, PruneEnds,
         GroupCommandStep, Commanding, Refreshing, LockInv, NoGroupCommand
  <2>. QED  BY <2>1 DEF RefreshInv
<1>. QED
  BY <1>1, <1>2, <1>3, <1>4, <1>5, <1>6, <1>7, <1>8, <1>9, <1>10,
     DirectorySteps

\* A contact's names: the one WhatsApp told is only ever replaced by another.
LEMMA ContactStepTyped ==
    ASSUME ContactTyped, [DirectoryNext]_directoryVars
    PROVE  /\ ContactTyped'
           /\ contact.whatsapp # NoName => contact'.whatsapp # NoName
           /\ ContactName(contact) # NoName /\ contact'.alias = contact.alias
                /\ contact'.system = contact.system
                => ContactName(contact') # NoName
<1>1. CASE contact' = contact
  BY <1>1 DEF ContactTyped, ContactName, KeepName
<1>2. ASSUME NEW n \in AnyName, StoreContact(n)
      PROVE  /\ contact' \in [stored : BOOLEAN, whatsapp : AnyName,
                             system : AnyName, alias : AnyName]
             /\ contact'.whatsapp = KeepName(contact.whatsapp, n)
             /\ contact'.system = contact.system
             /\ contact'.alias = contact.alias
  BY <1>2 DEF StoreContact, KeepName, ContactTyped
<1>3. CASE \E n \in AnyName : RefreshContact(n) \/ StoreSender(n)
  <2>1. PICK n \in AnyName : StoreContact(n)
    BY <1>3 DEF RefreshContact, StoreSender
  <2>. QED  BY <1>2, <2>1 DEF ContactTyped, ContactName, KeepName
<1>4. CASE \/ \E n \in Subjects : ImportSystemName(n) \/ SetAlias(n)
           \/ ClearSystemNames \/ RemoveAlias
  <2>1. \/ \E n \in AnyName : contact' = [contact EXCEPT !.system = n]
        \/ \E n \in AnyName : contact' = [contact EXCEPT !.alias = n]
    BY <1>4 DEF ImportSystemName, SetAlias, ClearSystemNames, RemoveAlias,
                AnyName
  <2>. QED  BY <2>1 DEF ContactTyped, ContactName, KeepName
<1>5. CASE GroupsNext
  <2>1. UNCHANGED contact
    BY <1>5 DEF GroupsNext, JoinOrLeave, RenameOnPhone, TimePassesBy,
       StoreUnchanged, OpenDirectory, CloseDirectory, GetJoinedGroups,
       ListJoinedGroupJIDs, RefreshEnds, RefreshFails, RefreshGroup,
       MarkGroupLeft, RefreshStep, StoreGroupMessage, GetGroupInfo,
       WriteGroupInfo, EventStep, ShowGroupInfo, SetGroupTopic, ToggleGroup,
       UpdateRequests, JoinGroup, RenameGroup, CreateGroup,
       UpdateParticipants, AskFirst, PersistGroupInfo, LeaveGroup, WriteLeft,
       ListPrunableGroups, DeleteGroupLocalData, PruneEnds, GroupCommandStep
  <2>. QED  BY <1>1, <2>1
<1>6. CASE OpenDirectory \/ CloseDirectory \/ UNCHANGED directoryVars
  BY <1>1, <1>6 DEF OpenDirectory, CloseDirectory, directoryVars
<1>. QED  BY <1>3, <1>4, <1>5, <1>6 DEF DirectoryNext, ContactsNext

DirectoryInv ==
    /\ RowsTyped /\ WritersTyped /\ ContactTyped
    /\ LockInv /\ PruneInv /\ RefreshInv

\* The store is empty and free.
LEMMA DirectoryInitInv == DirectoryInit => DirectoryInv
<1>. SUFFICES ASSUME DirectoryInit PROVE DirectoryInv
  OBVIOUS
<1>1. RowsTyped
  BY DEF DirectoryInit, RowsTyped, NoGroup, GroupRows, Ages, AnyName
<1>2. WritersTyped
  BY DEF DirectoryInit, WritersTyped, EventStates, RefreshIdle, EventIdle,
         NoGroupCommand, AnyName
<1>3. LockInv /\ PruneInv /\ RefreshInv
  BY DEF DirectoryInit, LockInv, PruneInv, RefreshInv, RefreshIdle, EventIdle,
         NoGroupCommand
<1>4. ContactTyped
  BY DEF DirectoryInit, ContactTyped, AnyName
<1>. QED  BY <1>1, <1>2, <1>3, <1>4 DEF DirectoryInv

\* The invariant of the directory, for any set of groups and handlers.
LEMMA DirectoryInvariance == DirectorySpec => []DirectoryInv
<1>1. DirectoryInv /\ [DirectoryNext]_directoryVars => DirectoryInv'
  BY RowsTypedStep, WritersTypedStep, LockInvStep, PruneInvStep,
     RefreshInvStep, ContactStepTyped DEF DirectoryInv
<1>. QED  BY DirectoryInitInv, <1>1, PTL DEF DirectorySpec

\* A refresh that ends without an error (MarkGroupsMissingFrom,
\* groups.go) leaves as joined exactly the listed groups.
THEOREM RefreshExact == DirectorySpec => RefreshIsExact
<1>1. DirectoryInv /\ [DirectoryNext]_directoryVars
        => [RefreshEnds =>
              \A g \in Groups \ touched :
                groupRow[g].stored =>
                  (groupRow[g].left = NEVER <=> g \in refresh.list)
           ]_directoryVars
  BY DEF DirectoryInv, RefreshInv, RefreshEnds, Refreshing
<1>. QED  BY DirectoryInvariance, <1>1, PTL DEF DirectorySpec, RefreshIsExact

\* What a step does to the name and the presence of a group's row.
LEMMA GroupSteps ==
    ASSUME RowsTyped, WritersTyped, [DirectoryNext]_directoryVars,
           NEW g \in Groups
    PROVE  /\ groupRow[g].name # NoName /\ groupRow'[g].stored
                => groupRow'[g].name # NoName
           /\ groupRow[g].stored /\ ~groupRow'[g].stored
                => command.op = "prune" /\ g \in command.groups
<1>1. CASE groupRow'[g] = groupRow[g]
  BY <1>1
<1>2. CASE TimePassesBy
  BY <1>2, TimePassesTyped
<1>3. ASSUME NEW h \in Groups, NEW n \in AnyName, UpsertGroup(h, n)
      PROVE  /\ groupRow[g].name # NoName => groupRow'[g].name # NoName
             /\ groupRow[g].stored => groupRow'[g].stored
  BY <1>3, UpsertGroupTyped
<1>4. ASSUME NEW h \in Groups, MarkLeft(h)
      PROVE  /\ groupRow[g].name # NoName => groupRow'[g].name # NoName
             /\ groupRow[g].stored => groupRow'[g].stored
  BY <1>4, MarkLeftTyped
<1>5. ASSUME NEW h \in Groups, RefreshGroup(h)
      PROVE  UNCHANGED groupRow \/ UpsertGroup(h, refresh.names[h])
  BY <1>5 DEF RefreshGroup, Fails
<1>6. \A h \in Groups : refresh.names[h] \in AnyName /\ profile[h] \in AnyName
  BY DEF WritersTyped, RowsTyped
<1>7. ASSUME NEW d \in GroupHandlers, WriteGroupInfo(d)
      PROVE  \/ UNCHANGED groupRow
             \/ /\ groupEvent[d].group \in Groups
                /\ groupEvent[d].name \in AnyName
                /\ UpsertGroup(groupEvent[d].group, groupEvent[d].name)
  BY <1>7 DEF WriteGroupInfo, Fails, WritersTyped, EventStates
<1>8. CASE \E h \in Groups : RefreshGroup(h)
  BY <1>1, <1>3, <1>5, <1>6, <1>8
<1>9. CASE \E d \in GroupHandlers : WriteGroupInfo(d)
  BY <1>1, <1>3, <1>7, <1>9
<1>10. CASE \E h \in Groups : PersistGroupInfo(h)
  BY <1>1, <1>3, <1>6, <1>10 DEF PersistGroupInfo
<1>11. CASE \E h \in Groups : WriteLeft(h) \/ MarkGroupLeft(h)
  BY <1>1, <1>4, <1>11 DEF WriteLeft, MarkGroupLeft
<1>12. ASSUME NEW h \in Groups, DeleteGroupLocalData(h)
       PROVE  \/ groupRow'[g] = groupRow[g]
              \/ /\ command.op = "prune" /\ g \in command.groups
                 /\ ~groupRow'[g].stored
  BY <1>12 DEF DeleteGroupLocalData, Commanding, rowsOfGroups, RowsTyped,
               NoGroup
<1>13. CASE \E h \in Groups : DeleteGroupLocalData(h)
  BY <1>1, <1>12, <1>13
<1>14. CASE \/ OpenDirectory \/ CloseDirectory \/ GetJoinedGroups
            \/ ListJoinedGroupJIDs \/ RefreshEnds \/ RefreshFails
            \/ PruneEnds
            \/ \E d \in GroupHandlers, h \in Groups, age \in {OLD, RECENT} :
                 StoreGroupMessage(d, h, age)
            \/ \E d \in GroupHandlers : GetGroupInfo(d)
            \/ \E h \in Groups : Asks(h) \/ LeaveGroup(h)
            \/ \E days \in BOOLEAN, includeActive \in BOOLEAN :
                 ListPrunableGroups(days, includeActive)
            \/ UNCHANGED <<rowsOfGroups, dirLock, refresh, groupEvent,
                           command, touched>>
  <2>1. groupRow' = groupRow
    BY <1>14, AskMoves DEF OpenDirectory, CloseDirectory, GetJoinedGroups,
       ListJoinedGroupJIDs, RefreshEnds, RefreshFails, PruneEnds,
       StoreGroupMessage, GetGroupInfo, LeaveGroup, ListPrunableGroups,
       rowsOfGroups
  <2>. QED  BY <1>1, <2>1
<1>. QED
  BY <1>2, <1>8, <1>9, <1>10, <1>11, <1>13, <1>14, DirectorySteps

\* `groups prune` deletes no group that is joined and has been active since
\* the cutoff, whatever happened between the list and the confirmation.
THEOREM PruneSpares == DirectorySpec => PruneSparesActive
<1>1. DirectoryInv /\ [DirectoryNext]_directoryVars
        => [\A g \in Groups :
              groupRow[g].stored /\ ~groupRow'[g].stored =>
                \/ groupRow[g].left # NEVER
                \/ groupChat[g] # RECENT /\ lastMessage[g] # RECENT
           ]_directoryVars
  BY GroupSteps DEF DirectoryInv, PruneInv, Spent
<1>. QED
  BY DirectoryInvariance, <1>1, PTL DEF DirectorySpec, PruneSparesActive

\* A name that WhatsApp told is not lost to a later empty one, for a group and
\* for a contact.
THEOREM NamesKept == DirectorySpec => NamesAreKept
<1>1. DirectoryInv /\ [DirectoryNext]_directoryVars
        => [/\ \A g \in Groups :
                 groupRow[g].name # NoName /\ groupRow'[g].stored =>
                     groupRow'[g].name # NoName
            /\ contact.whatsapp # NoName => contact'.whatsapp # NoName
            /\ ContactName(contact) # NoName /\ contact'.alias = contact.alias
                 /\ contact'.system = contact.system
                 => ContactName(contact') # NoName]_directoryVars
  BY GroupSteps, ContactStepTyped DEF DirectoryInv
<1>. QED  BY DirectoryInvariance, <1>1, PTL DEF DirectorySpec, NamesAreKept

\* WhatsApp's changes stay within their bound.
LEMMA ChangesBounded ==
    ASSUME groupChanges \in 0 .. MaxChanges, [DirectoryNext]_directoryVars
    PROVE  groupChanges' \in 0 .. MaxChanges
<1>1. Change \/ UNCHANGED groupChanges
  <2>1. ASSUME NEW g \in Groups, JoinOrLeave(g)
        PROVE  Change
    BY <2>1 DEF JoinOrLeave
  <2>2. ASSUME NEW g \in Groups, NEW n \in AnyName, RenameOnPhone(g, n)
        PROVE  Change
    BY <2>2 DEF RenameOnPhone
  <2>3. CASE \/ TimePassesBy \/ OpenDirectory \/ CloseDirectory
             \/ GetJoinedGroups \/ ListJoinedGroupJIDs \/ RefreshEnds
             \/ RefreshFails \/ PruneEnds
    BY <2>3 DEF TimePassesBy, OpenDirectory, CloseDirectory, GetJoinedGroups,
                ListJoinedGroupJIDs, RefreshEnds, RefreshFails, PruneEnds,
                RefreshStep, GroupCommandStep, whatsapp
  <2>4. ASSUME NEW g \in Groups, RefreshGroup(g) \/ MarkGroupLeft(g)
        PROVE  UNCHANGED groupChanges
    BY <2>4 DEF RefreshGroup, MarkGroupLeft, RefreshStep, whatsapp
  <2>5. ASSUME NEW d \in GroupHandlers, NEW g \in Groups,
               NEW age \in {OLD, RECENT}, StoreGroupMessage(d, g, age)
        PROVE  Change
    BY <2>5 DEF StoreGroupMessage
  <2>6. ASSUME NEW d \in GroupHandlers, GetGroupInfo(d) \/ WriteGroupInfo(d)
        PROVE  UNCHANGED groupChanges
    BY <2>6 DEF GetGroupInfo, WriteGroupInfo
  <2>7. ASSUME NEW g \in Groups, Asks(g)
        PROVE  Change \/ UNCHANGED groupChanges
    BY <2>7 DEF Asks, ShowGroupInfo, SetGroupTopic, ToggleGroup,
                UpdateRequests, JoinGroup, RenameGroup, CreateGroup,
                UpdateParticipants, whatsapp
  <2>8. ASSUME NEW g \in Groups, \/ PersistGroupInfo(g) \/ LeaveGroup(g)
                                 \/ WriteLeft(g) \/ DeleteGroupLocalData(g)
        PROVE  Change \/ UNCHANGED groupChanges
    BY <2>8 DEF PersistGroupInfo, LeaveGroup, WriteLeft,
                DeleteGroupLocalData, whatsapp
  <2>9. ASSUME NEW days \in BOOLEAN, NEW includeActive \in BOOLEAN,
               ListPrunableGroups(days, includeActive)
        PROVE  UNCHANGED groupChanges
    BY <2>9 DEF ListPrunableGroups, whatsapp
  <2>10. CASE GroupsNext
    BY <2>1, <2>2, <2>3, <2>4, <2>5, <2>6, <2>7, <2>8, <2>9, <2>10
    DEF GroupsNext, Asks
  <2>11. CASE ContactsNext
    BY <2>3, <2>11, ContactMoves DEF whatsapp
  <2>12. CASE UNCHANGED directoryVars
    BY <2>12 DEF directoryVars, whatsapp
  <2>. QED  BY <2>10, <2>11, <2>12 DEF DirectoryNext
<1>. QED  BY <1>1, DirectoryAssumption DEF Change

\* The holder of the lock, and the rows a refresh may not rely on.
LockTyped == /\ dirLock \in {"free", "sync", "command"}
             /\ touched \subseteq Groups

\* Every step leaves the lock to one of those who may hold it.
LEMMA LockTypedStep ==
    ASSUME WritersTyped, LockTyped, [DirectoryNext]_directoryVars
    PROVE  LockTyped'
<1>1. CASE OpenDirectory \/ CloseDirectory
  BY <1>1 DEF OpenDirectory, CloseDirectory, LockTyped
<1>2. CASE \/ TimePassesBy \/ GetJoinedGroups \/ ListJoinedGroupJIDs
           \/ RefreshEnds \/ RefreshFails \/ PruneEnds
  BY <1>2 DEF TimePassesBy, GetJoinedGroups, ListJoinedGroupJIDs,
              RefreshEnds, RefreshFails, PruneEnds, RefreshStep,
              GroupCommandStep, LockTyped
<1>3. ASSUME NEW g \in Groups, RefreshGroup(g) \/ MarkGroupLeft(g)
      PROVE  LockTyped'
  BY <1>3 DEF RefreshGroup, MarkGroupLeft, RefreshStep, Fails, LockTyped
<1>4. ASSUME NEW d \in GroupHandlers, NEW g \in Groups,
             NEW age \in {OLD, RECENT}, StoreGroupMessage(d, g, age)
      PROVE  LockTyped'
  BY <1>4 DEF StoreGroupMessage, EventStep, LockTyped
<1>5. ASSUME NEW d \in GroupHandlers, GetGroupInfo(d)
      PROVE  LockTyped'
  BY <1>5 DEF GetGroupInfo, EventStep, LockTyped
<1>6. ASSUME NEW d \in GroupHandlers, WriteGroupInfo(d)
      PROVE  LockTyped'
  <2>1. groupEvent[d].group \in Groups
    BY <1>6 DEF WriteGroupInfo, WritersTyped
  <2>. QED  BY <1>6, <2>1 DEF WriteGroupInfo, EventStep, Fails, LockTyped
<1>7. ASSUME NEW g \in Groups, Asks(g)
      PROVE  LockTyped'
  BY <1>7, AskMoves DEF LockTyped
<1>8. ASSUME NEW g \in Groups, \/ PersistGroupInfo(g) \/ LeaveGroup(g)
                               \/ WriteLeft(g) \/ DeleteGroupLocalData(g)
      PROVE  LockTyped'
  BY <1>8 DEF PersistGroupInfo, LeaveGroup, WriteLeft, DeleteGroupLocalData,
              GroupCommandStep, LockTyped
<1>9. ASSUME NEW days \in BOOLEAN, NEW includeActive \in BOOLEAN,
             ListPrunableGroups(days, includeActive)
      PROVE  LockTyped'
  BY <1>9 DEF ListPrunableGroups, GroupCommandStep, LockTyped
<1>10. CASE UNCHANGED <<dirLock, touched>>
  BY <1>10 DEF LockTyped
<1>. QED
  BY <1>1, <1>2, <1>3, <1>4, <1>5, <1>6, <1>7, <1>8, <1>9, <1>10,
     DirectorySteps

\* The directory's tables, records and histories have values of their types.
\* (The idle record names a group, so there must be one.)
THEOREM DirectoryTyped ==
    ASSUME Groups # {}
    PROVE  DirectorySpec => []DirectoryTypeOK
<1>. DEFINE Counted == groupChanges \in 0 .. MaxChanges /\ LockTyped
<1>1. DirectoryInit => Counted
  BY DirectoryAssumption DEF DirectoryInit, LockTyped
<1>2. DirectoryInv /\ Counted /\ [DirectoryNext]_directoryVars => Counted'
  BY ChangesBounded, LockTypedStep DEF DirectoryInv
<1>3. DirectoryInv /\ Counted => DirectoryTypeOK
  <2>1. EventIdle.group \in Groups
    BY DEF EventIdle
  <2>2. EventStates = [at : {"idle", "info", "row"}, group : Groups,
                       name : AnyName]
    BY <2>1 DEF EventStates
  <2>. QED
    BY <2>2 DEF DirectoryInv, RowsTyped, WritersTyped, ContactTyped,
                LockTyped, DirectoryTypeOK
<1>. QED  BY DirectoryInvariance, <1>1, <1>2, <1>3, PTL DEF DirectorySpec

-----------------------------------------------------------------------------
(* CallEvents.                                                             *)

CallRowsOf(k) ==
    {r \in UsedCallRows : callRows[r].id = k[1] /\ callRows[r].type = k[2]}

About(s, k) == /\ callHandler[s].at # "idle"
               /\ callHandler[s].event.id = k[1]
               /\ callHandler[s].event.type = k[2]

HandlerStates == [at : {"idle", "update", "insert"}, row : CallRowIds,
                  event : CallStored]

\* (With no calls at all the idle handler's event is arbitrary.)
CallsTyped ==
    /\ callRows \in [CallRowIds -> CallStored \cup {NoCallRow}]
    /\ callHandler \in [CallSources -> [at : {"idle", "update", "insert"},
                                        row : CallRowIds,
                                        event : CallStored \cup {NoEvent}]]
    /\ \A s \in CallSources :
         callHandler[s].at # "idle" => callHandler[s].event \in CallStored
    /\ callFeed \in CallFeeds
    /\ callSaid \in [CallKeys -> [ts : CallTimes \cup {0},
                                  detail : CallDetails]]

\* Nobody else is about to write the call, and what a goroutine read of the
\* table still holds.
Alone(k) ==
    /\ \A s, t \in CallSources : About(s, k) /\ About(t, k) => s = t
    /\ \A s \in CallSources : About(s, k) =>
         CallRowsOf(k) = IF callHandler[s].at = "insert" THEN {}
                         ELSE {callHandler[s].row}

\* The call's one row says what was said.
OneRow(k) ==
    IF callSaid[k].ts = 0 THEN CallRowsOf(k) = {} /\ callSaid[k] = NothingSaid
    ELSE \E r \in CallRowIds : /\ CallRowsOf(k) = {r}
                               /\ callRows[r].ts = callSaid[k].ts
                               /\ callRows[r].detail = callSaid[k].detail

CallsInv == /\ CallsTyped
            /\ \A k \in CallKeys \ callMixed : Alone(k) /\ OneRow(k)

\* A row in use is a stored event: its time is not 0.
LEMMA UsedIsTyped ==
    ASSUME CallsTyped, NEW r \in CallRowIds
    PROVE  r \in UsedCallRows <=> callRows[r] \in CallStored
<1>1. NoCallRow \notin CallStored
  BY CallEventsAssumption DEF NoCallRow, CallStored
<1>. QED  BY <1>1 DEF CallsTyped, UsedCallRows

\* A key is a pair of a call's id and a type.
LEMMA KeysOfCalls ==
    ASSUME NEW k \in CallKeys
    PROVE  /\ k = <<k[1], k[2]>> /\ k[1] \in CallIds /\ k[2] \in CallTypes
           /\ k[1] # NoCallId
BY CallEventsAssumption DEF CallKeys

\* Every step keeps the table and the handlers well-typed.
LEMMA CallsTypedStep ==
    ASSUME CallsTyped, [CallNext]_callVars
    PROVE  CallsTyped'
<1>0. 1 \in CallRowIds /\ CallIdle.at = "idle" /\ CallIdle.row = 1
        /\ CallIdle \in [at : {"idle", "update", "insert"}, row : CallRowIds,
                         event : CallStored \cup {NoEvent}]
  BY CallEventsAssumption DEF CallRowIds, CallIdle
<1>1. ASSUME NEW s \in CallSources, NEW e \in CallStored, SelectCallRow(s, e)
      PROVE  CallsTyped'
  <2>. DEFINE found == SingleCallEventRow(e)
              v == [at |-> IF found = {} THEN "insert" ELSE "update",
                    row |-> IF found = {} THEN 1
                            ELSE CHOOSE r \in found : TRUE,
                    event |-> e]
  <2>1. found \subseteq CallRowIds
    BY DEF SingleCallEventRow, RowsOfCall, UsedCallRows
  <2>2. v.row \in CallRowIds
    BY <1>0, <2>1
  <2>3. /\ v \in [at : {"idle", "update", "insert"}, row : CallRowIds,
                  event : CallStored \cup {NoEvent}]
        /\ v.event \in CallStored
    BY <2>2
  <2>4. /\ callHandler' = [callHandler EXCEPT ![s] = v]
        /\ UNCHANGED <<callRows, callFeed, callSaid>>
    BY <1>1 DEF SelectCallRow
  <2>. HIDE DEF v
  <2>. QED  BY <2>3, <2>4 DEF CallsTyped
<1>2. ASSUME NEW e \in CallStored, Say(e)
      PROVE  callSaid' \in [CallKeys -> [ts : CallTimes \cup {0},
                                         detail : CallDetails]]
  <2>1. CASE e.id \in CallIds
    <3>. DEFINE k == <<e.id, e.type>>
                v == [ts |-> e.ts, detail |-> IF e.detail = NoDetail
                                              THEN callSaid[k].detail
                                              ELSE e.detail]
    <3>1. k \in CallKeys
      BY <2>1 DEF CallKeys, CallStored
    <3>2. v \in [ts : CallTimes \cup {0}, detail : CallDetails]
      BY <3>1 DEF CallsTyped, CallStored
    <3>3. callSaid' = [callSaid EXCEPT ![k] = v]
      BY <1>2, <2>1 DEF Say
    <3>. HIDE DEF v, k
    <3>. QED  BY <3>1, <3>2, <3>3 DEF CallsTyped
  <2>2. CASE e.id \notin CallIds
    BY <1>2, <2>2 DEF Say, CallsTyped
  <2>. QED  BY <2>1, <2>2
<1>3. ASSUME NEW r \in UsedCallRows, NEW ts \in CallTimes,
             NEW detail \in CallDetails
      PROVE  [[callRows[r] EXCEPT !.ts = ts] EXCEPT !.detail = detail]
               \in CallStored
  <2>1. callRows[r] \in CallStored
    BY UsedIsTyped DEF UsedCallRows
  <2>. QED  BY <2>1 DEF CallStored
<1>4. ASSUME NEW r \in UsedCallRows, NEW detail \in CallDetails
      PROVE  [callRows[r] EXCEPT !.detail = detail] \in CallStored
  <2>1. callRows[r] \in CallStored
    BY UsedIsTyped DEF UsedCallRows
  <2>. QED  BY <2>1 DEF CallStored
<1>5. \A a, b \in CallDetails : KeepDetail(a, b) \in CallDetails
  BY DEF KeepDetail
<1>6. ASSUME NEW s \in CallSources, UpdateCallEventRow(s)
      PROVE  CallsTyped'
  <2>. DEFINE e == callHandler[s].event   r == callHandler[s].row
              v == [[callRows[r] EXCEPT !.ts = e.ts] EXCEPT
                      !.detail = KeepDetail(callRows[r].detail, e.detail)]
  <2>1. e \in CallStored /\ Say(e) /\ CallDone(s) /\ callFeed' = callFeed
    BY <1>6 DEF UpdateCallEventRow, CallsTyped
  <2>2. \/ callRows' = callRows
        \/ r \in RowsOfCall(e) /\ callRows' = [callRows EXCEPT ![r] = v]
    BY <1>6 DEF UpdateCallEventRow, CallsTyped
  <2>3. r \in RowsOfCall(e) => v \in CallStored
    <3>. SUFFICES ASSUME r \in RowsOfCall(e) PROVE v \in CallStored
      OBVIOUS
    <3>1. r \in UsedCallRows
      BY DEF RowsOfCall
    <3>2. callRows[r] \in CallStored
      BY <3>1, UsedIsTyped DEF UsedCallRows
    <3>3. /\ e.ts \in CallTimes
          /\ KeepDetail(callRows[r].detail, e.detail) \in CallDetails
      BY <1>5, <2>1, <3>2 DEF CallStored
    <3>. QED  BY <1>3, <3>1, <3>3
  <2>. HIDE DEF v, r, e
  <2>4. callRows' \in [CallRowIds -> CallStored \cup {NoCallRow}]
    BY <2>2, <2>3 DEF CallsTyped
  <2>5. callSaid' \in [CallKeys -> [ts : CallTimes \cup {0},
                                    detail : CallDetails]]
    BY <1>2, <2>1
  <2>. QED  BY <1>0, <2>1, <2>4, <2>5 DEF CallsTyped, CallDone
<1>7. ASSUME NEW s \in CallSources, InsertCallEvent(s)
      PROVE  CallsTyped'
  <2>. DEFINE e == callHandler[s].event
  <2>1. e \in CallStored /\ Say(e) /\ CallDone(s) /\ callFeed' = callFeed
    BY <1>7 DEF InsertCallEvent, CallsTyped
  <2>2. ASSUME \E r \in SameKey(e) :
                 callRows' = [callRows EXCEPT
                                ![r].detail = KeepDetail(@, e.detail)]
        PROVE  callRows' \in [CallRowIds -> CallStored \cup {NoCallRow}]
    <3>1. PICK r \in SameKey(e) :
            callRows' = [callRows EXCEPT
                           ![r].detail = KeepDetail(@, e.detail)]
      BY <2>2
    <3>2. r \in UsedCallRows /\ callRows[r] \in CallStored
      BY UsedIsTyped DEF SameKey, RowsOfCall, UsedCallRows
    <3>3. KeepDetail(callRows[r].detail, e.detail) \in CallDetails
      BY <1>5, <2>1, <3>2 DEF CallStored
    <3>. DEFINE v == [callRows[r] EXCEPT
                        !.detail = KeepDetail(callRows[r].detail, e.detail)]
    <3>4. v \in CallStored
      BY <1>4, <3>2, <3>3
    <3>5. callRows' = [callRows EXCEPT ![r] = v]
      BY <3>1
    <3>. HIDE DEF v
    <3>. QED  BY <3>2, <3>4, <3>5 DEF CallsTyped
  <2>3. ASSUME \E r \in CallRowIds \ UsedCallRows :
                 callRows' = [callRows EXCEPT ![r] = e]
        PROVE  callRows' \in [CallRowIds -> CallStored \cup {NoCallRow}]
    BY <2>1, <2>3 DEF CallsTyped
  <2>4. callRows' \in [CallRowIds -> CallStored \cup {NoCallRow}]
    BY <1>7, <2>2, <2>3 DEF InsertCallEvent, CallsTyped
  <2>5. callSaid' \in [CallKeys -> [ts : CallTimes \cup {0},
                                    detail : CallDetails]]
    BY <1>2, <2>1
  <2>. HIDE DEF e
  <2>. QED  BY <1>0, <2>1, <2>4, <2>5 DEF CallsTyped, CallDone
<1>8. ASSUME NEW s \in CallSources, DeleteCallEvents(s)
      PROVE  CallsTyped'
  <2>1. NothingSaid \in [ts : CallTimes \cup {0}, detail : CallDetails]
    BY DEF NothingSaid, CallDetails
  <2>. QED  BY <1>8, <2>1 DEF DeleteCallEvents, CallsTyped
<1>9. CASE SyncStops
  BY <1>0, <1>9 DEF SyncStops, CallsTyped
<1>10. CASE UNCHANGED callVars
  BY <1>10 DEF callVars, CallsTyped
<1>. QED  BY <1>1, <1>6, <1>7, <1>8, <1>9, <1>10 DEF CallNext

\* A call none of whose rows and handlers a step changes.
LEMMA CallUntouched ==
    ASSUME NEW k \in CallKeys, Alone(k), OneRow(k),
           callSaid'[k] = callSaid[k],
           \A r \in CallRowIds :
             \/ callRows'[r] = callRows[r]
             \/ r \notin CallRowsOf(k) /\ r \notin CallRowsOf(k)',
           \A s \in CallSources : About(s, k)' =>
             About(s, k) /\ callHandler'[s] = callHandler[s]
    PROVE  (Alone(k) /\ OneRow(k))'
<1>1. CallRowsOf(k)' = CallRowsOf(k)
  BY DEF CallRowsOf, UsedCallRows
<1>2. \A r \in CallRowsOf(k) : callRows'[r] = callRows[r]
  BY DEF CallRowsOf, UsedCallRows
<1>3. Alone(k)'
  BY <1>1 DEF Alone
<1>4. OneRow(k)'
  BY <1>1, <1>2 DEF OneRow
<1>. QED  BY <1>3, <1>4

\* The writing handler of a call was the only one about to write it.
LEMMA WriterDone ==
    ASSUME NEW k \in CallKeys, Alone(k), NEW s \in CallSources, About(s, k),
           callHandler \in [CallSources -> [at : {"idle", "update", "insert"},
                                        row : CallRowIds,
                                        event : CallStored \cup {NoEvent}]],
           CallDone(s)
    PROVE  Alone(k)'
BY DEF Alone, About, CallDone, CallIdle

\* The rows UpsertCallEvent looks for are those of the event's key.
LEMMA KeyOfEvent ==
    ASSUME NEW e \in CallStored, NEW k \in CallKeys
    PROVE  /\ e.id = k[1] /\ e.type = k[2] <=> k = <<e.id, e.type>>
           /\ e.id = k[1] /\ e.type = k[2] =>
                /\ e.id \in CallIds /\ e.id # NoCallId
                /\ RowsOfCall(e) = CallRowsOf(k)
BY KeysOfCalls DEF RowsOfCall, CallRowsOf

\* The goroutine that looks for the row finds what is there, and as long as
\* nobody else was about to write the call it stays so until it writes.
LEMMA SelectStep ==
    ASSUME CallsTyped, CallsTyped', NEW k \in CallKeys \ callMixed',
           NEW s \in CallSources, NEW e \in CallStored, SelectCallRow(s, e),
           k \notin callMixed => Alone(k) /\ OneRow(k)
    PROVE  (Alone(k) /\ OneRow(k))'
<1>. DEFINE found == SingleCallEventRow(e)
            v == [at |-> IF found = {} THEN "insert" ELSE "update",
                  row |-> IF found = {} THEN 1 ELSE CHOOSE r \in found : TRUE,
                  event |-> e]
<1>1. /\ callHandler[s].at = "idle"
      /\ callHandler' = [callHandler EXCEPT ![s] = v]
      /\ UNCHANGED <<callRows, callSaid>>
      /\ k \notin callMixed
      /\ Racing(s, e) => k # <<e.id, e.type>>
  BY DEF SelectCallRow
<1>2. callHandler'[s] = v
        /\ \A t \in CallSources \ {s} : callHandler'[t] = callHandler[t]
  BY <1>1 DEF CallsTyped
<1>3. v.event = e /\ v.at # "idle"
  OBVIOUS
<1>4. CASE k # <<e.id, e.type>>
  <2>1. ~About(s, k)'
    BY <1>2, <1>3, <1>4, KeyOfEvent DEF About
  <2>2. \A t \in CallSources : About(t, k)' =>
          About(t, k) /\ callHandler'[t] = callHandler[t]
    BY <1>2, <2>1 DEF About
  <2>. QED  BY <1>1, <2>2, CallUntouched
<1>5. CASE k = <<e.id, e.type>>
  <2>1. /\ e.id = k[1] /\ e.type = k[2] /\ e.id # NoCallId
        /\ RowsOfCall(e) = CallRowsOf(k)
    BY <1>5, KeyOfEvent
  <2>2. \A t \in CallSources \ {s} : ~About(t, k)'
    BY <1>1, <1>2, <1>5, <2>1 DEF Racing, About
  <2>3. CallRowsOf(k)' = CallRowsOf(k)
    BY <1>1 DEF CallRowsOf, UsedCallRows
  <2>4. CASE CallRowsOf(k) = {}
    <3>1. found = {}
      BY <2>1, <2>4 DEF SingleCallEventRow
    <3>2. v.at = "insert"
      BY <3>1
    <3>. HIDE DEF v
    <3>3. Alone(k)'
      BY <1>2, <2>2, <2>3, <2>4, <3>2 DEF Alone
    <3>4. OneRow(k)'
      BY <1>1, <2>3 DEF OneRow
    <3>. QED  BY <3>3, <3>4
  <2>5. ASSUME NEW r \in CallRowIds, CallRowsOf(k) = {r}
        PROVE  (Alone(k) /\ OneRow(k))'
    <3>1. Cardinality({r}) = 1
      BY FS_Singleton
    <3>2. found = {r}
      BY <2>1, <2>5, <3>1 DEF SingleCallEventRow
    <3>3. v.at = "update" /\ v.row = r
      BY <3>2
    <3>. HIDE DEF v
    <3>4. Alone(k)'
      BY <1>2, <2>2, <2>3, <2>5, <3>3 DEF Alone
    <3>5. OneRow(k)'
      BY <1>1, <2>3 DEF OneRow
    <3>. QED  BY <3>4, <3>5
  <2>. QED  BY <1>1, <2>4, <2>5 DEF OneRow
<1>. QED  BY <1>4, <1>5

\* What an event adds to what was said of its call.
LEMMA SayStep ==
    ASSUME CallsTyped, NEW k \in CallKeys, NEW e \in CallStored, Say(e)
    PROVE  /\ k # <<e.id, e.type>> => callSaid'[k] = callSaid[k]
           /\ k = <<e.id, e.type>> =>
                /\ callSaid'[k].ts = e.ts
                /\ callSaid'[k].detail = IF e.detail = NoDetail
                                         THEN callSaid[k].detail ELSE e.detail
<1>1. CASE k = <<e.id, e.type>>
  <2>1. e.id \in CallIds
    BY <1>1, KeysOfCalls
  <2>. QED  BY <1>1, <2>1 DEF Say, CallsTyped
<1>2. CASE k # <<e.id, e.type>>
  BY <1>2 DEF Say, CallsTyped
<1>. QED  BY <1>1, <1>2

\* The update moves the call's one row to the event.
LEMMA UpdateStep ==
    ASSUME CallsTyped, CallsTyped', NEW k \in CallKeys, Alone(k), OneRow(k),
           NEW s \in CallSources, UpdateCallEventRow(s)
    PROVE  (Alone(k) /\ OneRow(k))'
<1>. DEFINE e == callHandler[s].event   r == callHandler[s].row
            v == [[callRows[r] EXCEPT !.ts = e.ts]
                    EXCEPT !.detail = KeepDetail(callRows[r].detail, e.detail)]
<1>1. /\ callHandler[s].at = "update" /\ e \in CallStored /\ r \in CallRowIds
      /\ Say(e) /\ CallDone(s)
  BY DEF UpdateCallEventRow, CallsTyped
<1>2. IF r \in RowsOfCall(e) /\ SameKey(e) \subseteq {r}
      THEN callRows' = [callRows EXCEPT ![r] = v] ELSE callRows' = callRows
  BY DEF UpdateCallEventRow, CallsTyped
<1>3. ASSUME r \in RowsOfCall(e)
      PROVE  /\ v.id = e.id /\ v.type = e.type /\ v.ts = e.ts
             /\ v.detail = KeepDetail(callRows[r].detail, e.detail)
             /\ v # NoCallRow
  <2>1. callRows[r] \in CallStored /\ callRows[r].id = e.id
          /\ callRows[r].type = e.type
    BY <1>3, UsedIsTyped DEF RowsOfCall, UsedCallRows
  <2>2. v.ts # 0
    BY <1>1, <2>1, CallEventsAssumption DEF CallStored
  <2>. QED  BY <2>1, <2>2 DEF CallStored, NoCallRow
<1>4. CASE k # <<e.id, e.type>>
  <2>1. callSaid'[k] = callSaid[k]
    BY <1>1, <1>4, SayStep
  <2>2. \A t \in CallSources : About(t, k)' =>
          About(t, k) /\ callHandler'[t] = callHandler[t]
    BY <1>1 DEF CallDone, CallIdle, About, CallsTyped
  <2>3. r \in RowsOfCall(e) => r \notin CallRowsOf(k)
    BY <1>1, <1>4, KeyOfEvent DEF RowsOfCall, CallRowsOf
  <2>. HIDE DEF v, r, e
  <2>4. callRows'[r] = v /\ r \in RowsOfCall(e) => r \notin CallRowsOf(k)'
    BY <1>1, <1>3, <1>4, KeyOfEvent DEF CallRowsOf
  <2>5. \A q \in CallRowIds :
          \/ callRows'[q] = callRows[q]
          \/ q \notin CallRowsOf(k) /\ q \notin CallRowsOf(k)'
    BY <1>1, <1>2, <2>3, <2>4 DEF CallsTyped
  <2>. QED  BY <2>1, <2>2, <2>5, CallUntouched
<1>5. CASE k = <<e.id, e.type>>
  <2>1. e.id = k[1] /\ e.type = k[2] /\ RowsOfCall(e) = CallRowsOf(k)
    BY <1>1, <1>5, KeyOfEvent
  <2>2. About(s, k)
    BY <1>1, <2>1 DEF About
  <2>3. CallRowsOf(k) = {r}
    BY <1>1, <2>2 DEF Alone
  <2>4. Alone(k)'
    BY <1>1, <2>2, WriterDone DEF CallsTyped
  <2>5. callRows' = [callRows EXCEPT ![r] = v]
    BY <1>2, <2>1, <2>3 DEF SameKey
  <2>6. /\ callRows[r].ts = callSaid[k].ts
        /\ callRows[r].detail = callSaid[k].detail
    BY <2>3 DEF OneRow
  <2>7. /\ callSaid'[k].ts = e.ts
        /\ callSaid'[k].detail = IF e.detail = NoDetail
                                 THEN callSaid[k].detail ELSE e.detail
    BY <1>1, <1>5, SayStep
  <2>8. /\ v.id = k[1] /\ v.type = k[2] /\ v.ts = callSaid'[k].ts
        /\ v.detail = callSaid'[k].detail /\ v # NoCallRow
    BY <1>3, <2>1, <2>3, <2>6, <2>7 DEF KeepDetail
  <2>9. e.ts # 0
    BY <1>1, CallEventsAssumption DEF CallStored
  <2>. HIDE DEF v, r, e
  <2>10. callRows'[r] = v
          /\ \A q \in CallRowIds \ {r} : callRows'[q] = callRows[q]
    BY <1>1, <2>5 DEF CallsTyped
  <2>11. CallRowsOf(k)' = {r}
    BY <1>1, <2>3, <2>8, <2>10 DEF CallRowsOf, UsedCallRows
  <2>12. OneRow(k)'
    BY <1>1, <2>7, <2>8, <2>9, <2>10, <2>11 DEF OneRow
  <2>. QED  BY <2>4, <2>12
<1>. QED  BY <1>4, <1>5

\* The insert gives the call, which has no row, its one row.
LEMMA InsertStep ==
    ASSUME CallsTyped, CallsTyped', NEW k \in CallKeys, Alone(k), OneRow(k),
           NEW s \in CallSources, InsertCallEvent(s)
    PROVE  (Alone(k) /\ OneRow(k))'
<1>. DEFINE e == callHandler[s].event
<1>1. /\ callHandler[s].at = "insert" /\ e \in CallStored
      /\ Say(e) /\ CallDone(s)
  BY DEF InsertCallEvent, CallsTyped
<1>2. PICK r \in CallRowIds :
        \/ /\ r \in SameKey(e)
           /\ callRows' = [callRows EXCEPT
                             ![r].detail = KeepDetail(@, e.detail)]
        \/ /\ r \notin UsedCallRows /\ callRows' = [callRows EXCEPT ![r] = e]
  BY DEF InsertCallEvent, SameKey, RowsOfCall, UsedCallRows
<1>3. \A q \in CallRowIds \ {r} : callRows'[q] = callRows[q]
  BY <1>2 DEF CallsTyped
<1>4. callRows'[r].id = e.id /\ callRows'[r].type = e.type
  <2>1. CASE r \in SameKey(e) /\ callRows' = [callRows EXCEPT
                                  ![r].detail = KeepDetail(@, e.detail)]
    <3>1. callRows[r] \in CallStored /\ callRows[r].id = e.id
            /\ callRows[r].type = e.type
      BY <2>1, UsedIsTyped DEF SameKey, RowsOfCall, UsedCallRows
    <3>. QED  BY <2>1, <3>1 DEF CallsTyped, CallStored
  <2>2. CASE callRows' = [callRows EXCEPT ![r] = e]
    BY <2>2 DEF CallsTyped
  <2>. QED  BY <1>2, <2>1, <2>2
<1>5. CASE k # <<e.id, e.type>>
  <2>1. callSaid'[k] = callSaid[k]
    BY <1>1, <1>5, SayStep
  <2>2. \A t \in CallSources : About(t, k)' =>
          About(t, k) /\ callHandler'[t] = callHandler[t]
    BY <1>1 DEF CallDone, CallIdle, About, CallsTyped
  <2>3. r \notin CallRowsOf(k)
    BY <1>1, <1>2, <1>5, KeyOfEvent DEF SameKey, RowsOfCall, CallRowsOf
  <2>4. r \notin CallRowsOf(k)'
    BY <1>1, <1>4, <1>5, KeyOfEvent DEF CallRowsOf
  <2>. QED  BY <1>3, <2>1, <2>2, <2>3, <2>4, CallUntouched
<1>6. CASE k = <<e.id, e.type>>
  <2>1. e.id = k[1] /\ e.type = k[2] /\ RowsOfCall(e) = CallRowsOf(k)
    BY <1>1, <1>6, KeyOfEvent
  <2>2. About(s, k)
    BY <1>1, <2>1 DEF About
  <2>3. CallRowsOf(k) = {}
    BY <1>1, <2>2 DEF Alone
  <2>4. Alone(k)'
    BY <1>1, <2>2, WriterDone DEF CallsTyped
  <2>5. callRows' = [callRows EXCEPT ![r] = e]
    BY <1>2, <2>1, <2>3 DEF SameKey
  <2>6. callSaid[k].detail = NoDetail
    BY <2>3 DEF OneRow, NothingSaid
  <2>7. callSaid'[k].ts = e.ts /\ callSaid'[k].detail = e.detail
    BY <1>1, <1>6, <2>6, SayStep
  <2>8. e.ts # 0
    BY <1>1, CallEventsAssumption DEF CallStored
  <2>. HIDE DEF e
  <2>9. NoCallRow.ts = 0
    BY DEF NoCallRow
  <2>10. callRows'[r] = e
    BY <1>2, <2>5 DEF CallsTyped
  <2>11. CallRowsOf(k)' = {r}
    BY <1>2, <1>3, <2>1, <2>3, <2>8, <2>9, <2>10 DEF CallRowsOf, UsedCallRows
  <2>12. OneRow(k)'
    BY <2>7, <2>8, <2>10, <2>11 DEF OneRow
  <2>. QED  BY <2>4, <2>12
<1>. QED  BY <1>5, <1>6

\* A deletion takes every record of the log; a handler that has looked for one
\* of them is recorded as mixed.
LEMMA DeleteStep ==
    ASSUME CallsTyped, CallsTyped', NEW k \in CallKeys \ callMixed',
           NEW s \in CallSources, DeleteCallEvents(s),
           k \notin callMixed => Alone(k) /\ OneRow(k)
    PROVE  (Alone(k) /\ OneRow(k))'
<1>1. /\ callHandler' = callHandler
      /\ callRows' = [r \in CallRowIds |->
                        IF callRows[r].type = "call_log" THEN NoCallRow
                        ELSE callRows[r]]
      /\ callSaid'[k] = IF k[2] = "call_log" THEN NothingSaid ELSE callSaid[k]
  BY DEF DeleteCallEvents
<1>2. CASE k[2] = "call_log"
  <2>1. CallRowsOf(k)' = {}
    BY <1>1, <1>2 DEF CallRowsOf, UsedCallRows, NoCallRow
  <2>2. \A t \in CallSources : ~About(t, k)
    <3>. SUFFICES ASSUME NEW t \in CallSources, About(t, k)
                  PROVE  k \in callMixed'
      OBVIOUS
    <3>1. k = <<callHandler[t].event.id, "call_log">>
      BY <1>2, KeysOfCalls DEF About
    <3>. QED  BY <1>2, <3>1 DEF DeleteCallEvents, About
  <2>3. Alone(k)'
    BY <1>1, <2>2 DEF Alone, About
  <2>4. OneRow(k)'
    BY <1>1, <1>2, <2>1 DEF OneRow, NothingSaid
  <2>. QED  BY <2>3, <2>4
<1>3. CASE k[2] # "call_log"
  <2>1. k \notin callMixed
    BY <1>3 DEF DeleteCallEvents
  <2>2. \A r \in CallRowIds :
          \/ callRows'[r] = callRows[r]
          \/ r \notin CallRowsOf(k) /\ r \notin CallRowsOf(k)'
    BY <1>1, <1>3 DEF CallRowsOf, UsedCallRows
  <2>3. \A t \in CallSources : About(t, k)' =>
          About(t, k) /\ callHandler'[t] = callHandler[t]
    BY <1>1 DEF About
  <2>. QED  BY <1>1, <1>3, <2>1, <2>2, <2>3, CallUntouched
<1>. QED  BY <1>2, <1>3

\* Every step keeps the invariant.
LEMMA CallsInvStep == CallsInv /\ [CallNext]_callVars => CallsInv'
<1>. SUFFICES ASSUME CallsInv, [CallNext]_callVars PROVE CallsInv'
  OBVIOUS
<1>1. CallsTyped /\ CallsTyped'
  BY CallsTypedStep DEF CallsInv
<1>. SUFFICES ASSUME NEW k \in CallKeys \ callMixed'
              PROVE  (Alone(k) /\ OneRow(k))'
  BY <1>1 DEF CallsInv, CallKeys
<1>2. k \notin callMixed => Alone(k) /\ OneRow(k)
  BY DEF CallsInv
<1>3. CASE \E s \in CallSources, e \in CallStored : SelectCallRow(s, e)
  BY <1>1, <1>2, <1>3, SelectStep
<1>4. CASE \E s \in CallSources : UpdateCallEventRow(s)
  <2>1. k \notin callMixed
    BY <1>4 DEF UpdateCallEventRow
  <2>. QED  BY <1>1, <1>2, <1>4, <2>1, UpdateStep
<1>5. CASE \E s \in CallSources : InsertCallEvent(s)
  <2>1. k \notin callMixed
    BY <1>5 DEF InsertCallEvent
  <2>. QED  BY <1>1, <1>2, <1>5, <2>1, InsertStep
<1>6. CASE \E s \in CallSources : DeleteCallEvents(s)
  BY <1>1, <1>2, <1>6, DeleteStep
<1>7. CASE SyncStops
  <2>1. k \notin callMixed /\ UNCHANGED <<callRows, callSaid>>
    BY <1>7 DEF SyncStops
  <2>2. \A s \in CallSources : ~About(s, k)'
    BY <1>7 DEF SyncStops, About, CallIdle
  <2>. QED  BY <1>2, <2>1, <2>2, CallUntouched
<1>8. CASE UNCHANGED callVars
  BY <1>2, <1>8, CallUntouched DEF callVars, About
<1>. QED  BY <1>3, <1>4, <1>5, <1>6, <1>7, <1>8 DEF CallNext

\* No call has a row, and nothing was said of any.
LEMMA CallsInitInv == CallInit => CallsInv
<1>. SUFFICES ASSUME CallInit PROVE CallsInv
  OBVIOUS
<1>1. CallsTyped
  BY CallEventsAssumption
     DEF CallInit, CallsTyped, CallRowIds, CallIdle, NothingSaid, CallDetails
<1>2. ASSUME NEW k \in CallKeys PROVE Alone(k) /\ OneRow(k)
  <2>1. CallRowsOf(k) = {}
    BY DEF CallInit, CallRowsOf, UsedCallRows
  <2>. QED  BY <2>1 DEF CallInit, Alone, OneRow, About, CallIdle, NothingSaid
<1>. QED  BY <1>1, <1>2 DEF CallsInv

\* A call and event type has one row, at its last event's time and with every
\* detail, unless two goroutines looked for it before either had written it
\* (UpsertCallEvent).
THEOREM CallHasOneRow == CallSpec => []OneRowPerCall
<1>1. CallsInv => OneRowPerCall
  <2>. SUFFICES ASSUME CallsInv, NEW k \in CallKeys, k \notin callMixed
                PROVE  /\ Cardinality(CallRowsOf(k)) =
                            IF callSaid[k].ts = 0 THEN 0 ELSE 1
                       /\ \A r \in CallRowsOf(k) :
                            /\ callRows[r].ts = callSaid[k].ts
                            /\ callRows[r].detail = callSaid[k].detail
    BY DEF OneRowPerCall, CallRowsOf
  <2>1. OneRow(k)
    BY DEF CallsInv
  <2>2. Cardinality({}) = 0
    BY FS_EmptySet
  <2>3. \A r : Cardinality({r}) = 1
    BY FS_Singleton
  <2>. QED  BY <2>1, <2>2, <2>3 DEF OneRow
<1>. QED  BY CallsInitInv, CallsInvStep, <1>1, PTL DEF CallSpec

\* Only calls and types that are stored are ever stored by two at once.
LEMMA MixedTypedStep ==
    ASSUME CallsTyped, [CallNext]_callVars,
           callMixed \subseteq (CallIds \cup {NoCallId}) \X CallTypes
    PROVE  callMixed' \subseteq (CallIds \cup {NoCallId}) \X CallTypes
<1>1. ASSUME NEW e \in CallStored
      PROVE  e.id \in CallIds \cup {NoCallId} /\ e.type \in CallTypes
  BY DEF CallStored
<1>2. ASSUME NEW s \in CallSources, NEW e \in CallStored, SelectCallRow(s, e)
      PROVE  callMixed' \subseteq (CallIds \cup {NoCallId}) \X CallTypes
  BY <1>1, <1>2 DEF SelectCallRow
<1>3. ASSUME NEW s \in CallSources, DeleteCallEvents(s)
      PROVE  callMixed' \subseteq (CallIds \cup {NoCallId}) \X CallTypes
  <2>1. ASSUME NEW t \in CallSources, callHandler[t].at # "idle"
        PROVE  callHandler[t].event.id \in CallIds \cup {NoCallId}
    BY <1>1, <2>1 DEF CallsTyped
  <2>. QED  BY <1>3, <2>1, CallEventsAssumption DEF DeleteCallEvents
<1>4. CASE \/ \E s \in CallSources :
                UpdateCallEventRow(s) \/ InsertCallEvent(s)
           \/ SyncStops \/ UNCHANGED callVars
  BY <1>4 DEF UpdateCallEventRow, InsertCallEvent, SyncStops, callVars
<1>. QED  BY <1>2, <1>3, <1>4 DEF CallNext

\* The rows and the records of the goroutines have values of their types.
\* (The idle record holds an event, so there must be one.)
THEOREM CallsAreTyped ==
    ASSUME CallTimes # {}
    PROVE  CallSpec => []CallTypeOK
<1>. DEFINE Mixed == callMixed \subseteq (CallIds \cup {NoCallId}) \X CallTypes
<1>1. CallInit => CallsTyped /\ Mixed
  BY CallsInitInv DEF CallsInv, CallInit
<1>2. CallsTyped /\ Mixed /\ [CallNext]_callVars => CallsTyped' /\ Mixed'
  BY CallsTypedStep, MixedTypedStep
<1>3. CallsTyped /\ Mixed => CallTypeOK
  <2>1. NoEvent \in CallStored
    <3>1. PICK ts \in CallTimes : TRUE
      OBVIOUS
    <3>2. [id |-> NoCallId, type |-> "call_log", ts |-> ts,
           detail |-> NoDetail] \in CallStored
      BY CallEventsAssumption DEF CallStored, CallDetails
    <3>. QED  BY <3>2 DEF NoEvent
  <2>2. CallStored \cup {NoEvent} = CallStored
    BY <2>1
  <2>. QED  BY <2>2 DEF CallsTyped, CallTypeOK
<1>. QED  BY <1>1, <1>2, <1>3, PTL DEF CallSpec

-----------------------------------------------------------------------------
(* The tables together.                                                    *)

\* Each table sees a behaviour of its own specification: what is proved of
\* one of them holds next to the others.
THEOREM TablesCompose ==
    TablesSpec => Spec /\ LIDSpec /\ DirectorySpec /\ CallSpec
<1>1. TablesInit => Init /\ LIDInit /\ DirectoryInit /\ CallInit
  BY DEF TablesInit
<1>2. [TablesNext]_tablesVars
        => /\ [Next]_vars /\ [LIDNext]_lidVars
           /\ [DirectoryNext]_directoryVars /\ [CallNext]_callVars
  BY DEF TablesNext, tablesVars, DirectoryNext
<1>. QED
  BY <1>1, <1>2, PTL DEF TablesSpec, Spec, LIDSpec, DirectorySpec, CallSpec

\* Every table and every record of its writers has values of its type, for
\* every account that has a group and every feed that has a call's time.
THEOREM TablesTyped ==
    ASSUME Groups # {}, CallTimes # {}
    PROVE  TablesSpec => []TablesTypeOK
<1>1. Spec => []TypeOK
  BY ChatTyped
<1>2. LIDSpec => []LIDTypeOK
  BY LIDTyped
<1>3. DirectorySpec => []DirectoryTypeOK
  BY DirectoryTyped
<1>4. CallSpec => []CallTypeOK
  BY CallsAreTyped
<1>5. TypeOK /\ LIDTypeOK /\ DirectoryTypeOK /\ CallTypeOK => TablesTypeOK
  BY DEF TablesTypeOK
<1>. QED  BY TablesCompose, <1>1, <1>2, <1>3, <1>4, <1>5, PTL
=============================================================================
