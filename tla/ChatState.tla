----------------------------- MODULE ChatState -----------------------------
(***************************************************************************)
(* One chat: what its row in `chats` says of archived, pinned, muted and   *)
(* unread, next to what the phone has.                                     *)
(*                                                                         *)
(* Messages, receipts and history come through whatsmeow's node queue,     *)
(* changes of chat state made on the phone as app-state patches, which are *)
(* dispatched by another goroutine.  A chat command changes the phone and  *)
(* then the row.  No two processes have the lock at once.                  *)
(***************************************************************************)
EXTENDS Integers, Sequences, FiniteSets

CONSTANTS
    Messages,    \* the incoming messages of the chat
    Recent,      \* those too young for `cleanup --days`
    Scenes       \* bounds: what happens in a behaviour

Kinds == {"archive", "pin", "mute", "read"}

ASSUME ChatStateAssumption ==
    /\ IsFiniteSet(Messages) /\ Recent \subseteq Messages
    /\ Scenes \subseteq [messages : SUBSET Messages, kinds : SUBSET Kinds,
                         events : Nat]

VARIABLES
    scene,    \* messages that arrive, kinds of changes, events at the phone
    mode,     \* who has the lock
    chat,     \* the row, defaults when there is none
    stored,   \* the chat's rows in `messages`
    handler,  \* the event handler on the node queue
    page,     \* messages of a history conversation still to be stored
    cli,      \* the command under way
    phone,    \* WhatsApp: the state of the chat
    inbox,    \* WhatsApp: what is not acknowledged yet
    patches,  \* WhatsApp: app-state changes this device has not seen
    changes,  \* WhatsApp: what happened on the phone, counted
    missed,   \* history: a change of a flag never reached the row
    counted,  \* history: how often a stored message was counted
    uncounted \* history: stored by a page, or its increment was lost

world == <<phone, inbox, patches, changes>>
rows == <<chat, stored, counted, uncounted>>
state == <<mode, chat, stored, handler, page, cli, phone, inbox, patches,
           changes, missed, counted, uncounted>>
vars == <<scene, state>>

Mutes == {"no", "until", "forever"}

Fresh == [archived |-> FALSE, pinned |-> FALSE, muted |-> "no",
          unread |-> FALSE, count |-> 0]
Idle == [at |-> "idle", fresh |-> FALSE]
NoCommand == [at |-> "idle", change |-> [kind |-> "pin", value |-> FALSE]]

Changes == [kind : {"archive", "pin", "read"}, value : BOOLEAN]
              \cup [kind : {"mute"}, value : Mutes]

Init ==
    /\ scene \in Scenes
    /\ mode = "none" /\ chat = Fresh /\ stored = {}
    /\ handler = Idle /\ page = {} /\ cli = NoCommand
    /\ phone = [archived |-> FALSE, pinned |-> FALSE, muted |-> "no",
                marked |-> FALSE, unread |-> {}, seen |-> {}]
    /\ inbox = <<>> /\ patches = <<>> /\ changes = 0
    /\ missed = FALSE /\ counted = [m \in Messages |-> 0] /\ uncounted = {}

-----------------------------------------------------------------------------
(* The statements of store/chats.go.                                       *)

\* Variant: archiving leaves the pin.
ArchiveKeepingPin(c, archived) == [c EXCEPT !.archived = archived]

SetChatArchived(c, archived) ==
    [c EXCEPT !.archived = archived, !.pinned = @ /\ ~archived]

SetChatPinned(c, pinned) == [c EXCEPT !.pinned = pinned]

SetChatMutedUntil(c, until) == [c EXCEPT !.muted = until]

\* Variants: only the marker is cleared; the marker is a count of -1.
SetMarkerOnly(c, unread) == [c EXCEPT !.unread = unread]
MarkByCount(c, unread) ==
    [c EXCEPT !.unread = unread, !.count = IF unread THEN -1 ELSE 0]

\* Marking unread leaves the count.
SetChatUnread(c, unread) ==
    [c EXCEPT !.unread = unread, !.count = IF unread THEN @ ELSE 0]

SetChatUnreadCount(c, n) == [c EXCEPT !.unread = n > 0, !.count = n]

IncrementChatUnread(c) == [c EXCEPT !.unread = TRUE, !.count = @ + 1]

\* The switch of handleChatStateEvent, and what each command writes.
Changed(c, p) ==
    CASE p.kind = "archive" -> SetChatArchived(c, p.value)
      [] p.kind = "pin"     -> SetChatPinned(c, p.value)
      [] p.kind = "mute"    -> SetChatMutedUntil(c, p.value)
      [] p.kind = "read"    -> SetChatUnread(c, ~p.value)

-----------------------------------------------------------------------------
(* The phone.                                                              *)

\* WhatsApp unpins a chat that is archived.
OnPhone(p) ==
    CASE p.kind = "archive" -> [phone EXCEPT !.archived = p.value,
                                             !.pinned = @ /\ ~p.value]
      [] p.kind = "pin"     -> [phone EXCEPT !.pinned = p.value]
      [] p.kind = "mute"    -> [phone EXCEPT !.muted = p.value]
      [] p.kind = "read"    -> [phone EXCEPT !.marked = ~p.value,
                                  !.unread = IF p.value THEN {} ELSE @]

PhoneStep ==
    /\ changes < scene.events /\ changes' = changes + 1
    /\ UNCHANGED <<mode, rows, handler, page, cli, missed>>

Receive(m) ==
    /\ m \notin phone.seen
    /\ phone' = [phone EXCEPT !.unread = @ \cup {m}, !.seen = @ \cup {m}]
    /\ inbox' = Append(inbox, [kind |-> "message", id |-> m])
    /\ PhoneStep /\ UNCHANGED patches

\* Read on a linked device: a read-self receipt.
ReadElsewhere ==
    /\ phone' = OnPhone([kind |-> "read", value |-> TRUE])
    /\ inbox' = Append(inbox, [kind |-> "read"])
    /\ PhoneStep /\ UNCHANGED patches

ChangeOnPhone(p) ==
    /\ phone' = OnPhone(p)
    /\ patches' = Append(patches, p)
    /\ PhoneStep /\ UNCHANGED inbox

\* A conversation of a history sync, with or without its unread state.
ShareHistory(msgs, told) ==
    /\ msgs \subseteq phone.seen
    /\ inbox' = Append(inbox, [kind |-> "history", msgs |-> msgs,
                               told |-> told, marked |-> phone.marked,
                               count |-> Cardinality(phone.unread)])
    /\ PhoneStep /\ UNCHANGED <<phone, patches>>

-----------------------------------------------------------------------------
(* sync.                                                                   *)

SyncStarts ==
    /\ mode = "none" /\ mode' = "sync"
    /\ UNCHANGED <<rows, handler, page, cli, world, missed>>

Awaits(kind) ==
    /\ mode = "sync" /\ handler.at = "idle"
    /\ inbox # <<>> /\ Head(inbox).kind = kind

\* The acknowledgement may get lost with the connection.
Acknowledge == inbox' = Tail(inbox) \/ inbox' = inbox

HandlerStep == UNCHANGED <<mode, page, cli, phone, patches, changes, missed>>

\* Variant: every delivery counts.
AlwaysNew(m) == TRUE

\* shouldIncrementLiveUnread: the message has no row yet.
ShouldIncrementLiveUnread(m) == m \notin stored

\* A lookup that fails is taken for a message that is there.
CheckMessage ==
    /\ Awaits("message")
    /\ \E fresh \in {FALSE, ShouldIncrementLiveUnread(Head(inbox).id)} :
         handler' = [at |-> "store", fresh |-> fresh]
    /\ HandlerStep /\ UNCHANGED <<rows, inbox>>

\* Storing fails, or --max-messages is reached: the message is dropped.
StoreFails ==
    /\ handler.at = "store" /\ handler' = Idle /\ inbox' = Tail(inbox)
    /\ HandlerStep /\ UNCHANGED rows

StoreMessage ==
    /\ handler.at = "store"
    /\ stored' = stored \cup {Head(inbox).id}
    /\ IF handler.fresh
       THEN /\ handler' = [handler EXCEPT !.at = "count"]
            /\ UNCHANGED <<inbox, uncounted>>
       ELSE /\ handler' = Idle /\ Acknowledge
            /\ uncounted' = uncounted \cup ({Head(inbox).id} \ stored)
    /\ HandlerStep /\ UNCHANGED <<chat, counted>>

IncrementLiveUnread ==
    /\ handler.at = "count" /\ handler' = Idle /\ Acknowledge
    /\ chat' = IncrementChatUnread(chat)
    /\ counted' = [counted EXCEPT ![Head(inbox).id] = @ + 1]
    /\ HandlerStep /\ UNCHANGED <<stored, uncounted>>

IncrementFails ==
    /\ handler.at = "count" /\ handler' = Idle /\ Acknowledge
    /\ uncounted' = uncounted \cup {Head(inbox).id}
    /\ HandlerStep /\ UNCHANGED <<chat, stored, counted>>

\* Here and below a statement may fail with a warning.
HandleReceipt ==
    /\ Awaits("read") /\ Acknowledge
    /\ chat' \in {SetChatUnreadCount(chat, 0), chat}
    /\ HandlerStep /\ UNCHANGED <<handler, stored, counted, uncounted>>

\* storeHistoryUnreadCount
WithHistory(c, conv) ==
    IF ~conv.told THEN c
    ELSE IF conv.count = 0 /\ conv.marked THEN SetChatUnread(c, TRUE)
    ELSE SetChatUnreadCount(c, conv.count)

\* The page is worked through next to the queue: a long history sync outlives
\* whatsmeow's handler timeout.
StartPage ==
    /\ Awaits("history") /\ page = {}
    /\ chat' \in {WithHistory(chat, Head(inbox)), chat}
    /\ page' = Head(inbox).msgs
    /\ inbox' = Tail(inbox)
    /\ UNCHANGED <<mode, stored, handler, cli, phone, patches, changes,
                   missed, counted, uncounted>>

StoreFromPage(m) ==
    /\ m \in page /\ page' = page \ {m}
    /\ \/ /\ stored' = stored \cup {m}
          /\ uncounted' = uncounted \cup ({m} \ stored)
       \/ UNCHANGED <<stored, uncounted>>
    /\ UNCHANGED <<mode, chat, handler, cli, world, missed, counted>>

HandleChatStateEvent ==
    /\ mode = "sync" /\ patches # <<>> /\ patches' = Tail(patches)
    /\ \/ chat' = Changed(chat, Head(patches)) /\ UNCHANGED missed
       \/ UNCHANGED chat /\ missed' = TRUE
    /\ UNCHANGED <<mode, stored, handler, page, cli, phone, inbox, changes,
                   counted, uncounted>>

\* sync is stopped or dies; whatsmeow has recorded a patch before it
\* dispatches it.
SyncEnds ==
    /\ mode = "sync" /\ mode' = "none"
    /\ handler' = Idle /\ page' = {}
    /\ uncounted' = IF handler.at = "count"
                    THEN uncounted \cup {Head(inbox).id} ELSE uncounted
    /\ \/ UNCHANGED <<patches, missed>>
       \/ patches # <<>> /\ patches' = Tail(patches) /\ missed' = TRUE
    /\ UNCHANGED <<chat, stored, counted, cli, phone, inbox, changes>>

-----------------------------------------------------------------------------
(* Commands.                                                               *)

CommandStep == UNCHANGED <<handler, page, changes>>

CommandStarts ==
    /\ mode = "none" /\ mode' = "cli"
    /\ cli' = [NoCommand EXCEPT !.at = "open"]
    /\ CommandStep
    /\ UNCHANGED <<rows, phone, inbox, patches, missed>>

\* A command that is connected has no event handler: what is delivered to it
\* is acknowledged and gone.
DeliveredToCommand ==
    /\ mode = "cli" /\ cli.at = "open"
    /\ \/ /\ inbox # <<>> /\ inbox' = Tail(inbox)
          /\ UNCHANGED <<patches, missed>>
       \/ /\ patches # <<>> /\ patches' = Tail(patches) /\ missed' = TRUE
          /\ UNCHANGED inbox
    /\ CommandStep /\ UNCHANGED <<mode, rows, cli, phone>>

\* ArchiveChat, PinChat, MuteChat, MarkChatRead of the App: WhatsApp first,
\* which takes a patch on top of all earlier ones only,
PatchPhone(p) ==
    /\ mode = "cli" /\ cli.at = "open" /\ patches = <<>>
    /\ phone' = OnPhone(p)
    /\ cli' = [at |-> "write", change |-> p]
    /\ CommandStep /\ UNCHANGED <<mode, rows, inbox, patches, missed>>

\* then the row.
WriteChange ==
    /\ cli.at = "write"
    /\ chat' = Changed(chat, cli.change)
    /\ mode' = "none" /\ cli' = NoCommand
    /\ CommandStep
    /\ UNCHANGED <<stored, counted, uncounted, phone, inbox, patches, missed>>

\* Variant: the oldest message decides.
InactiveByOldest == stored \ Recent # {}

\* cleanup --days: activity_ts of ListChatsOlderThan.
Inactive == stored # {} /\ stored \cap Recent = {}

ListChatsOlderThan ==
    /\ mode = "cli" /\ cli.at = "open" /\ Inactive
    /\ cli' = [NoCommand EXCEPT !.at = "cleanup"]
    /\ CommandStep /\ UNCHANGED <<mode, rows, phone, inbox, patches, missed>>

\* DeleteChat: the rows of `messages` go with the chat.
DeleteChat ==
    /\ chat' = Fresh /\ stored' = {}
    /\ counted' = [m \in Messages |-> 0] /\ uncounted' = {}
    /\ missed' = TRUE

\* cleanup, after its confirmation, and cleanup --jid.
Cleanup(at) ==
    /\ mode = "cli" /\ cli.at = at
    /\ DeleteChat
    /\ mode' = "none" /\ cli' = NoCommand
    /\ CommandStep /\ UNCHANGED <<phone, inbox, patches>>

\* The command fails, is declined or dies.
CommandEnds ==
    /\ mode = "cli" /\ mode' = "none" /\ cli' = NoCommand
    /\ missed' = (missed \/ cli.at = "write")
    /\ CommandStep /\ UNCHANGED <<rows, phone, inbox, patches>>

-----------------------------------------------------------------------------

Possible == {p \in Changes : p.kind \in scene.kinds}

Phone ==
    \/ \E m \in scene.messages : Receive(m)
    \/ "read" \in scene.kinds /\ ReadElsewhere
    \/ \E p \in Possible : ChangeOnPhone(p)
    \/ \E msgs \in SUBSET phone.seen, told \in BOOLEAN :
         ShareHistory(msgs, told)

Sync ==
    \/ SyncStarts \/ CheckMessage \/ StoreFails \/ StoreMessage
    \/ IncrementLiveUnread \/ IncrementFails \/ HandleReceipt \/ StartPage
    \/ \E m \in page : StoreFromPage(m)
    \/ HandleChatStateEvent \/ SyncEnds

Command ==
    \/ CommandStarts \/ DeliveredToCommand
    \/ \E p \in Possible : PatchPhone(p)
    \/ WriteChange \/ ListChatsOlderThan \/ CommandEnds
    \/ \E at \in {"open", "cleanup"} : Cleanup(at)

Next == (Phone \/ Sync \/ Command) /\ UNCHANGED scene

Spec == Init /\ [][Next]_vars

-----------------------------------------------------------------------------
(* Properties.                                                             *)

NodeEvents ==
    [kind : {"message"}, id : Messages] \cup [kind : {"read"}]
       \cup [kind : {"history"}, msgs : SUBSET Messages, told : BOOLEAN,
             marked : BOOLEAN, count : Nat]

TypeOK ==
    /\ scene \in Scenes /\ mode \in {"none", "sync", "cli"}
    /\ chat \in [archived : BOOLEAN, pinned : BOOLEAN, muted : Mutes,
                 unread : BOOLEAN, count : Nat]
    /\ stored \subseteq Messages /\ page \subseteq Messages
    /\ handler \in [at : {"idle", "store", "count"}, fresh : BOOLEAN]
    /\ cli \in [at : {"idle", "open", "write", "cleanup"}, change : Changes]
    /\ counted \in [Messages -> Nat] /\ uncounted \subseteq Messages
    /\ phone \in [archived : BOOLEAN, pinned : BOOLEAN, muted : Mutes,
                  marked : BOOLEAN, unread : SUBSET Messages,
                  seen : SUBSET Messages]
    /\ inbox \in Seq(NodeEvents) /\ patches \in Seq(Changes)
    /\ changes \in 0 .. scene.events /\ missed \in BOOLEAN

\* docs/chats.md: a counted chat is an unread chat, so that `list --unread`
\* finds it: no order of receipts, marks, history and increments leaves a
\* count behind on a chat that reads as read.
CountedIsUnread == chat.count > 0 => chat.unread

\* A message counts once, however often it is delivered and whatever page
\* stores it meanwhile; it fails to count only if a page brought it, its
\* lookup or increment failed, or the process died in between.
CountsOnce ==
    \A m \in stored :
        /\ counted[m] <= 1
        /\ \/ counted[m] = 1 \/ m \in uncounted
           \/ handler.at = "count" /\ Head(inbox).id = m

\* docs/sync.md: changes made while wacli was offline are caught up.  With no
\* change pending the row's flags are the phone's, whether they were changed
\* there or by a command, unless one was lost: delivered to a command, dropped
\* by a failure or a crash, or forgotten by cleanup.
FlagsFollowPhone ==
    ~missed /\ patches = <<>> /\ cli.at # "write" =>
        /\ chat.archived = phone.archived /\ chat.pinned = phone.pinned
        /\ chat.muted = phone.muted

\* cleanup --days deletes no chat that became active while it waited for its
\* confirmation.
CleanupSparesRecent ==
    [][cli.at = "cleanup" /\ stored' # stored => stored \cap Recent = {}]_vars
=============================================================================
