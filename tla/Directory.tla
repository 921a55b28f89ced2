----------------------------- MODULE Directory -----------------------------
(***************************************************************************)
(* What the store knows of groups and contacts: the rows of `groups`, the  *)
(* group rows of `chats`, the names of a contact, and who writes them.     *)
(*                                                                         *)
(* A sync process refreshes the groups once, fetching the list and then    *)
(* writing it row by row, while its handler stores group messages and with *)
(* each the group's info.  A command (groups refresh, info, rename, topic, *)
(* participants, requests, join, create, leave, prune; contacts ...) holds *)
(* the store lock alone, but not WhatsApp: members come and go meanwhile.  *)
(*                                                                         *)
(* Times are ages: RECENT is after the cutoff of `groups prune --days`,    *)
(* OLD before it, NEVER no time at all.  Owner, creation time, hierarchy   *)
(* and participants are written with the name and left out.                *)
(***************************************************************************)
EXTENDS Naturals

CONSTANTS
    Groups,         \* groups of the account, past and present
    GroupHandlers,  \* dispatchers that store group messages
    Subjects,       \* names of groups and contacts
    NoName,         \* the empty name
    MaxChanges      \* bound: changes on WhatsApp and messages stored

ASSUME DirectoryAssumption ==
    /\ NoName \notin Subjects /\ MaxChanges \in Nat

VARIABLES
    member,      \* WhatsApp: the groups the account is in
    profile,     \* WhatsApp: subject of each group
    groupChanges, \* WhatsApp: changes and messages so far
    groupRow,    \* `groups`, with the age of left_at
    groupChat,   \* age of last_message_ts of the group's row in `chats`
    lastMessage, \* age of the group's newest row in `messages`
    contact,     \* a row of `contacts`, and its alias
    dirLock,     \* who holds the store lock
    refresh,     \* refreshGroups, `groups refresh`
    groupEvent,  \* the message each handler is storing
    command,     \* the command that changes a group, or prunes
    touched      \* history: rows not left to the running refresh

NEVER == 0
OLD == 1
RECENT == 2
Ages == {NEVER, OLD, RECENT}

whatsapp == <<member, profile, groupChanges>>
rowsOfGroups == <<groupRow, groupChat, lastMessage>>
directoryVars == <<whatsapp, rowsOfGroups, contact, dirLock, refresh,
                   groupEvent, command, touched>>

AnyName == Subjects \cup {NoName}
NoGroup == [name |-> NoName, left |-> NEVER, stored |-> FALSE]
GroupRows == [name : AnyName, left : Ages, stored : BOOLEAN]

RefreshIdle == [at |-> "idle", list |-> {}, names |-> [g \in Groups |-> NoName],
                todo |-> {}]
EventIdle == [at |-> "idle", group |-> CHOOSE g \in Groups : TRUE,
              name |-> NoName]
NoGroupCommand == [op |-> "none", groups |-> {}]

DirectoryInit ==
    /\ member \in SUBSET Groups
    /\ profile \in [Groups -> Subjects] /\ groupChanges = 0
    /\ groupRow = [g \in Groups |-> NoGroup]
    /\ groupChat = [g \in Groups |-> NEVER]
    /\ lastMessage = [g \in Groups |-> NEVER]
    /\ contact = [stored |-> FALSE, whatsapp |-> NoName, system |-> NoName,
                  alias |-> NoName]
    /\ dirLock = "free" /\ refresh = RefreshIdle
    /\ groupEvent = [d \in GroupHandlers |-> EventIdle]
    /\ command = NoGroupCommand /\ touched = {}

-----------------------------------------------------------------------------
(* WhatsApp and the clock.                                                 *)

StoreUnchanged == UNCHANGED <<rowsOfGroups, contact, dirLock, refresh,
                              groupEvent, command, touched>>
Change == groupChanges < MaxChanges /\ groupChanges' = groupChanges + 1

JoinOrLeave(g) ==
    /\ Change
    /\ member' = IF g \in member THEN member \ {g} ELSE member \cup {g}
    /\ UNCHANGED profile /\ StoreUnchanged

\* An answer may leave the name out.
RenameOnPhone(g, n) ==
    /\ Change /\ n # profile[g]
    /\ profile' = [profile EXCEPT ![g] = n]
    /\ UNCHANGED member /\ StoreUnchanged

Aged(age) == IF age = RECENT THEN OLD ELSE age

TimePassesBy ==
    /\ groupChat' = [g \in Groups |-> Aged(groupChat[g])]
    /\ lastMessage' = [g \in Groups |-> Aged(lastMessage[g])]
    /\ groupRow' = [g \in Groups |->
                      [groupRow[g] EXCEPT !.left = Aged(groupRow[g].left)]]
    /\ UNCHANGED <<whatsapp, contact, dirLock, refresh, groupEvent, command,
                   touched>>

-----------------------------------------------------------------------------
(* Statements.                                                             *)

\* Variant: the name is replaced by whatever comes.
ReplaceName(old, new) == new

KeepName(old, new) == IF new = NoName THEN old ELSE new

\* Variant: a group that was left stays left.
UpsertGroupKeepingLeft(g, name) ==
    groupRow' = [groupRow EXCEPT ![g] =
                   [name |-> KeepName(@.name, name), left |-> @.left,
                    stored |-> TRUE]]

\* UpsertGroupWithHierarchy
UpsertGroup(g, name) ==
    groupRow' = [groupRow EXCEPT ![g] =
                   [name |-> KeepName(@.name, name), left |-> NEVER,
                    stored |-> TRUE]]

UpsertGroupChat(g, age) ==
    groupChat' = [groupChat EXCEPT ![g] = IF age > @ THEN age ELSE @]

\* Ignored, as the callers ignore the error.
Fails(g) == UNCHANGED groupRow /\ touched' = touched \cup {g}

-----------------------------------------------------------------------------
(* The lock: a sync process, or a command.                                 *)

OpenDirectory ==
    /\ dirLock = "free" /\ dirLock' \in {"sync", "command"}
    /\ UNCHANGED <<whatsapp, rowsOfGroups, contact, refresh, groupEvent,
                   command, touched>>

\* The process ends, or dies in the middle of anything.
CloseDirectory ==
    /\ dirLock # "free" /\ dirLock' = "free"
    /\ refresh' = RefreshIdle /\ command' = NoGroupCommand
    /\ groupEvent' = [d \in GroupHandlers |-> EventIdle]
    /\ UNCHANGED <<whatsapp, rowsOfGroups, contact, touched>>

-----------------------------------------------------------------------------
(* refreshGroups and `groups refresh`.                                     *)

Refreshing(stage) == dirLock # "free" /\ refresh.at = stage

RefreshStep == UNCHANGED <<whatsapp, lastMessage, contact, dirLock,
                           groupEvent, command>>

GetJoinedGroups ==
    /\ Refreshing("idle") /\ command = NoGroupCommand
    /\ refresh' = [at |-> "upsert", list |-> member, names |-> profile,
                   todo |-> member]
    /\ touched' = {}
    /\ RefreshStep /\ UNCHANGED <<groupRow, groupChat>>

RefreshGroup(g) ==
    /\ Refreshing("upsert") /\ g \in refresh.todo
    /\ refresh' = [refresh EXCEPT !.todo = @ \ {g}]
    /\ \/ UpsertGroup(g, refresh.names[g]) /\ UNCHANGED touched
       \/ Fails(g)
    /\ UpsertGroupChat(g, RECENT)
    /\ RefreshStep

Missing == {g \in Groups : /\ groupRow[g].stored /\ groupRow[g].left = NEVER
                           /\ g \notin refresh.list}

\* MarkGroupsMissingFrom, with the list of the rows ...
ListJoinedGroupJIDs ==
    /\ Refreshing("upsert") /\ refresh.todo = {}
    /\ refresh' = [refresh EXCEPT !.at = "mark", !.todo = Missing]
    /\ RefreshStep /\ UNCHANGED <<groupRow, groupChat, touched>>

MarkLeft(g) == groupRow' = [groupRow EXCEPT ![g].left = RECENT]

\* ... and one statement for each of them.
MarkGroupLeft(g) ==
    /\ Refreshing("mark") /\ g \in refresh.todo
    /\ MarkLeft(g)
    /\ refresh' = [refresh EXCEPT !.todo = @ \ {g}]
    /\ RefreshStep /\ UNCHANGED <<groupChat, touched>>

RefreshEnds ==
    /\ Refreshing("mark") /\ refresh.todo = {}
    /\ refresh' = RefreshIdle
    /\ RefreshStep /\ UNCHANGED <<groupRow, groupChat, touched>>

RefreshFails ==
    /\ \/ Refreshing("upsert")
       \/ Refreshing("mark")
    /\ refresh' = RefreshIdle
    /\ RefreshStep /\ UNCHANGED <<groupRow, groupChat, touched>>

-----------------------------------------------------------------------------
(* storeParsedMessage for a group message, on dispatcher d.                *)

EventStep == UNCHANGED <<member, profile, contact, dirLock, refresh, command>>

\* UpsertChat with the message's time: of today, or of a replay, which may be
\* of a group that was left.
StoreGroupMessage(d, g, age) ==
    /\ dirLock = "sync" /\ groupEvent[d].at = "idle" /\ Change
    /\ UpsertGroupChat(g, age)
    /\ groupEvent' = [groupEvent EXCEPT ![d] =
                        [at |-> "info", group |-> g, name |-> NoName]]
    /\ lastMessage' = [lastMessage EXCEPT ![g] = IF age > @ THEN age ELSE @]
    /\ EventStep /\ UNCHANGED <<groupRow, touched>>

\* GetGroupInfo answers a member only; an error is ignored.
GetGroupInfo(d) ==
    /\ groupEvent[d].at = "info"
    /\ LET g == groupEvent[d].group IN
         groupEvent' = IF g \in member
                       THEN [groupEvent EXCEPT ![d].at = "row",
                                               ![d].name = profile[g]]
                       ELSE [groupEvent EXCEPT ![d] = EventIdle]
    /\ EventStep /\ UNCHANGED <<rowsOfGroups, groupChanges, touched>>

WriteGroupInfo(d) ==
    /\ groupEvent[d].at = "row"
    /\ LET e == groupEvent[d] IN
         \/ UpsertGroup(e.group, e.name) /\ touched' = touched \cup {e.group}
         \/ Fails(e.group)
    /\ groupEvent' = [groupEvent EXCEPT ![d] = EventIdle]
    /\ EventStep /\ UNCHANGED <<groupChat, lastMessage, groupChanges>>

-----------------------------------------------------------------------------
(* Commands on one group: ask WhatsApp, then write what it says.           *)

Commanding(op) == dirLock = "command" /\ command.op = op
GroupCommandStep == UNCHANGED <<contact, dirLock, refresh, groupEvent, touched>>

\* WhatsApp is asked, and GetGroupInfo and persistGroupInfo follow.
AskFirst(g) ==
    /\ Commanding("none") /\ Refreshing("idle")
    /\ command' = [op |-> "persist", groups |-> {g}]
    /\ GroupCommandStep /\ UNCHANGED rowsOfGroups

\* `groups info`
ShowGroupInfo(g) == AskFirst(g) /\ g \in member /\ UNCHANGED whatsapp

\* `groups topic`; announce-only and locked; requests approve and reject:
\* what they change on WhatsApp is not in the store.
SetGroupTopic(g) == ShowGroupInfo(g)
ToggleGroup(g) == ShowGroupInfo(g)
UpdateRequests(g) == ShowGroupInfo(g)

RenameGroup(g, n) ==
    /\ AskFirst(g) /\ g \in member /\ Change
    /\ profile' = [profile EXCEPT ![g] = n] /\ UNCHANGED member

CreateGroup(g, n) ==
    /\ AskFirst(g) /\ g \notin member /\ ~groupRow[g].stored /\ Change
    /\ profile' = [profile EXCEPT ![g] = n] /\ member' = member \cup {g}

JoinGroup(g) ==
    /\ AskFirst(g) /\ Change
    /\ member' = member \cup {g} /\ UNCHANGED profile

\* `groups participants remove` may remove the account itself.
UpdateParticipants(g, self) ==
    /\ AskFirst(g) /\ g \in member /\ Change
    /\ member' = (IF self THEN member \ {g} ELSE member) /\ UNCHANGED profile

PersistGroupInfo(g) ==
    /\ Commanding("persist") /\ g \in command.groups
    /\ \/ g \in member /\ UpsertGroup(g, profile[g])
       \/ UNCHANGED groupRow
    /\ command' = NoGroupCommand
    /\ GroupCommandStep /\ UNCHANGED <<whatsapp, groupChat, lastMessage>>

LeaveGroup(g) ==
    /\ Commanding("none") /\ Refreshing("idle") /\ Change
    /\ g \in member /\ member' = member \ {g}
    /\ command' = [op |-> "leave", groups |-> {g}]
    /\ GroupCommandStep /\ UNCHANGED <<rowsOfGroups, profile>>

WriteLeft(g) ==
    /\ Commanding("leave") /\ g \in command.groups
    /\ \/ groupRow[g].stored /\ MarkLeft(g)
       \/ UNCHANGED groupRow
    /\ command' = NoGroupCommand
    /\ GroupCommandStep /\ UNCHANGED <<whatsapp, groupChat, lastMessage>>

\* Variant: only messages count as activity.
MessageActivity(g) == lastMessage[g]

Activity(g) ==
    IF lastMessage[g] > groupChat[g] THEN lastMessage[g] ELSE groupChat[g]

\* `groups prune`, without --days, with --days, and with --include-active.
Prunable(g, days, includeActive) ==
    /\ groupRow[g].stored
    /\ \/ groupRow[g].left = OLD
       \/ groupRow[g].left = RECENT /\ ~days
       \/ groupRow[g].left = NEVER /\ includeActive /\ Activity(g) = OLD

\* The list is shown; the user may take any time to confirm.
ListPrunableGroups(days, includeActive) ==
    /\ Commanding("none") /\ Refreshing("idle") /\ (includeActive => days)
    /\ command' = [op |-> "prune",
                   groups |-> {g \in Groups : Prunable(g, days, includeActive)}]
    /\ GroupCommandStep /\ UNCHANGED <<whatsapp, rowsOfGroups>>

\* DeleteGroupLocalData, one transaction; a failure is reported and passed.
DeleteGroupLocalData(g) ==
    /\ Commanding("prune") /\ g \in command.groups
    /\ \/ /\ groupRow' = [groupRow EXCEPT ![g] = NoGroup]
          /\ groupChat' = [groupChat EXCEPT ![g] = NEVER]
          /\ lastMessage' = [lastMessage EXCEPT ![g] = NEVER]
       \/ UNCHANGED rowsOfGroups
    /\ command' = [command EXCEPT !.groups = @ \ {g}]
    /\ GroupCommandStep /\ UNCHANGED whatsapp

PruneEnds ==
    /\ Commanding("prune") /\ command.groups = {}
    /\ command' = NoGroupCommand
    /\ GroupCommandStep /\ UNCHANGED <<whatsapp, rowsOfGroups>>

-----------------------------------------------------------------------------
(* A contact.                                                              *)

ContactStep ==
    /\ dirLock # "free"
    /\ UNCHANGED <<whatsapp, rowsOfGroups, dirLock, refresh, groupEvent,
                   command, touched>>

StoreContact(n) ==
    contact' = [contact EXCEPT !.stored = TRUE, !.whatsapp = KeepName(@, n)]

\* refreshContacts and `contacts refresh`: WhatsApp may know no name, or no
\* longer know one.
RefreshContact(n) == ContactStep /\ StoreContact(n)

\* storeParsedMessage, for the sender of a message.
StoreSender(n) == ContactStep /\ dirLock = "sync" /\ StoreContact(n)

ContactCommand == ContactStep /\ dirLock = "command"

\* import-system, for a row it has listed.
ImportSystemName(n) ==
    /\ ContactCommand /\ contact.stored /\ contact.system # n
    /\ contact' = [contact EXCEPT !.system = n]

\* import-system --clear
ClearSystemNames ==
    ContactCommand /\ contact' = [contact EXCEPT !.system = NoName]

\* alias set, alias rm; an alias needs no contact.
SetAlias(n) == ContactCommand /\ contact' = [contact EXCEPT !.alias = n]
RemoveAlias == ContactCommand /\ contact' = [contact EXCEPT !.alias = NoName]

\* The name SearchContacts, ListContacts and GetContact select.
ContactName(c) ==
    KeepName(KeepName(c.whatsapp, c.system), c.alias)

-----------------------------------------------------------------------------

GroupsNext ==
    \/ \E g \in Groups : JoinOrLeave(g)
    \/ \E g \in Groups, n \in AnyName : RenameOnPhone(g, n)
    \/ TimePassesBy \/ OpenDirectory \/ CloseDirectory
    \/ GetJoinedGroups \/ ListJoinedGroupJIDs \/ RefreshEnds \/ RefreshFails
    \/ \E g \in Groups : RefreshGroup(g) \/ MarkGroupLeft(g)
    \/ \E d \in GroupHandlers, g \in Groups, age \in {OLD, RECENT} :
         StoreGroupMessage(d, g, age)
    \/ \E d \in GroupHandlers : GetGroupInfo(d) \/ WriteGroupInfo(d)
    \/ \E g \in Groups : \/ ShowGroupInfo(g) \/ SetGroupTopic(g) \/ ToggleGroup(g)
                          \/ UpdateRequests(g) \/ JoinGroup(g)
    \/ \E g \in Groups, n \in Subjects : RenameGroup(g, n) \/ CreateGroup(g, n)
    \/ \E g \in Groups, self \in BOOLEAN : UpdateParticipants(g, self)
    \/ \E g \in Groups : PersistGroupInfo(g) \/ LeaveGroup(g) \/ WriteLeft(g)
    \/ \E days \in BOOLEAN, includeActive \in BOOLEAN :
         ListPrunableGroups(days, includeActive)
    \/ \E g \in Groups : DeleteGroupLocalData(g)
    \/ PruneEnds

ContactsNext ==
    \/ OpenDirectory \/ CloseDirectory
    \/ \E n \in AnyName : RefreshContact(n) \/ StoreSender(n)
    \/ \E n \in Subjects : ImportSystemName(n) \/ SetAlias(n)
    \/ ClearSystemNames \/ RemoveAlias

DirectoryNext == GroupsNext \/ ContactsNext

DirectorySpec == DirectoryInit /\ [][DirectoryNext]_directoryVars

-----------------------------------------------------------------------------
(* Properties.                                                             *)

DirectoryTypeOK ==
    /\ member \subseteq Groups /\ profile \in [Groups -> AnyName]
    /\ groupChanges \in 0 .. MaxChanges
    /\ groupRow \in [Groups -> GroupRows]
    /\ groupChat \in [Groups -> Ages] /\ lastMessage \in [Groups -> Ages]
    /\ contact \in [stored : BOOLEAN, whatsapp : AnyName, system : AnyName,
                    alias : AnyName]
    /\ dirLock \in {"free", "sync", "command"}
    /\ refresh \in [at : {"idle", "upsert", "mark"}, list : SUBSET Groups,
                    names : [Groups -> AnyName], todo : SUBSET Groups]
    /\ groupEvent \in [GroupHandlers -> [at : {"idle", "info", "row"},
                                         group : Groups, name : AnyName]]
    /\ command \in [op : {"none", "persist", "leave", "prune"},
                    groups : SUBSET Groups]
    /\ touched \subseteq Groups

\* A refresh that ends without an error leaves exactly the groups WhatsApp
\* listed as joined and every other row as left, whatever the rows said
\* before - except for a row a group message rewrote meanwhile and one whose
\* statement failed, which the caller ignores: it keeps what it said.
RefreshIsExact ==
    [][RefreshEnds =>
         \A g \in Groups \ touched :
             groupRow[g].stored =>
                 (groupRow[g].left = NEVER <=> g \in refresh.list)
      ]_directoryVars

\* `groups prune` deletes the rows of groups that were left or that have been
\* silent since the cutoff, however long the user took to confirm and
\* whatever happened on WhatsApp meanwhile (groups_prune.go:27-30).
PruneSparesActive ==
    [][\A g \in Groups :
         groupRow[g].stored /\ ~groupRow'[g].stored =>
             \/ groupRow[g].left # NEVER
             \/ groupChat[g] # RECENT /\ lastMessage[g] # RECENT]_directoryVars

\* A name that WhatsApp told once is not lost because WhatsApp, a replayed
\* message or a contact without a name comes later.
NamesAreKept ==
    [][/\ \A g \in Groups :
            groupRow[g].name # NoName /\ groupRow'[g].stored =>
                groupRow'[g].name # NoName
       /\ contact.whatsapp # NoName => contact'.whatsapp # NoName
       /\ ContactName(contact) # NoName /\ contact'.alias = contact.alias
            /\ contact'.system = contact.system
            => ContactName(contact') # NoName]_directoryVars
=============================================================================
