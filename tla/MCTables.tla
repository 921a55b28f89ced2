------------------------------ MODULE MCTables ------------------------------
(***************************************************************************)
(* The tables beside `messages`, model-checked together: chat state, what  *)
(* is stored under a hidden id, groups and contacts, call events.  They    *)
(* share no rows, so a behaviour touches the rows of one of them: `part`.  *)
(***************************************************************************)
EXTENDS MCChatState, LIDMigration, Directory, CallEvents

CONSTANTS t0, t1, t2, c1

VARIABLE part

MCTimes == 1 .. 4

Original == [ts |-> 1, from_me |-> FALSE, text |-> t0, media |-> NULL,
             edited |-> FALSE, revoked |-> FALSE, deleted_for_me |-> FALSE]
EditTo(text, ts) == [Original EXCEPT !.text = text, !.ts = ts, !.edited = TRUE]
Revocation == [Original EXCEPT !.text = NULL, !.ts = 4, !.revoked = TRUE]
DeletionForMe ==
    [Original EXCEPT !.text = NULL, !.ts = 4, !.deleted_for_me = TRUE]

MCLIDFeeds ==
    {{Message(b) : b \in {Original, EditTo(t1, 2), EditTo(t2, 3)}},
     {Message(b) : b \in {Original, EditTo(t1, 2), Revocation, DeletionForMe}},
     {Poll({t0}), Poll({t1}), Vote(1, {t0}), Vote(2, {t1}), Vote(3, {})},
     {Call, CallDeleted, Star(TRUE), Star(FALSE), Message(Original)},
     {Message(Original), Vote(1, {t0}), Reply("lid"), Sent}}

\* What TablesProofs supposes of the feeds where it proves MergedAsUnsplit.
ASSUME MCFeedsAssumption == \A feed \in LIDFeeds : OneHistory(feed)

CallEvent(id, type, ts, detail) ==
    [id |-> id, type |-> type, ts |-> ts, detail |-> detail]

\* A call that is signalled live and logged three times, and a live event
\* that names no call.
MCCallFeeds ==
    {[node    |-> {CallEvent(c1, "terminate", 1, 0),
                   CallEvent(c1, "terminate", 2, 1),
                   CallEvent(NoCallId, "terminate", 2, 1),
                   CallEvent(c1, "call_log", 1, 1)},
      patches |-> {CallEvent(c1, "call_log", 1, 2),
                   CallEvent(c1, "call_log", 2, 0)},
      history |-> {CallEvent(c1, "call_log", 2, 2)}]}

Parts == {"chat", "lid", "groups", "contacts", "calls"}

tablesVars == <<part, vars, lidVars, directoryVars, callVars>>

TablesInit ==
    /\ part \in Parts
    /\ LIDInit /\ DirectoryInit /\ CallInit
    /\ Init
    /\ part # "chat" => scene = CHOOSE s \in Scenes : TRUE
    /\ part # "lid" => contactFeed = CHOOSE f \in LIDFeeds : TRUE
    /\ part # "groups" => member = {}

TablesNext ==
    \/ /\ part = "chat" /\ Next
       /\ UNCHANGED <<part, lidVars, directoryVars, callVars>>
    \/ /\ part = "lid" /\ LIDNext
       /\ UNCHANGED <<part, vars, directoryVars, callVars>>
    \/ /\ part = "groups" /\ GroupsNext
       /\ UNCHANGED <<part, vars, lidVars, callVars>>
    \/ /\ part = "contacts" /\ ContactsNext
       /\ UNCHANGED <<part, vars, lidVars, callVars>>
    \/ /\ part = "calls" /\ CallNext
       /\ UNCHANGED <<part, vars, lidVars, directoryVars>>

TablesSpec == TablesInit /\ [][TablesNext]_tablesVars

-----------------------------------------------------------------------------

\* Every table and every handler has values of its type; the ones a behaviour
\* does not touch keep their first value.
TablesTypeOK ==
    /\ part = "chat" => TypeOK
    /\ part = "lid" => LIDTypeOK
    /\ part \in {"groups", "contacts"} => DirectoryTypeOK
    /\ part = "calls" => CallTypeOK
=============================================================================
