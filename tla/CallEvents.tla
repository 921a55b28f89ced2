----------------------------- MODULE CallEvents -----------------------------
(***************************************************************************)
(* The rows of `call_events` of one chat.  Live call events and call-log   *)
(* messages come through whatsmeow's node queue, call-log records and      *)
(* their deletion as app-state changes, records again with a history sync: *)
(* three goroutines.  UpsertCallEvent looks for the row of the call and    *)
(* the event type, and updates it or inserts one by a second statement.    *)
(*                                                                         *)
(* A call-log message has its own id where a record has the call's.  Where *)
(* the two differ, they are two calls here, and keep a row each; the feeds *)
(* take the case that they do not, in which the sources meet.              *)
(*                                                                         *)
(* Outcome, reason, media, participants and duration share a rule, "what   *)
(* is not said is kept"; they are one field.  Direction is left out: all   *)
(* records of the chat have the same.                                      *)
(***************************************************************************)
EXTENDS Naturals, FiniteSets

CONSTANTS
    CallIds,        \* calls of the chat
    NoCallId,       \* an event that names no call
    CallTypes,      \* event types, one of them "call_log"
    CallTimes,      \* times of events
    CallSources,    \* goroutines that store call events
    CallFeeds,      \* what each goroutine may be given
    MaxCallRows     \* bound: rows of the table

NoDetail == 0
CallDetails == {NoDetail, 1, 2}
CallStored == [id : CallIds \cup {NoCallId}, type : CallTypes, ts : CallTimes,
               detail : CallDetails]

ASSUME CallEventsAssumption ==
    /\ NoCallId \notin CallIds /\ MaxCallRows \in Nat \ {0}
    /\ CallFeeds \subseteq [CallSources -> SUBSET CallStored]
    /\ "call_log" \in CallTypes
    /\ CallTimes \subseteq Nat \ {0}      \* Unix seconds

VARIABLES
    callRows,    \* the table, by rowid
    callHandler, \* each goroutine: between the SELECT and the write
    callFeed,    \* what may arrive in this behaviour
    callMixed,   \* history: calls two goroutines stored at the same time
    callSaid     \* history: per call and type, the last event and the detail

callVars == <<callRows, callHandler, callFeed, callMixed, callSaid>>

NoCallRow == [id |-> NoCallId, type |-> "", ts |-> 0, detail |-> NoDetail]
CallRowIds == 1 .. MaxCallRows
NoEvent == CHOOSE e \in CallStored : TRUE
CallIdle == [at |-> "idle", row |-> 1, event |-> NoEvent]
CallKeys == CallIds \X CallTypes
NothingSaid == [ts |-> 0, detail |-> NoDetail]

CallInit ==
    /\ callFeed \in CallFeeds
    /\ callRows = [r \in CallRowIds |-> NoCallRow]
    /\ callHandler = [s \in CallSources |-> CallIdle]
    /\ callMixed = {}
    /\ callSaid = [k \in CallKeys |-> NothingSaid]

-----------------------------------------------------------------------------

UsedCallRows == {r \in CallRowIds : callRows[r] # NoCallRow}
RowsOfCall(e) ==
    {r \in UsedCallRows : callRows[r].id = e.id /\ callRows[r].type = e.type}
SameKey(e) == {r \in RowsOfCall(e) : callRows[r].ts = e.ts}

\* Variant: only the unique key finds a row.
NeverSingle(e) == {}

\* singleCallEventRow: the row, if there is exactly one; an event without an
\* id gets one made of its type and time, and is not looked for.
SingleCallEventRow(e) ==
    IF e.id # NoCallId /\ Cardinality(RowsOfCall(e)) = 1 THEN RowsOfCall(e)
    ELSE {}

\* Goroutines that are about to write the same call and type.
Racing(s, e) ==
    \E t \in CallSources \ {s} :
        /\ callHandler[t].at # "idle"
        /\ callHandler[t].event.id = e.id /\ callHandler[t].event.type = e.type

SelectCallRow(s, e) ==
    /\ callHandler[s].at = "idle" /\ e \in callFeed[s]
    /\ LET found == SingleCallEventRow(e) IN
         callHandler' =
           [callHandler EXCEPT ![s] =
              [at |-> IF found = {} THEN "insert" ELSE "update",
               row |-> IF found = {} THEN 1 ELSE CHOOSE r \in found : TRUE,
               event |-> e]]
    /\ callMixed' = IF Racing(s, e) THEN callMixed \cup {<<e.id, e.type>>}
                    ELSE callMixed
    /\ UNCHANGED <<callRows, callFeed, callSaid>>

KeepDetail(old, new) == IF new = NoDetail THEN old ELSE new

CallDone(s) == callHandler' = [callHandler EXCEPT ![s] = CallIdle]

Say(e) ==
    callSaid' = IF e.id \in CallIds
                THEN [callSaid EXCEPT ![<<e.id, e.type>>] =
                        [ts |-> e.ts, detail |-> IF e.detail = NoDetail
                                                 THEN @.detail ELSE e.detail]]
                ELSE callSaid

\* updateCallEventRow moves the row to the event's time.  If the row went
\* meanwhile, nothing is stored; if another one has that time, the unique
\* key refuses the statement.
UpdateCallEventRow(s) ==
    /\ callHandler[s].at = "update"
    /\ LET e == callHandler[s].event
           r == callHandler[s].row
       IN /\ callRows' =
               IF r \in RowsOfCall(e) /\ SameKey(e) \subseteq {r}
               THEN [callRows EXCEPT ![r].ts = e.ts,
                                     ![r].detail = KeepDetail(@, e.detail)]
               ELSE callRows
          /\ Say(e)
    /\ CallDone(s) /\ UNCHANGED <<callFeed, callMixed>>

\* INSERT ... ON CONFLICT(chat_jid, call_id, event_type, ts) DO UPDATE
InsertCallEvent(s) ==
    /\ callHandler[s].at = "insert"
    /\ LET e == callHandler[s].event IN
         /\ \/ \E r \in SameKey(e) :
                 callRows' = [callRows EXCEPT ![r].detail =
                                KeepDetail(@, e.detail)]
            \/ \E r \in CallRowIds \ UsedCallRows :
                 /\ SameKey(e) = {} /\ \A q \in 1 .. r - 1 : q \in UsedCallRows
                 /\ callRows' = [callRows EXCEPT ![r] = e]
         /\ Say(e)
    /\ CallDone(s) /\ UNCHANGED <<callFeed, callMixed>>

\* DeleteCallEvents, for an app-state change: every record of the chat.
DeleteCallEvents(s) ==
    /\ s = "patches" /\ callHandler[s].at = "idle"
    /\ callRows' = [r \in CallRowIds |->
                      IF callRows[r].type = "call_log" THEN NoCallRow
                      ELSE callRows[r]]
    /\ callSaid' = [k \in CallKeys |-> IF k[2] = "call_log" THEN NothingSaid
                                       ELSE callSaid[k]]
    /\ callMixed' =
         {k \in callMixed : k[2] # "call_log"}
           \cup {<<callHandler[t].event.id, "call_log">> :
                   t \in {t \in CallSources :
                            /\ callHandler[t].at # "idle"
                            /\ callHandler[t].event.type = "call_log"}}
    /\ UNCHANGED <<callHandler, callFeed>>

\* The process ends or dies.
SyncStops ==
    /\ \E s \in CallSources : callHandler[s].at # "idle"
    /\ callHandler' = [s \in CallSources |-> CallIdle]
    /\ UNCHANGED <<callRows, callFeed, callMixed, callSaid>>

CallNext ==
    \/ \E s \in CallSources, e \in CallStored : SelectCallRow(s, e)
    \/ \E s \in CallSources : UpdateCallEventRow(s) \/ InsertCallEvent(s)
    \/ \E s \in CallSources : DeleteCallEvents(s)
    \/ SyncStops

CallSpec == CallInit /\ [][CallNext]_callVars

-----------------------------------------------------------------------------
(* Properties.                                                             *)

CallTypeOK ==
    /\ callRows \in [CallRowIds -> CallStored \cup {NoCallRow}]
    /\ callHandler \in [CallSources -> [at : {"idle", "update", "insert"},
                                        row : CallRowIds, event : CallStored]]
    /\ callFeed \in CallFeeds /\ callMixed \subseteq (CallIds \cup {NoCallId}) \X CallTypes
    /\ callSaid \in [CallKeys -> [ts : CallTimes \cup {0}, detail : CallDetails]]

\* `calls list` shows a call and event type once, at the time of the last
\* event and with every detail any event told, in whatever order the queue,
\* the app state and history bring them and however often - unless two
\* goroutines looked for the row before either had written it.
OneRowPerCall ==
    \A k \in CallKeys :
        LET rows == {r \in UsedCallRows : /\ callRows[r].id = k[1]
                                          /\ callRows[r].type = k[2]}
        IN k \notin callMixed =>
             /\ Cardinality(rows) = IF callSaid[k].ts = 0 THEN 0 ELSE 1
             /\ \A r \in rows : /\ callRows[r].ts = callSaid[k].ts
                                /\ callRows[r].detail = callSaid[k].detail
=============================================================================
