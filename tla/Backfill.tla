------------------------------ MODULE Backfill ------------------------------
(***************************************************************************)
(* `history backfill`: BackfillHistory asks the phone for messages older   *)
(* than the oldest stored one, waits for the answer, and asks again.  It   *)
(* runs inside Sync, as AfterConnect; what WhatsApp delivers reaches two   *)
(* event handlers on a dispatcher, its own and then the one of Sync.       *)
(*                                                                         *)
(* What happened in the chat is numbered by its time: an event is a        *)
(* message, or an edit or a deletion of an earlier one.  The oldest        *)
(* message is the one whose row has the earliest time, which need not be   *)
(* the time it was sent: a deletion brings its own, and so does an edit    *)
(* that is stored before its message.                                      *)
(*                                                                         *)
(* An answer is a notification, whose content the handler downloads, or,   *)
(* where whatsmeow downloads it, the content itself.  Answers come late,   *)
(* never, again, and may name the chat differently.                        *)
(***************************************************************************)
EXTENDS Integers, Sequences, FiniteSets

CONSTANTS
    Newest,             \* number of the chat's newest event
    Kind,               \* what each event is
    Subject,            \* the message each event is, or is about
    Count,              \* messages asked for with each request
    MaxRequests,        \* --requests
    MaxAnswers,         \* bound: answers WhatsApp delivers
    Deliveries,         \* how answers arrive: "notification", "content"
    BackfillHandlers    \* dispatchers

Events == 1 .. Newest
Kinds == {"message", "edit", "revoke", "for_me"}

ASSUME BackfillAssumption ==
    /\ Newest \in Nat \ {0} /\ Count \in Nat \ {0} /\ MaxRequests \in Nat
    /\ MaxAnswers \in Nat
    /\ Deliveries \subseteq {"notification", "content"}

\* An edit or a deletion comes after the message it is about.
ASSUME EventsAssumption ==
    /\ Kind \in [Events -> Kinds] /\ Subject \in [Events -> Events]
    /\ \A e \in Events : IF Kind[e] = "message" THEN Subject[e] = e
                         ELSE Subject[e] < e

VARIABLES
    delivery,     \* how answers arrive in this behaviour
    archive,      \* the row of each message: its time, 0 if there is none,
                  \* and whether it is a tombstone
    backfill,     \* the request loop: its place, and its reason to stop
    anchor,       \* the oldest message, as the loop last read it
    waitCh,       \* the channel of the request: whether there is one, and
                  \* the answers in it, at most 4
    requests,     \* anchors of the requests sent
    pageHandler,  \* the handler on each dispatcher
    unasked,      \* bound: WhatsApp still sends something without being asked
    answers,      \* bound: answers WhatsApp still delivers
    asked,        \* history: times of the anchors sent, see StillAsked
    signalled,    \* history: the events of the answers signalled so far
    missing,      \* history: events whose statement failed
    unsure        \* history: a look at the oldest message failed

backfillVars == <<delivery, archive, backfill, anchor, waitCh, requests,
                  pageHandler, unasked, answers, asked, signalled, missing,
                  unsure>>

Rows == [time : 0 .. Newest, gone : BOOLEAN]
NoRow == [time |-> 0, gone |-> FALSE]
Anchors == [id : Events, time : Events]
Answers == [page : SUBSET Events, end : BOOLEAN, named : BOOLEAN]
NoAnswer == [page |-> {}, end |-> FALSE, named |-> FALSE]
HandlerIdle == [todo |-> <<>>, answer |-> NoAnswer, left |-> {}]
Reasons == {"none", "requests", "error", "no_older_messages_added",
            "no_messages_returned", "start_of_history_reached"}
NoChannel == [open |-> FALSE, queue |-> <<>>]

\* Sync failed before it came to AfterConnect.
NotBegun == [at |-> "ended", reason |-> "error"]

-----------------------------------------------------------------------------
(* Rows.                                                                   *)

\* UpsertMessage: what it does to a row's time (MergedTs of MessageRow).
Upsert(row, e) ==
    [time |-> IF row.time # 0 /\ (row.gone \/ Kind[e] = "edit")
              THEN row.time ELSE e,
     gone |-> row.gone \/ Kind[e] \in {"revoke", "for_me"}]

\* What an event can make of a row.  A delete-for-me updates a row and leaves
\* its time; it inserts one that is not there, or finds that another
\* dispatcher has inserted it since it looked.
Writes(row, e) ==
    {Upsert(row, e)}
      \cup {r \in {[row EXCEPT !.gone = TRUE]} :
              row.time # 0 /\ Kind[e] = "for_me"}

Stored == {m \in Events : archive[m].time # 0}

\* GetOldestMessageInfo.  No two events are of one second here; of two rows of
\* one second it takes the one that was inserted first.
Oldest ==
    LET m == CHOOSE m \in Stored :
               \A n \in Stored : archive[m].time <= archive[n].time
    IN  [id |-> m, time |-> archive[m].time]

\* The chat is known by one event.
BackfillInit ==
    /\ delivery \in Deliveries
    /\ \E e \in Events :
         /\ archive = [m \in Events |-> IF m = Subject[e] THEN Upsert(NoRow, e)
                                      ELSE NoRow]
         /\ anchor = [id |-> Subject[e], time |-> e]
    /\ backfill \in {[at |-> "ask", reason |-> "none"], NotBegun}
    /\ waitCh = NoChannel /\ requests = <<>>
    /\ pageHandler = [d \in BackfillHandlers |-> HandlerIdle]
    /\ unasked = TRUE
    /\ answers = MaxAnswers
    /\ asked = {} /\ signalled = {} /\ missing = {} /\ unsure = FALSE

-----------------------------------------------------------------------------
(* The loop.                                                               *)

LoopUnchanged == UNCHANGED <<delivery, archive, pageHandler, unasked, answers,
                             signalled, missing>>

Stop(reason) == backfill' = [at |-> "idle", reason |-> reason]

\* GetOldestMessageInfo, a new channel, RequestHistorySyncOnDemand.
Request ==
    /\ backfill.at = "ask"
    /\ \/ /\ Len(requests) < MaxRequests
          /\ anchor' = Oldest /\ requests' = Append(requests, Oldest)
          /\ asked' = asked \cup {Oldest.time}
          /\ waitCh' = [open |-> TRUE, queue |-> <<>>]
          /\ backfill' = [backfill EXCEPT !.at = "wait"]
       \/ /\ Len(requests) = MaxRequests
          /\ Stop("requests") /\ UNCHANGED <<anchor, requests, asked, waitCh>>
       \/ Stop("error") /\ UNCHANGED <<anchor, requests, asked, waitCh>>
    /\ UNCHANGED unsure /\ LoopUnchanged

\* Variant: the loop goes on whether or not anything was added.
StopOnEmptyOnly(answer) == IF answer.page = {} THEN "no_messages_returned"
                           ELSE IF answer.end THEN "start_of_history_reached"
                           ELSE "none"

\* Why the loop stops after an answer, if it does: the ids are compared.
StopReason(answer) ==
    IF Oldest.id = anchor.id THEN "no_older_messages_added"
    ELSE StopOnEmptyOnly(answer)

\* A failed look at the oldest message is passed over.
TakeAnswer ==
    /\ backfill.at = "wait" /\ waitCh.queue # <<>>
    /\ \E failed \in BOOLEAN :
         LET reason == IF failed THEN StopOnEmptyOnly(Head(waitCh.queue))
                       ELSE StopReason(Head(waitCh.queue))
         IN /\ backfill' = [at |-> IF reason = "none" THEN "ask" ELSE "idle",
                            reason |-> reason]
            /\ unsure' = (unsure \/ failed)
    /\ waitCh' = NoChannel
    /\ UNCHANGED <<anchor, requests, asked>> /\ LoopUnchanged

\* Variant: the clock starts when something has come.
GiveUpOnAnswer ==
    /\ backfill.at = "wait" /\ waitCh.queue # <<>> /\ Stop("error")
    /\ UNCHANGED <<anchor, requests, asked, waitCh, unsure>> /\ LoopUnchanged

\* --wait has passed, or Ctrl-C.
GiveUp ==
    /\ backfill.at = "wait" /\ Stop("error")
    /\ UNCHANGED <<anchor, requests, asked, waitCh, unsure>> /\ LoopUnchanged

\* An error ends Sync at once, otherwise --idle-exit does.  The handlers are
\* removed; removing waits for those that run.
BackfillEnds ==
    /\ backfill.at = "idle"
    /\ \A d \in BackfillHandlers : pageHandler[d] = HandlerIdle
    /\ backfill' = [backfill EXCEPT !.at = "ended"]
    /\ UNCHANGED <<anchor, requests, asked, waitCh, unsure>> /\ LoopUnchanged

-----------------------------------------------------------------------------
(* The handlers.                                                           *)

HandlerUnchanged == UNCHANGED <<delivery, backfill, anchor, requests, unsure>>
Deaf == backfill.at = "ended"

\* What the phone answers to a request: what came before the message, or
\* before the time that was sent with it, nothing, or something about the
\* same chat under its other name; and whether the beginning
\* of the chat was in it, if it was.  Deletions for me are not in the history.
History == {e \in Events : Kind[e] # "for_me"}
Before(n) == {e \in History : e < n /\ e >= n - Count}

AnswersTo(request) ==
    {[page |-> p, end |-> end /\ 1 \in p, named |-> named] :
       p \in {Before(request.id), Before(request.time), {}},
       end \in BOOLEAN, named \in BOOLEAN}

\* Variant: an answer is signalled before its messages are stored.
SignalFirst == <<"signal", "store">>

\* A notification is downloaded, stored and then signalled by the backfill's
\* own handler.  Content is signalled by that handler and then stored by the
\* one of Sync.
AnswerSteps == IF delivery = "notification" THEN <<"store", "signal">>
               ELSE <<"signal", "store">>

Begin(d, steps, answer) ==
    /\ ~Deaf /\ pageHandler[d] = HandlerIdle
    /\ pageHandler' = [pageHandler EXCEPT ![d] =
                         [todo |-> steps, answer |-> answer,
                          left |-> answer.page]]

ReceiveAnswer(d) ==
    /\ \E i \in DOMAIN requests : \E answer \in AnswersTo(requests[i]) :
         Begin(d, AnswerSteps, answer)
    /\ answers > 0 /\ answers' = answers - 1
    /\ UNCHANGED <<archive, waitCh, unasked, asked, signalled, missing>>
    /\ HandlerUnchanged

\* An initial history sync of any part of the chat: Sync's handler downloads
\* and stores whatever is not on demand.
ReceiveInitial(d) ==
    /\ unasked /\ unasked' = FALSE
    /\ \E n \in Events :
         Begin(d, <<"store">>,
               [NoAnswer EXCEPT !.page = {e \in History : e >= n}])
    /\ UNCHANGED <<archive, waitCh, answers, asked, signalled, missing>>
    /\ HandlerUnchanged

\* A live event: Sync's handler stores it.
ReceiveLive(d) ==
    /\ unasked /\ unasked' = FALSE
    /\ \E e \in Events : Begin(d, <<"store">>, [NoAnswer EXCEPT !.page = {e}])
    /\ UNCHANGED <<archive, waitCh, answers, asked, signalled, missing>>
    /\ HandlerUnchanged

Doing(d, step) ==
    pageHandler[d].todo # <<>> /\ Head(pageHandler[d].todo) = step

StepDone(d) ==
    LET todo == pageHandler[d].todo IN
      pageHandler' = [pageHandler EXCEPT ![d] =
                        IF Len(todo) = 1 THEN HandlerIdle
                        ELSE [pageHandler[d] EXCEPT !.todo = Tail(todo)]]

\* A row that is given a later time is no longer older than anything that was
\* asked for at its old time or above: those requests do not count any more.
StillAsked(old, new) ==
    {t \in asked : old.time # 0 /\ new.time > old.time => t < old.time}

\* storeParsedMessage for one message of the page, or the one handler of a
\* live event; an error is passed over.
StoreOne(d, e) ==
    LET m == Subject[e] IN
    /\ Doing(d, "store") /\ e \in pageHandler[d].left
    /\ pageHandler' = [pageHandler EXCEPT ![d].left = @ \ {e}]
    /\ \/ \E row \in Writes(archive[m], e) :
            /\ archive' = [archive EXCEPT ![m] = row]
            /\ asked' = StillAsked(archive[m], row)
            /\ UNCHANGED missing
       \/ missing' = missing \cup {e} /\ UNCHANGED <<archive, asked>>
    /\ UNCHANGED <<waitCh, unasked, answers, signalled>> /\ HandlerUnchanged

PageStored(d) ==
    /\ Doing(d, "store") /\ pageHandler[d].left = {}
    /\ StepDone(d)
    /\ UNCHANGED <<archive, waitCh, unasked, answers, asked, signalled>>
    /\ UNCHANGED missing /\ HandlerUnchanged

\* handleOnDemand: another name, nobody waiting or a full channel drop it.
SignalAnswer(d) ==
    /\ Doing(d, "signal")
    /\ LET answer == pageHandler[d].answer IN
         /\ waitCh' = IF answer.named /\ waitCh.open /\ Len(waitCh.queue) < 4
                      THEN [waitCh EXCEPT !.queue = Append(@, answer)]
                      ELSE waitCh
         /\ signalled' = signalled \cup answer.page
    /\ StepDone(d)
    /\ UNCHANGED <<archive, unasked, answers, asked, missing>>
    /\ HandlerUnchanged

-----------------------------------------------------------------------------

BackfillNext ==
    \/ Request \/ TakeAnswer \/ GiveUp \/ BackfillEnds
    \/ \E d \in BackfillHandlers :
         \/ ReceiveAnswer(d) \/ ReceiveInitial(d) \/ ReceiveLive(d)
         \/ \E e \in Events : StoreOne(d, e)
         \/ PageStored(d) \/ SignalAnswer(d)

BackfillSpec == BackfillInit /\ [][BackfillNext]_backfillVars

\* Handlers run on and --wait passes; WhatsApp owes nothing.
BackfillFairness ==
    /\ WF_backfillVars(Request) /\ WF_backfillVars(TakeAnswer \/ GiveUp)
    /\ WF_backfillVars(BackfillEnds)
    /\ \A d \in BackfillHandlers :
         WF_backfillVars(\/ \E e \in Events : StoreOne(d, e)
                         \/ PageStored(d) \/ SignalAnswer(d))

BackfillFairSpec == BackfillSpec /\ BackfillFairness

-----------------------------------------------------------------------------
(* Properties.                                                             *)

BackfillTypeOK ==
    /\ delivery \in Deliveries /\ unasked \in BOOLEAN
    /\ archive \in [Events -> Rows] /\ anchor \in Anchors
    /\ backfill \in [at : {"ask", "wait", "idle", "ended"},
                     reason : Reasons]
    /\ waitCh.open \in BOOLEAN
    /\ waitCh.queue \in Seq(Answers) /\ Len(waitCh.queue) <= 4
    /\ requests \in Seq(Anchors) /\ Len(requests) <= MaxRequests
    /\ \A d \in BackfillHandlers :
         /\ pageHandler[d].answer \in Answers
         /\ pageHandler[d].left \subseteq Events
    /\ answers \in 0 .. MaxAnswers
    /\ asked \cup signalled \cup missing \subseteq Events
    /\ unsure \in BOOLEAN

\* Each request asks for what is older than the anchor of every one before,
\* whatever answers come late, twice, empty or incomplete.  Excepted are a
\* loop that could not read the oldest message, which it takes for progress,
\* and a deletion that gives a row a later time (a revocation that comes when
\* the message is stored): the requests whose anchors were at the row's old
\* time or above it may be repeated, and StillAsked drops them.
\* Nor does a request ask for what an answer has brought: where the answers
\* are notifications, the loop is woken after the page is stored, so that the
\* next anchor is no newer than the row of any event of it that was stored.
\* That row is no newer than the event, unless it is a tombstone, which may
\* stand at the time of the deletion, or the event is an edit, which may come
\* after a later edit and before the message.
NothingAskedTwice ==
    [][requests' # requests =>
         /\ ~unsure => \A t \in asked : anchor'.time < t
         /\ delivery = "notification" =>
              \A e \in signalled \ missing :
                LET row == archive[Subject[e]] IN
                  /\ anchor'.time <= row.time
                  /\ row.time <= e \/ row.gone \/ Kind[e] = "edit"
      ]_backfillVars

\* A backfill ends, with at most --requests requests.
BackfillTerminates == <>(backfill.at = "ended")
=============================================================================
