------------------------------- MODULE Outbound -------------------------------
(***************************************************************************)
(* One `send` command of each kind: what it does before, in and after the  *)
(* attempts of runSendOperation, and which rows it records of the message  *)
(* it sent.  SendDelegation has the lock, the delegate server and the      *)
(* attempts as such; here a send is carried out by the command itself, or, *)
(* delegated, by a running sync, whose event handler meanwhile stores what *)
(* the account's phone does to the message: it edits or revokes it.        *)
(*                                                                         *)
(* Files, stickers and media statuses upload, send and record within the   *)
(* attempt, everything else is recorded after it.  An attempt that timed   *)
(* out goes on in its goroutine.  The recipient is a contact with a phone  *)
(* number "pn" and a hidden id "lid".                                      *)
(***************************************************************************)
EXTENDS MessageRow, Sequences, FiniteSets

CONSTANTS
    SentText, EditedText,   \* bodies: as sent, and as the phone edits it
    Uploads,                \* the media each attempt uploads
    SendTimes               \* when a command may record, or the phone act

OutboundKinds == {"text", "file", "sticker", "poll", "vote", "react", "select",
                  "status_text", "status_file"}
Statuses == {"status_text", "status_file"}
OutNames == {"pn", "lid"}
AttemptNumbers == {1, 2}

ASSUME OutboundAssumption ==
    /\ {SentText, EditedText} \subseteq Texts /\ SentText # EditedText
    /\ SendTimes \subseteq Times
    /\ Uploads \in [AttemptNumbers -> Media] /\ Uploads[1] # Uploads[2]
    /\ NULL \notin OutNames

VARIABLES
    sendKind,   \* the command's kind
    delegated,  \* a running sync carries it out
    pairKnown,  \* whatsmeow has the pair (lid, pn)
    sendTo,     \* the recipient, as the command knows it
    foundAt,    \* the name its poll or target is stored under, or NULL
    sender,     \* the command: its steps left, and the attempt it waits for
    attempts,   \* the goroutine of each attempt
    hostUp,     \* the process that carries it out runs
    outChats,   \* names with a row in `chats`
    outRow,     \* the row of the sent message under each name
    outPolls,   \* names with the row in `polls`
    outVotes,   \* names with this account's row in `poll_votes`
    outStatus,  \* the row in `status_messages`
    phoneEvent, \* the event handler of the sync
    sent,       \* history: attempts whose message WhatsApp accepted
    reported,   \* what the command reported
    lost,       \* history: a statement failed, or was left out
    phoneSaid   \* history: events about the message, and where they are stored

rows == <<outChats, outRow, outPolls, outVotes, outStatus>>
scenario == <<sendKind, delegated, pairKnown>>
outboundVars == <<scenario, sendTo, foundAt, sender, attempts, hostUp, rows,
                  phoneEvent, sent, reported, lost, phoneSaid>>

-----------------------------------------------------------------------------
(* What a command does, step by step.  The steps from "chat" on are the    *)
(* statements that record the message.                                     *)

TextRecord      == <<"chat", "message">>
MediaRecord     == <<"chat", "message">>
StickerRecord   == <<"chat", "message">>
ReactionRecord  == <<"chat", "message">>
SelectionRecord == <<"chat", "message">>
PollRecord      == <<"chat", "message", "poll">>
VoteRecord      == <<"chat", "message", "vote">>
StatusRecord    == <<"status">>

\* connect: the step of a command that has to connect first.
TextCommand(connect) ==
    <<"resolve">> \o connect \o <<"warmup", "mark", "attempt">> \o TextRecord
FileCommand(connect) ==
    <<"resolve">> \o connect \o <<"warmup", "mark", "attempt">>
StickerCommand(connect) ==
    <<"resolve">> \o connect \o <<"warmup", "mark", "attempt">>
PollCommand(connect) ==
    <<"resolve">> \o connect \o <<"warmup", "mark", "attempt">> \o PollRecord
VoteCommand(connect) ==
    <<"resolve">> \o connect \o <<"warmup", "findPoll", "mark", "attempt">>
      \o VoteRecord
ReactCommand(connect) ==
    connect \o <<"resolve", "warmup", "mark", "attempt">> \o ReactionRecord
SelectCommand(connect) ==
    <<"resolve">> \o connect \o <<"warmup", "findTarget", "mark", "attempt">>
      \o SelectionRecord
StatusCommand(connect, record) == connect \o <<"mark", "attempt">> \o record

CommandSteps(connect) ==
    [text |-> TextCommand(connect), file |-> FileCommand(connect),
     sticker |-> StickerCommand(connect), poll |-> PollCommand(connect),
     vote |-> VoteCommand(connect), react |-> ReactCommand(connect),
     select |-> SelectCommand(connect),
     status_text |-> StatusCommand(connect, StatusRecord),
     status_file |-> StatusCommand(connect, <<>>)]

\* The running sync is connected.
DelegatedSteps == CommandSteps(<<>>)

\* Variant: the file is recorded when it is uploaded.
FileRecordedFirst(record) == <<"upload", "prepare">> \o record \o <<"send">>

\* What the goroutine of an attempt does; "prepare" reads the quoted message
\* and builds the payload.
FileAttempt(record) == <<"upload", "prepare", "send">> \o record
StickerAttempt == <<"prepare", "upload", "prepare", "send">> \o StickerRecord
TextAttempt    == <<"prepare", "send">>
OtherAttempt   == <<"send">>

AttemptSteps ==
    CASE sendKind = "text" -> TextAttempt
      [] sendKind = "file" -> FileAttempt(MediaRecord)
      [] sendKind = "status_file" -> FileAttempt(StatusRecord)
      [] sendKind = "sticker" -> StickerAttempt
      [] OTHER -> OtherAttempt

NoAttempt == [todo |-> <<>>, media |-> NULL, result |-> "none"]
NoPhoneEvent == [at |-> "idle", name |-> "pn", event |-> "edit"]

\* A poll is voted on or listed: it may be stored already, by either name.
OutboundInit ==
    /\ sendKind \in OutboundKinds /\ delegated \in BOOLEAN
    /\ sendKind \in Statuses => ~delegated
    /\ pairKnown \in BOOLEAN /\ sendTo \in OutNames
    /\ foundAt = NULL
    /\ sender = [todo |-> IF delegated THEN DelegatedSteps[sendKind]
                          ELSE CommandSteps(<<"connect">>)[sendKind],
                 at |-> "steps", attempt |-> 1]
    /\ attempts = [n \in AttemptNumbers |-> NoAttempt]
    /\ hostUp = TRUE
    /\ outChats = {} /\ outRow = [n \in OutNames |-> NULL]
    /\ IF sendKind = "vote" THEN outPolls \in SUBSET OutNames ELSE outPolls = {}
    /\ outVotes = {} /\ outStatus = FALSE
    /\ phoneEvent = NoPhoneEvent
    /\ sent = {} /\ reported = "none" /\ lost = FALSE /\ phoneSaid = {}

CanonicalName(name) == IF pairKnown THEN "pn" ELSE name

-----------------------------------------------------------------------------
(* The statements.                                                         *)

\* primaryPollChatJID canonicalises; a text, a file, a sticker and a reaction
\* are stored under the recipient as it is.
RecordName ==
    CASE foundAt # NULL -> foundAt
      [] foundAt = NULL /\ sendKind = "poll" -> CanonicalName(sendTo)
      [] OTHER -> sendTo

SentBody(event, media, now) ==
    [ts |-> now, from_me |-> TRUE, media |-> media,
     text |-> CASE event = "send" /\ media = NULL -> SentText
                [] event = "edit" -> EditedText
                [] OTHER -> NULL,
     edited |-> event = "edit", revoked |-> event = "revoke",
     deleted_for_me |-> FALSE]

\* UpsertMessage; `messages` has a foreign key on `chats`.
WriteOutRow(name, body) ==
    /\ name \in outChats
    /\ outRow' = [outRow EXCEPT ![name] =
                    IF @ = NULL THEN Excluded(body)
                    ELSE OnConflict(@, Excluded(body))]

Statements == {"chat", "message", "poll", "vote", "status"}

Statement(s, media) ==
    LET n == RecordName IN
      \/ /\ s = "chat" /\ outChats' = outChats \cup {n}
         /\ UNCHANGED <<outRow, outPolls, outVotes, outStatus>>
      \/ /\ s = "message"
         /\ \E now \in SendTimes : WriteOutRow(n, SentBody("send", media, now))
         /\ UNCHANGED <<outChats, outPolls, outVotes, outStatus>>
      \/ /\ s = "poll" /\ outPolls' = outPolls \cup {n}
         /\ UNCHANGED <<outChats, outRow, outVotes, outStatus>>
      \/ /\ s = "vote" /\ outVotes' = outVotes \cup {n}
         /\ UNCHANGED <<outChats, outRow, outPolls, outStatus>>
      \/ /\ s = "status" /\ outStatus' = TRUE
         /\ UNCHANGED <<outChats, outRow, outPolls, outVotes>>

-----------------------------------------------------------------------------
(* The command.                                                            *)

SenderUnchanged == UNCHANGED <<scenario, hostUp, phoneEvent, phoneSaid, sent>>

AtStep(s) == /\ hostUp /\ sender.at = "steps"
             /\ sender.todo # <<>> /\ Head(sender.todo) = s
NextStep == sender' = [sender EXCEPT !.todo = Tail(@)]

SendReturns(result) ==
    /\ sender' = [sender EXCEPT !.at = "done"]
    /\ reported' = result

\* What may refuse the command: the recipient, the connection, the marker of
\* the last send, which is read for the warning and written.
Check(s) ==
    /\ AtStep(s)
    /\ \/ NextStep /\ UNCHANGED reported
       \/ SendReturns("error")
    /\ UNCHANGED <<sendTo, foundAt, attempts, rows, lost>> /\ SenderUnchanged

ResolveSendTo == Check("resolve")
ConnectToSend == Check("connect")
WarnRapidSend == Check("mark")

\* The registration lookup of a number may return the contact's other name.
WarmUpRecipient ==
    /\ AtStep("warmup") /\ NextStep
    /\ sendTo' \in IF sendTo = "pn" THEN OutNames ELSE {"lid"}
    /\ UNCHANGED <<foundAt, attempts, rows, reported, lost>> /\ SenderUnchanged

\* Variant: the recipient's name only.
RecipientOnly == <<sendTo>>

\* pollChatJIDCandidates
Candidates == IF pairKnown THEN <<"pn", "lid">> ELSE <<sendTo>>

\* The first candidate name with the poll, and the first one otherwise.
FirstWithPoll ==
    LET hits == {i \in DOMAIN Candidates : Candidates[i] \in outPolls}
    IN  Candidates[IF hits = {} THEN 1
                   ELSE CHOOSE i \in hits : \A j \in hits : i <= j]

\* A vote for an option the stored poll does not have is refused; so is a vote
\* for a group's unknown poll without --sender.
FindPoll ==
    /\ AtStep("findPoll")
    /\ \/ /\ foundAt' = FirstWithPoll
          /\ NextStep /\ UNCHANGED reported
       \/ SendReturns("error") /\ UNCHANGED foundAt
    /\ UNCHANGED <<sendTo, attempts, rows, lost>> /\ SenderUnchanged

\* The message must be stored, with the option, and not be our own.
FindTarget ==
    /\ AtStep("findTarget")
    /\ \/ /\ \E i \in DOMAIN Candidates : foundAt' = Candidates[i]
          /\ NextStep /\ UNCHANGED reported
       \/ SendReturns("error") /\ UNCHANGED foundAt
    /\ UNCHANGED <<sendTo, attempts, rows, lost>> /\ SenderUnchanged

StartAttempt(n) ==
    /\ attempts' = [attempts EXCEPT ![n] =
                      [NoAttempt EXCEPT !.todo = AttemptSteps,
                                        !.result = "running"]]
    /\ sender' = [sender EXCEPT !.at = "waiting", !.attempt = n]

FirstAttempt ==
    /\ AtStep("attempt") /\ StartAttempt(1)
    /\ UNCHANGED <<sendTo, foundAt, rows, reported, lost>> /\ SenderUnchanged

Waiting == hostUp /\ sender.at = "waiting"
Result == attempts[sender.attempt].result

\* A media status is sent without runSendOperation: one attempt, which ends
\* with the command's own time.
Operated == sendKind # "status_file"

AttemptReturns ==
    /\ Waiting /\ Result \in {"ok", "error"}
    /\ IF Result = "ok"
       THEN sender' = [sender EXCEPT !.at = "steps", !.todo = Tail(@)]
            /\ UNCHANGED reported
       ELSE SendReturns("error")
    /\ UNCHANGED <<sendTo, foundAt, attempts, rows, lost>> /\ SenderUnchanged

\* Variant: whatever error the first attempt ends with, it is repeated.
RetriedAfterAny == Result \in {"retryable", "error"}

Retried == Result = "retryable"

RetryAttempt ==
    /\ Waiting /\ Retried /\ Operated /\ sender.attempt = 1
    /\ StartAttempt(2)
    /\ UNCHANGED <<sendTo, foundAt, rows, reported, lost>> /\ SenderUnchanged

\* No second retry, or the reconnect fails.
NoRetry ==
    /\ Waiting /\ Result = "retryable" /\ SendReturns("error")
    /\ UNCHANGED <<sendTo, foundAt, attempts, rows, lost>> /\ SenderUnchanged

\* The goroutine is left behind.
SendTimesOut ==
    /\ Waiting /\ Operated /\ SendReturns("error")
    /\ UNCHANGED <<sendTo, foundAt, attempts, rows, lost>> /\ SenderUnchanged

\* A failed chat row ends the recording of a text and of a selection; every
\* other failure is passed over.  A vote row is left out, too, where the
\* account has been unlinked since: LinkedJID is empty.
StopsAtError(s) == s = "chat" /\ sendKind \in {"text", "select"}

Persist(s) ==
    /\ AtStep(s)
    /\ \/ Statement(s, NULL) /\ NextStep /\ UNCHANGED lost
       \/ /\ sender' = [sender EXCEPT !.todo = IF StopsAtError(s) THEN <<>>
                                               ELSE Tail(@)]
          /\ lost' = TRUE /\ UNCHANGED rows
    /\ UNCHANGED <<sendTo, foundAt, attempts, reported>> /\ SenderUnchanged

\* After the wait for retry receipts.
ReportSend ==
    /\ hostUp /\ sender.at = "steps" /\ sender.todo = <<>>
    /\ SendReturns("sent")
    /\ UNCHANGED <<sendTo, foundAt, attempts, rows, lost>> /\ SenderUnchanged

-----------------------------------------------------------------------------
(* The goroutine of an attempt.                                            *)

AttemptUnchanged ==
    UNCHANGED <<scenario, sendTo, foundAt, sender, hostUp, phoneEvent,
                reported, phoneSaid>>

Running(n, s) == /\ hostUp /\ attempts[n].result = "running"
                 /\ Head(attempts[n].todo) = s

StepOn(a) ==
    [a EXCEPT !.todo = Tail(@), !.result = IF Len(a.todo) = 1 THEN "ok" ELSE @]

Ends(n, result) ==
    attempts' = [attempts EXCEPT ![n] = [NoAttempt EXCEPT !.result = result]]

Prepare(n) ==
    /\ Running(n, "prepare")
    /\ attempts' = [attempts EXCEPT ![n] = StepOn(@)] \/ Ends(n, "error")
    /\ UNCHANGED <<rows, sent, lost>> /\ AttemptUnchanged

Upload(n) ==
    /\ Running(n, "upload")
    /\ \/ attempts' = [attempts EXCEPT ![n] =
                         [StepOn(@) EXCEPT !.media = Uploads[n]]]
       \/ \E result \in {"error", "retryable"} : Ends(n, result)
    /\ UNCHANGED <<rows, sent, lost>> /\ AttemptUnchanged

AcceptSend(n) ==
    /\ Running(n, "send")
    /\ sent' = sent \cup {n}
    /\ attempts' = [attempts EXCEPT ![n] = StepOn(@)]
    /\ UNCHANGED <<rows, lost>> /\ AttemptUnchanged

\* An error that is retryable is raised before the message is written, any
\* other one perhaps after WhatsApp accepted it.
SendFails(n) ==
    /\ Running(n, "send")
    /\ \/ Ends(n, "retryable") /\ UNCHANGED sent
       \/ Ends(n, "error") /\ sent' \in {sent, sent \cup {n}}
    /\ UNCHANGED <<rows, lost>> /\ AttemptUnchanged

RecordInAttempt(n, s) ==
    /\ Running(n, s)
    /\ \/ Statement(s, attempts[n].media) /\ UNCHANGED lost
       \/ lost' = TRUE /\ UNCHANGED rows
    /\ attempts' = [attempts EXCEPT ![n] = StepOn(@)]
    /\ UNCHANGED sent /\ AttemptUnchanged

-----------------------------------------------------------------------------
(* The event handler of the sync that carries out the send.                *)

SendUnchanged == UNCHANGED <<scenario, sendTo, foundAt, sender, attempts,
                                hostUp, sent, reported, lost>>

PhoneActs ==
    /\ hostUp /\ delegated /\ sent # {} /\ phoneEvent.at = "idle"
    /\ \E event \in {"edit", "revoke"}, name \in OutNames :
         /\ event = "edit" => sendKind = "text"
         /\ phoneEvent' = [at |-> "chat", name |-> CanonicalName(name),
                           event |-> event]
    /\ UNCHANGED <<rows, phoneSaid>> /\ SendUnchanged

StoreEventChat ==
    /\ hostUp /\ phoneEvent.at = "chat"
    /\ \/ /\ outChats' = outChats \cup {phoneEvent.name}
          /\ phoneEvent' = [phoneEvent EXCEPT !.at = "row"]
       \/ UNCHANGED outChats /\ phoneEvent' = NoPhoneEvent
    /\ UNCHANGED <<outRow, outPolls, outVotes, outStatus, phoneSaid>>
    /\ SendUnchanged

StoreEvent ==
    /\ hostUp /\ phoneEvent.at = "row" /\ phoneEvent' = NoPhoneEvent
    /\ \/ /\ \E ts \in SendTimes :
               WriteOutRow(phoneEvent.name, SentBody(phoneEvent.event, NULL, ts))
          /\ phoneSaid' = phoneSaid \cup {<<phoneEvent.name, phoneEvent.event>>}
       \/ UNCHANGED <<outRow, phoneSaid>>
    /\ UNCHANGED <<outChats, outPolls, outVotes, outStatus>> /\ SendUnchanged

\* The command exits, the sync ends, or either dies.
HostEnds ==
    /\ hostUp /\ hostUp' = FALSE
    /\ UNCHANGED <<scenario, sendTo, foundAt, sender, attempts, rows,
                   phoneEvent, sent, reported, lost, phoneSaid>>

-----------------------------------------------------------------------------

OutboundNext ==
    \/ ResolveSendTo \/ ConnectToSend \/ WarnRapidSend \/ WarmUpRecipient
    \/ FindPoll \/ FindTarget \/ FirstAttempt \/ AttemptReturns
    \/ RetryAttempt \/ NoRetry \/ SendTimesOut \/ ReportSend
    \/ \E s \in Statements : Persist(s)
    \/ \E n \in AttemptNumbers :
         \/ Prepare(n) \/ Upload(n) \/ AcceptSend(n) \/ SendFails(n)
         \/ \E s \in Statements : RecordInAttempt(n, s)
    \/ PhoneActs \/ StoreEventChat \/ StoreEvent \/ HostEnds

OutboundSpec == OutboundInit /\ [][OutboundNext]_outboundVars

-----------------------------------------------------------------------------
(* Properties.                                                             *)

OutboundTypeOK ==
    /\ sendKind \in OutboundKinds /\ delegated \in BOOLEAN
    /\ pairKnown \in BOOLEAN /\ hostUp \in BOOLEAN /\ sendTo \in OutNames
    /\ foundAt \in OutNames \cup {NULL}
    /\ sender.at \in {"steps", "waiting", "done"}
    /\ sender.attempt \in AttemptNumbers
    /\ \A n \in AttemptNumbers :
         /\ attempts[n].media \in Media \cup {NULL}
         /\ attempts[n].result \in {"none", "running", "ok", "error", "retryable"}
    /\ outChats \cup outPolls \cup outVotes \subseteq OutNames
    /\ outRow \in [OutNames -> Row \cup {NULL}] /\ outStatus \in BOOLEAN
    /\ sent \subseteq AttemptNumbers /\ lost \in BOOLEAN
    /\ reported \in {"none", "sent", "error"}

\* docs/send.md:5 for every kind of message: whatever is retried, times out,
\* or errs after WhatsApp accepted it, the message is accepted at most once,
\* and "sent" is reported only for one that was: the command is a SendOutcome.
Promise == INSTANCE SendOutcome WITH
               Clients  <- {"command"},
               accepted <- [c \in {"command"} |-> Cardinality(sent)],
               outcome  <- [c \in {"command"} |-> reported]
KeepsPromise == Promise!Spec

\* Nothing is recorded of a message that was not accepted, by the command or
\* by an attempt it gave up, and what is recorded of a file is the upload of
\* the attempt that was accepted, not of an earlier one.  A send that reports
\* success and ran into no failing statement, nor an account that has been
\* unlinked since, has recorded every row of its kind, under one name.
RecordedAsAccepted ==
    /\ \/ \E n \in OutNames : outRow[n] # NULL
       \/ outVotes # {} \/ outStatus
       \/ sendKind = "poll" /\ outPolls # {}
       => sent # {}
    /\ \A n \in OutNames :
         outRow[n] # NULL /\ outRow[n].media_key # NULL
           => \E k \in sent : outRow[n].media_key = Uploads[k]
    /\ reported = "sent" /\ ~lost =>
         IF sendKind \in Statuses THEN outStatus
         ELSE /\ RecordName \in outChats /\ outRow[RecordName] # NULL
              /\ sendKind = "poll" => RecordName \in outPolls
              /\ sendKind = "vote" => RecordName \in outVotes

\* The row under a name shows the message as it was sent.
AsSent(n) ==
    outRow[n] # NULL /\ ~outRow[n].revoked /\ outRow[n].text # EditedText

\* A message that the phone edits or revokes before the command, or an attempt
\* it gave up, records it is not brought back by the record: not under the
\* name that the phone's event is stored by.  Under the contact's other name
\* it does come back, beside what the event left, and only in these cases: the
\* pair is not known; or it is, and the event is stored by the number, while a
\* text, a file, a sticker or a reaction is recorded by the hidden id, because
\* that is the recipient as given or as the warm-up returned it, or a vote or
\* a selection is, because its poll or target is stored so.  A poll is not.
PhoneHasLastWord ==
    \A n \in OutNames :
        /\ <<n, "revoke">> \in phoneSaid =>
             outRow[n].revoked /\ outRow[n].text = NULL /\ outRow[n].media_key = NULL
        /\ <<n, "edit">> \in phoneSaid =>
             outRow[n].revoked \/ outRow[n].text = EditedText
        /\ \A other \in OutNames \ {n} :
             AsSent(other) /\ (\E e \in {"edit", "revoke"} : <<n, e>> \in phoneSaid)
               => /\ other = RecordName
                  /\ pairKnown => other = "lid" /\ sendKind # "poll"

\* A vote is recorded beside its poll, if the poll is stored by a name that
\* the command looks for: `poll show` counts the votes of the name it finds
\* the poll under.  Where the pair is known the command looks for both names,
\* whichever it was given and whatever the warm-up made of it.  Where it is
\* not, it looks for the recipient's name after the warm-up, and no other: a
\* vote for a poll that is stored by the other name only, or by the number
\* that the warm-up has replaced by the hidden id, is not beside its poll.
VoteJoinsPoll ==
    outPolls \cap (IF pairKnown THEN OutNames ELSE {sendTo}) # {} =>
        outVotes \subseteq outPolls
=============================================================================
