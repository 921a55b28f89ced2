------------------------------- MODULE Polls -------------------------------
(***************************************************************************)
(* One poll: its row in `polls`, the row in `poll_votes` of each voter,    *)
(* and the goroutines that write them - the event handler on whatsmeow's   *)
(* dispatchers, a `send poll`, a `poll vote`.                              *)
(*                                                                         *)
(* WhatsApp delivers a page of events: one event live, several in a        *)
(* conversation of a history sync, any of them again, in any order.  An    *)
(* option is added, or a vote matched, by reading the poll and writing     *)
(* later: nothing holds a transaction in between.                          *)
(***************************************************************************)
EXTENDS Naturals, FiniteSets

CONSTANTS
    Handlers,    \* dispatchers that run the event handler
    Senders,     \* commands, direct or delegated, that may send the poll
    Voters,
    Me,          \* the voter of this account
    Created,     \* the options of the poll creation
    Added,       \* options that can be added to it
    Ballots,     \* selections a voter can cast, {} to retract
    Selectable,  \* selectable_count, 0 when unlimited
    MaxPage,     \* bound: poll events of one page
    MaxNow       \* bound: votes cast, each at a time of its own

ASSUME PollsAssumption ==
    /\ Me \in Voters /\ Handlers \cap Senders = {}
    /\ Created # {} /\ Ballots \subseteq SUBSET (Created \cup Added)
    /\ Selectable \in Nat /\ MaxPage \in Nat /\ MaxNow \in Nat

VARIABLES
    poll,     \* options_json of the row, {} when there is no row
    hidden,   \* the poll's message is revoked or deleted for me
    votes,    \* the row of each voter
    proc,     \* the goroutines that handle poll events
    ballot,   \* the `poll vote` command
    offered,  \* WhatsApp: the options of the poll, {} before it is sent
    cast,     \* WhatsApp: the votes cast
    now,      \* WhatsApp: time of the latest vote
    handled   \* history: the votes that reached the store

rows == <<poll, votes, handled>>
world == <<offered, cast, now>>
vars == <<poll, hidden, votes, proc, ballot, offered, cast, now, handled>>

Options == Created \cup Added
Vote == [voter : Voters, ts : 1 .. MaxNow, sel : SUBSET Options]

PollEvent == [kind |-> "poll"]
AddEvent(o) == [kind |-> "add", option |-> o]
VoteEvent(b) == [kind |-> "vote", vote |-> b]
IsPoll(e) == e.kind = "poll"
IsAdd(e) == e.kind = "add"
IsVote(e) == e.kind = "vote"

\* What WhatsApp can deliver.
Log == {e \in {PollEvent} : offered # {}}
         \cup {AddEvent(o) : o \in offered \ Created}
         \cup {VoteEvent(b) : b \in cast}

\* No row in poll_votes.
NoVote == [ts |-> 0, sel |-> {}, unknown |-> {}, checked |-> TRUE]

Idle == [at |-> "idle", page |-> {}, todo |-> {}, event |-> PollEvent,
         known |-> {}]
NoBallot == [at |-> "idle", sel |-> {}, checked |-> TRUE]

Init ==
    /\ poll = {} /\ hidden = FALSE /\ votes = [v \in Voters |-> NoVote]
    /\ proc = [p \in Handlers \cup Senders |-> Idle]
    /\ ballot = NoBallot
    /\ offered = {} /\ cast = {} /\ now = 0 /\ handled = {}

\* GetPoll and FindPollByMsgID find the poll.
Found == poll # {} /\ ~hidden

-----------------------------------------------------------------------------
(* WhatsApp.                                                               *)

PostPoll ==
    /\ offered = {}
    /\ offered' = Created
    /\ UNCHANGED <<rows, hidden, proc, ballot, cast, now>>

OfferOption(o) ==
    /\ offered # {} /\ o \notin offered
    /\ offered' = offered \cup {o}
    /\ UNCHANGED <<rows, hidden, proc, ballot, cast, now>>

Casting(v, s) ==
    /\ offered # {} /\ s \subseteq offered /\ now < MaxNow
    /\ now' = now + 1
    /\ cast' = cast \cup {[voter |-> v, ts |-> now + 1, sel |-> s]}
    /\ UNCHANGED offered

CastVote(v, s) ==
    /\ Casting(v, s)
    /\ UNCHANGED <<rows, hidden, proc, ballot>>

\* Another handler, or the CLI, deletes the poll's message (MessageStore).
HidePoll ==
    /\ ~hidden /\ hidden' = TRUE
    /\ UNCHANGED <<rows, proc, ballot, world>>

-----------------------------------------------------------------------------
(* Handling a page: first its poll, then the options, then the votes.      *)

StartPage(p) ==
    /\ p \in Handlers /\ proc[p].at = "idle"
    /\ \E page \in SUBSET Log :
         /\ page # {} /\ Cardinality(page) <= MaxPage
         /\ proc' = [proc EXCEPT ![p] =
                       [Idle EXCEPT !.at = "next", !.page = page,
                                    !.todo = page]]
    /\ UNCHANGED <<rows, hidden, ballot, world>>

\* send poll: once WhatsApp has it, the row is written.
SendPoll(p) ==
    /\ p \in Senders /\ proc[p].at = "idle" /\ offered = {}
    /\ offered' = Created
    /\ proc' = [proc EXCEPT ![p] =
                  [Idle EXCEPT !.at = "next", !.page = {PollEvent},
                               !.todo = {PollEvent}]]
    /\ UNCHANGED <<rows, hidden, ballot, cast, now>>

\* Variant: options may come after the votes.
AddsLast(todo, e) == e \in todo /\ (~IsPoll(e) => PollEvent \notin todo)

\* The event the three loops of the batch come to next.
Turn(todo, e) ==
    /\ e \in todo
    /\ IsAdd(e) => PollEvent \notin todo
    /\ IsVote(e) => \A f \in todo : IsVote(f)

Take(p, e, stage, known) ==
    /\ proc[p].at = "next" /\ Turn(proc[p].todo, e)
    /\ proc' = [proc EXCEPT ![p].at = stage, ![p].event = e,
                            ![p].known = known]

Done(p, page, e) ==
    proc' = [proc EXCEPT ![p] = [Idle EXCEPT !.at = "next", !.page = page,
                                             !.todo = proc[p].todo \ {e}]]

Finish(p, e) == Done(p, proc[p].page, e)

HandlersStep == UNCHANGED <<hidden, ballot, world>>

\* upsertPollFromParsed, persistOutboundPoll: UpsertPoll reads the row.
ReadForCreation(p) ==
    /\ Take(p, PollEvent, "write", Created \cup poll)
    /\ HandlersStep /\ UNCHANGED rows

\* handlePollAddOption: reads the poll and appends the option,
ReadForAdd(p, e) ==
    /\ IsAdd(e) /\ Found /\ e.option \notin poll
    /\ Take(p, e, "merge", poll \cup {e.option})
    /\ HandlersStep /\ UNCHANGED rows

\* and UpsertPoll reads the row again.
Merge(p) ==
    /\ proc[p].at = "merge"
    /\ proc' = [proc EXCEPT ![p].at = "write", ![p].known = @ \cup poll]
    /\ HandlersStep /\ UNCHANGED rows

\* The end of UpsertPoll.
WritePoll(p) ==
    /\ proc[p].at = "write"
    /\ poll' = proc[p].known
    /\ Finish(p, proc[p].event)
    /\ HandlersStep /\ UNCHANGED <<votes, handled>>

\* handlePollVote reads the poll whose options its hashes are matched with.
ReadForVote(p, e) ==
    /\ IsVote(e) /\ Found
    /\ Take(p, e, "vote", poll)
    /\ HandlersStep /\ UNCHANGED rows

\* Variant: a hash that matches nothing is taken for a selection.
MatchedBlindly(b, known) ==
    [ts |-> b.ts, sel |-> b.sel, unknown |-> {}, checked |-> TRUE]

\* matchPollOptions: hashes of options the poll did not have stay unknown.
Matched(b, known) ==
    [ts |-> b.ts, sel |-> b.sel \cap known, unknown |-> b.sel \ known,
     checked |-> TRUE]

\* Variant: the vote that comes last wins.
UpsertLastVote(v, new) == votes' = [votes EXCEPT ![v] = new]

\* The DO UPDATE of UpsertPollVote yields to a newer row.
UpsertPollVote(v, new) ==
    votes' = IF new.ts >= votes[v].ts THEN [votes EXCEPT ![v] = new]
             ELSE votes

DeletePollVote(v, ts) ==
    votes' = IF votes[v].ts <= ts THEN [votes EXCEPT ![v] = NoVote]
             ELSE votes

WriteVote(p) ==
    /\ proc[p].at = "vote"
    /\ LET b == proc[p].event.vote IN
         /\ IF b.sel = {} THEN DeletePollVote(b.voter, b.ts)
            ELSE UpsertPollVote(b.voter, Matched(b, proc[p].known))
         /\ handled' = handled \cup {b}
    /\ Finish(p, proc[p].event)
    /\ HandlersStep /\ UNCHANGED poll

\* An option that is there already, or an event whose poll is not found.
Skip(p, e) ==
    /\ proc[p].at = "next" /\ Turn(proc[p].todo, e)
    /\ \/ IsAdd(e) /\ (Found => e.option \in poll)
       \/ IsVote(e) /\ ~Found
    /\ Finish(p, e)
    /\ HandlersStep /\ UNCHANGED rows

\* Decrypting an option or a vote fails, or the store does: a warning.
Fail(p) ==
    /\ proc[p].at \in {"merge", "write", "vote"}
    /\ LET e == proc[p].event IN Done(p, proc[p].page \ {e}, e)
    /\ HandlersStep /\ UNCHANGED rows

EndPage(p) ==
    /\ proc[p].at = "next" /\ proc[p].todo = {}
    /\ proc' = [proc EXCEPT ![p] = Idle]
    /\ HandlersStep /\ UNCHANGED rows

-----------------------------------------------------------------------------
(* poll vote, direct or delegated to the running sync.                     *)

BallotStep == UNCHANGED <<hidden, proc>>

\* requirePollOptionsExist, requirePollSelectableCount: only for a poll the
\* store knows.
Acceptable(s) ==
    Found => /\ s \subseteq poll
             /\ Selectable = 0 \/ Cardinality(s) <= Selectable

CheckBallot(s) ==
    /\ ballot.at = "idle" /\ s # {} /\ Acceptable(s)
    /\ ballot' = [at |-> "send", sel |-> s, checked |-> Found]
    /\ BallotStep /\ UNCHANGED <<rows, world>>

SendBallot ==
    /\ ballot.at = "send"
    /\ \/ /\ Casting(Me, ballot.sel)
          /\ ballot' = [ballot EXCEPT !.at = "persist"]
       \/ /\ ballot' = NoBallot
          /\ UNCHANGED world
    /\ BallotStep /\ UNCHANGED rows

\* persistOutboundVote stamps the vote with the clock it reads after sending.
Stamp == now

PersistBallot ==
    /\ ballot.at = "persist"
    /\ UpsertPollVote(Me, [ts |-> Stamp, sel |-> ballot.sel, unknown |-> {},
                           checked |-> ballot.checked])
    /\ handled' = handled \cup {[voter |-> Me, ts |-> Stamp,
                                 sel |-> ballot.sel]}
    /\ ballot' = NoBallot
    /\ BallotStep /\ UNCHANGED <<poll, world>>

\* The process dies and starts again: only the rows are left.
Restart ==
    /\ proc' = [p \in DOMAIN proc |-> Idle] /\ ballot' = NoBallot
    /\ UNCHANGED <<rows, hidden, world>>

-----------------------------------------------------------------------------

Handle(p) ==
    \/ StartPage(p) \/ SendPoll(p) \/ ReadForCreation(p) \/ Merge(p)
    \/ WritePoll(p) \/ WriteVote(p) \/ Fail(p) \/ EndPage(p)
    \/ \E e \in proc[p].todo :
         ReadForAdd(p, e) \/ ReadForVote(p, e) \/ Skip(p, e)

Next ==
    \/ PostPoll \/ HidePoll \/ Restart
    \/ \E o \in Added : OfferOption(o)
    \/ \E v \in Voters, s \in Ballots : CastVote(v, s)
    \/ \E p \in Handlers \cup Senders : Handle(p)
    \/ \E s \in Ballots : CheckBallot(s)
    \/ SendBallot \/ PersistBallot

Spec == Init /\ [][Next]_vars

-----------------------------------------------------------------------------
(* Properties.                                                             *)

Events == {PollEvent} \cup {AddEvent(o) : o \in Added}
            \cup {VoteEvent(b) : b \in Vote}

TypeOK ==
    /\ poll \subseteq Options /\ hidden \in BOOLEAN
    /\ votes \in [Voters -> [ts : 0 .. MaxNow, sel : SUBSET Options,
                             unknown : SUBSET Options, checked : BOOLEAN]]
    /\ proc \in [Handlers \cup Senders ->
                  [at : {"idle", "next", "merge", "write", "vote"},
                   page : SUBSET Events, todo : SUBSET Events,
                   event : Events, known : SUBSET Options]]
    /\ ballot \in [at : {"idle", "send", "persist"}, sel : SUBSET Options,
                   checked : BOOLEAN]
    /\ offered \subseteq Options /\ cast \subseteq Vote
    /\ now \in 0 .. MaxNow /\ handled \subseteq Vote

\* A poll never loses an option, whatever is replayed.
OptionsOnlyGrow == [][poll \subseteq poll']_vars

\* What a stored vote selects is an option of the stored poll, so that the
\* tally of `poll show` has a line for it - unless `poll vote` could not find
\* the poll and sent the ballot unchecked.
SelectedAreOptions ==
    \A v \in Voters : votes[v].checked => votes[v].sel \subseteq poll

\* Late, replayed and racing votes change nothing: a vote the store was given
\* is there, or a newer one, unless it was retracted at its time or later.
NewestVoteWins ==
    \A b \in handled :
        \/ votes[b.voter].ts >= b.ts
        \/ \E r \in handled : r.voter = b.voter /\ r.sel = {} /\ r.ts >= b.ts

\* A history page that brings the creation of the poll resolves its votes
\* among all the options the page brings, in whatever order it lists them.
PageResolvesItsVotes ==
    [][\A p \in Handlers :
         /\ proc[p].at = "vote" /\ votes' # votes
         /\ proc'[p].at = "next" /\ PollEvent \in proc[p].page
         => LET b == proc[p].event.vote
                brought == Created \cup
                             {o \in Added : AddEvent(o) \in proc[p].page}
            IN  votes'[b.voter].unknown \cap brought = {}]_vars
=============================================================================
