---------------------------- MODULE PollsProofs ----------------------------
(***************************************************************************)
(* Proofs about Polls.  The order of votes is kept by the statements alone *)
(* and holds for any number of goroutines; the options of a poll are only  *)
(* safe when a single goroutine handles poll events.                       *)
(***************************************************************************)
EXTENDS Polls, TLAPS

\* A goroutine about to write a vote holds a vote, and a ballot to be stored
\* was cast.
Pending ==
    /\ \A p \in Handlers \cup Senders :
         proc[p].at = "vote" => IsVote(proc[p].event)
    /\ ballot.at = "persist" => now > 0

IInv == TypeOK /\ Pending

\* An event of kind "vote" carries a vote.
LEMMA VoteOfEvent ==
    ASSUME NEW e \in Events, IsVote(e)
    PROVE  e.vote \in Vote
<1>1. CASE e = PollEvent
    BY <1>1 DEF IsVote, PollEvent
<1>2. ASSUME NEW o \in Added, e = AddEvent(o)
      PROVE  FALSE
    BY <1>2 DEF IsVote, AddEvent
<1>3. ASSUME NEW b \in Vote, e = VoteEvent(b)
      PROVE  e.vote \in Vote
    BY <1>3 DEF VoteEvent
<1>. QED  BY <1>1, <1>2, <1>3 DEF Events

\* What WhatsApp can deliver are events.
LEMMA LogTyped ==
    ASSUME TypeOK
    PROVE  Log \subseteq Events
  BY PollsAssumption DEF TypeOK, Log, Events, Options

\* An added option is one that can be added.
LEMMA OptionOfEvent ==
    ASSUME NEW e \in Events, IsAdd(e)
    PROVE  e.option \in Options
<1>1. CASE e = PollEvent
    BY <1>1 DEF IsAdd, PollEvent
<1>2. ASSUME NEW o \in Added, e = AddEvent(o)
      PROVE  e.option \in Options
    BY <1>2 DEF AddEvent, Options
<1>3. ASSUME NEW b \in Vote, e = VoteEvent(b)
      PROVE  FALSE
    BY <1>3 DEF VoteEvent, IsAdd
<1>. QED  BY <1>1, <1>2, <1>3 DEF Events

\* Nothing is stored at first.
THEOREM InitInv == Init => IInv
<1>. SUFFICES ASSUME Init
              PROVE  IInv
    OBVIOUS
<1>. USE PollsAssumption
<1>1. votes \in [Voters -> [ts : 0 .. MaxNow, sel : SUBSET Options,
                            unknown : SUBSET Options, checked : BOOLEAN]]
    BY DEF Init, NoVote
<1>2. proc \in [Handlers \cup Senders ->
                  [at : {"idle", "next", "merge", "write", "vote"},
                   page : SUBSET Events, todo : SUBSET Events,
                   event : Events, known : SUBSET Options]]
  <2>1. PollEvent \in Events
    BY DEF Events
  <2>. QED  BY <2>1 DEF Init, Idle
<1>3. ballot \in [at : {"idle", "send", "persist"}, sel : SUBSET Options,
                  checked : BOOLEAN]
    BY DEF Init, NoBallot
<1>4. Pending
    BY DEF Init, Pending, Idle, NoBallot
<1>5. /\ poll \subseteq Options /\ offered \subseteq Options
      /\ cast \subseteq Vote /\ handled \subseteq Vote
    BY DEF Init
<1>6. now \in 0 .. MaxNow
    BY DEF Init
<1>7. hidden \in BOOLEAN
    BY DEF Init
<1>. QED  BY <1>1, <1>2, <1>3, <1>4, <1>5, <1>6, <1>7 DEF IInv, TypeOK

\* Writing a well-typed vote keeps the rows well typed.
LEMMA UpsertTyped ==
    ASSUME TypeOK, NEW v \in Voters,
           NEW new \in [ts : 0 .. MaxNow, sel : SUBSET Options,
                        unknown : SUBSET Options, checked : BOOLEAN],
           UpsertPollVote(v, new)
    PROVE  votes' \in [Voters -> [ts : 0 .. MaxNow, sel : SUBSET Options,
                              unknown : SUBSET Options, checked : BOOLEAN]]
  BY DEF TypeOK, UpsertPollVote

\* Every step keeps the types, and what is pending.
THEOREM StepInv == IInv /\ [Next]_vars => IInv'
<1>. SUFFICES ASSUME IInv, [Next]_vars
              PROVE  IInv'
    OBVIOUS
<1>. USE PollsAssumption
<1>1. CASE UNCHANGED vars
    BY <1>1 DEF IInv, TypeOK, Pending, vars
<1>2. CASE PostPoll \/ HidePoll
    BY <1>2 DEF PostPoll, HidePoll, IInv, TypeOK, Pending, rows, world,
                Options
<1>3. CASE Restart
    BY <1>3 DEF Restart, Idle, NoBallot, IInv, TypeOK, Pending, rows, world,
                Events
<1>4. ASSUME NEW o \in Added, OfferOption(o)
      PROVE  IInv'
    BY <1>4 DEF OfferOption, IInv, TypeOK, Pending, rows, Options
<1>5. ASSUME NEW v \in Voters, NEW s \in Ballots, Casting(v, s)
      PROVE  /\ cast' \subseteq Vote /\ now' \in 0 .. MaxNow /\ now' > 0
             /\ offered' \subseteq Options
    BY <1>5 DEF Casting, IInv, TypeOK, Vote, Options
<1>6. ASSUME NEW v \in Voters, NEW s \in Ballots, CastVote(v, s)
      PROVE  IInv'
    BY <1>6, <1>5 DEF CastVote, IInv, TypeOK, Pending, rows
<1>7. ASSUME NEW p \in Handlers \cup Senders, Handle(p)
      PROVE  IInv'
  <2>. DEFINE PT == [at : {"idle", "next", "merge", "write", "vote"},
                     page : SUBSET Events, todo : SUBSET Events,
                     event : Events, known : SUBSET Options]
  <2>0. /\ proc \in [Handlers \cup Senders -> PT]
        /\ PollEvent \in Events /\ poll \subseteq Options
    BY DEF IInv, TypeOK, Events
  <2>1. CASE StartPage(p)
    <3>1. PICK page \in SUBSET Log :
               proc' = [proc EXCEPT ![p] =
                          [Idle EXCEPT !.at = "next", !.page = page,
                                       !.todo = page]]
        BY <2>1 DEF StartPage
    <3>2. proc' \in [Handlers \cup Senders -> PT]
        BY <3>1, <2>0, LogTyped DEF IInv, Idle
    <3>. QED  BY <3>1, <3>2, <2>0, <2>1
              DEF StartPage, IInv, TypeOK, Pending, rows, world, Idle
  <2>2. CASE SendPoll(p)
    <3>1. proc' \in [Handlers \cup Senders -> PT]
        BY <2>0, <2>2 DEF SendPoll, Idle
    <3>. QED  BY <3>1, <2>0, <2>2
              DEF SendPoll, IInv, TypeOK, Pending, rows, Idle, Options
  <2>3. ASSUME NEW e \in Events, NEW k \in SUBSET Options,
               NEW stage \in {"write", "merge", "vote"},
               Take(p, e, stage, k), stage = "vote" => IsVote(e),
               HandlersStep, UNCHANGED rows
        PROVE  IInv'
    <3>1. proc' \in [Handlers \cup Senders -> PT]
        BY <2>0, <2>3 DEF Take
    <3>2. TypeOK'
        BY <3>1, <2>3 DEF HandlersStep, IInv, TypeOK, rows, world
    <3>3. Pending'
        BY <2>0, <2>3 DEF Take, HandlersStep, IInv, TypeOK, Pending, world
    <3>. QED  BY <3>2, <3>3 DEF IInv
  <2>4. CASE ReadForCreation(p)
    BY <2>3, <2>4, <2>0 DEF ReadForCreation, Options
  <2>5. CASE Merge(p)
    <3>1. /\ proc' \in [Handlers \cup Senders -> PT]
          /\ proc' = [proc EXCEPT ![p].at = "write",
                                  ![p].known = proc[p].known \cup poll]
        BY <2>0, <2>5 DEF Merge
    <3>2. ASSUME NEW q \in Handlers \cup Senders, proc'[q].at = "vote"
          PROVE  IsVote(proc'[q].event)
        BY <3>1, <3>2, <2>0 DEF Pending, IInv
    <3>. QED  BY <3>1, <3>2, <2>5
              DEF Merge, HandlersStep, IInv, TypeOK, Pending, rows, world
  <2>6. ASSUME NEW e, NEW page \in SUBSET Events, Done(p, page, e)
        PROVE  /\ proc' \in [Handlers \cup Senders -> PT]
               /\ \A q \in Handlers \cup Senders :
                    proc'[q].at = "vote" => IsVote(proc'[q].event)
    <3>1. proc' \in [Handlers \cup Senders -> PT]
        BY <2>0, <2>6 DEF Done, Idle
    <3>2. ASSUME NEW q \in Handlers \cup Senders, proc'[q].at = "vote"
          PROVE  IsVote(proc'[q].event)
        BY <3>2, <2>0, <2>6 DEF Done, Idle, Pending, IInv
    <3>. QED  BY <3>1, <3>2
  <2>61. ASSUME NEW e, Finish(p, e)
        PROVE  /\ proc' \in [Handlers \cup Senders -> PT]
               /\ \A q \in Handlers \cup Senders :
                    proc'[q].at = "vote" => IsVote(proc'[q].event)
    BY <2>0, <2>6, <2>61 DEF Finish
  <2>7. CASE WritePoll(p)
    <3>1. poll' \subseteq Options
        BY <2>0, <2>7 DEF WritePoll
    <3>. QED  BY <3>1, <2>61, <2>7
              DEF WritePoll, HandlersStep, IInv, TypeOK, Pending, world
  <2>8. CASE WriteVote(p)
    <3>. DEFINE b == proc[p].event.vote
                new == Matched(b, proc[p].known)
    <3>1. b \in Vote
        BY <2>0, <2>8, VoteOfEvent DEF WriteVote, IInv, Pending
    <3>2. /\ new \in [ts : 0 .. MaxNow, sel : SUBSET Options,
                      unknown : SUBSET Options, checked : BOOLEAN]
          /\ b.voter \in Voters
        BY <2>0, <3>1 DEF Matched, Vote
    <3>3. votes' \in [Voters -> [ts : 0 .. MaxNow, sel : SUBSET Options,
                                 unknown : SUBSET Options,
                                 checked : BOOLEAN]]
      <4>1. CASE b.sel = {}
        <5>1. NoVote \in [ts : 0 .. MaxNow, sel : SUBSET Options,
                          unknown : SUBSET Options, checked : BOOLEAN]
            BY DEF NoVote
        <5>2. DeletePollVote(b.voter, b.ts)
            BY <4>1, <2>8 DEF WriteVote
        <5>. QED  BY <5>1, <5>2, <3>2 DEF DeletePollVote, IInv, TypeOK
      <4>2. CASE b.sel # {}
        BY <4>2, <2>8, <3>2, UpsertTyped DEF WriteVote, IInv
      <4>. QED  BY <4>1, <4>2
    <3>4. handled' \subseteq Vote
        BY <2>8, <3>1 DEF WriteVote, IInv, TypeOK
    <3>. QED  BY <3>3, <3>4, <2>61, <2>8
              DEF WriteVote, HandlersStep, IInv, TypeOK, Pending, world
  <2>9. CASE Fail(p)
    <3>1. proc[p].page \ {proc[p].event} \in SUBSET Events
        BY <2>0
    <3>. QED  BY <3>1, <2>6, <2>9
              DEF Fail, HandlersStep, IInv, TypeOK, Pending, rows, world
  <2>10. CASE EndPage(p)
    <3>1. proc' \in [Handlers \cup Senders -> PT]
        BY <2>0, <2>10 DEF EndPage, Idle
    <3>. QED  BY <3>1, <2>0, <2>10
              DEF EndPage, HandlersStep, IInv, TypeOK, Pending, rows, world,
                  Idle
  <2>11. ASSUME NEW e \in proc[p].todo, ReadForAdd(p, e)
         PROVE  IInv'
    BY <2>3, <2>11, <2>0, OptionOfEvent DEF ReadForAdd
  <2>12. ASSUME NEW e \in proc[p].todo, ReadForVote(p, e)
         PROVE  IInv'
    BY <2>3, <2>12, <2>0 DEF ReadForVote
  <2>13. ASSUME NEW e \in proc[p].todo, Skip(p, e)
         PROVE  IInv'
    BY <2>61, <2>13 DEF Skip, HandlersStep, IInv, TypeOK, Pending, rows, world
  <2>. QED  BY <1>7, <2>1, <2>2, <2>4, <2>5, <2>7, <2>8, <2>9, <2>10, <2>11,
               <2>12, <2>13 DEF Handle
<1>8. ASSUME NEW s \in Ballots, CheckBallot(s)
      PROVE  IInv'
    BY <1>8 DEF CheckBallot, BallotStep, Found, IInv, TypeOK, Pending, rows,
                world, Options
<1>9. CASE SendBallot
  <2>1. ballot' \in [at : {"idle", "send", "persist"},
                     sel : SUBSET Options, checked : BOOLEAN]
    <3>1. NoBallot \in [at : {"idle", "send", "persist"},
                        sel : SUBSET Options, checked : BOOLEAN]
        BY DEF NoBallot
    <3>2. ballot' = [ballot EXCEPT !.at = "persist"] \/ ballot' = NoBallot
        BY <1>9 DEF SendBallot
    <3>. QED  BY <3>1, <3>2 DEF IInv, TypeOK
  <2>2. CASE Casting(Me, ballot.sel)
    <3>1. /\ cast' \subseteq Vote /\ now' \in 0 .. MaxNow /\ now' > 0
          /\ offered' \subseteq Options
        BY <2>2 DEF Casting, IInv, TypeOK, Vote, Options
    <3>. QED  BY <1>9, <2>1, <3>1
              DEF SendBallot, BallotStep, IInv, TypeOK, Pending, rows
  <2>3. CASE ballot' = NoBallot /\ UNCHANGED world
    BY <1>9, <2>1, <2>3 DEF SendBallot, NoBallot, BallotStep, IInv, TypeOK,
                            Pending, rows, world
  <2>. QED  BY <1>9, <2>2, <2>3 DEF SendBallot
<1>10. CASE PersistBallot
  <2>. DEFINE new == [ts |-> Stamp, sel |-> ballot.sel, unknown |-> {},
                      checked |-> ballot.checked]
  <2>1. /\ new \in [ts : 0 .. MaxNow, sel : SUBSET Options,
                    unknown : SUBSET Options, checked : BOOLEAN]
        /\ Me \in Voters
    BY DEF IInv, TypeOK, Stamp
  <2>2. votes' \in [Voters -> [ts : 0 .. MaxNow, sel : SUBSET Options,
                               unknown : SUBSET Options, checked : BOOLEAN]]
    BY <1>10, <2>1, UpsertTyped DEF PersistBallot, IInv
  <2>3. handled' \subseteq Vote
    BY <1>10 DEF PersistBallot, IInv, TypeOK, Pending, Stamp, Vote
  <2>. QED  BY <1>10, <2>2, <2>3
            DEF PersistBallot, NoBallot, BallotStep, IInv, TypeOK, Pending,
                world
<1>. QED  BY <1>1, <1>2, <1>3, <1>4, <1>6, <1>7, <1>8, <1>9, <1>10 DEF Next

\* Type correctness.
THEOREM TypeCorrect == Spec => []TypeOK
<1>. QED  BY InitInv, StepInv, PTL DEF Spec, IInv

-----------------------------------------------------------------------------

\* A vote given to UpsertPollVote is stored or has met a newer one.
LEMMA UpsertKeepsOrder ==
    ASSUME TypeOK, NewestVoteWins, NEW b \in Vote,
           NEW new \in [ts : 0 .. MaxNow, sel : SUBSET Options,
                        unknown : SUBSET Options, checked : BOOLEAN],
           new.ts = b.ts, UpsertPollVote(b.voter, new),
           handled' = handled \cup {b}
    PROVE  NewestVoteWins'
<1>. USE PollsAssumption
<1>1. /\ b.voter \in Voters /\ b.ts \in Nat
      /\ \A v \in Voters : votes[v].ts \in Nat
      /\ \A c \in handled : c.voter \in Voters /\ c.ts \in Nat
    BY DEF TypeOK, Vote
<1>2. \A v \in Voters : votes'[v].ts >= votes[v].ts
    BY <1>1 DEF UpsertPollVote, TypeOK
<1>3. votes'[b.voter].ts >= b.ts
    BY <1>1 DEF UpsertPollVote, TypeOK
<1>4. \A v \in Voters : votes'[v].ts \in Nat
    BY UpsertTyped, <1>1
<1>5. ASSUME NEW c \in handled
      PROVE  \/ votes'[c.voter].ts >= c.ts
             \/ \E r \in handled' : /\ r.voter = c.voter /\ r.sel = {}
                                    /\ r.ts >= c.ts
  <2>1. CASE votes[c.voter].ts >= c.ts
    BY <1>1, <1>2, <1>4, <2>1
  <2>2. CASE \E r \in handled : /\ r.voter = c.voter /\ r.sel = {}
                                /\ r.ts >= c.ts
    BY <2>2
  <2>. QED  BY <2>1, <2>2 DEF NewestVoteWins
<1>. QED  BY <1>3, <1>5 DEF NewestVoteWins

\* A retraction removes no vote newer than itself.
LEMMA DeleteKeepsOrder ==
    ASSUME TypeOK, NewestVoteWins, NEW b \in Vote, b.sel = {},
           DeletePollVote(b.voter, b.ts), handled' = handled \cup {b}
    PROVE  NewestVoteWins'
<1>. USE PollsAssumption
<1>1. /\ b.voter \in Voters /\ b.ts \in Nat
      /\ \A v \in Voters : votes[v].ts \in Nat
      /\ \A c \in handled : c.voter \in Voters /\ c.ts \in Nat
    BY DEF TypeOK, Vote
<1>2. ASSUME NEW c \in handled
      PROVE  \/ votes'[c.voter].ts >= c.ts
             \/ \E r \in handled' : /\ r.voter = c.voter /\ r.sel = {}
                                    /\ r.ts >= c.ts
  <2>1. CASE votes'[c.voter] = votes[c.voter]
    BY <1>1, <1>2, <2>1 DEF NewestVoteWins
  <2>2. CASE votes'[c.voter] # votes[c.voter]
    <3>1. c.voter = b.voter /\ votes[c.voter].ts <= b.ts
        BY <1>1, <2>2 DEF DeletePollVote, TypeOK
    <3>2. CASE votes[c.voter].ts >= c.ts
        BY <1>1, <3>1, <3>2
    <3>3. CASE \E r \in handled : /\ r.voter = c.voter /\ r.sel = {}
                                  /\ r.ts >= c.ts
        BY <3>3
    <3>. QED  BY <3>2, <3>3 DEF NewestVoteWins
  <2>. QED  BY <2>1, <2>2
<1>3. \E r \in handled' : r.voter = b.voter /\ r.sel = {} /\ r.ts >= b.ts
    BY <1>1
<1>. QED  BY <1>2, <1>3 DEF NewestVoteWins

\* However many goroutines write votes, late and repeated, a vote only yields
\* to a newer vote or to a retraction that is not older.
THEOREM VotesKeepOrder == Spec => []NewestVoteWins
<1>1. Init => NewestVoteWins
    BY DEF Init, NewestVoteWins
<1>2. ASSUME IInv, NewestVoteWins, [Next]_vars
      PROVE  NewestVoteWins'
  <2>. USE PollsAssumption
  <2>1. CASE UNCHANGED <<votes, handled>>
    BY <1>2, <2>1 DEF NewestVoteWins
  <2>2. ASSUME NEW p \in Handlers \cup Senders, WriteVote(p)
        PROVE  NewestVoteWins'
    <3>. DEFINE b == proc[p].event.vote
                new == Matched(b, proc[p].known)
    <3>1. b \in Vote
        BY <1>2, <2>2, VoteOfEvent DEF WriteVote, IInv, Pending, TypeOK
    <3>2. handled' = handled \cup {b}
        BY <2>2 DEF WriteVote
    <3>3. CASE b.sel = {}
        BY <1>2, <2>2, <3>1, <3>2, <3>3, DeleteKeepsOrder DEF WriteVote, IInv
    <3>4. CASE b.sel # {}
      <4>1. /\ new \in [ts : 0 .. MaxNow, sel : SUBSET Options,
                        unknown : SUBSET Options, checked : BOOLEAN]
            /\ new.ts = b.ts
        BY <1>2, <3>1 DEF Matched, Vote, IInv, TypeOK
      <4>2. UpsertPollVote(b.voter, new)
        BY <2>2, <3>4 DEF WriteVote
      <4>. QED  BY <1>2, <3>1, <3>2, <4>1, <4>2, UpsertKeepsOrder DEF IInv
    <3>. QED  BY <3>3, <3>4
  <2>3. CASE PersistBallot
    <3>. DEFINE b == [voter |-> Me, ts |-> Stamp, sel |-> ballot.sel]
                new == [ts |-> Stamp, sel |-> ballot.sel, unknown |-> {},
                        checked |-> ballot.checked]
    <3>1. b \in Vote
        BY <1>2, <2>3 DEF PersistBallot, IInv, TypeOK, Pending, Stamp, Vote
    <3>2. /\ new \in [ts : 0 .. MaxNow, sel : SUBSET Options,
                      unknown : SUBSET Options, checked : BOOLEAN]
          /\ new.ts = b.ts /\ b.voter = Me
        BY <1>2 DEF IInv, TypeOK, Stamp
    <3>3. UpsertPollVote(b.voter, new) /\ handled' = handled \cup {b}
        BY <2>3 DEF PersistBallot
    <3>. HIDE DEF b, new
    <3>. QED  BY <1>2, <3>1, <3>2, <3>3, UpsertKeepsOrder DEF IInv
  <2>. QED  BY <1>2, <2>1, <2>2, <2>3
            DEF Next, Handle, vars, rows, PostPoll, HidePoll, Restart,
                OfferOption, CastVote, CheckBallot, SendBallot, StartPage,
                SendPoll, ReadForCreation, ReadForAdd, Merge, WritePoll,
                ReadForVote, Skip, Fail, EndPage
<1>. QED  BY <1>1, <1>2, InitInv, StepInv, PTL DEF Spec

-----------------------------------------------------------------------------

\* What the only goroutine h read is still there: nobody else writes the poll.
Fresh(h) ==
    /\ proc[h].at \in {"merge", "write"} => poll \subseteq proc[h].known
    /\ proc[h].at = "vote" => proc[h].known \subseteq poll
    /\ ballot.at # "idle" /\ ballot.checked => ballot.sel \subseteq poll

\* A single goroutine never loses an option, and every stored vote selects
\* options of the stored poll.
LEMMA SerialStep ==
    ASSUME NEW h, Handlers = {h}, Senders = {},
           IInv, Fresh(h), SelectedAreOptions, [Next]_vars
    PROVE  Fresh(h)' /\ SelectedAreOptions' /\ poll \subseteq poll'
<1>0. /\ proc \in [{h} -> [at : {"idle", "next", "merge", "write", "vote"},
                           page : SUBSET Events, todo : SUBSET Events,
                           event : Events, known : SUBSET Options]]
      /\ votes \in [Voters -> [ts : 0 .. MaxNow, sel : SUBSET Options,
                               unknown : SUBSET Options, checked : BOOLEAN]]
    BY DEF IInv, TypeOK
<1>1. CASE UNCHANGED <<rows, proc, ballot>>
    BY <1>1 DEF Fresh, SelectedAreOptions, rows
<1>2. CASE Restart
    BY <1>0, <1>2 DEF Restart, Fresh, SelectedAreOptions, rows, Idle, NoBallot
<1>3. CASE StartPage(h) \/ EndPage(h)
  <2>1. /\ proc'[h].at \in {"idle", "next"}
        /\ UNCHANGED <<poll, votes, ballot>>
    <3>1. CASE EndPage(h)
        BY <1>0, <3>1 DEF EndPage, rows, HandlersStep, Idle
    <3>2. CASE StartPage(h)
      <4>1. PICK page : proc' = [proc EXCEPT ![h] =
                                   [Idle EXCEPT !.at = "next", !.page = page,
                                                !.todo = page]]
        BY <3>2 DEF StartPage
      <4>2. proc'[h].at = "next"
        BY <1>0, <4>1 DEF Idle
      <4>. QED  BY <3>2, <4>2 DEF StartPage, rows
    <3>. QED  BY <1>3, <3>1, <3>2
  <2>. QED  BY <2>1 DEF Fresh, SelectedAreOptions
<1>4. ASSUME NEW e, NEW k, NEW stage \in {"merge", "write", "vote"},
             Take(h, e, stage, k), HandlersStep, UNCHANGED rows,
             IF stage = "vote" THEN k \subseteq poll ELSE poll \subseteq k
      PROVE  Fresh(h)' /\ SelectedAreOptions' /\ poll \subseteq poll'
  <2>1. proc'[h].at = stage /\ proc'[h].known = k
    BY <1>0, <1>4 DEF Take
  <2>. QED  BY <1>4, <2>1 DEF HandlersStep, Fresh, SelectedAreOptions, rows
<1>5. CASE ReadForCreation(h)
    BY <1>4, <1>5 DEF ReadForCreation
<1>6. ASSUME NEW e, ReadForAdd(h, e) \/ ReadForVote(h, e)
      PROVE  Fresh(h)' /\ SelectedAreOptions' /\ poll \subseteq poll'
    BY <1>4, <1>6 DEF ReadForAdd, ReadForVote
<1>7. CASE Merge(h)
  <2>1. proc'[h].at = "write" /\ poll \subseteq proc'[h].known
    BY <1>0, <1>7 DEF Merge
  <2>. QED  BY <1>7, <2>1 DEF Merge, HandlersStep, Fresh, SelectedAreOptions,
                              rows
<1>8. ASSUME NEW e, NEW page, Done(h, page, e)
      PROVE  proc'[h].at = "next"
    BY <1>0, <1>8 DEF Done, Idle
<1>9. ASSUME NEW e, Skip(h, e)
      PROVE  Fresh(h)' /\ SelectedAreOptions' /\ poll \subseteq poll'
    BY <1>8, <1>9 DEF Skip, Finish, HandlersStep, Fresh, SelectedAreOptions,
                      rows
<1>10. CASE Fail(h)
    BY <1>8, <1>10 DEF Fail, HandlersStep, Fresh, SelectedAreOptions, rows
<1>11. CASE WritePoll(h)
  <2>1. proc'[h].at = "next" /\ poll \subseteq poll'
    BY <1>8, <1>11 DEF WritePoll, Finish, Fresh
  <2>. QED  BY <1>11, <2>1 DEF WritePoll, HandlersStep, Fresh,
                               SelectedAreOptions
<1>12. CASE WriteVote(h)
  <2>. DEFINE b == proc[h].event.vote
  <2>1. proc'[h].at = "next" /\ poll' = poll
    BY <1>8, <1>12 DEF WriteVote, Finish
  <2>2. \A v \in Voters :
           votes'[v] \in {votes[v], NoVote, Matched(b, proc[h].known)}
    BY <1>0, <1>12 DEF WriteVote, DeletePollVote, UpsertPollVote
  <2>3. Matched(b, proc[h].known).sel \subseteq poll
    BY <1>12 DEF WriteVote, Matched, Fresh
  <2>4. NoVote.sel = {}
    BY DEF NoVote
  <2>. QED  BY <1>12, <2>1, <2>2, <2>3, <2>4
            DEF WriteVote, HandlersStep, Fresh, SelectedAreOptions
<1>13. ASSUME NEW s \in Ballots, CheckBallot(s)
       PROVE  Fresh(h)' /\ SelectedAreOptions' /\ poll \subseteq poll'
    BY <1>13 DEF CheckBallot, Acceptable, BallotStep, Fresh,
                 SelectedAreOptions, rows
<1>14. CASE SendBallot
  <2>1. /\ ballot' = [ballot EXCEPT !.at = "persist"] \/ ballot' = NoBallot
        /\ ballot.at = "send" /\ ballot \in [at : {"idle", "send", "persist"},
                             sel : SUBSET Options, checked : BOOLEAN]
    BY <1>14 DEF SendBallot, IInv, TypeOK
  <2>2. ballot'.at # "idle" =>
           ballot'.sel = ballot.sel /\ ballot'.checked = ballot.checked
    BY <2>1 DEF NoBallot
  <2>. QED  BY <1>14, <2>1, <2>2 DEF SendBallot, BallotStep, Fresh,
                                     SelectedAreOptions, rows
<1>15. CASE PersistBallot
  <2>. DEFINE new == [ts |-> Stamp, sel |-> ballot.sel, unknown |-> {},
                      checked |-> ballot.checked]
  <2>1. \A v \in Voters : votes'[v] \in {votes[v], new}
    BY <1>0, <1>15 DEF PersistBallot, UpsertPollVote
  <2>2. new.checked => new.sel \subseteq poll
    BY <1>15 DEF PersistBallot, Fresh
  <2>. QED  BY <1>15, <2>1, <2>2 DEF PersistBallot, NoBallot, BallotStep,
                                     Fresh, SelectedAreOptions
<1>16. ASSUME NEW v, NEW s, CastVote(v, s)
       PROVE  UNCHANGED <<rows, proc, ballot>>
    BY <1>16 DEF CastVote, rows
<1>17. ASSUME NEW p \in Handlers \cup Senders, Handle(p)
       PROVE  Fresh(h)' /\ SelectedAreOptions' /\ poll \subseteq poll'
  <2>1. p = h /\ ~SendPoll(p)
    BY DEF SendPoll
  <2>. QED  BY <1>3, <1>5, <1>6, <1>7, <1>9, <1>10, <1>11, <1>12, <1>17, <2>1
            DEF Handle
<1>18. CASE PostPoll \/ HidePoll \/ (\E o \in Added : OfferOption(o))
            \/ UNCHANGED vars
    BY <1>1, <1>18 DEF PostPoll, HidePoll, OfferOption, vars, rows
<1>. QED  BY <1>1, <1>2, <1>13, <1>14, <1>15, <1>16, <1>17, <1>18 DEF Next

\* With one goroutine handling poll events and no `send poll` next to it, what
\* a stored vote selects is an option of the stored poll.
THEOREM SerialVotesSelectOptions ==
    ASSUME NEW CONSTANT h, Handlers = {h}, Senders = {}
    PROVE  Spec => []SelectedAreOptions
<1>1. Init => Fresh(h) /\ SelectedAreOptions
    BY DEF Init, Fresh, SelectedAreOptions, Idle, NoBallot, NoVote
<1>2. IInv /\ Fresh(h) /\ SelectedAreOptions /\ [Next]_vars
         => Fresh(h)' /\ SelectedAreOptions'
    BY SerialStep
<1>. QED  BY <1>1, <1>2, InitInv, StepInv, PTL DEF Spec

\* With one goroutine handling poll events and no `send poll` next to it, a
\* poll never loses an option.
THEOREM SerialOptionsOnlyGrow ==
    ASSUME NEW CONSTANT h, Handlers = {h}, Senders = {}
    PROVE  Spec => OptionsOnlyGrow
<1>1. Init => Fresh(h) /\ SelectedAreOptions
    BY DEF Init, Fresh, SelectedAreOptions, Idle, NoBallot, NoVote
<1>2. IInv /\ Fresh(h) /\ SelectedAreOptions /\ [Next]_vars
         => /\ Fresh(h)' /\ SelectedAreOptions'
            /\ [poll \subseteq poll']_vars
    BY SerialStep
<1>. QED  BY <1>1, <1>2, InitInv, StepInv, PTL DEF Spec, OptionsOnlyGrow

-----------------------------------------------------------------------------

\* The options of the poll, and the added ones that a page brings.
Brought(page) == Created \cup {o \in Added : AddEvent(o) \in page}

\* What has been handled of a page with the poll's creation is among the
\* options, unless the poll is gone.
Stored(page, todo, options, gone) ==
    PollEvent \in page =>
        /\ PollEvent \notin todo => Created \subseteq options
        /\ \A o \in Added :
             AddEvent(o) \in page \ todo => gone \/ o \in options

\* And what goroutine h is about to store, or to match a vote with, is in its
\* hands.
Resolving(h) ==
    /\ proc[h].at # "idle" =>
         Stored(proc[h].page, proc[h].todo, poll, hidden)
    /\ proc[h].at \in {"merge", "write"} =>
         /\ proc[h].event = PollEvent => Created \subseteq proc[h].known
         /\ \A o \in Added :
              proc[h].event = AddEvent(o) => o \in proc[h].known
    /\ proc[h].at = "vote" /\ PollEvent \in proc[h].page =>
         Brought(proc[h].page) \subseteq proc[h].known

\* Events of different kinds differ.
LEMMA KindsDiffer ==
    /\ IsPoll(PollEvent) /\ ~IsAdd(PollEvent) /\ ~IsVote(PollEvent)
    /\ \A o : /\ IsAdd(AddEvent(o)) /\ ~IsVote(AddEvent(o))
              /\ AddEvent(o).option = o /\ AddEvent(o) # PollEvent
BY DEF IsPoll, IsAdd, IsVote, PollEvent, AddEvent

\* A single goroutine matches a vote with all the options its page brings.
LEMMA ResolvingStep ==
    ASSUME NEW h, Handlers = {h}, Senders = {},
           IInv, Fresh(h), SelectedAreOptions, Resolving(h), [Next]_vars
    PROVE  Resolving(h)'
<1>0. /\ proc \in [{h} -> [at : {"idle", "next", "merge", "write", "vote"},
                           page : SUBSET Events, todo : SUBSET Events,
                           event : Events, known : SUBSET Options]]
      /\ poll \subseteq poll'
  BY SerialStep DEF IInv, TypeOK
<1>1. ASSUME UNCHANGED proc, hidden => hidden'
      PROVE  Resolving(h)'
  BY <1>0, <1>1 DEF Resolving, Stored
<1>2. CASE UNCHANGED vars \/ PostPoll \/ HidePoll \/ SendBallot
           \/ PersistBallot \/ (\E o \in Added : OfferOption(o))
           \/ (\E v \in Voters, s \in Ballots : CastVote(v, s))
           \/ (\E s \in Ballots : CheckBallot(s))
  BY <1>1, <1>2 DEF vars, PostPoll, HidePoll, SendBallot, PersistBallot,
     OfferOption, CastVote, CheckBallot, BallotStep
<1>3. CASE Restart
  <2>1. proc'[h].at = "idle"
    BY <1>0, <1>3 DEF Restart, Idle
  <2>. QED  BY <2>1 DEF Resolving
<1>4. CASE EndPage(h)
  <2>1. proc'[h].at = "idle"
    BY <1>0, <1>4 DEF EndPage, Idle
  <2>. QED  BY <2>1 DEF Resolving
<1>5. CASE StartPage(h)
  <2>1. PICK page : proc' = [proc EXCEPT ![h] =
                               [Idle EXCEPT !.at = "next", !.page = page,
                                            !.todo = page]]
    BY <1>5 DEF StartPage
  <2>2. /\ proc'[h].at = "next" /\ proc'[h].page = page
        /\ proc'[h].todo = page
    BY <1>0, <2>1 DEF Idle
  <2>. QED  BY <2>2 DEF Resolving, Stored
<1>6. ASSUME NEW e, NEW k, NEW stage \in {"merge", "write", "vote"},
             Take(h, e, stage, k), HandlersStep, UNCHANGED rows,
             stage # "vote" =>
               /\ e = PollEvent => Created \subseteq k
               /\ \A o \in Added : e = AddEvent(o) => o \in k,
             stage = "vote" /\ PollEvent \in proc[h].page =>
               Brought(proc[h].page) \subseteq k
      PROVE  Resolving(h)'
  <2>1. /\ proc'[h].at = stage /\ proc'[h].event = e /\ proc'[h].known = k
        /\ proc'[h].page = proc[h].page /\ proc'[h].todo = proc[h].todo
        /\ proc[h].at = "next"
    BY <1>0, <1>6 DEF Take
  <2>2. Stored(proc[h].page, proc[h].todo, poll, hidden)
    BY <2>1 DEF Resolving
  <2>. QED  BY <1>6, <2>1, <2>2 DEF Resolving, Stored, HandlersStep, rows
<1>7. CASE ReadForCreation(h)
  BY <1>6, <1>7, KindsDiffer DEF ReadForCreation
<1>8. ASSUME NEW e, ReadForAdd(h, e)
      PROVE  Resolving(h)'
  <2>1. \A o \in Added : e = AddEvent(o) => o \in poll \cup {e.option}
    BY KindsDiffer
  <2>2. e # PollEvent
    BY <1>8, KindsDiffer DEF ReadForAdd
  <2>. QED  BY <1>6, <1>8, <2>1, <2>2 DEF ReadForAdd
<1>9. ASSUME NEW e, ReadForVote(h, e)
      PROVE  Resolving(h)'
  <2>1. /\ proc[h].at = "next" /\ \A f \in proc[h].todo : IsVote(f)
        /\ ~hidden
    BY <1>9 DEF ReadForVote, Take, Turn, Found
  <2>2. PollEvent \notin proc[h].todo
        /\ \A o \in Added : AddEvent(o) \notin proc[h].todo
    BY <2>1, KindsDiffer
  <2>3. PollEvent \in proc[h].page => Brought(proc[h].page) \subseteq poll
    BY <2>1, <2>2 DEF Resolving, Stored, Brought
  <2>. QED  BY <1>6, <1>9, <2>3 DEF ReadForVote
<1>10. CASE Merge(h)
  <2>1. /\ proc'[h].at = "write" /\ proc'[h].event = proc[h].event
        /\ proc[h].known \subseteq proc'[h].known
        /\ proc'[h].page = proc[h].page /\ proc'[h].todo = proc[h].todo
        /\ proc[h].at = "merge"
    BY <1>0, <1>10 DEF Merge
  <2>. QED  BY <1>10, <2>1 DEF Merge, Resolving, Stored, HandlersStep, rows
<1>11. ASSUME NEW e, NEW page, Done(h, page, e), hidden' = hidden,
              Stored(page, proc[h].todo \ {e}, poll', hidden')
       PROVE  Resolving(h)'
  <2>1. /\ proc'[h].at = "next" /\ proc'[h].page = page
        /\ proc'[h].todo = proc[h].todo \ {e}
    BY <1>0, <1>11 DEF Done, Idle
  <2>. QED  BY <1>11, <2>1 DEF Resolving, Stored
<1>12. CASE WritePoll(h)
  <2> DEFINE e == proc[h].event
  <2>1. /\ proc[h].at = "write" /\ poll' = proc[h].known
        /\ Done(h, proc[h].page, e) /\ hidden' = hidden
    BY <1>12 DEF WritePoll, Finish, HandlersStep
  <2>2. Stored(proc[h].page, proc[h].todo \ {e}, poll', hidden')
    BY <1>0, <2>1 DEF Resolving, Stored
  <2>. QED  BY <1>11, <2>1, <2>2
<1>13. CASE WriteVote(h)
  <2> DEFINE e == proc[h].event
  <2>1. /\ proc[h].at = "vote" /\ poll' = poll
        /\ Done(h, proc[h].page, e) /\ hidden' = hidden
    BY <1>13 DEF WriteVote, Finish, HandlersStep
  <2>2. IsVote(e)
    BY <2>1 DEF IInv, Pending
  <2>3. e # PollEvent /\ \A o : e # AddEvent(o)
    BY <2>2, KindsDiffer
  <2>. HIDE DEF e
  <2>4. Stored(proc[h].page, proc[h].todo \ {e}, poll', hidden')
    BY <2>1, <2>3 DEF Resolving, Stored
  <2>. QED  BY <1>11, <2>1, <2>4
<1>14. ASSUME NEW e, Skip(h, e)
       PROVE  Resolving(h)'
  <2>1. /\ proc[h].at = "next" /\ Turn(proc[h].todo, e)
        /\ \/ IsAdd(e) /\ (Found => e.option \in poll)
           \/ IsVote(e)
        /\ Done(h, proc[h].page, e) /\ hidden' = hidden /\ poll' = poll
    BY <1>14 DEF Skip, Finish, HandlersStep, rows
  <2>2. e # PollEvent
    BY <2>1, KindsDiffer
  <2>3. \A o \in Added :
           e = AddEvent(o) /\ PollEvent \in proc[h].page =>
              hidden \/ o \in poll
    <3>1. SUFFICES ASSUME NEW o \in Added, e = AddEvent(o),
                          PollEvent \in proc[h].page, ~hidden
                   PROVE  o \in poll
      OBVIOUS
    <3>2. IsAdd(e) /\ ~IsVote(e) /\ e.option = o
      BY <3>1, KindsDiffer
    <3>3. PollEvent \notin proc[h].todo
      BY <2>1, <3>2 DEF Turn
    <3>4. Created \subseteq poll
      BY <2>1, <3>1, <3>3 DEF Resolving, Stored
    <3>. QED  BY <2>1, <3>1, <3>2, <3>4, PollsAssumption DEF Found
  <2>4. Stored(proc[h].page, proc[h].todo \ {e}, poll', hidden')
    BY <2>1, <2>2, <2>3 DEF Resolving, Stored
  <2>. QED  BY <1>11, <2>1, <2>4
<1>15. CASE Fail(h)
  <2> DEFINE e == proc[h].event
  <2>1. /\ proc[h].at # "idle" /\ poll' = poll
        /\ Done(h, proc[h].page \ {e}, e) /\ hidden' = hidden
    BY <1>15 DEF Fail, HandlersStep, rows
  <2>. HIDE DEF e
  <2>2. Stored(proc[h].page \ {e}, proc[h].todo \ {e}, poll', hidden')
    BY <2>1 DEF Resolving, Stored
  <2>. QED  BY <1>11, <2>1, <2>2
<1>16. ASSUME NEW p \in Handlers \cup Senders, Handle(p)
       PROVE  Resolving(h)'
  <2>1. p = h /\ ~SendPoll(p)
    BY DEF SendPoll
  <2>. QED  BY <1>4, <1>5, <1>7, <1>8, <1>9, <1>10, <1>12, <1>13, <1>14,
            <1>15, <1>16, <2>1 DEF Handle
<1>. QED  BY <1>2, <1>3, <1>16 DEF Next

\* With one goroutine handling poll events and no `send poll` next to it, a
\* page that brings a poll resolves its votes among all the options the page
\* brings: for every page, in whatever order it lists them.
THEOREM SerialPageResolves ==
    ASSUME NEW CONSTANT h, Handlers = {h}, Senders = {}
    PROVE  Spec => PageResolvesItsVotes
<1>1. Init => Fresh(h) /\ SelectedAreOptions /\ Resolving(h)
  BY DEF Init, Fresh, SelectedAreOptions, Resolving, Idle, NoBallot, NoVote
<1>2. IInv /\ Fresh(h) /\ SelectedAreOptions /\ Resolving(h) /\ [Next]_vars
         => Fresh(h)' /\ SelectedAreOptions' /\ Resolving(h)'
  BY SerialStep, ResolvingStep
<1>3. ASSUME IInv, Resolving(h), [Next]_vars, NEW p \in Handlers,
             proc[p].at = "vote", votes' # votes, proc'[p].at = "next",
             PollEvent \in proc[p].page
      PROVE  votes'[proc[p].event.vote.voter].unknown
               \cap Brought(proc[p].page) = {}
  <2>1. p = h /\ Brought(proc[h].page) \subseteq proc[h].known
    BY <1>3 DEF Resolving
  <2>2. WriteVote(h)
    BY <1>3, <2>1 DEF Next, Handle, vars, rows, PostPoll, HidePoll, Restart,
       OfferOption, CastVote, CheckBallot, SendBallot, PersistBallot,
       BallotStep, StartPage, SendPoll, ReadForCreation, ReadForAdd, Take,
       Merge, WritePoll, ReadForVote, Skip, Fail, EndPage, Idle
  <2> DEFINE b == proc[h].event.vote
  <2>3. b \in Vote /\ b.voter \in Voters
    BY <1>3, <2>1, VoteOfEvent DEF IInv, TypeOK, Pending, Vote
  <2>4. \/ votes' = [votes EXCEPT ![b.voter] = NoVote]
        \/ votes' = [votes EXCEPT ![b.voter] = Matched(b, proc[h].known)]
    BY <1>3, <2>2 DEF WriteVote, DeletePollVote, UpsertPollVote
  <2>5. votes \in [Voters -> [ts : 0 .. MaxNow, sel : SUBSET Options,
                              unknown : SUBSET Options, checked : BOOLEAN]]
    BY <1>3 DEF IInv, TypeOK
  <2>. HIDE DEF b
  <2>6. votes'[b.voter] \in {NoVote, Matched(b, proc[h].known)}
    BY <2>3, <2>4, <2>5
  <2>7. votes'[b.voter].unknown \cap proc[h].known = {}
    BY <2>6 DEF NoVote, Matched
  <2>. QED  BY <2>1, <2>7 DEF b
<1>4. IInv /\ Resolving(h) /\ [Next]_vars =>
        [\A p \in Handlers :
           /\ proc[p].at = "vote" /\ votes' # votes
           /\ proc'[p].at = "next" /\ PollEvent \in proc[p].page
           => LET b == proc[p].event.vote
                  brought == Created \cup
                               {o \in Added : AddEvent(o) \in proc[p].page}
              IN  votes'[b.voter].unknown \cap brought = {}]_vars
  BY <1>3 DEF Brought
<1>. QED  BY <1>1, <1>2, <1>4, InitInv, StepInv, PTL
          DEF Spec, PageResolvesItsVotes
=============================================================================
