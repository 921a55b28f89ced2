-------------------------- MODULE StoreSchemaProofs --------------------------
(***************************************************************************)
(* Proofs about StoreSchema, for every number of processes that open the   *)
(* store, of migrations interrupted and of stores they find.               *)
(***************************************************************************)
EXTENDS StoreSchema, TLAPS

-----------------------------------------------------------------------------
(* Opening a store.                                                        *)

FTSVersions == {"fts", "revoked", "deleted_for_me"}
WithIndex == {"dropTriggers", "createTriggers", "backfill"}
FTSStages == {"fts", "dropFTS", "createFTS"} \cup WithIndex
UnreadStages == {"count", "mark"}

\* The versions are applied in their order.
Ordered(S) == /\ "deleted_for_me" \in S => "revoked" \in S
              /\ "revoked" \in S => "fts" \in S

\* The migration a process is at has the stage it is at.
Fits(q) ==
    /\ q.at = "create" => q.up = "core"
    /\ q.at \in {"column", "alter"} =>
         q.up \in Flags \cup {"unread_count", "ensured"}
    /\ q.at \in UnreadStages => q.up \in {"unread_count", "ensured"}
    /\ q.at \in FTSStages => q.up \in FTSVersions
    /\ q.at = "record" => q.up \in Versions

\* Which migration a process is at, and what it knows.
OpenerInv(p) ==
    LET q == proc[p] IN
    /\ q.known \subseteq applied
    /\ q.at \in {"detect", "open"} \/ q.up = "ensured" =>
         Versions \subseteq q.known
    /\ q.at \in {"detect", "open"} \cup UnreadStages =>
         "unread_count" \in columns
    /\ Fits(q)
    /\ q.at \in FTSStages /\ q.up \in Flags => q.up \in columns
    /\ q.at \notin {"closed", "next", "detect", "open"} /\ q.up # "ensured" =>
         /\ q.up \notin q.known
         /\ q.up = "deleted_for_me" => "revoked" \in q.known
         /\ q.up = "revoked" => "fts" \in q.known

\* What no interrupted or racing open can take back.
StoreInv ==
    /\ start.columns \subseteq columns /\ start.applied \subseteq applied
    /\ Ordered(applied)
    /\ rows # start.rows \/ tomb # {} => Versions \subseteq applied
    /\ start.unread # 0 => unread # 0

\* Without a race one process at a time opens the store, and knows what is
\* applied.  A column it is about to add is not there, and it only moves the
\* counts of a store that nobody has open.
AloneInv ==
    ~overlapped =>
      /\ \A p, q \in Procs : Opening(p) /\ Opening(q) => p = q
      /\ \A p \in Procs : Opening(p) => proc[p].known = applied
      /\ \A p \in Procs : At(p, "alter") => Column(p) \notin columns
      /\ \A p, q \in Procs : proc[p].at \in UnreadStages => ~At(q, "open")

\* What an open has done to the index when it is at a stage.
FTSInv(p) ==
    LET q == proc[p] IN
    /\ q.ftsEnabled => fts = "current"
    /\ q.at = "dropFTS" => fts # "current" /\ q.n = 1
    /\ q.at = "createFTS" => fts = "none" /\ q.n = 1
    /\ q.at \in WithIndex => fts = "current"
    /\ q.at = "dropTriggers" =>
         \A i \in 1 .. q.n - 1 : Triggers[i] \notin triggers
    /\ q.at = "createTriggers" => triggers = {Triggers[i] : i \in 1 .. q.n - 1}
    /\ q.at = "backfill" => triggers = TriggerSet
    /\ q.at = "record" /\ q.up \in FTSVersions =>
         triggers = TriggerSet /\ fts = "current"

\* With all migrations done the triggers keep the index, or there is none.
Kept ==
    \/ triggers = TriggerSet /\ fts # "none"
    \/ triggers = {} /\ fts = "none" /\ indexed = {}

IndexInv ==
    ~overlapped =>
      /\ \A p \in Procs : FTSInv(p)
      /\ "deleted_for_me" \in applied => Kept
      /\ fts = "none" => indexed = {}
      /\ indexed \cap tomb = {}
      /\ start.fts = "current" => fts = "current" /\ Visible \subseteq indexed

Expected == \/ start.fts = "current" \/ start.rows = {}
            \/ "revoked" \in start.columns /\ abandons = 0

\* p has made a new index and will fill it.
Filling(p) == /\ proc[p].at \in WithIndex /\ proc[p].created
              /\ indexed = {} /\ Flags \subseteq columns

CompleteInv ==
    ~overlapped /\ Expected /\ fts = "current" =>
        Visible \subseteq indexed \/ \E p \in Procs : Filling(p)

\* How far the unread count has been moved.
CountInv ==
    ~overlapped /\ abandons = 0 =>
      LET moved == IF start.unread > 0 THEN start.unread ELSE 0 IN
      /\ "unread_count" \notin columns => count = 0 /\ unread = start.unread
      /\ \A p \in Procs : At(p, "count") => count = 0 /\ unread = start.unread
      /\ \A p \in Procs :
            At(p, "mark") => count = moved /\ unread = start.unread
      /\ "unread_count" \in columns
           /\ (\A p \in Procs : proc[p].at \notin UnreadStages) =>
             count = moved /\ unread \in {0, 1}

SchemaInv == /\ TypeOK /\ (\A p \in Procs : OpenerInv(p)) /\ StoreInv
             /\ AloneInv /\ IndexInv /\ CompleteInv /\ CountInv

Openers == [at : Stages, known : SUBSET Versions,
            up : Versions \cup {"none", "ensured"}, created : BOOLEAN,
            n : DOMAIN Triggers, ftsEnabled : BOOLEAN]

\* No process but p takes a step.
Alone(p) == \A q \in Procs : q # p => proc'[q] = proc[q]

\* What p is after its step.
Becomes(p, stage, known, up, created, n, enabled) ==
    /\ proc' \in [Procs -> Openers] /\ Alone(p)
    /\ proc'[p].at = stage /\ proc'[p].known = known /\ proc'[p].up = up
    /\ proc'[p].created = created /\ proc'[p].n = n
    /\ proc'[p].ftsEnabled = enabled

\* The migrations, in their order.
LEMMA SchemaNames ==
    /\ DOMAIN Migrations = 1 .. 5
    /\ Migrations[1] = "core" /\ Migrations[2] = "fts"
    /\ Migrations[3] = "revoked" /\ Migrations[4] = "deleted_for_me"
    /\ Migrations[5] = "unread_count"
    /\ Versions = {"core", "fts", "revoked", "deleted_for_me", "unread_count"}
<1>1. /\ DOMAIN Migrations = 1 .. 5
      /\ Migrations[1] = "core" /\ Migrations[2] = "fts"
      /\ Migrations[3] = "revoked" /\ Migrations[4] = "deleted_for_me"
      /\ Migrations[5] = "unread_count"
  BY DEF Migrations
<1>. QED  BY <1>1 DEF Versions

\* The triggers, in the order they are dropped and made.
LEMMA TriggerNames ==
    /\ DOMAIN Triggers = 1 .. 3 /\ Len(Triggers) = 3
    /\ TriggerSet = {Triggers[1], Triggers[2], Triggers[3]}
    /\ Triggers[1] = "messages_ai" /\ Triggers[2] = "messages_ad"
    /\ Triggers[3] = "messages_au"
<1>1. /\ DOMAIN Triggers = 1 .. 3 /\ Len(Triggers) = 3
      /\ Triggers[1] = "messages_ai" /\ Triggers[2] = "messages_ad"
      /\ Triggers[3] = "messages_au"
  BY DEF Triggers
<1>. QED  BY <1>1 DEF TriggerSet

\* A stage that p goes to.
LEMMA GoMoves ==
    ASSUME TypeOK, NEW p \in Procs, NEW s \in Stages, Go(p, s)
    PROVE  Becomes(p, s, proc[p].known, proc[p].up, proc[p].created,
                   proc[p].n, proc[p].ftsEnabled)
<1>1. proc \in [Procs -> Openers]
  BY DEF TypeOK, Openers
<1>2. proc' = [proc EXCEPT ![p] = [proc[p] EXCEPT !.at = s]]
  BY DEF Go
<1>3. [proc[p] EXCEPT !.at = s] \in Openers
  BY <1>1 DEF Openers
<1>4. /\ proc' \in [Procs -> Openers] /\ Alone(p)
      /\ proc'[p] = [proc[p] EXCEPT !.at = s]
  BY <1>1, <1>2, <1>3 DEF Alone
<1>. QED  BY <1>1, <1>4 DEF Becomes, Openers

\* A closed process is typed.
LEMMA ClosedTyped == Closed \in Openers
<1>1. {} \in SUBSET Versions /\ 1 \in DOMAIN Triggers /\ "closed" \in Stages
  BY TriggerNames DEF Stages
<1>. QED  BY <1>1 DEF Closed, Openers

\* An open that fails, or a process that ends.
LEMMA FailMoves ==
    ASSUME TypeOK, NEW p \in Procs, Fail(p)
    PROVE  Becomes(p, "closed", {}, "none", FALSE, 1, FALSE)
<1>1. proc \in [Procs -> Openers]
  BY DEF TypeOK, Openers
<1>2. proc' \in [Procs -> Openers] /\ Alone(p) /\ proc'[p] = Closed
  BY <1>1, ClosedTyped DEF Fail, Alone
<1>. QED  BY <1>2 DEF Becomes, Closed

\* A step that leaves p as a record r.
LEMMA RecordMoves ==
    ASSUME TypeOK, NEW p \in Procs, NEW r \in Openers,
           proc' = [proc EXCEPT ![p] = r]
    PROVE  Becomes(p, r.at, r.known, r.up, r.created, r.n, r.ftsEnabled)
<1>1. proc \in [Procs -> Openers]
  BY DEF TypeOK, Openers
<1>2. proc' \in [Procs -> Openers] /\ Alone(p) /\ proc'[p] = r
  BY <1>1 DEF Alone
<1>. QED  BY <1>2 DEF Becomes

\* The versions that p knows before it starts on v.
LEMMA NextKnown ==
    ASSUME NEW p, NEW v, NextMigration(p, v)
    PROVE  /\ v \in Versions /\ v \notin proc[p].known
           /\ v = "deleted_for_me" => "revoked" \in proc[p].known
           /\ v = "revoked" => "fts" \in proc[p].known
<1>1. PICK i \in 1 .. 5 :
         /\ v = Migrations[i] /\ v \notin proc[p].known
         /\ \A j \in 1 .. i - 1 : Migrations[j] \in proc[p].known
  BY SchemaNames DEF NextMigration
<1>2. i = 1 \/ i = 2 \/ i = 3 \/ i = 4 \/ i = 5
  BY <1>1
<1>3. ASSUME v = "deleted_for_me" PROVE "revoked" \in proc[p].known
  <2>1. i = 4
    BY <1>1, <1>2, <1>3, SchemaNames
  <2>2. 3 \in 1 .. i - 1
    BY <2>1
  <2>. QED  BY <1>1, <2>2, SchemaNames
<1>4. ASSUME v = "revoked" PROVE "fts" \in proc[p].known
  <2>1. i = 3
    BY <1>1, <1>2, <1>4, SchemaNames
  <2>2. 2 \in 1 .. i - 1
    BY <2>1
  <2>. QED  BY <1>1, <2>2, SchemaNames
<1>. QED  BY <1>1, <1>2, <1>3, <1>4, SchemaNames

\* What an opener that stays as it is keeps, while the store only gains.
LEMMA OpenerKept ==
    ASSUME NEW p \in Procs, Alone(p), NEW q \in Procs, q # p,
           OpenerInv(q), applied \subseteq applied', columns \subseteq columns'
    PROVE  OpenerInv(q)'
<1>1. proc'[q] = proc[q]
  BY DEF Alone
<1>. QED  BY <1>1 DEF OpenerInv, Fits

\* The others have the store open, or closed, while p opens it.
LEMMA OthersRest ==
    ASSUME AloneInv, ~overlapped, NEW p \in Procs, Opening(p)
    PROVE  \A q \in Procs : q # p => proc[q].at \in {"closed", "open"}
BY DEF AloneInv, Opening

\* A step of an open keeps AloneInv if p is as it says.
LEMMA AloneKept ==
    ASSUME AloneInv, NEW p \in Procs, Opening(p), Alone(p),
           overlapped' = overlapped,
           ~overlapped /\ Opening(p)' => proc'[p].known = applied',
           ~overlapped /\ At(p, "alter")' => Column(p)' \notin columns',
           ~overlapped /\ proc'[p].at \in UnreadStages =>
              \A q \in Procs : ~At(q, "open")
    PROVE  AloneInv'
<1> SUFFICES ASSUME ~overlapped PROVE AloneInv'
  BY DEF AloneInv
<1>1. \A q \in Procs : q # p =>
         proc'[q].at = proc[q].at /\ proc'[q].at \in {"closed", "open"}
  BY OthersRest DEF Alone
<1>2. \A q \in Procs : Opening(q)' => q = p
  BY <1>1 DEF Opening
<1>3. \A q \in Procs : proc'[q].at \in UnreadStages => q = p
  BY <1>1 DEF UnreadStages
<1>4. \A q \in Procs : At(q, "alter")' => q = p
  BY <1>1 DEF At
<1>5. \A q \in Procs : proc'[p].at \in UnreadStages => ~At(q, "open")'
  BY <1>1 DEF UnreadStages, At
<1>. QED  BY <1>2, <1>3, <1>4, <1>5 DEF AloneInv

\* A step that leaves the index alone keeps what is known of it.
LEMMA IndexKept ==
    ASSUME IndexInv, CompleteInv, NEW p \in Procs, Alone(p),
           UNCHANGED <<fts, triggers, indexed, rows, tomb, start>>,
           abandons' = 0 => abandons = 0,
           columns \subseteq columns', proc[p].at \notin WithIndex,
           ~overlapped' => ~overlapped,
           ~overlapped => FTSInv(p)',
           ~overlapped /\ "deleted_for_me" \in applied' => Kept
    PROVE  IndexInv' /\ CompleteInv'
<1> SUFFICES ASSUME ~overlapped PROVE IndexInv' /\ CompleteInv'
  BY DEF IndexInv, CompleteInv
<1>1. \A q \in Procs : FTSInv(q)'
  BY DEF IndexInv, FTSInv, Alone
<1>2. IndexInv'
  BY <1>1 DEF IndexInv, Kept, Visible
<1>3. Expected' => Expected
  BY DEF Expected
<1>4. \A q \in Procs : Filling(q) => Filling(q)'
  BY DEF Filling, Alone
<1>5. CompleteInv'
  BY <1>3, <1>4 DEF CompleteInv, Visible
<1>. QED  BY <1>2, <1>5

\* A step that leaves the chat alone keeps what is known of its count.
LEMMA CountKept ==
    ASSUME CountInv, NEW p \in Procs, Alone(p),
           UNCHANGED <<unread, count, start>>,
           ~overlapped' => ~overlapped, abandons' = 0 => abandons = 0,
           columns' \cap {"unread_count"} = columns \cap {"unread_count"},
           proc[p].at \notin UnreadStages, proc'[p].at \notin UnreadStages
    PROVE  CountInv'
<1> SUFFICES ASSUME ~overlapped, abandons = 0, abandons' = 0 PROVE CountInv'
  BY DEF CountInv
<1>1. \A q \in Procs : proc'[q].at \in UnreadStages =>
         q # p /\ proc'[q].at = proc[q].at
  BY DEF Alone
<1>2. \A q \in Procs : proc[q].at \in UnreadStages =>
         q # p /\ proc'[q].at = proc[q].at
  BY DEF Alone
<1>3. \A q \in Procs : At(q, "count")' => At(q, "count")
  BY <1>1 DEF At, UnreadStages
<1>4. \A q \in Procs : At(q, "mark")' => At(q, "mark")
  BY <1>1 DEF At, UnreadStages
<1>5. "unread_count" \in columns' => "unread_count" \in columns
  OBVIOUS
<1>6. "unread_count" \in columns => "unread_count" \in columns'
  OBVIOUS
<1>. QED  BY <1>1, <1>2, <1>3, <1>4, <1>5, <1>6 DEF CountInv

\* The stage that a migration starts with.
LEMMA StartMigrationStep ==
    ASSUME SchemaInv, NEW p \in Procs, StartMigration(p)
    PROVE  SchemaInv'
<1>0. PICK v \in Versions :
         /\ NextMigration(p, v)
         /\ proc' = [proc EXCEPT ![p].at = FirstStage(v), ![p].up = v]
  BY DEF StartMigration
<1>1. /\ Becomes(p, FirstStage(v), proc[p].known, v, proc[p].created,
                 proc[p].n, proc[p].ftsEnabled)
      /\ Opening(p)
  <2> DEFINE r == [proc[p] EXCEPT !.at = FirstStage(v), !.up = v]
  <2>1. proc \in [Procs -> Openers]
    BY DEF SchemaInv, TypeOK, Openers
  <2>2. FirstStage(v) \in Stages
    BY DEF FirstStage, Stages
  <2>3. /\ r \in Openers /\ r.at = FirstStage(v) /\ r.known = proc[p].known
        /\ r.up = v /\ r.created = proc[p].created /\ r.n = proc[p].n
        /\ r.ftsEnabled = proc[p].ftsEnabled
    BY <2>1, <2>2 DEF Openers
  <2>4. proc' = [proc EXCEPT ![p] = r]
    BY <1>0
  <2>. HIDE DEF r
  <2>5. Becomes(p, r.at, r.known, r.up, r.created, r.n, r.ftsEnabled)
    BY <2>3, <2>4, RecordMoves DEF SchemaInv
  <2>. QED  BY <2>3, <2>5 DEF Opening, StartMigration, At
<1>2. TypeOK'
  BY <1>1 DEF SchemaInv, TypeOK, Openers, Becomes, StartMigration, index,
     messages, chat, history
<1>3. FirstStage(v) = IF v = "core" THEN "create"
                      ELSE IF v = "fts" THEN "fts" ELSE "column"
  BY DEF FirstStage
<1>4. \A q \in Procs : OpenerInv(q)'
  <2>1. OpenerInv(p)'
    BY <1>0, <1>1, <1>3, NextKnown, SchemaNames DEF SchemaInv, OpenerInv, Fits,
       Becomes, StartMigration, At, FTSStages, WithIndex, FTSVersions,
       UnreadStages, Flags
  <2>. QED  BY <1>1, <2>1, OpenerKept DEF SchemaInv, Becomes, StartMigration
<1>5. StoreInv'
  BY DEF SchemaInv, StoreInv, StartMigration, index, messages, chat, history
<1>6. AloneInv'
  BY <1>1, <1>3, AloneKept DEF SchemaInv, AloneInv, Becomes, StartMigration,
     history, At, Opening, UnreadStages
<1>7. IndexInv' /\ CompleteInv'
  <2>1. ~overlapped => FTSInv(p)'
    BY <1>1, <1>3 DEF SchemaInv, IndexInv, FTSInv, Becomes, StartMigration,
       WithIndex, index
  <2>2. ~overlapped /\ "deleted_for_me" \in applied' => Kept
    BY DEF SchemaInv, IndexInv, StartMigration
  <2>. QED  BY <1>1, <2>1, <2>2, IndexKept DEF SchemaInv, Becomes,
            StartMigration, At, WithIndex, index, messages, history
<1>8. CountInv'
  BY <1>1, <1>3, CountKept DEF SchemaInv, Becomes, StartMigration, At,
     UnreadStages, chat, history
<1>. QED  BY <1>2, <1>4, <1>5, <1>6, <1>7, <1>8 DEF SchemaInv

\* A process that ends, or whose open fails, outside the steps that remake the
\* index or move the counts.
LEMMA ClosedStep ==
    ASSUME SchemaInv, NEW p \in Procs, Fail(p),
           proc[p].at \notin WithIndex \cup UnreadStages,
           UNCHANGED <<applied, columns, index, messages, chat, history>>
    PROVE  SchemaInv'
<1>1. Becomes(p, "closed", {}, "none", FALSE, 1, FALSE)
  BY FailMoves DEF SchemaInv
<1>2. TypeOK'
  BY <1>1 DEF SchemaInv, TypeOK, Openers, Becomes, index, messages, chat,
     history
<1>3. \A q \in Procs : OpenerInv(q)'
  <2>1. OpenerInv(p)'
    BY <1>1 DEF OpenerInv, Fits, Becomes, FTSStages, WithIndex, UnreadStages
  <2>. QED  BY <1>1, <2>1, OpenerKept DEF SchemaInv, Becomes
<1>4. StoreInv'
  BY DEF SchemaInv, StoreInv, index, messages, chat, history
<1>5. AloneInv'
  <2>1. \A q \in Procs : q # p => proc'[q] = proc[q]
    BY <1>1 DEF Becomes, Alone
  <2>2. ~Opening(p)' /\ ~At(p, "alter")' /\ ~At(p, "open")'
    BY <1>1 DEF Becomes, Opening, At
  <2>3. proc'[p].at \notin UnreadStages
    BY <1>1 DEF Becomes, UnreadStages
  <2>. QED  BY <2>1, <2>2, <2>3 DEF SchemaInv, AloneInv, Opening, At, Column,
            history
<1>6. IndexInv' /\ CompleteInv'
  <2>1. FTSInv(p)'
    BY <1>1 DEF FTSInv, Becomes, WithIndex
  <2>2. ~overlapped /\ "deleted_for_me" \in applied' => Kept
    BY DEF SchemaInv, IndexInv
  <2>. QED  BY <1>1, <2>1, <2>2, IndexKept DEF SchemaInv, Becomes, index,
            messages, history
<1>7. CountInv'
  BY <1>1, CountKept DEF SchemaInv, Becomes, UnreadStages, chat, history
<1>. QED  BY <1>2, <1>3, <1>4, <1>5, <1>6, <1>7 DEF SchemaInv

\* What a process that starts to open knows is what is applied; if none was at
\* it, no race has begun.
LEMMA OpenStep ==
    ASSUME SchemaInv, NEW p \in Procs, Open(p)
    PROVE  SchemaInv'
<1>1. Becomes(p, "next", applied, "none", FALSE, 1, FALSE)
  <2> DEFINE r == [Closed EXCEPT !.at = "next", !.known = applied]
  <2>1. /\ r \in Openers /\ r.at = "next" /\ r.known = applied
        /\ r.up = "none" /\ r.created = FALSE /\ r.n = 1
        /\ r.ftsEnabled = FALSE
    BY ClosedTyped DEF SchemaInv, TypeOK, Openers, Closed, Stages
  <2>2. proc' = [proc EXCEPT ![p] = r]
    BY DEF Open
  <2>. HIDE DEF r
  <2>3. Becomes(p, r.at, r.known, r.up, r.created, r.n, r.ftsEnabled)
    BY <2>1, <2>2, RecordMoves DEF SchemaInv
  <2>. QED  BY <2>1, <2>3
<1>2. TypeOK'
  BY <1>1 DEF SchemaInv, TypeOK, Openers, Becomes, Open, index, messages, chat
<1>3. \A q \in Procs : OpenerInv(q)'
  <2>1. OpenerInv(p)'
    BY <1>1 DEF OpenerInv, Fits, Becomes, Open, FTSStages, WithIndex,
       UnreadStages
  <2>. QED  BY <1>1, <2>1, OpenerKept DEF SchemaInv, Becomes, Open
<1>4. StoreInv'
  BY DEF SchemaInv, StoreInv, Open, index, messages, chat
<1>5. ASSUME ~overlapped'
      PROVE  ~overlapped /\ \A q \in Procs : ~Opening(q)
  BY <1>5 DEF Open, SchemaInv, TypeOK
<1>6. AloneInv'
  <2>1. ASSUME ~overlapped', NEW q \in Procs, q # p
        PROVE  ~Opening(q)' /\ proc'[q].at \in {"closed", "open"}
    BY <1>1, <1>5, <2>1 DEF Becomes, Alone, Opening
  <2>2. ~At(p, "alter")' /\ proc'[p].known = applied'
    BY <1>1 DEF Becomes, At, Open
  <2>3. \A q \in Procs : ~overlapped' =>
           proc'[q].at \notin UnreadStages /\ ~At(q, "alter")'
    BY <1>1, <2>1 DEF Becomes, At, UnreadStages
  <2>. QED  BY <2>1, <2>2, <2>3 DEF AloneInv
<1>7. IndexInv' /\ CompleteInv'
  <2>1. FTSInv(p)'
    BY <1>1 DEF FTSInv, Becomes, WithIndex
  <2>2. ~overlapped /\ "deleted_for_me" \in applied' => Kept
    BY DEF SchemaInv, IndexInv, Open
  <2>3. /\ UNCHANGED <<fts, triggers, indexed, rows, tomb, start, abandons>>
        /\ columns \subseteq columns' /\ proc[p].at \notin WithIndex
    BY DEF Open, index, messages, At, WithIndex
  <2>. QED  BY <1>1, <1>5, <2>1, <2>2, <2>3, IndexKept DEF SchemaInv, Becomes
<1>8. CountInv'
  BY <1>1, <1>5, CountKept DEF SchemaInv, Becomes, Open, At, UnreadStages, chat
<1>. QED  BY <1>2, <1>3, <1>4, <1>6, <1>7, <1>8 DEF SchemaInv

\* A store without tables has no chat whose count would have to move.
LEMMA MigrateCoreSchemaStep ==
    ASSUME SchemaInv, NEW p \in Procs, MigrateCoreSchema(p)
    PROVE  SchemaInv'
<1>1. /\ Becomes(p, "record", proc[p].known, proc[p].up, proc[p].created,
                 proc[p].n, proc[p].ftsEnabled)
      /\ Opening(p) /\ proc[p].at = "create"
  BY GoMoves DEF SchemaInv, MigrateCoreSchema, Stages, Opening, At
<1>2. /\ columns \subseteq columns' /\ columns' \subseteq Columns
      /\ start.tables => columns' = columns
  BY DEF SchemaInv, TypeOK, MigrateCoreSchema
<1>3. TypeOK'
  BY <1>1, <1>2 DEF SchemaInv, TypeOK, Openers, Becomes, MigrateCoreSchema,
     index, messages, chat, history
<1>4. OpenerInv(p)' /\ proc[p].up = "core"
  BY <1>1, <1>2, SchemaNames DEF SchemaInv, OpenerInv, Fits, Becomes,
     MigrateCoreSchema, FTSStages, WithIndex, UnreadStages
<1>5. \A q \in Procs : OpenerInv(q)'
  BY <1>1, <1>2, <1>4, OpenerKept DEF SchemaInv, Becomes, MigrateCoreSchema
<1>6. StoreInv'
  BY <1>2 DEF SchemaInv, StoreInv, MigrateCoreSchema, index, messages, chat,
     history
<1>7. AloneInv'
  BY <1>1, AloneKept DEF SchemaInv, AloneInv, Becomes, MigrateCoreSchema,
     history, At, Opening, UnreadStages
<1>8. IndexInv' /\ CompleteInv'
  <2>1. ~overlapped => FTSInv(p)'
    BY <1>1, <1>4 DEF SchemaInv, IndexInv, FTSInv, Becomes, FTSVersions,
       MigrateCoreSchema, WithIndex, index
  <2>2. ~overlapped /\ "deleted_for_me" \in applied' => Kept
    BY DEF SchemaInv, IndexInv, MigrateCoreSchema
  <2>. QED  BY <1>1, <1>2, <2>1, <2>2, IndexKept DEF SchemaInv, Becomes,
            MigrateCoreSchema, WithIndex, index, messages, history
<1>9. CountInv'
  <2>1. CASE start.tables
    BY <1>1, <1>2, <2>1, CountKept DEF SchemaInv, Becomes, MigrateCoreSchema,
       UnreadStages, chat, history
  <2>2. CASE ~start.tables
    <3>1. start.unread = 0
      BY <2>2, StoresAssumption DEF SchemaInv, TypeOK, Complete
    <3>2. SUFFICES ASSUME ~overlapped, abandons = 0 PROVE CountInv'
      BY DEF CountInv, MigrateCoreSchema, history
    <3>3. \A q \in Procs : proc[q].at \notin UnreadStages
      BY <1>1, <3>2, OthersRest DEF SchemaInv, UnreadStages
    <3>4. \A q \in Procs : proc'[q].at \notin UnreadStages
      BY <1>1, <3>3 DEF Becomes, Alone, UnreadStages
    <3>5. count = 0 /\ unread \in {0, 1}
          /\ ("unread_count" \notin columns => unread = start.unread)
      BY <3>1, <3>2, <3>3 DEF SchemaInv, CountInv
    <3>6. "unread_count" \notin columns' =>
             "unread_count" \notin columns
      BY <1>2
    <3>. QED  BY <3>1, <3>4, <3>5, <3>6 DEF CountInv, MigrateCoreSchema, chat,
              history, At, UnreadStages
  <2>. QED  BY <2>1, <2>2
<1>. QED  BY <1>3, <1>5, <1>6, <1>7, <1>8, <1>9 DEF SchemaInv

\* A column that is not there yet will be added.
LEMMA CheckColumnStep ==
    ASSUME SchemaInv, NEW p \in Procs, CheckColumn(p)
    PROVE  SchemaInv'
<1> DEFINE s == ColumnStage(p)
<1>1. /\ s \in {"alter", "fts", "detect", "record"}
      /\ s = "alter" => Column(p) \notin columns
      /\ s # "alter" => Column(p) \in columns
      /\ s = "fts" => proc[p].up \in Flags
      /\ s = "detect" => proc[p].up = "ensured"
      /\ s = "record" => proc[p].up \notin Flags \cup {"ensured"}
  BY DEF ColumnStage, AfterColumn, Flags
<1>. HIDE DEF s
<1>2. /\ Becomes(p, s, proc[p].known, proc[p].up, proc[p].created,
                 proc[p].n, proc[p].ftsEnabled)
      /\ Opening(p) /\ proc[p].at = "column"
  <2>1. s \in Stages /\ Go(p, s)
    BY <1>1 DEF CheckColumn, Stages, s
  <2>. QED  BY <2>1, GoMoves DEF SchemaInv, CheckColumn, Opening, At
<1>3. TypeOK'
  BY <1>2 DEF SchemaInv, TypeOK, Openers, Becomes, CheckColumn, index,
     messages, chat, history
<1>4. /\ proc[p].up \in Flags \cup {"unread_count", "ensured"}
      /\ Column(p) = IF proc[p].up \in Flags THEN proc[p].up
                     ELSE "unread_count"
  BY <1>2 DEF SchemaInv, OpenerInv, Fits, Column
<1>5. \A q \in Procs : OpenerInv(q)'
  <2>1. OpenerInv(p)'
    BY <1>1, <1>2, <1>4, SchemaNames DEF SchemaInv, OpenerInv, Fits, Becomes,
       CheckColumn, FTSStages, WithIndex, FTSVersions, UnreadStages, Flags
  <2>. QED  BY <1>2, <2>1, OpenerKept DEF SchemaInv, Becomes, CheckColumn
<1>6. StoreInv'
  BY DEF SchemaInv, StoreInv, CheckColumn, index, messages, chat, history
<1>7. AloneInv'
  <2>1. Column(p)' = Column(p)
    BY <1>2 DEF Becomes, Column
  <2>. QED  BY <1>1, <1>2, <2>1, AloneKept DEF SchemaInv, AloneInv, Becomes,
            CheckColumn, history, At, UnreadStages
<1>8. IndexInv' /\ CompleteInv'
  <2>1. ~overlapped => FTSInv(p)'
    BY <1>1, <1>2, <1>4 DEF SchemaInv, IndexInv, FTSInv, Becomes, CheckColumn,
       WithIndex, FTSVersions, Flags, index
  <2>2. ~overlapped /\ "deleted_for_me" \in applied' => Kept
    BY DEF SchemaInv, IndexInv, CheckColumn
  <2>. QED  BY <1>2, <2>1, <2>2, IndexKept DEF SchemaInv, Becomes,
            CheckColumn, WithIndex, index, messages, history
<1>9. CountInv'
  BY <1>1, <1>2, CountKept DEF SchemaInv, Becomes, CheckColumn, UnreadStages,
     chat, history
<1>. QED  BY <1>3, <1>5, <1>6, <1>7, <1>8, <1>9 DEF SchemaInv

\* The column is added, unless another process was faster.
LEMMA AddColumnStep ==
    ASSUME SchemaInv, NEW p \in Procs, AddColumn(p)
    PROVE  SchemaInv'
<1> DEFINE s == IF proc[p].up \in Flags THEN "fts" ELSE "count"
<1>1. /\ s \in {"fts", "count"}
      /\ s = "fts" => proc[p].up \in Flags
      /\ s = "count" => proc[p].up \notin Flags
  OBVIOUS
<1>2. proc[p].at = "alter" /\ Opening(p)
  BY DEF AddColumn, At, Opening
<1>3. CASE Column(p) \in columns
  BY <1>2, <1>3, ClosedStep DEF AddColumn, WithIndex, UnreadStages
<1>4. CASE Column(p) \notin columns
  <2>1. /\ columns' = columns \cup {Column(p)} /\ Go(p, s)
        /\ UNCHANGED <<applied, index, messages, chat, history>>
    BY <1>4 DEF AddColumn
  <2>. HIDE DEF s
  <2>2. Becomes(p, s, proc[p].known, proc[p].up, proc[p].created,
                proc[p].n, proc[p].ftsEnabled)
    <3>1. s \in Stages
      BY <1>1 DEF Stages
    <3>. QED  BY <2>1, <3>1, GoMoves DEF SchemaInv
  <2>3. /\ proc[p].up \in Flags \cup {"unread_count", "ensured"}
        /\ Column(p) = IF proc[p].up \in Flags THEN proc[p].up
                       ELSE "unread_count"
        /\ Column(p) \in Columns
    BY <1>2 DEF SchemaInv, OpenerInv, Fits, Column, Columns
  <2>4. TypeOK'
    BY <2>1, <2>2, <2>3 DEF SchemaInv, TypeOK, Openers, Becomes, index,
       messages, chat, history
  <2>5. \A q \in Procs : OpenerInv(q)'
    <3>1. OpenerInv(p)'
      BY <1>1, <1>2, <2>1, <2>2, <2>3 DEF SchemaInv, OpenerInv, Fits, Becomes,
         FTSStages, WithIndex, FTSVersions, UnreadStages, Flags
    <3>. QED  BY <2>1, <2>2, <3>1, OpenerKept DEF SchemaInv, Becomes
  <2>6. StoreInv'
    BY <2>1 DEF SchemaInv, StoreInv, index, messages, chat, history
  <2>7. ~overlapped /\ s = "count" => \A q \in Procs : ~At(q, "open")
    <3>1. \A q \in Procs : At(q, "open") => "unread_count" \in columns
      BY DEF SchemaInv, OpenerInv, At
    <3>. QED  BY <1>1, <1>4, <2>3, <3>1
  <2>8. AloneInv'
    <3>1. ~overlapped /\ Opening(p)' => proc'[p].known = applied'
      BY <1>2, <2>1, <2>2 DEF SchemaInv, AloneInv, Becomes
    <3>2. ~At(p, "alter")'
      BY <1>1, <2>2 DEF Becomes, At
    <3>3. ~overlapped /\ proc'[p].at \in UnreadStages =>
             \A q \in Procs : ~At(q, "open")
      BY <1>1, <2>2, <2>7 DEF Becomes, UnreadStages
    <3>. QED  BY <1>2, <2>1, <2>2, <3>1, <3>2, <3>3, AloneKept
              DEF SchemaInv, Becomes, history
  <2>9. IndexInv' /\ CompleteInv'
    <3>1. ~overlapped => FTSInv(p)'
      BY <1>1, <2>1, <2>2 DEF SchemaInv, IndexInv, FTSInv, Becomes, WithIndex,
         index
    <3>2. ~overlapped /\ "deleted_for_me" \in applied' => Kept
      BY <2>1 DEF SchemaInv, IndexInv
    <3>. QED  BY <1>2, <2>1, <2>2, <3>1, <3>2, IndexKept DEF SchemaInv,
              Becomes, WithIndex, index, messages, history
  <2>10. CountInv'
    <3>1. CASE s = "fts"
      <4>1. columns' \cap {"unread_count"} = columns \cap {"unread_count"}
        BY <1>1, <2>1, <2>3, <3>1 DEF Flags
      <4>. QED  BY <1>2, <2>1, <2>2, <3>1, <4>1, CountKept DEF SchemaInv,
                Becomes, UnreadStages, chat, history
    <3>2. CASE s = "count"
      <4>1. SUFFICES ASSUME ~overlapped, abandons = 0 PROVE CountInv'
        BY <2>1 DEF CountInv, history
      <4>2. count = 0 /\ unread = start.unread
        BY <1>1, <1>4, <2>3, <3>2, <4>1 DEF SchemaInv, CountInv
      <4>3. \A q \in Procs : ~At(q, "mark")'
        BY <1>2, <2>2, <3>2, <4>1, OthersRest DEF SchemaInv, Becomes, Alone,
           At
      <4>4. "unread_count" \in columns' /\ proc'[p].at \in UnreadStages
        BY <1>1, <2>1, <2>2, <2>3, <3>2 DEF Becomes, UnreadStages
      <4>. QED  BY <2>1, <4>2, <4>3, <4>4 DEF CountInv, chat, history
    <3>. QED  BY <1>1, <3>1, <3>2
  <2>. QED  BY <2>4, <2>5, <2>6, <2>8, <2>9, <2>10 DEF SchemaInv
<1>. QED  BY <1>3, <1>4

\* The count is moved to its column, and the marker is what is left.
LEMMA MigrateUnreadCountStep ==
    ASSUME SchemaInv, NEW p \in Procs, MigrateUnreadCount(p)
    PROVE  SchemaInv'
<1>1. /\ Becomes(p, "mark", proc[p].known, proc[p].up, proc[p].created,
                 proc[p].n, proc[p].ftsEnabled)
      /\ Opening(p) /\ proc[p].at = "count"
  BY GoMoves DEF SchemaInv, MigrateUnreadCount, Stages, Opening, At
<1>2. TypeOK'
  BY <1>1 DEF SchemaInv, TypeOK, Openers, Becomes, MigrateUnreadCount,
     CountUnread, index, messages, history
<1>3. \A q \in Procs : OpenerInv(q)'
  <2>1. OpenerInv(p)'
    BY <1>1 DEF SchemaInv, OpenerInv, Fits, Becomes, MigrateUnreadCount,
       FTSStages, WithIndex, UnreadStages
  <2>. QED  BY <1>1, <2>1, OpenerKept DEF SchemaInv, Becomes,
            MigrateUnreadCount
<1>4. StoreInv'
  BY DEF SchemaInv, StoreInv, MigrateUnreadCount, index, messages, history
<1>5. AloneInv'
  <2>1. ~overlapped => \A q \in Procs : ~At(q, "open")
    BY <1>1 DEF SchemaInv, AloneInv, UnreadStages
  <2>. QED  BY <1>1, <2>1, AloneKept DEF SchemaInv, AloneInv, Becomes,
            MigrateUnreadCount, history, At
<1>6. IndexInv' /\ CompleteInv'
  <2>1. ~overlapped => FTSInv(p)'
    BY <1>1 DEF SchemaInv, IndexInv, FTSInv, Becomes, MigrateUnreadCount,
       WithIndex, index
  <2>2. ~overlapped /\ "deleted_for_me" \in applied' => Kept
    BY DEF SchemaInv, IndexInv, MigrateUnreadCount
  <2>. QED  BY <1>1, <2>1, <2>2, IndexKept DEF SchemaInv, Becomes,
            MigrateUnreadCount, WithIndex, index, messages, history
<1>7. CountInv'
  <2>1. SUFFICES ASSUME ~overlapped, abandons = 0 PROVE CountInv'
    BY DEF CountInv, MigrateUnreadCount, history
  <2>2. unread = start.unread /\ "unread_count" \in columns
    BY <1>1, <2>1 DEF SchemaInv, CountInv, OpenerInv, At, UnreadStages
  <2>3. count' = IF start.unread > 0 THEN start.unread ELSE 0
    BY <2>2 DEF MigrateUnreadCount, CountUnread
  <2>4. /\ \A q \in Procs : ~At(q, "count")'
        /\ proc'[p].at \in UnreadStages
    BY <1>1, <2>1, OthersRest DEF SchemaInv, Becomes, Alone, At, UnreadStages
  <2>. QED  BY <2>2, <2>3, <2>4 DEF CountInv, MigrateUnreadCount, history
<1>. QED  BY <1>2, <1>3, <1>4, <1>5, <1>6, <1>7 DEF SchemaInv

\* A marker is left where there was a count or a marker.
LEMMA MigrateUnreadMarkerStep ==
    ASSUME SchemaInv, NEW p \in Procs, MigrateUnreadMarker(p)
    PROVE  SchemaInv'
<1> DEFINE s == IF proc[p].up = "ensured" THEN "detect" ELSE "record"
<1>1. /\ s \in {"detect", "record"}
      /\ s = "detect" => proc[p].up = "ensured"
      /\ s = "record" => proc[p].up # "ensured"
  OBVIOUS
<1>2. Go(p, s)
  BY DEF MigrateUnreadMarker
<1>. HIDE DEF s
<1>3. /\ Becomes(p, s, proc[p].known, proc[p].up, proc[p].created,
                 proc[p].n, proc[p].ftsEnabled)
      /\ Opening(p) /\ proc[p].at = "mark"
  <2>1. s \in Stages
    BY <1>1 DEF Stages
  <2>. QED  BY <1>2, <2>1, GoMoves DEF SchemaInv, MigrateUnreadMarker,
            Opening, At
<1>4. Marker \in {0, 1} /\ (unread # 0 => Marker # 0)
  BY DEF Marker
<1>5. TypeOK'
  BY <1>3, <1>4 DEF SchemaInv, TypeOK, Openers, Becomes, MigrateUnreadMarker,
     index, messages, history
<1>6. proc[p].up \in {"unread_count", "ensured"}
  BY <1>3 DEF SchemaInv, OpenerInv, Fits, UnreadStages
<1>7. \A q \in Procs : OpenerInv(q)'
  <2>1. OpenerInv(p)'
    BY <1>1, <1>3, <1>6, SchemaNames DEF SchemaInv, OpenerInv, Fits, Becomes,
       MigrateUnreadMarker, FTSStages, WithIndex, UnreadStages
  <2>. QED  BY <1>3, <2>1, OpenerKept DEF SchemaInv, Becomes,
            MigrateUnreadMarker
<1>8. StoreInv'
  BY <1>4 DEF SchemaInv, StoreInv, MigrateUnreadMarker, index, messages,
     history
<1>9. AloneInv'
  BY <1>1, <1>3, AloneKept DEF SchemaInv, AloneInv, Becomes,
     MigrateUnreadMarker, history, At, UnreadStages
<1>10. IndexInv' /\ CompleteInv'
  <2>1. ~overlapped => FTSInv(p)'
    BY <1>1, <1>3, <1>6 DEF SchemaInv, IndexInv, FTSInv, Becomes, FTSVersions,
       MigrateUnreadMarker, WithIndex, index
  <2>2. ~overlapped /\ "deleted_for_me" \in applied' => Kept
    BY DEF SchemaInv, IndexInv, MigrateUnreadMarker
  <2>. QED  BY <1>3, <2>1, <2>2, IndexKept DEF SchemaInv, Becomes,
            MigrateUnreadMarker, WithIndex, index, messages, history
<1>11. CountInv'
  <2>1. SUFFICES ASSUME ~overlapped, abandons = 0 PROVE CountInv'
    BY DEF CountInv, MigrateUnreadMarker, history
  <2>2. /\ count = IF start.unread > 0 THEN start.unread ELSE 0
        /\ "unread_count" \in columns
    BY <1>3, <2>1 DEF SchemaInv, CountInv, OpenerInv, At, UnreadStages
  <2>3. \A q \in Procs : ~At(q, "count")' /\ ~At(q, "mark")'
    BY <1>1, <1>3, <2>1, OthersRest DEF SchemaInv, Becomes, Alone, At
  <2>. QED  BY <1>4, <2>2, <2>3 DEF CountInv, MigrateUnreadMarker, history
<1>. QED  BY <1>5, <1>7, <1>8, <1>9, <1>10, <1>11 DEF SchemaInv

\* The version joins those that are applied, in their order; once all of the
\* index are, the triggers are there.
LEMMA RecordStep ==
    ASSUME SchemaInv, NEW p \in Procs, Record(p)
    PROVE  SchemaInv'
<1>0. /\ proc[p].at = "record" /\ Opening(p) /\ proc[p].up \in Versions
      /\ proc \in [Procs -> Openers]
  BY DEF SchemaInv, TypeOK, Openers, OpenerInv, Fits, Record, At, Opening
<1>1. CASE proc[p].up \in applied
  BY <1>0, <1>1, ClosedStep DEF Record, WithIndex, UnreadStages
<1>2. CASE proc[p].up \notin applied
  <2>1. Becomes(p, "next", proc[p].known \cup {proc[p].up}, proc[p].up,
                proc[p].created, proc[p].n, proc[p].ftsEnabled)
    <3> DEFINE r == [proc[p] EXCEPT !.at = "next",
                                    !.known = @ \cup {proc[p].up}]
    <3>1. /\ r \in Openers /\ r.at = "next"
          /\ r.known = proc[p].known \cup {proc[p].up}
          /\ r.up = proc[p].up /\ r.created = proc[p].created
          /\ r.n = proc[p].n /\ r.ftsEnabled = proc[p].ftsEnabled
      BY <1>0 DEF Openers, Stages
    <3>2. proc' = [proc EXCEPT ![p] = r]
      BY <1>2 DEF Record
    <3>. HIDE DEF r
    <3>3. Becomes(p, r.at, r.known, r.up, r.created, r.n, r.ftsEnabled)
      BY <3>1, <3>2, RecordMoves DEF SchemaInv
    <3>. QED  BY <3>1, <3>3
  <2>2. /\ applied' = applied \cup {proc[p].up}
        /\ UNCHANGED <<columns, index, messages, chat, history>>
    BY <1>2 DEF Record
  <2>3. /\ proc[p].known \subseteq applied
        /\ proc[p].up = "deleted_for_me" => "revoked" \in proc[p].known
        /\ proc[p].up = "revoked" => "fts" \in proc[p].known
    BY <1>0, SchemaNames DEF SchemaInv, OpenerInv
  <2>4. TypeOK'
    BY <1>0, <2>1, <2>2 DEF SchemaInv, TypeOK, Openers, Becomes, index,
       messages, chat, history
  <2>5. \A q \in Procs : OpenerInv(q)'
    <3>1. OpenerInv(p)'
      BY <1>0, <2>1, <2>2, <2>3, SchemaNames DEF OpenerInv, Fits, Becomes,
         FTSStages, WithIndex, UnreadStages
    <3>. QED  BY <2>1, <2>2, <3>1, OpenerKept DEF SchemaInv, Becomes
  <2>6. StoreInv'
    BY <2>2, <2>3 DEF SchemaInv, StoreInv, Ordered, index, messages, chat,
       history
  <2>7. AloneInv'
    BY <1>0, <2>1, <2>2, AloneKept DEF SchemaInv, AloneInv, Becomes, history,
       At, UnreadStages
  <2>8. IndexInv' /\ CompleteInv'
    <3>1. ~overlapped => FTSInv(p)'
      BY <2>1, <2>2 DEF SchemaInv, IndexInv, FTSInv, Becomes, WithIndex, index
    <3>2. ~overlapped /\ "deleted_for_me" \in applied' => Kept
      BY <1>0, <2>2 DEF SchemaInv, IndexInv, FTSInv, FTSVersions, Kept
    <3>. QED  BY <1>0, <2>1, <2>2, <3>1, <3>2, IndexKept DEF SchemaInv,
              Becomes, WithIndex, index, messages, history
  <2>9. CountInv'
    BY <1>0, <2>1, <2>2, CountKept DEF SchemaInv, Becomes, UnreadStages, chat,
       history
  <2>. QED  BY <2>4, <2>5, <2>6, <2>7, <2>8, <2>9 DEF SchemaInv
<1>. QED  BY <1>1, <1>2

\* With all versions known, unread_count is looked at once more.
LEMMA EnsureCurrentSchemaStep ==
    ASSUME SchemaInv, NEW p \in Procs, EnsureCurrentSchema(p)
    PROVE  SchemaInv'
<1>1. /\ Becomes(p, "column", proc[p].known, "ensured", proc[p].created,
                 proc[p].n, proc[p].ftsEnabled)
      /\ Opening(p) /\ proc[p].at = "next"
  <2> DEFINE r == [proc[p] EXCEPT !.at = "column", !.up = "ensured"]
  <2>1. proc \in [Procs -> Openers]
    BY DEF SchemaInv, TypeOK, Openers
  <2>2. /\ r \in Openers /\ r.at = "column" /\ r.known = proc[p].known
        /\ r.up = "ensured" /\ r.created = proc[p].created
        /\ r.n = proc[p].n /\ r.ftsEnabled = proc[p].ftsEnabled
    BY <2>1 DEF Openers, Stages
  <2>3. proc' = [proc EXCEPT ![p] = r]
    BY DEF EnsureCurrentSchema
  <2>. HIDE DEF r
  <2>4. Becomes(p, r.at, r.known, r.up, r.created, r.n, r.ftsEnabled)
    BY <2>2, <2>3, RecordMoves DEF SchemaInv
  <2>. QED  BY <2>2, <2>4 DEF Opening, EnsureCurrentSchema, At
<1>2. TypeOK'
  BY <1>1 DEF SchemaInv, TypeOK, Openers, Becomes, EnsureCurrentSchema, index,
     messages, chat, history
<1>3. \A q \in Procs : OpenerInv(q)'
  <2>1. OpenerInv(p)'
    BY <1>1 DEF SchemaInv, OpenerInv, Fits, Becomes, EnsureCurrentSchema,
       FTSStages, WithIndex, UnreadStages
  <2>. QED  BY <1>1, <2>1, OpenerKept DEF SchemaInv, Becomes,
            EnsureCurrentSchema
<1>4. StoreInv'
  BY DEF SchemaInv, StoreInv, EnsureCurrentSchema, index, messages, chat,
     history
<1>5. AloneInv'
  BY <1>1, AloneKept DEF SchemaInv, AloneInv, Becomes, EnsureCurrentSchema,
     history, At, UnreadStages
<1>6. IndexInv' /\ CompleteInv'
  <2>1. ~overlapped => FTSInv(p)'
    BY <1>1 DEF SchemaInv, IndexInv, FTSInv, Becomes, EnsureCurrentSchema,
       WithIndex, index
  <2>2. ~overlapped /\ "deleted_for_me" \in applied' => Kept
    BY DEF SchemaInv, IndexInv, EnsureCurrentSchema
  <2>. QED  BY <1>1, <2>1, <2>2, IndexKept DEF SchemaInv, Becomes,
            EnsureCurrentSchema, WithIndex, index, messages, history
<1>7. CountInv'
  BY <1>1, CountKept DEF SchemaInv, Becomes, EnsureCurrentSchema,
     UnreadStages, chat, history
<1>. QED  BY <1>2, <1>3, <1>4, <1>5, <1>6, <1>7 DEF SchemaInv

\* The store is open; search uses the index if it is there.
LEMMA DetectStep ==
    ASSUME SchemaInv, NEW p \in Procs, Detect(p)
    PROVE  SchemaInv'
<1> DEFINE e == proc[p].ftsEnabled \/ fts = "current"
<1>1. /\ Becomes(p, "open", proc[p].known, proc[p].up, proc[p].created,
                 proc[p].n, e)
      /\ Opening(p) /\ proc[p].at = "detect"
  <2> DEFINE r == [proc[p] EXCEPT !.at = "open", !.ftsEnabled = e]
  <2>1. proc \in [Procs -> Openers]
    BY DEF SchemaInv, TypeOK, Openers
  <2>2. /\ r \in Openers /\ r.at = "open" /\ r.known = proc[p].known
        /\ r.up = proc[p].up /\ r.created = proc[p].created
        /\ r.n = proc[p].n
    BY <2>1 DEF Openers, Stages
  <2>3. r.ftsEnabled = e
    BY <2>1 DEF Openers
  <2>4. proc' = [proc EXCEPT ![p] = r]
    BY DEF Detect
  <2>. HIDE DEF r
  <2>5. Becomes(p, r.at, r.known, r.up, r.created, r.n, r.ftsEnabled)
    BY <2>2, <2>4, RecordMoves DEF SchemaInv
  <2>. QED  BY <2>2, <2>3, <2>5 DEF Opening, Detect, At
<1>2. TypeOK'
  BY <1>1 DEF SchemaInv, TypeOK, Openers, Becomes, Detect, index, messages,
     chat, history
<1>3. \A q \in Procs : OpenerInv(q)'
  <2>1. OpenerInv(p)'
    BY <1>1 DEF SchemaInv, OpenerInv, Fits, Becomes, Detect, FTSStages,
       WithIndex, UnreadStages
  <2>. QED  BY <1>1, <2>1, OpenerKept DEF SchemaInv, Becomes, Detect
<1>4. StoreInv'
  BY DEF SchemaInv, StoreInv, Detect, index, messages, chat, history
<1>5. AloneInv'
  BY <1>1, AloneKept DEF SchemaInv, AloneInv, Becomes, Detect, history, At,
     Opening, UnreadStages
<1>6. IndexInv' /\ CompleteInv'
  <2>1. ~overlapped => FTSInv(p)'
    BY <1>1 DEF SchemaInv, IndexInv, FTSInv, Becomes, Detect, WithIndex, index
  <2>2. ~overlapped /\ "deleted_for_me" \in applied' => Kept
    BY DEF SchemaInv, IndexInv, Detect
  <2>. QED  BY <1>1, <2>1, <2>2, IndexKept DEF SchemaInv, Becomes, Detect,
            WithIndex, index, messages, history
<1>7. CountInv'
  BY <1>1, CountKept DEF SchemaInv, Becomes, Detect, UnreadStages, chat,
     history
<1>. QED  BY <1>2, <1>3, <1>4, <1>5, <1>6, <1>7 DEF SchemaInv

\* While p remakes the index the versions of the index are not all applied,
\* nothing has been stored or hidden, and nobody else remakes it.
LEMMA Remaking ==
    ASSUME SchemaInv, ~overlapped, NEW p \in Procs, proc[p].at \in FTSStages
    PROVE  /\ "deleted_for_me" \notin applied
           /\ rows = start.rows /\ tomb = {}
           /\ \A q \in Procs : q # p => proc[q].at \in {"closed", "open"}
           /\ Expected /\ fts = "current" =>
                rows \subseteq indexed \/ Filling(p)
           /\ "revoked" \in start.columns => Flags \subseteq columns
<1>1. /\ Opening(p) /\ proc[p].at \notin {"closed", "next", "detect", "open"}
      /\ proc[p].up \in FTSVersions /\ proc[p].up # "ensured"
  BY DEF SchemaInv, OpenerInv, Fits, FTSStages, WithIndex, Opening, FTSVersions
<1>2. /\ proc[p].up \notin applied
      /\ proc[p].up \in Flags => proc[p].up \in columns
  BY <1>1 DEF SchemaInv, OpenerInv, AloneInv
<1>3. "deleted_for_me" \notin applied
  BY <1>1, <1>2 DEF SchemaInv, StoreInv, Ordered, FTSVersions
<1>4. rows = start.rows /\ tomb = {}
  BY <1>3, SchemaNames DEF SchemaInv, StoreInv
<1>5. \A q \in Procs : q # p => proc[q].at \in {"closed", "open"}
  BY <1>1, OthersRest DEF SchemaInv
<1>6. \A q \in Procs : Filling(q) => q = p
  BY <1>5 DEF Filling, WithIndex
<1>7. Expected /\ fts = "current" => rows \subseteq indexed \/ Filling(p)
  BY <1>4, <1>6 DEF SchemaInv, CompleteInv, Visible
<1>8. ASSUME "revoked" \in start.columns PROVE Flags \subseteq columns
  <2>1. "revoked" \in start.applied
    BY <1>8, StoresAssumption DEF SchemaInv, TypeOK, Complete, Flags
  <2>2. "revoked" \in applied /\ "fts" \in applied /\ "revoked" \in columns
    BY <1>8, <2>1 DEF SchemaInv, StoreInv, Ordered
  <2>3. proc[p].up = "deleted_for_me"
    BY <1>1, <1>2, <2>2 DEF FTSVersions
  <2>. QED  BY <1>2, <2>2, <2>3 DEF Flags
<1>. QED  BY <1>3, <1>4, <1>5, <1>7, <1>8

\* A step of migrateMessagesFTS keeps the invariant if p and the index are as
\* it says.
LEMMA FTSStepKept ==
    ASSUME SchemaInv, NEW p \in Procs, proc[p].at \in FTSStages,
           NEW s \in FTSStages \cup {"record"}, NEW c, NEW k, NEW e,
           Becomes(p, s, proc[p].known, proc[p].up, c, k, e), FTSStep,
           fts' \in {"none", "old", "current"}, triggers' \subseteq TriggerSet,
           indexed' \subseteq rows,
           ~overlapped /\ fts = "current" => fts' = "current",
           ~overlapped => FTSInv(p)',
           ~overlapped /\ fts' = "none" => indexed' = {},
           ~overlapped /\ start.fts = "current" =>
              fts' = "current" /\ rows \subseteq indexed',
           ~overlapped /\ Expected /\ fts' = "current" =>
              rows \subseteq indexed' \/ Filling(p)'
    PROVE  SchemaInv'
<1>1. /\ Opening(p) /\ proc[p].up \in FTSVersions
      /\ proc[p].at \notin {"closed", "next", "detect", "open"}
  BY DEF SchemaInv, OpenerInv, Fits, FTSStages, WithIndex, Opening
<1>2. /\ UNCHANGED <<applied, columns, rows, tomb, unread, count, start,
                     overlapped, abandons>>
      /\ UNCHANGED <<chat, history>>
  BY DEF FTSStep, messages, chat, history
<1>3. TypeOK'
  BY <1>2 DEF SchemaInv, TypeOK, Openers, Becomes
<1>4. \A q \in Procs : OpenerInv(q)'
  <2>1. OpenerInv(p)'
    BY <1>1, <1>2, SchemaNames DEF SchemaInv, OpenerInv, Fits, Becomes,
       FTSStages, WithIndex, FTSVersions, UnreadStages
  <2>. QED  BY <1>2, <2>1, OpenerKept DEF SchemaInv, Becomes
<1>5. StoreInv'
  BY <1>2 DEF SchemaInv, StoreInv
<1>6. AloneInv'
  <2>1. ~At(p, "alter")' /\ proc'[p].at \notin UnreadStages
    BY DEF Becomes, At, FTSStages, WithIndex, UnreadStages
  <2>2. ~overlapped => proc'[p].known = applied'
    BY <1>1, <1>2 DEF SchemaInv, AloneInv, Becomes
  <2>. QED  BY <1>1, <1>2, <2>1, <2>2, AloneKept DEF SchemaInv, Becomes
<1>7. IndexInv' /\ CompleteInv'
  <2>1. SUFFICES ASSUME ~overlapped PROVE IndexInv' /\ CompleteInv'
    BY <1>2 DEF IndexInv, CompleteInv
  <2>2. /\ "deleted_for_me" \notin applied' /\ tomb' = {}
        /\ \A q \in Procs : q # p => proc'[q] = proc[q]
                                     /\ proc[q].at \in {"closed", "open"}
    BY <1>2, <2>1, Remaking DEF Becomes, Alone
  <2>3. \A q \in Procs : FTSInv(q)'
    <3>1. \A q \in Procs : FTSInv(q)
      BY <2>1 DEF SchemaInv, IndexInv
    <3>. QED  BY <2>1, <2>2, <3>1 DEF FTSInv, WithIndex
  <2>4. IndexInv'
    BY <1>2, <2>1, <2>2, <2>3 DEF IndexInv, Visible
  <2>5. Expected' => Expected
    BY <1>2 DEF Expected
  <2>6. CompleteInv'
    BY <1>2, <2>1, <2>2, <2>5 DEF CompleteInv, Visible
  <2>. QED  BY <2>4, <2>6
<1>8. CountInv'
  <2>1. proc[p].at \notin UnreadStages /\ proc'[p].at \notin UnreadStages
    BY DEF Becomes, FTSStages, WithIndex, UnreadStages
  <2>. QED  BY <1>2, <2>1, CountKept DEF SchemaInv, Becomes
<1>. QED  BY <1>3, <1>4, <1>5, <1>6, <1>7, <1>8 DEF SchemaInv

\* A look at the index.
LEMMA CheckFTSStep ==
    ASSUME SchemaInv, NEW p \in Procs, CheckFTS(p)
    PROVE  SchemaInv'
<1> DEFINE s == CASE fts = "none" -> "createFTS"
                  [] fts = "old"  -> "dropFTS"
                  [] OTHER -> "dropTriggers"
<1>1. /\ s \in {"createFTS", "dropFTS", "dropTriggers"}
      /\ s = "createFTS" => fts = "none"
      /\ s = "dropFTS" => fts = "old"
      /\ s = "dropTriggers" => fts \notin {"none", "old"}
  OBVIOUS
<1>2. /\ proc' = [proc EXCEPT ![p].created = FALSE, ![p].n = 1, ![p].at = s]
      /\ proc[p].at = "fts" /\ UNCHANGED index /\ FTSStep
  BY DEF CheckFTS, At
<1>. HIDE DEF s
<1>3. Becomes(p, s, proc[p].known, proc[p].up, FALSE, 1, proc[p].ftsEnabled)
  <2> DEFINE r == [proc[p] EXCEPT !.created = FALSE, !.n = 1, !.at = s]
  <2>1. proc \in [Procs -> Openers] /\ 1 \in DOMAIN Triggers
    BY TriggerNames DEF SchemaInv, TypeOK, Openers
  <2>2. /\ r \in Openers /\ r.at = s /\ r.known = proc[p].known
        /\ r.up = proc[p].up /\ r.created = FALSE /\ r.n = 1
        /\ r.ftsEnabled = proc[p].ftsEnabled
    BY <1>1, <2>1 DEF Openers, Stages
  <2>3. proc' = [proc EXCEPT ![p] = r]
    BY <1>2
  <2>. HIDE DEF r
  <2>4. Becomes(p, r.at, r.known, r.up, r.created, r.n, r.ftsEnabled)
    BY <2>2, <2>3, RecordMoves DEF SchemaInv
  <2>. QED  BY <2>2, <2>4
<1>4. /\ proc[p].at \in FTSStages /\ proc[p].at \notin WithIndex
      /\ s \in FTSStages \cup {"record"}
  BY <1>1, <1>2 DEF FTSStages, WithIndex
<1>5. /\ fts \in {"none", "old", "current"} /\ triggers \subseteq TriggerSet
      /\ indexed \subseteq rows
      /\ fts' = fts /\ triggers' = triggers /\ indexed' = indexed
  BY <1>2 DEF SchemaInv, TypeOK, index
<1>6. ASSUME ~overlapped
      PROVE  /\ FTSInv(p)' /\ (fts = "none" => indexed = {})
             /\ start.fts = "current" =>
                  fts = "current" /\ rows \subseteq indexed
             /\ Expected /\ fts = "current" => rows \subseteq indexed
  <2>1. /\ IndexInv /\ tomb = {}
        /\ Expected /\ fts = "current" => rows \subseteq indexed \/ Filling(p)
    BY <1>4, <1>6, Remaking DEF SchemaInv
  <2>2. FTSInv(p)'
    <3>1. s = "dropTriggers" => fts = "current"
      BY <1>1, <1>5
    <3>2. proc[p].ftsEnabled => fts = "current"
      BY <1>6, <2>1 DEF IndexInv, FTSInv
    <3>3. \A i \in 1 .. 1 - 1 : FALSE
      OBVIOUS
    <3>. QED  BY <1>1, <1>3, <1>5, <3>1, <3>2, <3>3 DEF FTSInv, Becomes,
              WithIndex
  <2>3. ~Filling(p)
    BY <1>4 DEF Filling
  <2>. QED  BY <1>6, <2>1, <2>2, <2>3 DEF IndexInv, Visible
<1>. QED  BY <1>2, <1>3, <1>4, <1>5, <1>6, FTSStepKept

\* An index of an old version is dropped.
LEMMA DropFTSStep ==
    ASSUME SchemaInv, NEW p \in Procs, DropFTS(p)
    PROVE  SchemaInv'
<1>1. /\ proc[p].at = "dropFTS" /\ Go(p, "createFTS") /\ FTSStep
      /\ fts' = "none" /\ indexed' = {} /\ triggers' = triggers
  BY DEF DropFTS, At
<1>2. Becomes(p, "createFTS", proc[p].known, proc[p].up, proc[p].created,
              proc[p].n, proc[p].ftsEnabled)
  BY <1>1, GoMoves DEF SchemaInv, Stages
<1>3. /\ proc[p].at \in FTSStages
      /\ "createFTS" \in FTSStages \cup {"record"}
      /\ triggers \subseteq TriggerSet
  BY <1>1 DEF FTSStages, SchemaInv, TypeOK
<1>4. ASSUME ~overlapped
      PROVE  /\ fts # "current" /\ start.fts # "current"
             /\ ~proc[p].ftsEnabled /\ proc[p].n = 1
  BY <1>1, <1>4 DEF SchemaInv, IndexInv, FTSInv
<1>5. ~overlapped => FTSInv(p)'
  BY <1>1, <1>2, <1>4 DEF FTSInv, Becomes, WithIndex
<1>. QED  BY <1>1, <1>2, <1>3, <1>4, <1>5, FTSStepKept

\* A new index is empty, and will be filled if it has to be.
LEMMA CreateFTSStep ==
    ASSUME SchemaInv, NEW p \in Procs, CreateFTS(p)
    PROVE  SchemaInv'
<1>1. /\ proc' = [proc EXCEPT ![p].created = TRUE, ![p].at = "dropTriggers"]
      /\ proc[p].at = "createFTS" /\ FTSStep
      /\ fts' = (IF fts = "none" THEN "current" ELSE fts)
      /\ triggers' = triggers /\ indexed' = indexed
  BY DEF CreateFTS, At
<1>2. Becomes(p, "dropTriggers", proc[p].known, proc[p].up, TRUE, proc[p].n,
              proc[p].ftsEnabled)
  <2> DEFINE r == [proc[p] EXCEPT !.created = TRUE, !.at = "dropTriggers"]
  <2>1. proc \in [Procs -> Openers]
    BY DEF SchemaInv, TypeOK, Openers
  <2>2. /\ r \in Openers /\ r.at = "dropTriggers" /\ r.known = proc[p].known
        /\ r.up = proc[p].up /\ r.created = TRUE /\ r.n = proc[p].n
        /\ r.ftsEnabled = proc[p].ftsEnabled
    BY <2>1 DEF Openers, Stages
  <2>3. proc' = [proc EXCEPT ![p] = r]
    BY <1>1
  <2>. HIDE DEF r
  <2>4. Becomes(p, r.at, r.known, r.up, r.created, r.n, r.ftsEnabled)
    BY <2>2, <2>3, RecordMoves DEF SchemaInv
  <2>. QED  BY <2>2, <2>4
<1>3. /\ proc[p].at \in FTSStages
      /\ "dropTriggers" \in FTSStages \cup {"record"}
      /\ fts' \in {"none", "old", "current"} /\ triggers \subseteq TriggerSet
      /\ indexed \subseteq rows
  BY <1>1 DEF FTSStages, WithIndex, SchemaInv, TypeOK
<1>4. ASSUME ~overlapped
      PROVE  /\ fts' = "current" /\ indexed = {} /\ start.fts # "current"
             /\ FTSInv(p)'
             /\ Expected => rows = {} \/ Filling(p)'
  <2>1. fts = "none" /\ indexed = {} /\ start.fts # "current"
    BY <1>1, <1>4 DEF SchemaInv, IndexInv, FTSInv
  <2>2. FTSInv(p)'
    <3>1. proc[p].n = 1
      BY <1>1, <1>4 DEF SchemaInv, IndexInv, FTSInv
    <3>. QED  BY <1>1, <1>2, <2>1, <3>1 DEF FTSInv, Becomes, WithIndex
  <2>3. /\ rows = start.rows
        /\ "revoked" \in start.columns => Flags \subseteq columns
    BY <1>3, <1>4, Remaking
  <2>4. Flags \subseteq columns => Filling(p)'
    BY <1>1, <1>2, <2>1 DEF Filling, Becomes, WithIndex, FTSStep
  <2>. QED  BY <1>1, <2>1, <2>2, <2>3, <2>4 DEF Expected
<1>. QED  BY <1>1, <1>2, <1>3, <1>4, FTSStepKept

\* The next trigger, or the stage after the last one.
LEMMA NextTriggerMoves ==
    ASSUME TypeOK, NEW p \in Procs, NEW t \in Stages, NextTrigger(p, t)
    PROVE  /\ proc[p].n = 3 =>
                Becomes(p, t, proc[p].known, proc[p].up, proc[p].created, 1,
                        proc[p].ftsEnabled)
           /\ proc[p].n # 3 =>
                Becomes(p, proc[p].at, proc[p].known, proc[p].up,
                        proc[p].created, proc[p].n + 1, proc[p].ftsEnabled)
<1>1. proc \in [Procs -> Openers] /\ proc[p].n \in 1 .. 3
  BY TriggerNames DEF TypeOK, Openers
<1>2. ASSUME proc[p].n = 3
      PROVE  Becomes(p, t, proc[p].known, proc[p].up, proc[p].created, 1,
                     proc[p].ftsEnabled)
  <2> DEFINE r == [proc[p] EXCEPT !.n = 1, !.at = t]
  <2>1. /\ r \in Openers /\ r.at = t /\ r.known = proc[p].known
        /\ r.up = proc[p].up /\ r.created = proc[p].created /\ r.n = 1
        /\ r.ftsEnabled = proc[p].ftsEnabled
    <3>1. 1 \in DOMAIN Triggers
      BY TriggerNames
    <3>. QED  BY <1>1, <3>1 DEF Openers
  <2>2. ~(proc[p].n < Len(Triggers))
    BY <1>2, TriggerNames
  <2>3. proc' = [proc EXCEPT ![p] = r]
    BY <2>2 DEF NextTrigger
  <2>. HIDE DEF r
  <2>4. Becomes(p, r.at, r.known, r.up, r.created, r.n, r.ftsEnabled)
    BY <2>1, <2>3, RecordMoves
  <2>. QED  BY <2>1, <2>4
<1>3. ASSUME proc[p].n # 3
      PROVE  Becomes(p, proc[p].at, proc[p].known, proc[p].up,
                     proc[p].created, proc[p].n + 1, proc[p].ftsEnabled)
  <2> DEFINE r == [proc[p] EXCEPT !.n = @ + 1]
  <2>1. proc[p].n + 1 \in DOMAIN Triggers /\ proc[p].n < Len(Triggers)
    BY <1>1, <1>3, TriggerNames
  <2>2. /\ r \in Openers /\ r.at = proc[p].at /\ r.known = proc[p].known
        /\ r.up = proc[p].up /\ r.created = proc[p].created
        /\ r.n = proc[p].n + 1 /\ r.ftsEnabled = proc[p].ftsEnabled
    BY <1>1, <2>1 DEF Openers
  <2>3. proc' = [proc EXCEPT ![p] = r]
    BY <2>1 DEF NextTrigger
  <2>. HIDE DEF r
  <2>4. Becomes(p, r.at, r.known, r.up, r.created, r.n, r.ftsEnabled)
    BY <2>2, <2>3, RecordMoves
  <2>. QED  BY <2>2, <2>4
<1>. QED  BY <1>2, <1>3

\* The end of migrateMessagesFTS.
LEMMA EndFTSMoves ==
    ASSUME TypeOK, NEW p \in Procs, NEW e \in BOOLEAN, EndFTS(p, e)
    PROVE  Becomes(p, "record", proc[p].known, proc[p].up, proc[p].created,
                   proc[p].n, e)
<1> DEFINE r == [proc[p] EXCEPT !.at = "record", !.ftsEnabled = e]
<1>1. proc \in [Procs -> Openers]
  BY DEF TypeOK, Openers
<1>2. proc' = [proc EXCEPT ![p] = r]
  BY DEF EndFTS
<1>3. /\ r \in Openers /\ r.at = "record" /\ r.known = proc[p].known
      /\ r.up = proc[p].up /\ r.created = proc[p].created
      /\ r.n = proc[p].n /\ r.ftsEnabled = e
  BY <1>1 DEF Openers, Stages
<1>. HIDE DEF r
<1>4. Becomes(p, r.at, r.known, r.up, r.created, r.n, r.ftsEnabled)
  BY <1>2, <1>3, RecordMoves
<1>. QED  BY <1>3, <1>4

\* The triggers are dropped one by one.
LEMMA DropTriggerStep ==
    ASSUME SchemaInv, NEW p \in Procs, DropTrigger(p)
    PROVE  SchemaInv'
<1> DEFINE n == proc[p].n
           last == n = 3
           s == IF last THEN "createTriggers" ELSE "dropTriggers"
           k == IF last THEN 1 ELSE n + 1
<1>0. proc \in [Procs -> Openers] /\ n \in 1 .. 3
  BY TriggerNames DEF SchemaInv, TypeOK, Openers
<1>1. /\ proc[p].at = "dropTriggers" /\ FTSStep
      /\ fts' = fts /\ triggers' = triggers \ {Triggers[n]}
      /\ indexed' = indexed
  BY DEF DropTrigger, At
<1>2. Becomes(p, s, proc[p].known, proc[p].up, proc[p].created, k,
              proc[p].ftsEnabled)
  <2>1. NextTrigger(p, "createTriggers") /\ "createTriggers" \in Stages
    BY DEF DropTrigger, Stages
  <2>. QED  BY <1>1, <2>1, NextTriggerMoves DEF SchemaInv
<1>3. /\ proc[p].at \in FTSStages /\ s \in FTSStages \cup {"record"}
      /\ fts \in {"none", "old", "current"} /\ triggers' \subseteq TriggerSet
      /\ indexed \subseteq rows
  BY <1>1 DEF FTSStages, WithIndex, SchemaInv, TypeOK
<1>4. ASSUME ~overlapped
      PROVE  /\ fts = "current" /\ FTSInv(p)'
             /\ start.fts = "current" => rows \subseteq indexed
             /\ Expected => rows \subseteq indexed \/ Filling(p)'
  <2>1. /\ fts = "current"
        /\ \A i \in 1 .. n - 1 : Triggers[i] \notin triggers
    BY <1>1, <1>4 DEF SchemaInv, IndexInv, FTSInv, WithIndex
  <2>2. \A i \in 1 .. n : Triggers[i] \notin triggers'
    BY <1>0, <1>1, <2>1
  <2>3. ASSUME last PROVE FTSInv(p)'
    <3>1. triggers' = {}
      BY <1>0, <1>1, <1>3, <2>2, <2>3, TriggerNames
    <3>2. /\ proc'[p].at = "createTriggers" /\ proc'[p].n = 1
          /\ fts' = "current"
      BY <1>1, <1>2, <2>1, <2>3 DEF Becomes
    <3>3. triggers' = {Triggers[i] : i \in 1 .. proc'[p].n - 1}
      BY <3>1, <3>2
    <3>. QED  BY <3>2, <3>3 DEF FTSInv
  <2>4. ASSUME ~last PROVE FTSInv(p)'
    <3>1. /\ proc'[p].at = "dropTriggers" /\ proc'[p].n = n + 1
          /\ fts' = "current"
      BY <1>1, <1>2, <2>1, <2>4 DEF Becomes
    <3>2. \A i \in 1 .. proc'[p].n - 1 : Triggers[i] \notin triggers'
      BY <1>0, <2>2, <3>1
    <3>. QED  BY <3>1, <3>2 DEF FTSInv
  <2>5. Filling(p) => Filling(p)'
    BY <1>1, <1>2 DEF Filling, Becomes, WithIndex, FTSStep
  <2>6. /\ tomb = {}
        /\ Expected => rows \subseteq indexed \/ Filling(p)
    BY <1>3, <1>4, <2>1, Remaking
  <2>7. start.fts = "current" => rows \subseteq indexed
    BY <1>4, <2>6 DEF SchemaInv, IndexInv, Visible
  <2>8. FTSInv(p)'
    BY <2>3, <2>4
  <2>. QED  BY <2>1, <2>5, <2>6, <2>7, <2>8
<1>. HIDE DEF s, k, n
<1>. QED  BY <1>1, <1>2, <1>3, <1>4, FTSStepKept

\* The triggers are made again one by one; alone, no open finds one there.
LEMMA CreateTriggerStep ==
    ASSUME SchemaInv, NEW p \in Procs, CreateTrigger(p)
    PROVE  SchemaInv'
<1> DEFINE n == proc[p].n
           fails == Triggers[n] \in triggers
           last == n = 3
           s == IF fails THEN "record"
                ELSE IF last THEN "backfill" ELSE "createTriggers"
           k == IF fails THEN n ELSE IF last THEN 1 ELSE n + 1
           e == IF fails THEN FALSE ELSE proc[p].ftsEnabled
<1>0. /\ proc \in [Procs -> Openers] /\ n \in 1 .. 3
      /\ proc[p].ftsEnabled \in BOOLEAN
  BY TriggerNames DEF SchemaInv, TypeOK, Openers
<1>1. /\ proc[p].at = "createTriggers" /\ FTSStep /\ fts' = fts
      /\ triggers' = IF fails THEN triggers ELSE triggers \cup {Triggers[n]}
      /\ indexed' = indexed
  BY DEF CreateTrigger, At
<1>2. Becomes(p, s, proc[p].known, proc[p].up, proc[p].created, k, e)
  <2>1. CASE fails
    <3>1. EndFTS(p, FALSE)
      BY <2>1 DEF CreateTrigger
    <3>. QED  BY <2>1, <3>1, EndFTSMoves DEF SchemaInv
  <2>2. CASE ~fails
    <3>1. NextTrigger(p, "backfill") /\ "backfill" \in Stages
      BY <2>2 DEF CreateTrigger, Stages
    <3>. QED  BY <1>1, <2>2, <3>1, NextTriggerMoves DEF SchemaInv
  <2>. QED  BY <2>1, <2>2
<1>3. /\ proc[p].at \in FTSStages /\ s \in FTSStages \cup {"record"}
      /\ fts \in {"none", "old", "current"} /\ indexed \subseteq rows
  BY <1>1 DEF FTSStages, WithIndex, SchemaInv, TypeOK
<1>4. triggers' \subseteq TriggerSet
  <2>1. Triggers[n] \in TriggerSet /\ triggers \subseteq TriggerSet
    BY <1>0, TriggerNames DEF SchemaInv, TypeOK
  <2>. QED  BY <1>1, <2>1
<1>5. ASSUME ~overlapped
      PROVE  /\ fts = "current" /\ FTSInv(p)'
             /\ start.fts = "current" => rows \subseteq indexed
             /\ Expected => rows \subseteq indexed \/ Filling(p)'
  <2>1. /\ fts = "current"
        /\ triggers = {Triggers[i] : i \in 1 .. n - 1}
    BY <1>1, <1>5 DEF SchemaInv, IndexInv, FTSInv, WithIndex
  <2>2. ~fails
    BY <1>0, <2>1, TriggerNames
  <2>3. triggers' = {Triggers[i] : i \in 1 .. n}
    BY <1>0, <1>1, <2>1, <2>2
  <2>4. ASSUME last PROVE FTSInv(p)'
    <3>1. triggers' = TriggerSet
      BY <2>3, <2>4, TriggerNames
    <3>2. proc'[p].at = "backfill" /\ fts' = "current"
      BY <1>1, <1>2, <2>1, <2>2, <2>4 DEF Becomes
    <3>. QED  BY <3>1, <3>2 DEF FTSInv
  <2>5. ASSUME ~last PROVE FTSInv(p)'
    <3>1. /\ proc'[p].at = "createTriggers" /\ proc'[p].n = n + 1
          /\ fts' = "current"
      BY <1>1, <1>2, <2>1, <2>2, <2>5 DEF Becomes
    <3>2. 1 .. proc'[p].n - 1 = 1 .. n
      BY <1>0, <3>1
    <3>3. triggers' = {Triggers[i] : i \in 1 .. proc'[p].n - 1}
      BY <2>3, <3>2
    <3>. QED  BY <3>1, <3>3 DEF FTSInv
  <2>6. Filling(p) => Filling(p)'
    BY <1>1, <1>2, <2>2 DEF Filling, Becomes, WithIndex, FTSStep
  <2>7. /\ tomb = {}
        /\ Expected => rows \subseteq indexed \/ Filling(p)
    BY <1>3, <1>5, <2>1, Remaking
  <2>8. start.fts = "current" => rows \subseteq indexed
    BY <1>5, <2>7 DEF SchemaInv, IndexInv, Visible
  <2>9. FTSInv(p)'
    BY <2>4, <2>5
  <2>. QED  BY <2>1, <2>6, <2>7, <2>8, <2>9
<1>. HIDE DEF s, k, e, n, fails
<1>. QED  BY <1>1, <1>2, <1>3, <1>4, <1>5, FTSStepKept

\* The new index is filled, at once.
LEMMA BackfillIndexStep ==
    ASSUME SchemaInv, NEW p \in Procs, Backfill(p)
    PROVE  SchemaInv'
<1> DEFINE fails == proc[p].created /\ BackfillFails(p)
           e == ~fails
<1>1. /\ proc[p].at = "backfill" /\ FTSStep /\ fts' = fts
      /\ triggers' = triggers
      /\ indexed' = IF ~fails /\ proc[p].created THEN indexed \cup Visible
                    ELSE indexed
  BY DEF Backfill, At
<1>2. Becomes(p, "record", proc[p].known, proc[p].up, proc[p].created,
              proc[p].n, e)
  <2>1. e \in BOOLEAN /\ EndFTS(p, e)
    BY DEF Backfill
  <2>. QED  BY <2>1, EndFTSMoves DEF SchemaInv
<1>. HIDE DEF e
<1>3. /\ proc[p].at \in FTSStages /\ "record" \in FTSStages \cup {"record"}
      /\ fts \in {"none", "old", "current"} /\ triggers \subseteq TriggerSet
      /\ indexed' \subseteq rows /\ indexed \subseteq indexed'
  BY <1>1 DEF FTSStages, WithIndex, SchemaInv, TypeOK, Visible
<1>4. ASSUME ~overlapped
      PROVE  /\ fts = "current" /\ FTSInv(p)'
             /\ start.fts = "current" => rows \subseteq indexed'
             /\ Expected => rows \subseteq indexed'
  <2>1. fts = "current" /\ triggers = TriggerSet
    BY <1>1, <1>4 DEF SchemaInv, IndexInv, FTSInv, WithIndex
  <2>2. FTSInv(p)'
    BY <1>1, <1>2, <2>1 DEF FTSInv, Becomes, WithIndex
  <2>3. /\ tomb = {}
        /\ Expected => rows \subseteq indexed \/ Filling(p)
    BY <1>3, <1>4, <2>1, Remaking
  <2>4. start.fts = "current" => rows \subseteq indexed
    BY <1>4, <2>3 DEF SchemaInv, IndexInv, Visible
  <2>5. Filling(p) => rows \subseteq indexed'
    BY <1>1, <2>3 DEF Filling, BackfillFails, Visible
  <2>. QED  BY <1>3, <2>1, <2>2, <2>3, <2>4, <2>5
<1>. QED  BY <1>1, <1>2, <1>3, <1>4, FTSStepKept

\* Once a process has the store open all migrations are applied, and without a
\* race none is being applied again.
LEMMA OpenIsMigrated ==
    ASSUME SchemaInv, NEW p \in Procs, At(p, "open")
    PROVE  /\ Versions \subseteq applied /\ "unread_count" \in columns
           /\ ~overlapped =>
                \A q \in Procs : proc[q].at \notin FTSStages \cup UnreadStages
<1>1. Versions \subseteq applied /\ "unread_count" \in columns
  BY DEF SchemaInv, OpenerInv, At
<1>2. ASSUME ~overlapped, NEW q \in Procs, proc[q].at \in FTSStages
      PROVE  FALSE
  <2>1. /\ Opening(q) /\ proc[q].at \notin {"closed", "next", "detect", "open"}
        /\ proc[q].up \in FTSVersions /\ proc[q].up # "ensured"
    BY <1>2 DEF SchemaInv, OpenerInv, Fits, FTSStages, WithIndex, Opening,
       FTSVersions
  <2>2. proc[q].up \notin applied
    BY <1>2, <2>1 DEF SchemaInv, OpenerInv, AloneInv
  <2>. QED  BY <1>1, <2>1, <2>2, SchemaNames DEF FTSVersions
<1>3. ASSUME ~overlapped, NEW q \in Procs
      PROVE  proc[q].at \notin UnreadStages
  BY <1>3 DEF SchemaInv, AloneInv
<1>. QED  BY <1>1, <1>2, <1>3

\* A step that only stores or hides messages, and keeps them indexed.
LEMMA DataStepKept ==
    ASSUME SchemaInv, NEW p \in Procs, At(p, "open"), DataStep,
           rows \subseteq rows', tomb' \subseteq rows',
           indexed' \subseteq rows',
           ~overlapped /\ fts = "none" => indexed' = {},
           ~overlapped => indexed' \cap tomb' = {},
           ~overlapped /\ fts = "current" /\ Visible \subseteq indexed =>
              (rows' \ tomb') \subseteq indexed',
           ~overlapped => Kept'
    PROVE  SchemaInv'
<1>1. UNCHANGED <<applied, columns, fts, triggers, unread, count, proc, start,
                  overlapped, abandons>>
  BY DEF DataStep, chat, history
<1>2. TypeOK'
  BY <1>1 DEF SchemaInv, TypeOK
<1>3. \A q \in Procs : OpenerInv(q)'
  BY <1>1 DEF SchemaInv, OpenerInv, Fits
<1>4. StoreInv'
  BY <1>1, OpenIsMigrated DEF SchemaInv, StoreInv
<1>5. AloneInv'
  BY <1>1 DEF SchemaInv, AloneInv, Opening, At, Column
<1>6. IndexInv'
  <2>1. \A q \in Procs : FTSInv(q)' = FTSInv(q)
    BY <1>1 DEF FTSInv
  <2>. QED  BY <1>1, <2>1 DEF SchemaInv, IndexInv, Visible
<1>7. CompleteInv'
  <2>1. ~overlapped => \A q \in Procs : ~Filling(q)
    BY OpenIsMigrated DEF Filling, FTSStages
  <2>2. Expected' = Expected
    BY <1>1 DEF Expected
  <2>. QED  BY <1>1, <2>1, <2>2 DEF SchemaInv, CompleteInv, Visible
<1>8. CountInv'
  BY <1>1 DEF SchemaInv, CountInv, At
<1>. QED  BY <1>2, <1>3, <1>4, <1>5, <1>6, <1>7, <1>8 DEF SchemaInv

\* The trigger indexes a new message.
LEMMA StoreMessageStep ==
    ASSUME SchemaInv, NEW p \in Procs, NEW m \in New, StoreMessage(p, m)
    PROVE  SchemaInv'
<1>1. /\ At(p, "open") /\ DataStep /\ m \notin rows /\ rows' = rows \cup {m}
      /\ tomb' = tomb
      /\ indexed' = IF "messages_ai" \in triggers THEN indexed \cup {m}
                    ELSE indexed
  BY DEF StoreMessage
<1>2. tomb \subseteq rows /\ indexed \subseteq rows
  BY DEF SchemaInv, TypeOK
<1>3. "messages_ai" \in TriggerSet
  BY TriggerNames
<1>4. ~overlapped => Kept /\ indexed \cap tomb = {}
  BY <1>1, OpenIsMigrated, SchemaNames DEF SchemaInv, IndexInv
<1>5. ~overlapped /\ fts = "none" => indexed' = {}
  BY <1>1, <1>3, <1>4 DEF Kept
<1>6. ~overlapped /\ fts = "current" /\ Visible \subseteq indexed =>
         (rows' \ tomb') \subseteq indexed'
  BY <1>1, <1>3, <1>4 DEF Kept, Visible
<1>7. ~overlapped => Kept'
  BY <1>1, <1>4, <1>5 DEF Kept, DataStep
<1>. QED  BY <1>1, <1>2, <1>4, <1>5, <1>6, <1>7, DataStepKept

\* The trigger takes a tombstone out of the index.
LEMMA HideMessageStep ==
    ASSUME SchemaInv, NEW p \in Procs, NEW m, HideMessage(p, m)
    PROVE  SchemaInv'
<1>1. /\ At(p, "open") /\ DataStep /\ m \in rows /\ rows' = rows
      /\ tomb' = tomb \cup {m}
      /\ indexed' = IF "messages_au" \in triggers THEN indexed \ {m}
                    ELSE indexed
  BY DEF HideMessage, Visible, AfterUpdate
<1>2. tomb \subseteq rows /\ indexed \subseteq rows
  BY DEF SchemaInv, TypeOK
<1>3. "messages_au" \in TriggerSet
  BY TriggerNames
<1>4. ~overlapped => Kept /\ indexed \cap tomb = {}
  BY <1>1, OpenIsMigrated, SchemaNames DEF SchemaInv, IndexInv
<1>5. ~overlapped /\ fts = "none" => indexed' = {}
  BY <1>1, <1>4 DEF Kept
<1>6. ~overlapped => indexed' \cap tomb' = {}
  BY <1>1, <1>3, <1>4 DEF Kept
<1>7. ~overlapped /\ fts = "current" /\ Visible \subseteq indexed =>
         (rows' \ tomb') \subseteq indexed'
  BY <1>1 DEF Visible
<1>8. ~overlapped => Kept'
  BY <1>1, <1>4, <1>5 DEF Kept, DataStep
<1>. QED  BY <1>1, <1>2, <1>5, <1>6, <1>7, <1>8, DataStepKept

\* An open that ends early is counted; the index it leaves unfilled was
\* expected to be filled only if there is nothing to fill it with.
LEMMA AbandonStep ==
    ASSUME SchemaInv, NEW p \in Procs, Abandon(p)
    PROVE  SchemaInv'
<1>1. /\ Becomes(p, "closed", {}, "none", FALSE, 1, FALSE) /\ Opening(p)
      /\ abandons' = abandons + 1 /\ abandons < MaxAbandons
      /\ UNCHANGED <<applied, columns, fts, triggers, indexed, rows, tomb,
                     unread, count, start, overlapped>>
  BY FailMoves DEF SchemaInv, Abandon, index, messages, chat
<1>2. abandons \in Nat /\ abandons' # 0 /\ abandons' \in 0 .. MaxAbandons
  BY <1>1, StoresAssumption DEF SchemaInv, TypeOK
<1>3. TypeOK'
  BY <1>1, <1>2 DEF SchemaInv, TypeOK, Openers, Becomes
<1>4. \A q \in Procs : OpenerInv(q)'
  <2>1. OpenerInv(p)'
    BY <1>1 DEF OpenerInv, Fits, Becomes, FTSStages, WithIndex, UnreadStages
  <2>. QED  BY <1>1, <2>1, OpenerKept DEF SchemaInv, Becomes
<1>5. StoreInv'
  BY <1>1 DEF SchemaInv, StoreInv
<1>6. AloneInv'
  <2>1. ~Opening(p)' /\ ~At(p, "alter")' /\ proc'[p].at \notin UnreadStages
    BY <1>1 DEF Becomes, Opening, At, UnreadStages
  <2>. QED  BY <1>1, <2>1, AloneKept DEF SchemaInv, Becomes
<1>7. IndexInv'
  <2>1. FTSInv(p)'
    BY <1>1 DEF FTSInv, Becomes, WithIndex
  <2>2. ~overlapped => \A q \in Procs : FTSInv(q)'
    BY <1>1, <2>1 DEF SchemaInv, IndexInv, FTSInv, Becomes, Alone
  <2>. QED  BY <1>1, <2>2 DEF SchemaInv, IndexInv, Kept, Visible
<1>8. CompleteInv'
  <2>1. SUFFICES ASSUME ~overlapped, Expected', fts = "current"
                 PROVE  \/ Visible \subseteq indexed
                        \/ \E q \in Procs : Filling(q)'
    BY <1>1 DEF CompleteInv, Visible
  <2>2. CASE start.fts = "current"
    BY <2>1, <2>2 DEF SchemaInv, IndexInv
  <2>3. CASE start.rows = {}
    <3>1. CASE Visible \subseteq indexed
      BY <3>1
    <3>2. CASE ~(Visible \subseteq indexed)
      <4>1. PICK q \in Procs : Filling(q)
        BY <2>1, <2>3, <3>2 DEF SchemaInv, CompleteInv, Expected
      <4>2. rows = {}
        BY <2>1, <2>3, <4>1, Remaking DEF Filling, FTSStages
      <4>. QED  BY <4>2 DEF Visible
    <3>. QED  BY <3>1, <3>2
  <2>. QED  BY <1>1, <1>2, <2>1, <2>2, <2>3 DEF Expected
<1>9. CountInv'
  BY <1>2 DEF CountInv
<1>. QED  BY <1>3, <1>4, <1>5, <1>6, <1>7, <1>8, <1>9 DEF SchemaInv

\* A store that a version left has an index that its triggers keep, or none.
LEMMA SchemaInitInv == Init => SchemaInv
<1> SUFFICES ASSUME Init PROVE SchemaInv
  OBVIOUS
<1>1. /\ start \in Stores /\ Complete(start)
      /\ start \in StoreRecords(UNION {s.rows : s \in Stores})
  BY StoresAssumption DEF Init
<1>2. /\ applied = start.applied /\ columns = start.columns
      /\ fts = start.fts /\ triggers = start.triggers
      /\ rows = start.rows /\ tomb = {} /\ indexed = start.indexed
      /\ unread = start.unread /\ count = 0
      /\ overlapped = FALSE /\ abandons = 0
  BY DEF Init
<1>3. /\ proc \in [Procs -> Openers]
      /\ \A q \in Procs :
            /\ proc[q].at = "closed" /\ proc[q].known = {}
            /\ proc[q].up = "none" /\ ~proc[q].ftsEnabled
  BY ClosedTyped DEF Init, Closed
<1>4. /\ start.applied \subseteq Versions /\ start.columns \subseteq Columns
      /\ start.fts \in {"none", "old", "current"}
      /\ start.triggers \subseteq TriggerSet /\ start.unread \in Int
  BY <1>1 DEF StoreRecords
<1>5. /\ fts = "none" => triggers = {} /\ indexed = {}
      /\ fts # "none" => triggers = TriggerSet /\ indexed = rows
  BY <1>1, <1>2 DEF Complete
<1>6. TypeOK
  <2>1. indexed \subseteq rows /\ 0 \in 0 .. MaxAbandons
    BY <1>5, StoresAssumption
  <2>2. proc \in [Procs -> Openers] /\ count \in Nat /\ tomb \subseteq rows
    BY <1>2, <1>3
  <2>. QED  BY <1>1, <1>2, <1>4, <2>1, <2>2 DEF TypeOK, Openers
<1>7. \A q \in Procs : OpenerInv(q)
  BY <1>3 DEF OpenerInv, Fits, FTSStages, WithIndex, UnreadStages
<1>8. StoreInv
  <2>1. Ordered(start.applied)
    <3>1. \A i \in 1 .. 5, j \in 1 .. 5 :
             j < i /\ Migrations[i] \in start.applied =>
                Migrations[j] \in start.applied
      BY <1>1, SchemaNames DEF Complete
    <3>. QED  BY <3>1, SchemaNames DEF Ordered
  <2>. QED  BY <1>2, <2>1 DEF StoreInv
<1>9. AloneInv
  BY <1>3 DEF AloneInv, Opening, At, UnreadStages
<1>10. IndexInv
  <2>1. \A q \in Procs : FTSInv(q)
    BY <1>3 DEF FTSInv, WithIndex
  <2>. QED  BY <1>2, <1>5, <2>1 DEF IndexInv, Kept, Visible
<1>11. CompleteInv
  BY <1>2, <1>5 DEF CompleteInv, Visible
<1>12. CountInv
  <2>1. "unread_count" \in columns => start.unread = 0
    BY <1>1, <1>2 DEF Complete
  <2>. QED  BY <1>2, <1>3, <2>1 DEF CountInv, At
<1>. QED  BY <1>6, <1>7, <1>8, <1>9, <1>10, <1>11, <1>12 DEF SchemaInv

\* Every step keeps the invariant.
LEMMA SchemaStepInv == SchemaInv /\ [Next]_vars => SchemaInv'
<1> SUFFICES ASSUME SchemaInv, [Next]_vars PROVE SchemaInv'
  OBVIOUS
<1>1. CASE UNCHANGED vars
  BY <1>1 DEF vars, index, chat, messages, history, SchemaInv, TypeOK,
     OpenerInv, Fits, StoreInv, AloneInv, IndexInv, CompleteInv, CountInv,
     Opening, At, Column, FTSInv, Kept, Expected, Filling, Visible
<1>2. CASE Next
  <2>1. PICK p \in Procs :
           \/ Open(p) \/ Proceed(p) \/ Close(p) \/ Abandon(p)
           \/ \E m \in New : StoreMessage(p, m)
           \/ \E m \in rows : HideMessage(p, m)
    BY <1>2 DEF Next
  <2>2. CASE Proceed(p)
    BY <2>2, StartMigrationStep, MigrateCoreSchemaStep, CheckColumnStep,
       AddColumnStep, MigrateUnreadCountStep, MigrateUnreadMarkerStep,
       RecordStep, EnsureCurrentSchemaStep, DetectStep, CheckFTSStep,
       DropFTSStep, CreateFTSStep, DropTriggerStep, CreateTriggerStep,
       BackfillIndexStep DEF Proceed
  <2>3. CASE Close(p)
    BY <2>3, ClosedStep DEF Close, At, WithIndex, UnreadStages
  <2>. QED  BY <2>1, <2>2, <2>3, OpenStep, AbandonStep, StoreMessageStep,
            HideMessageStep
<1>. QED  BY <1>1, <1>2

\* Type correctness of the store while any number of processes open it.
THEOREM SchemaTyped == Spec => []TypeOK
<1>1. SchemaInv => TypeOK
  BY DEF SchemaInv
<1>. QED  BY <1>1, SchemaInitInv, SchemaStepInv, PTL DEF Spec

\* Search finds every message that can be seen, if the store came with an
\* index, or without messages, or at version 8 and no open of it ended early;
\* and no tombstone, whatever was interrupted: for every number of processes
\* and of stores, unless two opens ran at once.
THEOREM SearchExact == Spec => []SearchIsExact
<1>1. ASSUME SchemaInv PROVE SearchIsExact
  <2>1. ASSUME ~overlapped, Expected, NEW p \in Procs, Searching(p)
        PROVE  Visible \subseteq indexed
    <3>1. fts = "current"
      BY <1>1, <2>1 DEF SchemaInv, IndexInv, FTSInv, Searching
    <3>2. \A q \in Procs : ~Filling(q)
      BY <1>1, <2>1, OpenIsMigrated DEF Searching, Filling, FTSStages
    <3>. QED  BY <1>1, <2>1, <3>1, <3>2 DEF SchemaInv, CompleteInv
  <2>2. Expected => SearchFindsAll
    BY <2>1 DEF SearchFindsAll
  <2>3. ~overlapped => indexed \cap tomb = {}
    BY <1>1 DEF SchemaInv, IndexInv
  <2>. QED  BY <2>2, <2>3 DEF SearchIsExact, Expected
<1>. QED  BY <1>1, SchemaInitInv, SchemaStepInv, PTL DEF Spec

\* A chat with unread messages stays unread through any number of migrations,
\* interrupted or at the same time; one that ran alone to its end has moved
\* the count: for every count and every number of processes.
THEOREM UnreadStays == Spec => []UnreadStaysUnread
<1>1. ASSUME SchemaInv PROVE UnreadStaysUnread
  <2>1. start.unread # 0 => unread # 0
    BY <1>1 DEF SchemaInv, StoreInv
  <2>2. ASSUME ~overlapped, abandons = 0, NEW p \in Procs, At(p, "open")
        PROVE  /\ count = IF start.unread > 0 THEN start.unread ELSE 0
               /\ unread \in {0, 1}
    <3>1. /\ "unread_count" \in columns
          /\ \A q \in Procs : proc[q].at \notin UnreadStages
      BY <1>1, <2>2, OpenIsMigrated
    <3>. QED  BY <1>1, <2>2, <3>1 DEF SchemaInv, CountInv
  <2>. QED  BY <2>1, <2>2 DEF UnreadStaysUnread
<1>. QED  BY <1>1, SchemaInitInv, SchemaStepInv, PTL DEF Spec
=============================================================================
