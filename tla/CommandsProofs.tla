--------------------------- MODULE CommandsProofs ---------------------------
(***************************************************************************)
(* Proofs about the commands that MCCommands checks together: Accounts,    *)
(* for every set of commands and account names; Backfill, for every chat,  *)
(* page size and number of requests; Outbound, one `send` of any kind, for *)
(* every body, upload and time.                                            *)
(***************************************************************************)
EXTENDS MessageStoreProofs, MCCommands, FiniteSetTheorems,
        WellFoundedInduction

-----------------------------------------------------------------------------
(* The accounts and config.yaml.                                           *)

\* Where an accounts command has config.yaml to itself.
Editing == {"load", "save", "rename", "saved"}

\* One command edits at a time, and what it is about to save is its change to
\* the file as it is.
EditInv ==
    \A p \in AccountCommands :
        /\ editor[p].at \in Editing => configLock = p
        /\ editor[p].at \in {"lock", "load", "save", "rename"} =>
             editor[p].name \in AccountNames
        /\ editor[p].at \in {"save", "rename"} =>
             LET e == editor[p].edit   n == editor[p].name IN
               /\ ~Refused(e, n, Loaded)
               /\ editor[p].config = Edited(e, n, Loaded)
               /\ e = "add" => n \in accountDirs

ConfigInv == AccountsTypeOK /\ EditInv /\ ConfigIsSerial

\* A change that is not refused keeps a valid configuration valid, and adds
\* no account but the one that is added.
LEMMA EditedIsValid ==
    ASSUME NEW e \in ConfigEdits, NEW n \in AccountNames, NEW c \in Config,
           ~Refused(e, n, c)
    PROVE  /\ Edited(e, n, c) \in Config
           /\ ValidConfig(c) => ValidConfig(Edited(e, n, c))
           /\ Edited(e, n, c).accounts \subseteq
                c.accounts \cup (IF e = "add" THEN {n} ELSE {})
<1>1. CASE e = "add"
  <2>1. Edited(e, n, c) = AddAccount(c, n)
    BY <1>1 DEF Edited
  <2>. QED  BY <1>1, <2>1 DEF AddAccount, Config, ValidConfig
<1>2. CASE e = "use"
  <2>1. Edited(e, n, c) = UseAccount(c, n)
    BY <1>2 DEF Edited
  <2>2. n \in c.accounts
    BY <1>2 DEF Refused
  <2>. QED  BY <1>2, <2>1, <2>2 DEF UseAccount, Config, ValidConfig
<1>3. CASE e = "remove"
  <2>1. Edited(e, n, c) = RemoveAccount(c, n)
    BY <1>3 DEF Edited
  <2>. QED  BY <1>3, <2>1 DEF RemoveAccount, Config, ValidConfig
<1>. QED  BY <1>1, <1>2, <1>3 DEF ConfigEdits

EditorStates ==
    [at : {"out", "lock", "load", "save", "rename", "saved"},
     edit : ConfigEdits, name : AccountNames \cup {NoAccount},
     config : Config]

ResolverStates ==
    [at : {"out", "entry", "base", "account", "failed", "writing"},
     name : AccountNames \cup {NoAccount}]

\* What a reader finds is a configuration, empty when there is no file.
LEMMA LoadedTyped ==
    ASSUME AccountsTypeOK
    PROVE  Loaded \in Config
BY DEF AccountsTypeOK, Loaded, EmptyConfig, Config

\* A command that is not running is in one of its states.
LEMMA OutTyped ==
    EditorOut \in EditorStates /\ ResolverOut \in ResolverStates
BY DEF EditorOut, ResolverOut, EditorStates, ResolverStates, EmptyConfig,
       Config, ConfigEdits

\* No command runs, and there is no account.
LEMMA AccountsInitInv == AccountsInit => ConfigInv
<1>. SUFFICES ASSUME AccountsInit PROVE ConfigInv
  OBVIOUS
<1>1. EmptyConfig \in Config
  BY DEF EmptyConfig, Config
<1>2. AccountsTypeOK
  BY <1>1, OutTyped
  DEF AccountsInit, AccountsTypeOK, EditorStates, ResolverStates
<1>3. EditInv
  BY DEF AccountsInit, EditInv, EditorOut, Editing
<1>4. ConfigIsSerial
  BY DEF AccountsInit, ConfigIsSerial, Loaded, ValidConfig, EmptyConfig
<1>. QED  BY <1>2, <1>3, <1>4 DEF ConfigInv

\* A step that changes one editor to v, and none of what the others rely on.
LEMMA EditorMoves ==
    ASSUME ConfigInv, NEW p \in AccountCommands, NEW v \in EditorStates,
           editor' = [editor EXCEPT ![p] = v],
           UNCHANGED <<configFile, resolver, registry>>,
           accountDirs' \in SUBSET AccountNames,
           accountDirs \subseteq accountDirs',
           \/ configLock' = configLock
           \/ configLock = NoProcess /\ configLock' = p
           \/ configLock = p /\ configLock' = NoProcess,
           v.at \in Editing => configLock' = p,
           v.at \in {"lock", "load", "save", "rename"} =>
             v.name \in AccountNames,
           v.at \in {"save", "rename"} =>
             /\ ~Refused(v.edit, v.name, Loaded)
             /\ v.config = Edited(v.edit, v.name, Loaded)
             /\ v.edit = "add" => v.name \in accountDirs'
    PROVE  ConfigInv'
<1>1. Loaded' = Loaded
  BY DEF Loaded
<1>2. AccountsTypeOK'
  <2>1. editor' \in [AccountCommands -> EditorStates]
    BY DEF ConfigInv, AccountsTypeOK, EditorStates
  <2>2. configLock' \in AccountCommands \cup StoreCommands \cup {NoProcess}
    BY DEF ConfigInv, AccountsTypeOK
  <2>. QED  BY <2>1, <2>2 DEF ConfigInv, AccountsTypeOK, EditorStates
<1>3. EditInv'
  <2>. SUFFICES ASSUME NEW q \in AccountCommands
                PROVE  LET d == editor'[q] IN
                       /\ d.at \in Editing => configLock' = q
                       /\ d.at \in {"lock", "load", "save", "rename"} =>
                            d.name \in AccountNames
                       /\ d.at \in {"save", "rename"} =>
                            /\ ~Refused(d.edit, d.name, Loaded)
                            /\ d.config = Edited(d.edit, d.name, Loaded)
                            /\ d.edit = "add" => d.name \in accountDirs'
    BY <1>1 DEF EditInv
  <2>1. CASE q = p
    <3>1. editor'[q] = v
      BY <2>1 DEF ConfigInv, AccountsTypeOK
    <3>. QED  BY <2>1, <3>1
  <2>2. CASE q # p
    <3>1. editor'[q] = editor[q]
      BY <2>2 DEF ConfigInv, AccountsTypeOK
    <3>2. editor[q].at \in Editing => configLock' = q
      BY <2>2, AccountsAssumption DEF ConfigInv, EditInv, NoProcess
    <3>. QED  BY <3>1, <3>2 DEF ConfigInv, EditInv
  <2>. QED  BY <2>1, <2>2
<1>4. ConfigIsSerial'
  BY <1>1 DEF ConfigInv, ConfigIsSerial, ValidConfig
<1>. QED  BY <1>2, <1>3, <1>4 DEF ConfigInv

\* A step of another command takes or frees the lock only for itself.
LEMMA ResolverMoves ==
    ASSUME ConfigInv, NEW p \in StoreCommands, EditorsUnchanged,
           resolver' \in [StoreCommands -> ResolverStates],
           \/ configLock' = configLock
           \/ configLock = NoProcess /\ configLock' = p
           \/ configLock = p /\ configLock' = NoProcess
    PROVE  ConfigInv'
<1>1. Loaded' = Loaded
  BY DEF EditorsUnchanged, Loaded
<1>2. AccountsTypeOK'
  BY DEF ConfigInv, AccountsTypeOK, EditorsUnchanged, ResolverStates
<1>3. EditInv'
  <2>1. \A q \in AccountCommands : editor[q].at \in Editing => configLock' = q
    BY AccountsAssumption DEF ConfigInv, EditInv, NoProcess
  <2>. QED  BY <1>1, <2>1 DEF ConfigInv, EditInv, EditorsUnchanged
<1>4. ConfigIsSerial'
  BY <1>1 DEF ConfigInv, ConfigIsSerial, ValidConfig, EditorsUnchanged
<1>. QED  BY <1>2, <1>3, <1>4 DEF ConfigInv

\* Every step keeps the invariant: only the command that holds the lock
\* changes the file, and to its change of what the file holds.
LEMMA AccountsStepInv ==
    ConfigInv /\ [AccountsNext]_accountsVars => ConfigInv'
<1>. SUFFICES ASSUME ConfigInv, [AccountsNext]_accountsVars
              PROVE  ConfigInv'
  OBVIOUS
<1>0. /\ editor \in [AccountCommands -> EditorStates]
      /\ resolver \in [StoreCommands -> ResolverStates]
      /\ accountDirs \subseteq AccountNames
  BY DEF ConfigInv, AccountsTypeOK, EditorStates, ResolverStates
<1>1. ASSUME NEW p \in AccountCommands, StartEdit(p)
      PROVE  ConfigInv'
  <2>1. PICK e \in ConfigEdits, n \in AccountNames :
          editor' = [editor EXCEPT ![p] = [EditorOut EXCEPT !.at = "lock",
                                             !.edit = e, !.name = n]]
    BY <1>1 DEF StartEdit
  <2>. DEFINE v == [EditorOut EXCEPT !.at = "lock", !.edit = e, !.name = n]
  <2>2. v \in EditorStates /\ v.at = "lock" /\ v.name = n
    BY OutTyped DEF EditorStates, EditorOut
  <2>. QED
    BY <1>0, <1>1, <2>1, <2>2, EditorMoves
    DEF StartEdit, ReadersUnchanged, Editing
<1>2. ASSUME NEW p \in AccountCommands, LockConfig(p)
      PROVE  ConfigInv'
  <2>. DEFINE v == [editor[p] EXCEPT !.at = "load"]
  <2>1. v \in EditorStates /\ v.at = "load" /\ v.name = editor[p].name
    BY <1>0 DEF EditorStates
  <2>2. editor[p].name \in AccountNames
    BY <1>2 DEF LockConfig, ConfigInv, EditInv
  <2>3. editor' = [editor EXCEPT ![p] = v]
    BY <1>0, <1>2 DEF LockConfig, EditorStep
  <2>. QED
    BY <1>0, <1>2, <2>1, <2>2, <2>3, EditorMoves
    DEF LockConfig, TakeConfigLock, ReadersUnchanged, Editing
<1>3. ASSUME NEW p \in AccountCommands,
             ConfigIsLocked(p) \/ EditEnds(p) \/
               (LoadConfig(p) /\ Leave(p) /\ UNCHANGED accountDirs)
      PROVE  ConfigInv'
  <2>1. EditorOut.at = "out"
    BY DEF EditorOut
  <2>2. /\ editor' = [editor EXCEPT ![p] = EditorOut]
        /\ UNCHANGED <<configFile, resolver, registry, accountDirs>>
        /\ \/ configLock' = configLock
           \/ configLock = p /\ configLock' = NoProcess
    <3>1. CASE ConfigIsLocked(p)
      BY <3>1 DEF ConfigIsLocked, ReadersUnchanged
    <3>2. CASE EditEnds(p)
      BY <3>2 DEF EditEnds, Leave, ReadersUnchanged
    <3>3. CASE LoadConfig(p) /\ Leave(p) /\ UNCHANGED accountDirs
      BY <3>3 DEF LoadConfig, Leave, ReadersUnchanged
    <3>. QED  BY <1>3, <3>1, <3>2, <3>3
  <2>. QED  BY <1>0, <2>1, <2>2, OutTyped, EditorMoves DEF Editing
<1>4. ASSUME NEW p \in AccountCommands, LoadConfig(p)
      PROVE  ConfigInv'
  <2>. DEFINE e == editor[p].edit
              n == editor[p].name
              v == [editor[p] EXCEPT !.at = "save",
                                     !.config = Edited(e, n, Loaded)]
  <2>1. CASE Refused(e, n, Loaded)
    BY <1>3, <1>4, <2>1 DEF LoadConfig
  <2>2. CASE ~Refused(e, n, Loaded)
    <3>1. /\ editor' = [editor EXCEPT ![p] = v]
          /\ accountDirs' = IF e = "add" THEN accountDirs \cup {n}
                            ELSE accountDirs
          /\ UNCHANGED <<configLock, configFile, registry, resolver>>
      BY <1>0, <1>4, <2>2 DEF LoadConfig, ReadersUnchanged
    <3>2. n \in AccountNames /\ e \in ConfigEdits /\ configLock = p
      BY <1>0, <1>4 DEF LoadConfig, ConfigInv, EditInv, Editing, EditorStates
    <3>3. Edited(e, n, Loaded) \in Config
      BY <2>2, <3>2, LoadedTyped, EditedIsValid DEF ConfigInv
    <3>4. /\ v \in EditorStates /\ v.at = "save" /\ v.name = n /\ v.edit = e
          /\ v.config = Edited(e, n, Loaded)
      BY <1>0, <3>3 DEF EditorStates
    <3>. HIDE DEF v
    <3>5. /\ accountDirs' \in SUBSET AccountNames
          /\ accountDirs \subseteq accountDirs'
      BY <1>0, <3>1, <3>2
    <3>6. e = "add" => n \in accountDirs'
      BY <3>1
    <3>. QED  BY <2>2, <3>1, <3>2, <3>4, <3>5, <3>6, EditorMoves
  <2>. QED  BY <2>1, <2>2
<1>5. ASSUME NEW p \in AccountCommands, WriteConfig(p)
      PROVE  ConfigInv'
  <2>. DEFINE v == [editor[p] EXCEPT !.at = "rename"]
  <2>1. /\ v \in EditorStates /\ v.at = "rename" /\ v.name = editor[p].name
        /\ v.edit = editor[p].edit /\ v.config = editor[p].config
    BY <1>0 DEF EditorStates
  <2>2. editor' = [editor EXCEPT ![p] = v]
    BY <1>0, <1>5 DEF WriteConfig, EditorStep
  <2>3. /\ configLock = p /\ editor[p].name \in AccountNames
        /\ ~Refused(editor[p].edit, editor[p].name, Loaded)
        /\ editor[p].config = Edited(editor[p].edit, editor[p].name, Loaded)
        /\ editor[p].edit = "add" => editor[p].name \in accountDirs
    BY <1>5 DEF WriteConfig, ConfigInv, EditInv, Editing
  <2>4. UNCHANGED <<configFile, configLock, accountDirs, registry, resolver>>
    BY <1>5 DEF WriteConfig, WriteTemp, ReadersUnchanged
  <2>. HIDE DEF v
  <2>. QED  BY <1>0, <2>1, <2>2, <2>3, <2>4, EditorMoves
<1>6. ASSUME NEW p \in AccountCommands, RenameConfig(p)
      PROVE  ConfigInv'
  <2>. DEFINE e == editor[p].edit
              n == editor[p].name
              v == [editor[p] EXCEPT !.at = "saved"]
  <2>1. /\ configLock = p /\ n \in AccountNames /\ e \in ConfigEdits
        /\ ~Refused(e, n, Loaded)
        /\ editor[p].config = Edited(e, n, Loaded)
        /\ e = "add" => n \in accountDirs
    BY <1>0, <1>6 DEF RenameConfig, ConfigInv, EditInv, Editing, EditorStates
  <2>2. Loaded \in Config /\ Loaded = registry
    BY LoadedTyped DEF ConfigInv, ConfigIsSerial
  <2>3. /\ Edited(e, n, Loaded) \in Config
        /\ ValidConfig(Edited(e, n, Loaded))
        /\ Edited(e, n, Loaded).accounts \subseteq accountDirs
    BY <2>1, <2>2, EditedIsValid DEF ConfigInv, ConfigIsSerial
  <2>4. /\ configFile' = Edited(e, n, Loaded)
        /\ registry' = Edited(e, n, Loaded)
        /\ UNCHANGED <<configLock, accountDirs, resolver>>
    BY <1>6, <2>1, <2>2 DEF RenameConfig, ReadersUnchanged
  <2>5. Loaded' = Edited(e, n, Loaded)
    BY <2>3, <2>4, AccountsAssumption DEF Loaded
  <2>6. v \in EditorStates /\ v.at = "saved"
    BY <1>0 DEF EditorStates
  <2>7. editor' = [editor EXCEPT ![p] = v]
    BY <1>0, <1>6 DEF RenameConfig, EditorStep
  <2>. HIDE DEF v
  <2>8. AccountsTypeOK'
    <3>1. editor' \in [AccountCommands -> EditorStates]
      BY <1>0, <2>6, <2>7
    <3>. QED
      BY <2>3, <2>4, <3>1 DEF ConfigInv, AccountsTypeOK, EditorStates
  <2>9. EditInv'
    <3>1. \A q \in AccountCommands \ {p} : editor'[q].at \notin Editing
      BY <1>0, <2>1, <2>7 DEF ConfigInv, EditInv
    <3>2. editor'[p].at = "saved"
      BY <1>0, <2>6, <2>7
    <3>3. \A q \in AccountCommands \ {p} :
            editor'[q].at = "lock" => editor'[q].name \in AccountNames
      BY <1>0, <2>7 DEF ConfigInv, EditInv
    <3>. QED  BY <2>1, <2>4, <3>1, <3>2, <3>3 DEF EditInv, Editing
  <2>10. ConfigIsSerial'
    BY <2>3, <2>4, <2>5 DEF ConfigIsSerial, ValidConfig
  <2>. QED  BY <2>8, <2>9, <2>10 DEF ConfigInv
<1>7. ASSUME NEW p \in StoreCommands,
             \/ ReadDefaultAccount(p) \/ ReadAccountEntry(p)
             \/ LockBaseStore(p) \/ StoreCommandEnds(p)
      PROVE  ConfigInv'
  <2>1. resolver' \in [StoreCommands -> ResolverStates]
    <3>1. Loaded.default \in AccountNames \cup {NoAccount}
      BY LoadedTyped DEF ConfigInv, Config
    <3>. QED
      BY <1>0, <1>7, <3>1, OutTyped
      DEF ReadDefaultAccount, ReadAccountEntry, LockBaseStore,
          StoreCommandEnds, ResolverStates
  <2>. QED
    BY <1>7, <2>1, ResolverMoves
    DEF ReadDefaultAccount, ReadAccountEntry, LockBaseStore, StoreCommandEnds
<1>8. CASE UNCHANGED accountsVars
  BY <1>8
  DEF accountsVars, ConfigInv, AccountsTypeOK, EditInv, ConfigIsSerial, Loaded
<1>. QED
  BY <1>1, <1>2, <1>3, <1>4, <1>5, <1>6, <1>7, <1>8 DEF AccountsNext

\* config.yaml is always what the commands that took effect made of it one
\* after the other (withAccountsConfigLock, SaveAccountsConfig).
THEOREM ConfigSerial == AccountsSpec => []ConfigIsSerial
<1>1. ConfigInv => ConfigIsSerial
  BY DEF ConfigInv
<1>. QED
  BY <1>1, AccountsInitInv, AccountsStepInv, PTL DEF AccountsSpec

-----------------------------------------------------------------------------
(* History backfill.                                                       *)

\* The steps a handler can have left.
HandlerTodos == {<<>>, <<"store", "signal">>, <<"signal">>, <<"store">>,
                 <<"signal", "store">>}
HandlerStates ==
    [todo : HandlerTodos, answer : Answers, left : SUBSET Events]

\* The row of a message, as the archive has it: its time is the time of an
\* event about this message.
ArchiveInv ==
    /\ archive \in [Events -> Rows] /\ Stored # {}
    /\ \A m \in Stored : Subject[archive[m].time] = m

\* The loop has not lost track.  While it waits, the row it asked with is no
\* newer than any anchor that counts; it asks again only if some row is older
\* than all of them.
AnchorInv ==
    /\ anchor \in Anchors /\ anchor.id \in Stored
    /\ requests \in Seq(Anchors) /\ asked \subseteq Events
    /\ backfill \in [at : {"ask", "wait", "idle", "ended"}, reason : Reasons]
    /\ ~unsure /\ backfill.at = "wait" =>
         \A t \in asked : archive[anchor.id].time <= t
    /\ ~unsure /\ backfill.at = "ask" =>
         \A t \in asked : \E m \in Stored : archive[m].time < t

\* What a stored event leaves behind: a row no newer than it, or a tombstone;
\* an edit, that its message has a row.
Kept == {e \in Events :
           LET row == archive[Subject[e]] IN
             row.time # 0 /\ (row.time <= e \/ row.gone \/ Kind[e] = "edit")}

\* What a notification brought is stored before it is signalled.
PageInv ==
    /\ pageHandler \in [BackfillHandlers -> HandlerStates]
    /\ signalled \subseteq Events
    /\ delivery = "notification" =>
         /\ signalled \subseteq Kept \cup missing
         /\ \A d \in BackfillHandlers :
              LET h == pageHandler[d] IN
                /\ h.todo # <<"signal", "store">>
                /\ h.todo # <<>> =>
                     h.answer.page \subseteq Kept \cup missing \cup h.left
                /\ h.todo = <<"signal">> => h.left = {}

BackfillInv == ArchiveInv /\ AnchorInv /\ PageInv

\* Rows have the types and the times they should.
LEMMA RowFacts ==
    ASSUME ArchiveInv
    PROVE  /\ \A m \in Events : archive[m] \in Rows
           /\ \A m \in Stored : m \in Events /\ archive[m].time \in Events
           /\ \A m \in Events : archive[m].time \in 0 .. Newest
           /\ \A m \in Events : archive[m].time \in Int
<1>1. \A m \in Events : archive[m] \in Rows
  BY DEF ArchiveInv
<1>2. \A m \in Events : archive[m].time \in 0 .. Newest
  BY <1>1 DEF Rows
<1>3. \A n \in 0 .. Newest : n \in Int /\ (n # 0 => n \in Events)
  BY BackfillAssumption DEF Events
<1>. QED  BY <1>1, <1>2, <1>3 DEF Stored

\* A set of numbers has a smallest one.
LEMMA SmallestOf ==
    ASSUME NEW S \in SUBSET Nat, S # {}
    PROVE  \E n \in S : \A k \in S : n <= k
<1>. DEFINE Less == OpToRel(<, Nat)
<1>1. IsWellFoundedOn(Less, Nat)
  BY NatLessThanWellFounded
<1>2. \A x, y \in Nat : x < y => <<x, y>> \in Less
  BY DEF OpToRel
<1>. HIDE DEF Less
<1>3. PICK n \in S : \A k \in S : ~ (<<k, n>> \in Less)
  BY <1>1, WFMin
<1>4. \A k \in S : k \in Nat /\ ~(k < n)
  BY <1>2, <1>3
<1>. QED  BY <1>4

\* Oldest is the stored message whose row has the smallest time.
LEMMA OldestIsMin ==
    ASSUME ArchiveInv
    PROVE  /\ Oldest \in Anchors /\ Oldest.id \in Stored
           /\ Oldest.time = archive[Oldest.id].time
           /\ \A n \in Stored : Oldest.time <= archive[n].time
<1>. DEFINE Least(m) == \A n \in Stored : archive[m].time <= archive[n].time
            o == CHOOSE m \in Stored : Least(m)
            times == {archive[m].time : m \in Stored}
<1>1. times \in SUBSET Nat /\ times # {}
  BY RowFacts, BackfillAssumption DEF ArchiveInv, Events
<1>2. PICK t \in times : \A u \in times : t <= u
  <2>. HIDE DEF times
  <2>. QED  BY <1>1, SmallestOf
<1>3. \E m \in Stored : Least(m)
  BY <1>2
<1>4. o \in Stored /\ Least(o)
  BY <1>3
<1>5. Oldest = [id |-> o, time |-> archive[o].time]
  BY DEF Oldest
<1>. HIDE DEF o
<1>6. o \in Events /\ archive[o].time \in Events
  BY <1>4, RowFacts
<1>. QED  BY <1>4, <1>5, <1>6 DEF Anchors

\* What one event makes of the row of its message: it stays in the archive,
\* deletions included, and only a deletion gives it a later time.
LEMMA EventOnRow ==
    ASSUME NEW e \in Events, NEW row \in Rows, NEW new \in Writes(row, e),
           row.time # 0 => Subject[row.time] = Subject[e]
    PROVE  /\ new \in Rows /\ new.time # 0
           /\ Subject[new.time] = Subject[e]
           /\ row.gone => new.gone
           /\ new.time <= e \/ new.gone \/ Kind[e] = "edit"
           /\ row.time # 0 => new.time <= row.time \/ new.gone
<1>1. /\ row.time \in 0 .. Newest /\ row.gone \in BOOLEAN
      /\ e \in 1 .. Newest /\ Newest \in Nat
  BY BackfillAssumption DEF Rows, Events
<1>2. CASE new = Upsert(row, e)
  <2>1. /\ new.time = IF row.time # 0 /\ (row.gone \/ Kind[e] = "edit")
                      THEN row.time ELSE e
        /\ new.gone = (row.gone \/ Kind[e] \in {"revoke", "for_me"})
        /\ new = [time |-> new.time, gone |-> new.gone]
    BY <1>2 DEF Upsert
  <2>2. new \in Rows
    <3>1. new.gone \in BOOLEAN
      BY <2>1
    <3>2. new.time \in 0 .. Newest
      BY <1>1, <2>1
    <3>. QED  BY <2>1, <3>1, <3>2 DEF Rows
  <2>3. new.time # 0 /\ Subject[new.time] = Subject[e]
    BY <1>1, <2>1
  <2>4. /\ row.gone => new.gone
        /\ Kind[e] \in {"revoke", "for_me"} => new.gone
    BY <2>1
  <2>5. Kind[e] \in {"message", "edit", "revoke", "for_me"}
    BY EventsAssumption DEF Kinds
  <2>6. CASE row.time = 0
    BY <1>1, <2>1, <2>2, <2>3, <2>4, <2>6
  <2>7. CASE row.time # 0 /\ ~row.gone /\ Kind[e] = "message"
    <3>1. Subject[e] = e /\ Subject[row.time] = e /\ row.time \in Events
      BY <1>1, <2>7, EventsAssumption DEF Events
    <3>2. Subject[row.time] <= row.time
      BY <3>1, EventsAssumption DEF Events
    <3>3. new.time = e
      BY <2>1, <2>7
    <3>. QED  BY <1>1, <2>2, <2>3, <2>4, <3>1, <3>2, <3>3
  <2>8. CASE row.time # 0 /\ ~row.gone /\ Kind[e] = "edit"
    <3>1. new.time = row.time /\ row.time \in Events
      BY <1>1, <2>1, <2>8 DEF Events
    <3>. QED  BY <1>1, <2>2, <2>3, <2>4, <2>8, <3>1
  <2>9. CASE row.gone \/ Kind[e] \in {"revoke", "for_me"}
    BY <2>2, <2>3, <2>4, <2>9
  <2>. QED  BY <2>5, <2>6, <2>7, <2>8, <2>9
<1>3. CASE row.time # 0 /\ new = [row EXCEPT !.gone = TRUE]
  BY <1>1, <1>3 DEF Rows
<1>. QED  BY <1>2, <1>3 DEF Writes

\* Nothing was asked, and the archive holds the row that one event left.
LEMMA BackfillInitInv == BackfillInit => BackfillInv
<1>. SUFFICES ASSUME BackfillInit PROVE BackfillInv
  OBVIOUS
<1>1. PICK e \in Events :
        /\ archive = [m \in Events |-> IF m = Subject[e] THEN Upsert(NoRow, e)
                                       ELSE NoRow]
        /\ anchor = [id |-> Subject[e], time |-> e]
  BY DEF BackfillInit
<1>2. /\ NoRow \in Rows /\ NoRow.time = 0 /\ Subject[e] \in Events
      /\ Upsert(NoRow, e) \in Writes(NoRow, e)
  BY BackfillAssumption, EventsAssumption DEF NoRow, Rows, Writes
<1>3. /\ Upsert(NoRow, e) \in Rows /\ Upsert(NoRow, e).time # 0
      /\ Subject[Upsert(NoRow, e).time] = Subject[e]
  BY <1>2, EventOnRow
<1>4. ArchiveInv
  <2>1. archive \in [Events -> Rows] /\ Stored = {Subject[e]}
    BY <1>1, <1>2, <1>3 DEF Stored
  <2>. QED  BY <1>1, <1>2, <1>3, <2>1 DEF ArchiveInv
<1>5. AnchorInv
  <2>1. anchor \in Anchors /\ anchor.id \in Stored
    BY <1>1, <1>2, <1>3 DEF Anchors, Stored
  <2>2. backfill \in [at : {"ask", "wait", "idle", "ended"}, reason : Reasons]
    BY DEF BackfillInit, NotBegun, Reasons
  <2>3. requests = <<>> /\ asked = {}
    BY DEF BackfillInit
  <2>. QED  BY <2>1, <2>2, <2>3 DEF AnchorInv
<1>6. HandlerIdle \in HandlerStates
  BY DEF HandlerIdle, HandlerStates, HandlerTodos, NoAnswer, Answers
<1>7. PageInv
  BY <1>6 DEF BackfillInit, PageInv, HandlerIdle
<1>. QED  BY <1>4, <1>5, <1>7 DEF BackfillInv

\* The loop: it asks with the oldest message, which is older than anything
\* that counts, and asks again only when another row has become the oldest.
LEMMA LoopStep ==
    ASSUME BackfillInv, Request \/ TakeAnswer \/ GiveUp \/ BackfillEnds
    PROVE  BackfillInv'
<1>. USE DEF BackfillInv
<1>0. archive' = archive /\ Stored' = Stored
  BY DEF Request, TakeAnswer, GiveUp, BackfillEnds, LoopUnchanged, Stored
<1>1. PageInv' /\ ArchiveInv'
  BY <1>0 DEF Request, TakeAnswer, GiveUp, BackfillEnds, LoopUnchanged,
              PageInv, Kept, ArchiveInv
<1>2. \A r \in Reasons, a \in {"ask", "wait", "idle", "ended"} :
        [at |-> a, reason |-> r] \in
          [at : {"ask", "wait", "idle", "ended"}, reason : Reasons]
  OBVIOUS
<1>3. /\ Oldest \in Anchors /\ Oldest.id \in Stored
      /\ Oldest.time = archive[Oldest.id].time
      /\ \A n \in Stored : Oldest.time <= archive[n].time
  BY OldestIsMin
<1>4. /\ Oldest.time \in Int /\ Oldest.time \in Events
      /\ \A n \in Stored : archive[n].time \in Int
      /\ \A t \in asked : t \in Int
  BY <1>3, RowFacts DEF AnchorInv, Anchors, Events
<1>5. CASE Request
  <2>1. unsure' = unsure /\ backfill.at = "ask"
    BY <1>5 DEF Request
  <2>2. CASE /\ anchor' = Oldest /\ requests' = Append(requests, Oldest)
             /\ asked' = asked \cup {Oldest.time}
             /\ backfill' = [backfill EXCEPT !.at = "wait"]
    <3>1. ~unsure => \A t \in asked : Oldest.time <= t
      <4>. SUFFICES ASSUME ~unsure, NEW t \in asked PROVE Oldest.time <= t
        OBVIOUS
      <4>1. PICK m \in Stored : archive[m].time < t
        BY <2>1 DEF AnchorInv
      <4>. QED  BY <1>3, <1>4, <4>1
    <3>2. ~unsure' => \A t \in asked' : archive'[anchor'.id].time <= t
      BY <1>0, <1>3, <1>4, <2>1, <2>2, <3>1
    <3>3. requests' \in Seq(Anchors) /\ asked' \subseteq Events
      BY <1>3, <1>4, <2>2 DEF AnchorInv
    <3>4. /\ backfill'.at = "wait"
          /\ backfill' \in [at : {"ask", "wait", "idle", "ended"},
                             reason : Reasons]
      BY <2>2 DEF AnchorInv
    <3>. QED  BY <1>0, <1>1, <1>3, <2>2, <3>2, <3>3, <3>4 DEF AnchorInv
  <2>3. CASE UNCHANGED <<anchor, requests, asked>> /\ \E r \in Reasons : Stop(r)
    BY <1>0, <1>1, <1>2, <2>1, <2>3 DEF AnchorInv, Stop
  <2>. QED  BY <1>5, <2>2, <2>3 DEF Request, Reasons
<1>6. CASE TakeAnswer
  <2>1. PICK failed \in BOOLEAN, reason \in Reasons :
          /\ reason = "none" /\ ~failed => Oldest.id # anchor.id
          /\ backfill' = [at |-> IF reason = "none" THEN "ask" ELSE "idle",
                          reason |-> reason]
          /\ unsure' = (unsure \/ failed)
    BY <1>6 DEF TakeAnswer, StopReason, StopOnEmptyOnly, Reasons
  <2>2. UNCHANGED <<anchor, requests, asked>> /\ backfill.at = "wait"
    BY <1>6 DEF TakeAnswer
  <2>3. /\ backfill' \in [at : {"ask", "wait", "idle", "ended"},
                          reason : Reasons]
        /\ backfill'.at # "wait"
    BY <2>1
  <2>4. backfill'.at = "ask" /\ ~unsure' =>
          \A t \in asked : Oldest.time < t
    <3>1. backfill'.at = "ask" /\ ~unsure' =>
            ~unsure /\ Oldest.id # anchor.id
      BY <2>1
    <3>2. Oldest.id # anchor.id => Oldest.time # archive[anchor.id].time
      BY <1>3 DEF AnchorInv, ArchiveInv
    <3>3. Oldest.time <= archive[anchor.id].time
            /\ archive[anchor.id].time \in Int
      BY <1>3, <1>4 DEF AnchorInv
    <3>4. ~unsure => \A t \in asked : archive[anchor.id].time <= t
      BY <2>2 DEF AnchorInv
    <3>. QED  BY <1>4, <3>1, <3>2, <3>3, <3>4
  <2>5. backfill'.at = "ask" /\ ~unsure' =>
          \A t \in asked' : \E m \in Stored' : archive'[m].time < t
    BY <1>0, <1>3, <2>2, <2>4
  <2>. QED  BY <1>0, <1>1, <2>2, <2>3, <2>5 DEF AnchorInv
<1>7. CASE GiveUp
  <2>1. /\ UNCHANGED <<anchor, requests, asked, unsure>>
        /\ backfill' = [at |-> "idle", reason |-> "error"]
    BY <1>7 DEF GiveUp, Stop
  <2>. QED  BY <1>0, <1>1, <1>2, <2>1 DEF AnchorInv, Reasons
<1>8. CASE BackfillEnds
  <2>1. /\ UNCHANGED <<anchor, requests, asked, unsure>>
        /\ backfill' = [backfill EXCEPT !.at = "ended"]
    BY <1>8 DEF BackfillEnds
  <2>. QED  BY <1>0, <1>1, <2>1 DEF AnchorInv
<1>. QED  BY <1>5, <1>6, <1>7, <1>8

\* One event is stored.  A row that is given a later time drops the anchors
\* that were at its old time or above it, so that what the loop relies on
\* still holds of the others.
LEMMA EventStored ==
    ASSUME ArchiveInv, AnchorInv, NEW e \in Events,
           NEW row \in Writes(archive[Subject[e]], e),
           archive' = [archive EXCEPT ![Subject[e]] = row],
           asked' = StillAsked(archive[Subject[e]], row),
           UNCHANGED <<backfill, anchor, requests, unsure>>
    PROVE  ArchiveInv' /\ AnchorInv' /\ Kept \subseteq Kept' /\ e \in Kept'
<1>. DEFINE s == Subject[e]
            old == archive[s]
<1>1. s \in Events /\ old \in Rows
  BY RowFacts, EventsAssumption
<1>2. old.time # 0 => Subject[old.time] = s
  BY <1>1 DEF ArchiveInv, Stored
<1>3. /\ row \in Rows /\ row.time # 0 /\ Subject[row.time] = s
      /\ old.gone => row.gone
      /\ row.time <= e \/ row.gone \/ Kind[e] = "edit"
      /\ old.time # 0 => row.time <= old.time \/ row.gone
  BY <1>1, <1>2, EventOnRow
<1>4. asked' = {t \in asked : old.time # 0 /\ row.time > old.time
                                => t < old.time}
  BY DEF StillAsked
<1>. HIDE DEF s, old
<1>5. /\ archive' \in [Events -> Rows] /\ archive'[s] = row
      /\ \A m \in Events : m # s => archive'[m] = archive[m]
  BY <1>1, <1>3 DEF ArchiveInv, s
<1>6. Stored' = Stored \cup {s}
  BY <1>1, <1>3, <1>5 DEF Stored
<1>7. ArchiveInv'
  BY <1>3, <1>5, <1>6 DEF ArchiveInv, Stored
<1>8. row.time \in Int /\ old.time \in Int /\ \A t \in asked : t \in Int
  BY <1>1, <1>3, BackfillAssumption DEF Rows, AnchorInv, Events
<1>9. old = archive[s] /\ (s \in Stored => old.time # 0)
  BY DEF old, Stored
<1>10. ASSUME NEW m \in Stored, NEW t \in asked',
              archive[m].time <= t
       PROVE  /\ archive'[m].time <= t
              /\ archive[m].time < t => archive'[m].time < t
  <2>1. CASE m # s
    BY <1>5, <1>10, <2>1 DEF Stored
  <2>2. CASE m = s
    <3>1. old.time <= t /\ old.time # 0 /\ t \in asked
      BY <1>4, <1>9, <1>10, <2>2
    <3>2. ~(row.time > old.time)
      BY <1>4, <1>8, <1>10, <3>1
    <3>. QED  BY <1>5, <1>8, <1>9, <2>2, <3>1, <3>2
  <2>. QED  BY <2>1, <2>2
<1>11. asked' \subseteq asked /\ Stored \subseteq Stored'
  BY <1>4, <1>6
<1>12. AnchorInv'
  <2>1. ~unsure /\ backfill.at = "wait" =>
          \A t \in asked' : archive'[anchor.id].time <= t
    BY <1>10, <1>11 DEF AnchorInv
  <2>2. ~unsure /\ backfill.at = "ask" =>
          \A t \in asked' : \E m \in Stored' : archive'[m].time < t
    <3>. SUFFICES ASSUME ~unsure /\ backfill.at = "ask", NEW t \in asked'
                  PROVE  \E m \in Stored' : archive'[m].time < t
      OBVIOUS
    <3>1. PICK m \in Stored : archive[m].time < t
      BY <1>11 DEF AnchorInv
    <3>2. archive[m].time <= t
      BY <1>8, <1>11, <3>1, RowFacts
    <3>. QED  BY <1>10, <1>11, <3>1, <3>2
  <2>3. /\ UNCHANGED <<backfill, anchor, requests, unsure>>
        /\ anchor.id \in Stored' /\ asked' \subseteq Events
    BY <1>11 DEF AnchorInv
  <2>. QED  BY <2>1, <2>2, <2>3 DEF AnchorInv
<1>13. Kept \subseteq Kept'
  <2>. SUFFICES ASSUME NEW f \in Kept PROVE f \in Kept'
    OBVIOUS
  <2>1. f \in Events /\ Subject[f] \in Events /\ f \in Int
    BY EventsAssumption, BackfillAssumption DEF Kept, Events
  <2>2. CASE Subject[f] # s
    BY <1>5, <2>1, <2>2 DEF Kept
  <2>3. CASE Subject[f] = s
    <3>1. old.time # 0 /\ (old.time <= f \/ old.gone \/ Kind[f] = "edit")
      BY <1>9, <2>3 DEF Kept
    <3>2. row.time <= f \/ row.gone \/ Kind[f] = "edit"
      BY <1>3, <1>8, <2>1, <3>1
    <3>. QED  BY <1>3, <1>5, <2>1, <2>3, <3>2 DEF Kept
  <2>. QED  BY <2>2, <2>3
<1>14. e \in Kept'
  BY <1>3, <1>5 DEF Kept, s
<1>. QED  BY <1>7, <1>12, <1>13, <1>14

\* The handlers: a stored event leaves what it should behind, and nothing is
\* signalled before it is stored.
LEMMA HandlersStep ==
    ASSUME BackfillInv, NEW d \in BackfillHandlers,
           \/ ReceiveAnswer(d) \/ ReceiveInitial(d) \/ ReceiveLive(d)
           \/ PageStored(d) \/ SignalAnswer(d)
           \/ \E e \in Events : StoreOne(d, e)
    PROVE  BackfillInv'
<1>. USE DEF BackfillInv
<1>1. ASSUME UNCHANGED <<backfill, anchor, requests, unsure, archive, asked>>
      PROVE  ArchiveInv' /\ AnchorInv' /\ Kept' = Kept
  <2>1. Stored' = Stored /\ Kept' = Kept
    BY <1>1 DEF Stored, Kept
  <2>. QED  BY <1>1, <2>1 DEF AnchorInv, ArchiveInv
<1>2. ASSUME NEW h \in HandlerStates, NEW e \in BackfillHandlers,
             pageHandler' = [pageHandler EXCEPT ![e] = h]
      PROVE  /\ pageHandler' \in [BackfillHandlers -> HandlerStates]
             /\ \A f \in BackfillHandlers :
                  pageHandler'[f] = IF f = e THEN h ELSE pageHandler[f]
  BY <1>2 DEF PageInv
<1>3. \A e \in BackfillHandlers : pageHandler[e] \in HandlerStates
  BY DEF PageInv
<1>4. HandlerIdle \in HandlerStates
  BY DEF HandlerIdle, HandlerStates, HandlerTodos, NoAnswer, Answers
<1>0. StepDone(d) =>
        pageHandler' = [pageHandler EXCEPT ![d] =
          IF Len(pageHandler[d].todo) = 1 THEN HandlerIdle
          ELSE [pageHandler[d] EXCEPT !.todo = Tail(pageHandler[d].todo)]]
  BY DEF StepDone
<1>11. /\ Len(<<"store">>) = 1 /\ Len(<<"signal">>) = 1
      /\ Len(<<"store", "signal">>) = 2 /\ Len(<<"signal", "store">>) = 2
      /\ Tail(<<"store", "signal">>) = <<"signal">>
      /\ Tail(<<"signal", "store">>) = <<"store">>
      /\ <<"signal">> # <<>> /\ <<"signal">> # <<"signal", "store">>
      /\ <<"signal", "store">> # <<>>
  OBVIOUS
<1>. DEFINE old == pageHandler[d]
            h == pageHandler'[d]
<1>12. delivery = "notification" =>
        /\ signalled \subseteq Kept \cup missing
        /\ old.todo # <<"signal", "store">>
        /\ old.todo # <<>> =>
             old.answer.page \subseteq Kept \cup missing \cup old.left
        /\ old.todo = <<"signal">> => old.left = {}
  BY DEF PageInv
<1>13. signalled \subseteq Events
  BY DEF PageInv
\* What the invariant asks of the one handler that moves.
<1>5. ASSUME pageHandler' = [pageHandler EXCEPT ![d] = h],
             h \in HandlerStates,
             ArchiveInv', AnchorInv', Kept \subseteq Kept',
             missing \subseteq missing',
             delivery' = delivery, signalled' \subseteq Events,
             delivery = "notification" =>
               /\ signalled' \subseteq Kept' \cup missing'
               /\ h.todo # <<"signal", "store">>
               /\ h.todo # <<>> =>
                    h.answer.page \subseteq Kept' \cup missing' \cup h.left
               /\ h.todo = <<"signal">> => h.left = {}
      PROVE  BackfillInv'
  <2>. HIDE DEF h
  <2>1. /\ pageHandler' \in [BackfillHandlers -> HandlerStates]
        /\ \A f \in BackfillHandlers :
             pageHandler'[f] = IF f = d THEN h ELSE pageHandler[f]
    BY <1>2, <1>5
  <2>2. ASSUME NEW f \in BackfillHandlers, delivery = "notification"
        PROVE  LET g == pageHandler'[f] IN
                 /\ g.todo # <<"signal", "store">>
                 /\ g.todo # <<>> =>
                      g.answer.page \subseteq
                        Kept' \cup missing' \cup g.left
                 /\ g.todo = <<"signal">> => g.left = {}
    BY <1>5, <2>1, <2>2 DEF PageInv
  <2>. QED  BY <1>5, <2>1, <2>2 DEF PageInv
\* A handler takes up an answer, or an event.
<1>14. ASSUME NEW answer \in Answers,
              NEW steps \in {<<"store", "signal">>, <<"signal", "store">>,
                             <<"store">>},
              Begin(d, steps, answer),
              delivery = "notification" => steps # <<"signal", "store">>,
              UNCHANGED <<archive, asked, signalled, missing>>,
              HandlerUnchanged
       PROVE  BackfillInv'
  <2>. DEFINE b == [todo |-> steps, answer |-> answer, left |-> answer.page]
  <2>1. pageHandler' = [pageHandler EXCEPT ![d] = b]
    BY <1>14 DEF Begin
  <2>2. b \in HandlerStates
    BY DEF HandlerStates, HandlerTodos, Answers
  <2>3. h = b
    BY <1>2, <2>1, <2>2
  <2>4. /\ b.todo = steps /\ b.left = b.answer.page
        /\ steps # <<"signal">>
    OBVIOUS
  <2>5. ArchiveInv' /\ AnchorInv' /\ Kept' = Kept
    BY <1>1, <1>14 DEF HandlerUnchanged
  <2>. HIDE DEF b, h, old
  <2>6. delivery = "notification" =>
          /\ signalled' \subseteq Kept' \cup missing'
          /\ h.todo # <<"signal", "store">>
          /\ h.todo # <<>> =>
               h.answer.page \subseteq Kept' \cup missing' \cup h.left
          /\ h.todo # <<"signal">>
    BY <1>12, <1>14, <2>3, <2>4, <2>5
  <2>. QED  BY <1>5, <1>13, <1>14, <2>1, <2>2, <2>3, <2>5, <2>6
            DEF HandlerUnchanged
<1>15. \A S \in SUBSET Events : LET a == [NoAnswer EXCEPT !.page = S]
                                IN  a \in Answers
  <2>. HIDE DEF Events
  <2>. QED  BY DEF NoAnswer, Answers
<1>16. /\ <<"store">> # <<"signal", "store">>
       /\ <<"store", "signal">> # <<"signal", "store">>
  OBVIOUS
<1>6. CASE ReceiveAnswer(d)
  <2>1. PICK i \in DOMAIN requests : \E answer \in AnswersTo(requests[i]) :
          Begin(d, AnswerSteps, answer)
    BY <1>6 DEF ReceiveAnswer
  <2>2. PICK answer \in AnswersTo(requests[i]) : Begin(d, AnswerSteps, answer)
    BY <2>1
  <2>3. answer \in Answers
    <3>1. PICK p \in {Before(requests[i].id), Before(requests[i].time), {}},
               end \in BOOLEAN, n \in BOOLEAN :
            answer = [page |-> p, end |-> end /\ 1 \in p, named |-> n]
      BY DEF AnswersTo
    <3>2. (end /\ 1 \in p) \in BOOLEAN /\ p \subseteq Events
      BY DEF Before, History
    <3>. HIDE DEF Events
    <3>. QED  BY <3>1, <3>2, Zenon DEF Answers
  <2>4. /\ AnswerSteps \in {<<"store", "signal">>, <<"signal", "store">>}
        /\ delivery = "notification" =>
             AnswerSteps # <<"signal", "store">>
    BY <1>16 DEF AnswerSteps
  <2>. QED  BY <1>6, <1>14, <2>2, <2>3, <2>4 DEF ReceiveAnswer
<1>7. CASE ReceiveInitial(d)
  <2>1. PICK n \in Events :
          Begin(d, <<"store">>,
                [NoAnswer EXCEPT !.page = {e \in History : e >= n}])
    BY <1>7 DEF ReceiveInitial
  <2>2. {e \in History : e >= n} \subseteq Events
    BY DEF History
  <2>. QED  BY <1>7, <1>14, <1>15, <1>16, <2>1, <2>2 DEF ReceiveInitial
<1>17. CASE ReceiveLive(d)
  <2>1. PICK e \in Events :
          Begin(d, <<"store">>, [NoAnswer EXCEPT !.page = {e}])
    BY <1>17 DEF ReceiveLive
  <2>2. {e} \subseteq Events
    OBVIOUS
  <2>. QED  BY <1>14, <1>15, <1>16, <1>17, <2>1, <2>2 DEF ReceiveLive
<1>8. CASE \E e \in Events : StoreOne(d, e)
  <2>1. PICK e \in Events : StoreOne(d, e)
    BY <1>8
  <2>. DEFINE b == [old EXCEPT !.left = @ \ {e}]
  <2>2. pageHandler' = [pageHandler EXCEPT ![d] = b]
    BY <2>1 DEF StoreOne
  <2>3. b \in HandlerStates /\ b.todo = old.todo /\ b.answer = old.answer
          /\ b.left = old.left \ {e}
    BY <1>3 DEF HandlerStates
  <2>4. h = b
    BY <2>2, <2>3, <1>2
  <2>5. /\ UNCHANGED signalled /\ HandlerUnchanged
        /\ old.todo # <<"signal">>
        /\ \/ \E row \in Writes(archive[Subject[e]], e) :
                /\ archive' = [archive EXCEPT ![Subject[e]] = row]
                /\ asked' = StillAsked(archive[Subject[e]], row)
                /\ missing' = missing
           \/ missing' = missing \cup {e} /\ UNCHANGED <<archive, asked>>
    BY <2>1 DEF StoreOne, Doing
  <2>6. /\ ArchiveInv' /\ AnchorInv' /\ Kept \subseteq Kept'
        /\ missing \subseteq missing' /\ e \in Kept' \cup missing'
    <3>1. CASE missing' = missing \cup {e} /\ UNCHANGED <<archive, asked>>
      BY <1>1, <2>5, <3>1 DEF HandlerUnchanged
    <3>2. ASSUME NEW row \in Writes(archive[Subject[e]], e),
                 archive' = [archive EXCEPT ![Subject[e]] = row],
                 asked' = StillAsked(archive[Subject[e]], row),
                 missing' = missing
          PROVE  /\ ArchiveInv' /\ AnchorInv' /\ Kept \subseteq Kept'
                 /\ missing \subseteq missing' /\ e \in Kept' \cup missing'
      BY <2>5, <3>2, EventStored DEF HandlerUnchanged
    <3>. QED  BY <2>5, <3>1, <3>2
  <2>. HIDE DEF b, h
  <2>7. delivery = "notification" =>
          /\ signalled' \subseteq Kept' \cup missing'
          /\ h.todo # <<"signal", "store">>
          /\ h.todo # <<>> =>
               h.answer.page \subseteq Kept' \cup missing' \cup h.left
          /\ h.todo # <<"signal">>
    BY <1>12, <2>3, <2>4, <2>5, <2>6
  <2>. QED  BY <1>5, <1>13, <2>2, <2>3, <2>4, <2>5, <2>6, <2>7
            DEF HandlerUnchanged
<1>9. CASE PageStored(d)
  <2>1. /\ StepDone(d) /\ old.left = {} /\ UNCHANGED <<archive, asked>>
        /\ UNCHANGED <<signalled, missing>> /\ HandlerUnchanged
        /\ old.todo \in {<<"store">>, <<"store", "signal">>}
    BY <1>3, <1>9 DEF PageStored, Doing, HandlerStates, HandlerTodos
  <2>2. ArchiveInv' /\ AnchorInv' /\ Kept' = Kept
    BY <1>1, <2>1 DEF HandlerUnchanged
  <2>3. CASE old.todo = <<"store">>
    <3>1. pageHandler' = [pageHandler EXCEPT ![d] = HandlerIdle]
      BY <1>0, <1>11, <2>1, <2>3
    <3>2. h = HandlerIdle
      BY <1>2, <1>4, <3>1
    <3>3. h.todo = <<>>
      BY <3>2 DEF HandlerIdle
    <3>. HIDE DEF h, old
    <3>. QED  BY <1>4, <1>5, <1>11, <1>12, <1>13, <2>1, <2>2, <3>1, <3>2, <3>3
              DEF HandlerUnchanged
  <2>4. CASE old.todo = <<"store", "signal">>
    <3>. DEFINE b == [old EXCEPT !.todo = <<"signal">>]
    <3>1. pageHandler' = [pageHandler EXCEPT ![d] = b]
      BY <1>0, <1>11, <2>1, <2>4
    <3>2. b \in HandlerStates /\ b.todo = <<"signal">> /\ b.left = old.left
            /\ b.answer = old.answer
      BY <1>3 DEF HandlerStates, HandlerTodos
    <3>3. h = b
      BY <1>2, <3>1, <3>2
    <3>. HIDE DEF b
    <3>4. /\ delivery = "notification" =>
               old.answer.page \subseteq Kept \cup missing
          /\ h.todo = <<"signal">> /\ h.left = {} /\ h.answer = old.answer
      BY <1>11, <1>12, <2>1, <2>4, <3>2, <3>3
    <3>. HIDE DEF h, old
    <3>. QED  BY <1>5, <1>11, <1>12, <1>13, <2>1, <2>2, <3>1, <3>2, <3>3, <3>4
              DEF HandlerUnchanged
  <2>. QED  BY <2>1, <2>3, <2>4
<1>10. CASE SignalAnswer(d)
  <2>1. /\ StepDone(d) /\ UNCHANGED <<archive, asked, missing>>
        /\ signalled' = signalled \cup old.answer.page /\ HandlerUnchanged
        /\ old.todo \in {<<"signal">>, <<"signal", "store">>}
    BY <1>3, <1>10 DEF SignalAnswer, Doing, HandlerStates, HandlerTodos
  <2>2. ArchiveInv' /\ AnchorInv' /\ Kept' = Kept
    BY <1>1, <2>1 DEF HandlerUnchanged
  <2>3. /\ signalled' \subseteq Events
        /\ delivery = "notification" =>
             signalled' \subseteq Kept \cup missing
    BY <1>3, <1>12, <1>13, <2>1 DEF HandlerStates, Answers
  <2>4. CASE old.todo = <<"signal">>
    <3>1. pageHandler' = [pageHandler EXCEPT ![d] = HandlerIdle]
      BY <1>0, <1>11, <2>1, <2>4
    <3>2. h = HandlerIdle
      BY <1>2, <1>4, <3>1
    <3>3. h.todo = <<>>
      BY <3>2 DEF HandlerIdle
    <3>. HIDE DEF h, old
    <3>. QED  BY <1>4, <1>5, <1>11, <2>1, <2>2, <2>3, <3>1, <3>2, <3>3
              DEF HandlerUnchanged
  <2>5. CASE old.todo = <<"signal", "store">>
    <3>. DEFINE b == [old EXCEPT !.todo = <<"store">>]
    <3>1. pageHandler' = [pageHandler EXCEPT ![d] = b]
      BY <1>0, <1>11, <2>1, <2>5
    <3>2. b \in HandlerStates
      BY <1>3 DEF HandlerStates, HandlerTodos
    <3>3. h = b
      BY <1>2, <3>1, <3>2
    <3>. HIDE DEF b
    <3>4. delivery # "notification"
      BY <1>12, <2>5
    <3>. HIDE DEF h, old
    <3>. QED  BY <1>5, <2>1, <2>2, <2>3, <3>1, <3>2, <3>3, <3>4
              DEF HandlerUnchanged
  <2>. QED  BY <2>1, <2>4, <2>5
<1>. QED  BY <1>6, <1>7, <1>17, <1>8, <1>9, <1>10

\* Every step keeps the invariant.
LEMMA BackfillStepInv ==
    BackfillInv /\ [BackfillNext]_backfillVars => BackfillInv'
<1>1. BackfillInv /\ UNCHANGED backfillVars => BackfillInv'
  BY DEF backfillVars, BackfillInv, ArchiveInv, AnchorInv, PageInv, Stored,
         Kept
<1>. QED  BY <1>1, LoopStep, HandlersStep DEF BackfillNext

\* No request is for what an earlier one was for, unless a deletion has given
\* a row a later time since, or for what an answer has brought: for every
\* chat, with edits and deletions of any of its messages, page size, number of
\* requests and order in which answers and live events come.
THEOREM AskedOnce == BackfillSpec => NothingAskedTwice
<1>1. ASSUME BackfillInv, [BackfillNext]_backfillVars, requests' # requests
      PROVE  /\ ~unsure => \A t \in asked : anchor'.time < t
             /\ delivery = "notification" =>
                  \A e \in signalled \ missing :
                    LET row == archive[Subject[e]] IN
                      /\ anchor'.time <= row.time
                      /\ row.time <= e \/ row.gone \/ Kind[e] = "edit"
  <2>1. anchor' = Oldest /\ backfill.at = "ask"
    BY <1>1 DEF BackfillNext, Request, TakeAnswer, GiveUp, BackfillEnds,
       ReceiveAnswer, ReceiveInitial, ReceiveLive, StoreOne, PageStored,
       SignalAnswer, HandlerUnchanged, backfillVars
  <2>2. \A n \in Stored : Oldest.time <= archive[n].time
    BY <1>1, OldestIsMin DEF BackfillInv
  <2>3. ASSUME ~unsure, NEW t \in asked
        PROVE  Oldest.time < t
    <3>1. PICK m \in Stored : archive[m].time < t
      BY <1>1, <2>1, <2>3 DEF BackfillInv, AnchorInv
    <3>2. t \in Int /\ archive[m].time \in Int /\ Oldest.time \in Int
      BY <1>1, RowFacts, OldestIsMin
      DEF BackfillInv, AnchorInv, Events, Anchors
    <3>. QED  BY <2>2, <3>1, <3>2
  <2>4. ASSUME delivery = "notification", NEW e \in signalled \ missing
        PROVE  LET row == archive[Subject[e]] IN
                 /\ Oldest.time <= row.time
                 /\ row.time <= e \/ row.gone \/ Kind[e] = "edit"
    <3>1. e \in Kept /\ Subject[e] \in Events
      BY <1>1, <2>4, EventsAssumption DEF BackfillInv, PageInv
    <3>. QED  BY <2>2, <3>1 DEF Kept, Stored
  <2>. QED  BY <2>1, <2>3, <2>4
<1>2. BackfillInv /\ [BackfillNext]_backfillVars =>
        [requests' # requests =>
           /\ ~unsure => \A t \in asked : anchor'.time < t
           /\ delivery = "notification" =>
                \A e \in signalled \ missing :
                  LET row == archive[Subject[e]] IN
                    /\ anchor'.time <= row.time
                    /\ row.time <= e \/ row.gone \/ Kind[e] = "edit"
        ]_backfillVars
  BY <1>1
<1>. QED  BY <1>2, BackfillInitInv, BackfillStepInv, PTL
          DEF BackfillSpec, NothingAskedTwice

\* The answers in a channel, of which there is room for 4.
Pending == {q \in Seq(Answers) : Len(q) <= 4}

\* The rest of the types: a channel never holds more than it has room for,
\* and no more is asked than --requests allows.
ChannelInv ==
    /\ delivery \in Deliveries /\ unasked \in BOOLEAN
    /\ waitCh \in [open : BOOLEAN, queue : Pending]
    /\ Len(requests) <= MaxRequests
    /\ answers \in 0 .. MaxAnswers
    /\ missing \subseteq Events /\ unsure \in BOOLEAN

\* An answer comes into a channel that has room for it.
LEMMA PendingAnswers ==
    /\ <<>> \in Pending
    /\ \A q \in Pending, a \in Answers : Len(q) < 4 => Append(q, a) \in Pending
<1>1. <<>> \in Seq(Answers) /\ Len(<<>>) = 0
  OBVIOUS
<1>2. ASSUME NEW q \in Pending, NEW a \in Answers, Len(q) < 4
      PROVE  Append(q, a) \in Pending
  <2>1. /\ Append(q, a) \in Seq(Answers)
        /\ Len(Append(q, a)) = Len(q) + 1 /\ Len(q) \in Nat
    BY <1>2 DEF Pending
  <2>. QED  BY <1>2, <2>1 DEF Pending
<1>. QED  BY <1>1, <1>2 DEF Pending

\* No request has been made, and no channel is open.
LEMMA ChannelInitInv == BackfillInit => ChannelInv
<1>. SUFFICES ASSUME BackfillInit PROVE ChannelInv
  OBVIOUS
<1>1. waitCh \in [open : BOOLEAN, queue : Pending]
  BY PendingAnswers DEF BackfillInit, NoChannel
<1>2. /\ delivery \in Deliveries /\ unasked = TRUE /\ missing = {}
      /\ unsure \in BOOLEAN
  BY DEF BackfillInit
<1>3. Len(requests) = 0 /\ answers = MaxAnswers
  BY DEF BackfillInit
<1>4. Len(requests) <= MaxRequests /\ answers \in 0 .. MaxAnswers
  BY <1>3, BackfillAssumption
<1>. QED  BY <1>1, <1>2, <1>4 DEF ChannelInv

\* A request is made only below the limit, and an answer is signalled only
\* into a channel that has room.
LEMMA ChannelStep ==
    ASSUME BackfillInv, ChannelInv, [BackfillNext]_backfillVars
    PROVE  ChannelInv'
<1>0. /\ requests \in Seq(Anchors) /\ Oldest \in Anchors
      /\ Len(requests) \in Nat /\ MaxRequests \in Nat /\ MaxAnswers \in Nat
  BY OldestIsMin, BackfillAssumption DEF BackfillInv, AnchorInv
<1>1. CASE Request
  <2>1. waitCh' = waitCh \/ waitCh' = [open |-> TRUE, queue |-> <<>>]
    BY <1>1 DEF Request
  <2>2. waitCh' \in [open : BOOLEAN, queue : Pending]
    <3>1. waitCh \in [open : BOOLEAN, queue : Pending]
      BY DEF ChannelInv
    <3>2. [open |-> TRUE, queue |-> <<>>] \in [open : BOOLEAN, queue : Pending]
      BY PendingAnswers
    <3>. QED  BY <2>1, <3>1, <3>2
  <2>3. Len(requests') <= MaxRequests
    <3>1. CASE /\ Len(requests) < MaxRequests
               /\ requests' = Append(requests, Oldest)
      <4>1. Len(requests') = Len(requests) + 1
        BY <1>0, <3>1
      <4>. QED  BY <1>0, <3>1, <4>1
    <3>2. CASE requests' = requests
      BY <3>2 DEF ChannelInv
    <3>. QED  BY <1>1, <3>1, <3>2 DEF Request
  <2>4. UNCHANGED <<delivery, unasked, answers, missing, unsure>>
    BY <1>1 DEF Request, LoopUnchanged
  <2>. QED  BY <2>2, <2>3, <2>4 DEF ChannelInv
<1>2. CASE TakeAnswer
  <2>1. waitCh' \in [open : BOOLEAN, queue : Pending]
    BY <1>2, PendingAnswers DEF TakeAnswer, NoChannel
  <2>2. unsure' \in BOOLEAN
    BY <1>2 DEF TakeAnswer, ChannelInv
  <2>. QED  BY <1>2, <2>1, <2>2 DEF TakeAnswer, LoopUnchanged, ChannelInv
<1>3. CASE GiveUp \/ BackfillEnds
  BY <1>3 DEF GiveUp, BackfillEnds, LoopUnchanged, ChannelInv
<1>4. ASSUME NEW d \in BackfillHandlers,
             \/ ReceiveAnswer(d) \/ ReceiveInitial(d) \/ ReceiveLive(d)
             \/ PageStored(d)
      PROVE  ChannelInv'
  <2>1. answers' \in 0 .. MaxAnswers
    BY <1>0, <1>4
    DEF ReceiveAnswer, ReceiveInitial, ReceiveLive, PageStored, ChannelInv
  <2>. QED
    BY <1>4, <2>1
    DEF ReceiveAnswer, ReceiveInitial, ReceiveLive, PageStored, HandlerUnchanged, ChannelInv
<1>5. ASSUME NEW d \in BackfillHandlers, NEW e \in Events, StoreOne(d, e)
      PROVE  ChannelInv'
  BY <1>5 DEF StoreOne, HandlerUnchanged, ChannelInv
<1>6. ASSUME NEW d \in BackfillHandlers, SignalAnswer(d)
      PROVE  ChannelInv'
  <2>. DEFINE answer == pageHandler[d].answer
  <2>1. answer \in Answers
    BY DEF BackfillInv, PageInv, HandlerStates
  <2>2. \/ waitCh' = waitCh
        \/ /\ Len(waitCh.queue) < 4
           /\ waitCh' = [waitCh EXCEPT !.queue = Append(waitCh.queue, answer)]
    BY <1>6 DEF SignalAnswer
  <2>. HIDE DEF answer
  <2>3. waitCh \in [open : BOOLEAN, queue : Pending]
    BY DEF ChannelInv
  <2>4. Len(waitCh.queue) < 4 => Append(waitCh.queue, answer) \in Pending
    BY <2>1, <2>3, PendingAnswers
  <2>5. waitCh' \in [open : BOOLEAN, queue : Pending]
    BY <2>2, <2>3, <2>4
  <2>. QED  BY <1>6, <2>5 DEF SignalAnswer, HandlerUnchanged, ChannelInv
<1>7. CASE UNCHANGED backfillVars
  BY <1>7 DEF backfillVars, ChannelInv
<1>. QED
  BY <1>1, <1>2, <1>3, <1>4, <1>5, <1>6, <1>7 DEF BackfillNext

\* Types of a backfill: what a handler holds, and the bounds of the channel
\* (4 answers) and of the requests (--requests).
THEOREM BackfillTyped == BackfillSpec => []BackfillTypeOK
<1>1. BackfillInv /\ ChannelInv => BackfillTypeOK
  BY DEF BackfillInv, ArchiveInv, AnchorInv, PageInv, ChannelInv, HandlerStates, Pending,
         BackfillTypeOK
<1>2. BackfillInv /\ ChannelInv /\ [BackfillNext]_backfillVars => ChannelInv'
  BY ChannelStep
<1>. QED
  BY <1>1, <1>2, BackfillInitInv, ChannelInitInv, BackfillStepInv, PTL
  DEF BackfillSpec

-----------------------------------------------------------------------------
(* One send: the inductive invariant.                                      *)

Preparations == {"resolve", "connect", "warmup", "mark", "findPoll",
                 "findTarget"}
BeforeSend == {"prepare", "upload"}

\* What a command and an attempt consist of.
SendSteps == Preparations \cup {"attempt", "send"} \cup BeforeSend
               \cup Statements

\* The steps in a sequence of steps.
Rest(t) == {t[i] : i \in 1 .. Len(t)}

\* In the steps t, x comes once, after steps in A only and before steps in S
\* only.
Splits(t, x, A, S) ==
    \E i \in 1 .. Len(t) :
        /\ t[i] = x
        /\ \A j \in 1 .. Len(t) :
             (j < i => t[j] \in A) /\ (j > i => t[j] \in S)

InAttempt  == {"chat", "message", "status"}
OfCommand  == InAttempt \cup (IF sendKind = "poll" THEN {"poll"} ELSE {})
                        \cup (IF sendKind = "vote" THEN {"vote"} ELSE {})

Preparing(t) == Splits(t, "attempt", Preparations, OfCommand)
Sendable(t)  == Splits(t, "send", BeforeSend, InAttempt)
Finding(t)   == Splits(t, "findPoll", {"resolve", "connect", "warmup"},
                       {"mark", "attempt"} \cup OfCommand)

\* What a send that reports success must have recorded, and when it has.
Required ==
    IF sendKind \in Statuses THEN {"status"}
    ELSE {"chat", "message"} \cup (IF sendKind = "poll" THEN {"poll"} ELSE {})
                             \cup (IF sendKind = "vote" THEN {"vote"} ELSE {})

Recorded(s) ==
    CASE s = "chat"    -> RecordName \in outChats
      [] s = "message" -> outRow[RecordName] # NULL
      [] s = "poll"    -> RecordName \in outPolls
      [] s = "vote"    -> RecordName \in outVotes
      [] OTHER         -> outStatus

SenderRecord ==
    [todo : Seq(SendSteps), at : {"steps", "waiting", "done"},
     attempt : AttemptNumbers]

Results == {"none", "running", "ok", "error", "retryable"}

SendTyped ==
    /\ OutboundTypeOK
    /\ sender \in SenderRecord
    /\ attempts \in [AttemptNumbers ->
                       [todo : Seq(SendSteps), media : Media \cup {NULL},
                        result : Results]]
    /\ phoneEvent \in [at : {"idle", "chat", "row"}, name : OutNames,
                       event : {"edit", "revoke"}]
    /\ phoneSaid \subseteq OutNames \X {"edit", "revoke"}
    /\ reported \in {"none", "sent", "error"}

\* The goroutine of an attempt: what it has accepted is what it is past, and
\* the second one follows only an attempt that sent nothing.
AttemptInv ==
    /\ \A n \in AttemptNumbers :
         LET a == attempts[n] IN
           /\ a.result = "running" /\ n \in sent =>
                a.todo # <<>> /\ Rest(a.todo) \subseteq InAttempt
           /\ a.result = "running" /\ n \notin sent => Sendable(a.todo)
           /\ a.result # "running" => a.todo = <<>>
           /\ a.result = "ok" => n \in sent
           /\ a.result \in {"none", "retryable"} => n \notin sent
           /\ a.media \in {NULL, Uploads[n]}
    /\ attempts[2].result # "none" => attempts[1].result = "retryable"

\* The command: before the attempt nothing has happened, after it the message
\* was accepted.
SenderInv ==
    LET a == attempts[sender.attempt]   t == sender.todo IN
    /\ sender.at = "waiting" =>
         a.result # "none" /\ t # <<>> /\ Head(t) = "attempt"
    /\ sender.at = "waiting" \/ "attempt" \in Rest(t) => Preparing(t)
    /\ sender.at = "steps" /\ "attempt" \in Rest(t) =>
         /\ sent = {}
         /\ \A n \in AttemptNumbers : attempts[n] = NoAttempt
    /\ sender.at = "steps" /\ "attempt" \notin Rest(t) =>
         a.result = "ok" /\ Rest(t) \subseteq OfCommand
    /\ sender.attempt = 1 => attempts[2].result = "none"
    /\ sender.at # "done" => reported = "none"

\* What is required is recorded or still to come.
RequiredInv ==
    LET a == attempts[sender.attempt]   t == sender.todo IN
    /\ "attempt" \in Rest(t) =>
         Required \subseteq Rest(t) \cup Rest(AttemptSteps)
    /\ sender.at = "waiting" /\ a.result \in {"running", "ok"} /\ ~lost =>
         \A s \in Required :
           Recorded(s) \/ s \in Rest(t) \/ s \in Rest(a.todo)
    /\ sender.at = "steps" /\ "attempt" \notin Rest(t) /\ ~lost =>
         \A s \in Required : Recorded(s) \/ s \in Rest(t)
    /\ reported = "sent" /\ ~lost => \A s \in Required : Recorded(s)

\* The poll a vote is for is found before anything is sent, by the name the
\* recipient then has.
FoundInv ==
    LET t == sender.todo IN
    sendKind = "vote" /\ sender.at # "done" =>
      /\ "findPoll" \in Rest(t) => Finding(t)
      /\ "findPoll" \notin Rest(t) =>
           /\ Rest(t) \subseteq {"mark", "attempt"} \cup OfCommand
           /\ foundAt \in OutNames
           /\ \/ foundAt \in outPolls \/ outPolls = {}
              \/ ~pairKnown /\ sendTo \notin outPolls

\* A row shows an edit of the phone, or the revocation that followed.
ShowsEdit(r) == r.revoked \/ (r.edited /\ r.text = EditedText)

\* A row of the sent message: what is revoked is blank, and only an edit of
\* the phone marks it edited.
SentRow(r) ==
    /\ Hidden(r) /\ ~r.deleted_for_me
    /\ r.revoked => r.media_key = NULL
    /\ r.edited => ShowsEdit(r)

\* The rows are of a message that was accepted, and the media column is the
\* upload of an accepted attempt.
RowsInv ==
    /\ \/ \E n \in OutNames : outRow[n] # NULL
       \/ outVotes # {} \/ outStatus
       \/ sendKind = "poll" /\ outPolls # {}
       \/ phoneEvent.at # "idle"
       => sent # {}
    /\ \A n \in OutNames : outRow[n] # NULL =>
         /\ SentRow(outRow[n])
         /\ outRow[n].media_key # NULL =>
              \E k \in sent : outRow[n].media_key = Uploads[k]
    /\ outVotes # {} => sendKind = "vote"

\* What the phone did to a row is still there.
PhoneInv ==
    \A n \in OutNames :
        /\ <<n, "revoke">> \in phoneSaid =>
             outRow[n] # NULL /\ outRow[n].revoked
        /\ <<n, "edit">> \in phoneSaid =>
             outRow[n] # NULL /\ ShowsEdit(outRow[n])

OutInv == /\ SendTyped /\ AttemptInv /\ SenderInv /\ RequiredInv /\ FoundInv
          /\ RowsInv /\ PhoneInv /\ VoteJoinsPoll

-----------------------------------------------------------------------------
(* Sequences of steps.                                                     *)

\* The head and the rest of a sequence of steps.
LEMMA HeadAndRest ==
    ASSUME NEW t \in Seq(SendSteps), t # <<>>
    PROVE  /\ Tail(t) \in Seq(SendSteps) /\ Head(t) \in Rest(t)
           /\ Rest(t) = {Head(t)} \cup Rest(Tail(t))
           /\ Len(t) = 1 => Tail(t) = <<>>
           /\ Len(t) # 1 => Tail(t) # <<>>
<1>1. /\ Len(t) \in Nat \ {0} /\ Head(t) = t[1] /\ Tail(t) \in Seq(SendSteps)
      /\ Len(Tail(t)) = Len(t) - 1
      /\ \A i \in 1 .. Len(t) - 1 : Tail(t)[i] = t[i + 1]
  OBVIOUS
<1>2. Rest(Tail(t)) \subseteq Rest(t)
  BY <1>1 DEF Rest
<1>3. ASSUME NEW i \in 1 .. Len(t), i # 1
      PROVE  t[i] \in Rest(Tail(t))
  <2>. DEFINE k == i - 1
  <2>1. k \in 1 .. Len(t) - 1 /\ k + 1 = i
    BY <1>1, <1>3
  <2>2. Tail(t)[k] = t[i]
    BY <1>1, <2>1
  <2>3. k \in 1 .. Len(Tail(t))
    BY <1>1, <2>1
  <2>. HIDE DEF k
  <2>. QED  BY <2>2, <2>3 DEF Rest
<1>4. Head(t) \in Rest(t)
  BY <1>1 DEF Rest
<1>5. Rest(t) \subseteq {Head(t)} \cup Rest(Tail(t))
  BY <1>1, <1>3 DEF Rest
<1>6. ASSUME Len(t) = 1
      PROVE  Tail(t) = <<>>
  <2>. DEFINE u == Tail(t)
  <2>1. u \in Seq(SendSteps) /\ Len(u) = 0
    BY <1>1, <1>6
  <2>. HIDE DEF u
  <2>2. u = <<>>
    BY <2>1
  <2>. QED  BY <2>2 DEF u
<1>7. ASSUME Len(t) # 1
      PROVE  Tail(t) # <<>>
  <2>. DEFINE u == Tail(t)
  <2>1. Len(u) # 0
    BY <1>1, <1>7
  <2>2. Len(<<>>) = 0
    OBVIOUS
  <2>. HIDE DEF u
  <2>3. u # <<>>
    BY <2>1, <2>2
  <2>. QED  BY <2>3 DEF u
<1>. QED  BY <1>1, <1>2, <1>4, <1>5, <1>6, <1>7

\* Where the head is not x, x is still split in the same way; where it is,
\* only steps of S are left.
LEMMA SplitHead ==
    ASSUME NEW t \in Seq(SendSteps), NEW x, NEW A, NEW S,
           x \notin A, x \notin S, Splits(t, x, A, S)
    PROVE  /\ t # <<>> /\ x \in Rest(t)
           /\ Head(t) = x => Rest(Tail(t)) \subseteq S
           /\ Head(t) # x => /\ Head(t) \in A /\ Len(t) # 1
                             /\ Splits(Tail(t), x, A, S)
<1>1. PICK i \in 1 .. Len(t) :
        /\ t[i] = x
        /\ \A j \in 1 .. Len(t) :
             (j < i => t[j] \in A) /\ (j > i => t[j] \in S)
  BY DEF Splits
<1>2. t # <<>>
  BY <1>1
<1>3. /\ Len(t) \in Nat \ {0} /\ Head(t) = t[1] /\ Tail(t) \in Seq(SendSteps)
      /\ Len(Tail(t)) = Len(t) - 1
      /\ \A j \in 1 .. Len(t) - 1 : Tail(t)[j] = t[j + 1]
  BY <1>2
<1>4. ASSUME NEW j \in 1 .. Len(Tail(t))
      PROVE  j + 1 \in 1 .. Len(t) /\ Tail(t)[j] = t[j + 1] /\ j + 1 > 1
  BY <1>3
<1>5. x \in Rest(t)
  BY <1>1 DEF Rest
<1>6. CASE i = 1
  <2>1. Head(t) = x
    BY <1>1, <1>3, <1>6
  <2>2. ASSUME NEW j \in 1 .. Len(Tail(t))
        PROVE  Tail(t)[j] \in S
    BY <1>1, <1>4, <1>6
  <2>. QED  BY <1>2, <1>5, <2>1, <2>2 DEF Rest
<1>7. CASE i # 1
  <2>1. 1 \in 1 .. Len(t) /\ 1 < i /\ Len(t) # 1 /\ i \in Nat
    BY <1>1, <1>3, <1>7
  <2>2. Head(t) \in A /\ Head(t) # x
    BY <1>1, <1>3, <2>1
  <2>. DEFINE k == i - 1
  <2>3. k \in 1 .. Len(Tail(t)) /\ k + 1 = i
    BY <1>3, <2>1
  <2>4. Tail(t)[k] = x
    BY <1>1, <1>4, <2>3
  <2>5. ASSUME NEW j \in 1 .. Len(Tail(t))
        PROVE  /\ j < k => Tail(t)[j] \in A
               /\ j > k => Tail(t)[j] \in S
    <3>1. (j < k => j + 1 < i) /\ (j > k => j + 1 > i)
      BY <2>1
    <3>. HIDE DEF k
    <3>. QED  BY <1>1, <1>4, <3>1
  <2>. HIDE DEF k
  <2>6. Splits(Tail(t), x, A, S)
    BY <2>3, <2>4, <2>5 DEF Splits
  <2>. QED  BY <1>2, <1>5, <2>1, <2>2, <2>6
<1>. QED  BY <1>6, <1>7

\* The steps of two sequences in a row.
LEMMA Joined ==
    ASSUME NEW s \in Seq(SendSteps), NEW t \in Seq(SendSteps)
    PROVE  /\ s \o t \in Seq(SendSteps) /\ Len(s \o t) = Len(s) + Len(t)
           /\ \A i \in 1 .. Len(s) : (s \o t)[i] = s[i]
           /\ \A i \in 1 .. Len(t) : (s \o t)[Len(s) + i] = t[i]
           /\ \A j \in 1 .. Len(s \o t) :
                \/ j \in 1 .. Len(s) /\ (s \o t)[j] = s[j]
                \/ \E i \in 1 .. Len(t) : j = Len(s) + i /\ (s \o t)[j] = t[i]
           /\ Rest(s \o t) = Rest(s) \cup Rest(t)
<1>1. s \o t \in Seq(SendSteps) /\ Len(s \o t) = Len(s) + Len(t)
      /\ Len(s) \in Nat /\ Len(t) \in Nat
  OBVIOUS
<1>2. \A i \in 1 .. Len(s) : (s \o t)[i] = s[i]
  OBVIOUS
<1>3. ASSUME NEW i \in 1 .. Len(t)
      PROVE  (s \o t)[Len(s) + i] = t[i] /\ Len(s) + i \in 1 .. Len(s \o t)
  BY <1>1
<1>4. ASSUME NEW j \in 1 .. Len(s \o t), j \notin 1 .. Len(s)
      PROVE  \E i \in 1 .. Len(t) : j = Len(s) + i /\ (s \o t)[j] = t[i]
  <2>. DEFINE k == j - Len(s)
  <2>1. k \in 1 .. Len(t) /\ j = Len(s) + k
    BY <1>1, <1>4
  <2>. HIDE DEF k
  <2>. QED  BY <1>3, <2>1
<1>5. \A j \in 1 .. Len(s \o t) :
                \/ j \in 1 .. Len(s) /\ (s \o t)[j] = s[j]
                \/ \E i \in 1 .. Len(t) : j = Len(s) + i /\ (s \o t)[j] = t[i]
  BY <1>2, <1>4
<1>6. Rest(s \o t) \subseteq Rest(s) \cup Rest(t)
  BY <1>5 DEF Rest
<1>7. Rest(s) \subseteq Rest(s \o t)
  <2>1. 1 .. Len(s) \subseteq 1 .. Len(s \o t)
    BY <1>1
  <2>. QED  BY <1>2, <2>1 DEF Rest
<1>8. Rest(t) \subseteq Rest(s \o t)
  BY <1>3 DEF Rest
<1>. QED  BY <1>1, <1>2, <1>3, <1>5, <1>6, <1>7, <1>8

\* What is put before or after a split sequence.
LEMMA SplitAfter ==
    ASSUME NEW s \in Seq(SendSteps), NEW t \in Seq(SendSteps), NEW x, NEW A,
           NEW S,
           Rest(s) \subseteq A, Splits(t, x, A, S)
    PROVE  Splits(s \o t, x, A, S)
<1>1. PICK i \in 1 .. Len(t) :
        /\ t[i] = x
        /\ \A j \in 1 .. Len(t) :
             (j < i => t[j] \in A) /\ (j > i => t[j] \in S)
  BY DEF Splits
<1>2. Len(s) \in Nat /\ Len(t) \in Nat /\ Len(s \o t) = Len(s) + Len(t)
  OBVIOUS
<1>. DEFINE k == Len(s) + i
<1>3. k \in 1 .. Len(s \o t)
  BY <1>2
<1>4. (s \o t)[k] = x
  BY <1>1, Joined
<1>5. ASSUME NEW j \in 1 .. Len(s \o t)
      PROVE  (j < k => (s \o t)[j] \in A) /\ (j > k => (s \o t)[j] \in S)
  <2>1. CASE j \in 1 .. Len(s) /\ (s \o t)[j] = s[j]
    <3>1. (s \o t)[j] \in A
      BY <2>1 DEF Rest
    <3>2. ~ (j > k)
      BY <2>1, <1>2
    <3>. QED  BY <3>1, <3>2
  <2>2. ASSUME NEW h \in 1 .. Len(t), j = Len(s) + h, (s \o t)[j] = t[h]
        PROVE  (j < k => (s \o t)[j] \in A) /\ (j > k => (s \o t)[j] \in S)
    <3>1. (j < k => h < i) /\ (j > k => h > i)
      BY <2>2, <1>2
    <3>. HIDE DEF k
    <3>. QED  BY <1>1, <2>2, <3>1
  <2>. HIDE DEF k
  <2>. QED  BY <2>1, <2>2, Joined
<1>. HIDE DEF k
<1>. QED  BY <1>3, <1>4, <1>5 DEF Splits

\* Steps of S may follow what x splits.
LEMMA SplitBefore ==
    ASSUME NEW s \in Seq(SendSteps), NEW t \in Seq(SendSteps), NEW x, NEW A,
           NEW S,
           Splits(s, x, A, S), Rest(t) \subseteq S
    PROVE  Splits(s \o t, x, A, S)
<1>1. PICK i \in 1 .. Len(s) :
        /\ s[i] = x
        /\ \A j \in 1 .. Len(s) :
             (j < i => s[j] \in A) /\ (j > i => s[j] \in S)
  BY DEF Splits
<1>2. Len(s) \in Nat /\ Len(t) \in Nat /\ Len(s \o t) = Len(s) + Len(t)
  OBVIOUS
<1>3. i \in 1 .. Len(s \o t)
  BY <1>2
<1>4. (s \o t)[i] = x
  BY <1>1, Joined
<1>5. ASSUME NEW j \in 1 .. Len(s \o t)
      PROVE  (j < i => (s \o t)[j] \in A) /\ (j > i => (s \o t)[j] \in S)
  <2>1. CASE j \in 1 .. Len(s) /\ (s \o t)[j] = s[j]
    BY <1>1, <2>1
  <2>2. ASSUME NEW h \in 1 .. Len(t), j = Len(s) + h, (s \o t)[j] = t[h]
        PROVE  (j < i => (s \o t)[j] \in A) /\ (j > i => (s \o t)[j] \in S)
    <3>1. ~ (j < i)
      BY <2>2, <1>2
    <3>2. (s \o t)[j] \in S
      BY <2>2 DEF Rest
    <3>. QED  BY <3>1, <3>2
  <2>. QED  BY <2>1, <2>2, Joined
<1>. QED  BY <1>3, <1>4, <1>5 DEF Splits

-----------------------------------------------------------------------------
(* The plan of each kind of command.                                       *)

\* A sequence split at its last step.
LEMMA SplitLast ==
    ASSUME NEW t \in Seq(SendSteps), NEW x, NEW A, NEW S, Len(t) # 0,
           t[Len(t)] = x, \A j \in 1 .. Len(t) : j # Len(t) => t[j] \in A
    PROVE  Splits(t, x, A, S)
<1>1. Len(t) \in Nat \ {0}
  OBVIOUS
<1>2. Len(t) \in 1 .. Len(t)
  BY <1>1
<1>3. \A j \in 1 .. Len(t) : (j < Len(t) => j # Len(t)) /\ ~ (j > Len(t))
  BY <1>1
<1>. QED  BY <1>2, <1>3 DEF Splits

\* The attempts send once, and record after it.
LEMMA AttemptIsSendable ==
    ASSUME sendKind \in OutboundKinds
    PROVE  AttemptSteps \in Seq(SendSteps) /\ Sendable(AttemptSteps)
<1>. DEFINE send1 == <<"send">>
<1>. DEFINE send2 == <<"prepare", "send">>
<1>. DEFINE send3 == <<"upload", "prepare", "send">>
<1>. DEFINE send4 == <<"prepare", "upload", "prepare", "send">>
<1>. DEFINE media == <<"chat", "message">>
<1>. DEFINE status == <<"status">>
<1>1. send1 \in Seq(SendSteps) /\ Sendable(send1)
  <2>1. /\ send1 \in Seq(SendSteps) /\ Len(send1) # 0
        /\ send1[Len(send1)] = "send"
    BY DEF SendSteps, BeforeSend
  <2>2. \A j \in 1 .. Len(send1) : j # Len(send1) => send1[j] \in BeforeSend
    BY DEF BeforeSend
  <2>. HIDE DEF send1
  <2>. QED  BY <2>1, <2>2, SplitLast DEF Sendable
<1>2. send2 \in Seq(SendSteps) /\ Sendable(send2)
  <2>1. /\ send2 \in Seq(SendSteps) /\ Len(send2) # 0
        /\ send2[Len(send2)] = "send"
    BY DEF SendSteps, BeforeSend
  <2>2. \A j \in 1 .. Len(send2) : j # Len(send2) => send2[j] \in BeforeSend
    BY DEF BeforeSend
  <2>. HIDE DEF send2
  <2>. QED  BY <2>1, <2>2, SplitLast DEF Sendable
<1>3. send3 \in Seq(SendSteps) /\ Sendable(send3)
  <2>1. /\ send3 \in Seq(SendSteps) /\ Len(send3) # 0
        /\ send3[Len(send3)] = "send"
    BY DEF SendSteps, BeforeSend
  <2>2. \A j \in 1 .. Len(send3) : j # Len(send3) => send3[j] \in BeforeSend
    BY DEF BeforeSend
  <2>. HIDE DEF send3
  <2>. QED  BY <2>1, <2>2, SplitLast DEF Sendable
<1>4. send4 \in Seq(SendSteps) /\ Sendable(send4)
  <2>1. /\ send4 \in Seq(SendSteps) /\ Len(send4) # 0
        /\ send4[Len(send4)] = "send"
    BY DEF SendSteps, BeforeSend
  <2>2. \A j \in 1 .. Len(send4) : j # Len(send4) => send4[j] \in BeforeSend
    BY DEF BeforeSend
  <2>. HIDE DEF send4
  <2>. QED  BY <2>1, <2>2, SplitLast DEF Sendable
<1>5. /\ media \in Seq(SendSteps) /\ Rest(media) \subseteq InAttempt
      /\ status \in Seq(SendSteps) /\ Rest(status) \subseteq InAttempt
  BY DEF Rest, InAttempt, SendSteps, Statements
<1>6. CASE sendKind = "text"
  <2>1. AttemptSteps = send2
    BY <1>6 DEF AttemptSteps, TextAttempt
  <2>. HIDE DEF send2
  <2>. QED  BY <1>2, <2>1
<1>7. CASE sendKind = "file"
  <2>1. AttemptSteps = send3 \o media
    BY <1>7 DEF AttemptSteps, FileAttempt, MediaRecord
  <2>. HIDE DEF send3, media
  <2>2. send3 \o media \in Seq(SendSteps)
    BY <1>3, <1>5
  <2>3. Sendable(send3 \o media)
    BY <1>3, <1>5, SplitBefore DEF Sendable
  <2>. QED  BY <2>1, <2>2, <2>3
<1>8. CASE sendKind = "status_file"
  <2>1. AttemptSteps = send3 \o status
    BY <1>8 DEF AttemptSteps, FileAttempt, StatusRecord
  <2>. HIDE DEF send3, status
  <2>2. send3 \o status \in Seq(SendSteps)
    BY <1>3, <1>5
  <2>3. Sendable(send3 \o status)
    BY <1>3, <1>5, SplitBefore DEF Sendable
  <2>. QED  BY <2>1, <2>2, <2>3
<1>9. CASE sendKind = "sticker"
  <2>1. AttemptSteps = send4 \o media
    BY <1>9 DEF AttemptSteps, StickerAttempt, StickerRecord
  <2>. HIDE DEF send4, media
  <2>2. send4 \o media \in Seq(SendSteps)
    BY <1>4, <1>5
  <2>3. Sendable(send4 \o media)
    BY <1>4, <1>5, SplitBefore DEF Sendable
  <2>. QED  BY <2>1, <2>2, <2>3
<1>10. CASE sendKind \notin {"text", "file", "status_file", "sticker"}
  <2>1. AttemptSteps = send1
    BY <1>10 DEF AttemptSteps, OtherAttempt
  <2>. HIDE DEF send1
  <2>. QED  BY <1>1, <2>1
<1>. QED  BY <1>6, <1>7, <1>8, <1>9, <1>10

\* The media kinds record in the attempt.
LEMMA AttemptRecords ==
    /\ sendKind \in {"file", "sticker"} =>
         {"chat", "message"} \subseteq Rest(AttemptSteps)
    /\ sendKind = "status_file" => "status" \in Rest(AttemptSteps)
<1>. DEFINE send3 == <<"upload", "prepare", "send">>
<1>. DEFINE send4 == <<"prepare", "upload", "prepare", "send">>
<1>. DEFINE media == <<"chat", "message">>
<1>. DEFINE status == <<"status">>
<1>1. send3 \in Seq(SendSteps) /\ send4 \in Seq(SendSteps)
  BY DEF SendSteps, BeforeSend
<1>2. /\ media \in Seq(SendSteps) /\ Rest(media) = {"chat", "message"}
      /\ status \in Seq(SendSteps) /\ Rest(status) = {"status"}
  BY DEF Rest, SendSteps, Statements
<1>3. /\ sendKind = "file" => AttemptSteps = send3 \o media
      /\ sendKind = "sticker" => AttemptSteps = send4 \o media
      /\ sendKind = "status_file" => AttemptSteps = send3 \o status
  BY DEF AttemptSteps, FileAttempt, StickerAttempt, MediaRecord,
         StickerRecord,
         StatusRecord
<1>. HIDE DEF send3, send4, media, status
<1>4. Rest(send3 \o media) = Rest(send3) \cup Rest(media)
  BY <1>1, <1>2, Joined
<1>5. Rest(send4 \o media) = Rest(send4) \cup Rest(media)
  BY <1>1, <1>2, Joined
<1>6. Rest(send3 \o status) = Rest(send3) \cup Rest(status)
  BY <1>1, <1>2, Joined
<1>. QED  BY <1>2, <1>3, <1>4, <1>5, <1>6

\* A command that prepares, attempts once and then records.
LEMMA PlanIsPreparing ==
    ASSUME NEW s \in Seq(SendSteps), Rest(s) \subseteq Preparations,
           NEW u \in Seq(SendSteps), Preparing(u),
           NEW r \in Seq(SendSteps), Rest(r) \subseteq OfCommand
    PROVE  /\ s \o u \o r \in Seq(SendSteps) /\ Preparing(s \o u \o r)
           /\ Rest(r) \subseteq Rest(s \o u \o r)
           /\ s \o u \in Seq(SendSteps) /\ Preparing(s \o u)
<1>1. s \o u \in Seq(SendSteps) /\ Preparing(s \o u)
  BY SplitAfter, Joined DEF Preparing
<1>. QED  BY <1>1, SplitBefore, Joined DEF Preparing

\* The steps of a command of each kind: one attempt, after the preparations
\* and before statements of this kind; what it has to record is among its own
\* steps or those of the attempt; a vote finds its poll after the warm-up.
PlanOf(t) ==
    /\ t \in Seq(SendSteps) /\ Preparing(t)
    /\ Required \subseteq Rest(t) \cup Rest(AttemptSteps)
    /\ sendKind = "vote" => Finding(t)

\* Every command, connecting first or not, has such a plan.
LEMMA PlanLemma ==
    ASSUME sendKind \in OutboundKinds,
           NEW connect \in {<<>>, <<"connect">>}
    PROVE  PlanOf(CommandSteps(connect)[sendKind])
<1>. DEFINE first == <<"resolve">>
<1>. DEFINE s == first \o connect
<1>. DEFINE plain == <<"warmup", "mark", "attempt">>
<1>. DEFINE vote == <<"warmup", "findPoll", "mark", "attempt">>
<1>. DEFINE target == <<"warmup", "findTarget", "mark", "attempt">>
<1>. DEFINE react == <<"resolve", "warmup", "mark", "attempt">>
<1>. DEFINE status == <<"mark", "attempt">>
<1>. DEFINE pair == <<"chat", "message">>
<1>. DEFINE withPoll == <<"chat", "message", "poll">>
<1>. DEFINE withVote == <<"chat", "message", "vote">>
<1>. DEFINE one == <<"status">>
<1>. DEFINE none == <<>>
<1>1. connect \in Seq(SendSteps) /\ Rest(connect) \subseteq {"connect"}
  <2>1. <<>> \in Seq(SendSteps) /\ Rest(<<>>) \subseteq {"connect"}
    BY DEF Rest
  <2>2. <<"connect">> \in Seq(SendSteps)
    BY DEF SendSteps, Preparations
  <2>3. Rest(<<"connect">>) \subseteq {"connect"}
    BY DEF Rest
  <2>. QED  BY <2>1, <2>2, <2>3
<1>2. first \in Seq(SendSteps) /\ Rest(first) = {"resolve"}
  BY DEF Rest, SendSteps, Preparations
<1>. HIDE DEF first
<1>3. s \in Seq(SendSteps) /\ Rest(s) \subseteq {"resolve", "connect"}
  BY <1>1, <1>2, Joined
<1>4. Rest(s) \subseteq Preparations /\ Rest(connect) \subseteq Preparations
  BY <1>1, <1>3 DEF Preparations
<1>5. plain \in Seq(SendSteps) /\ Preparing(plain)
  <2>1. /\ plain \in Seq(SendSteps) /\ Len(plain) # 0
        /\ plain[Len(plain)] = "attempt"
    BY DEF SendSteps, Preparations
  <2>2. \A j \in 1 .. Len(plain) :
          j # Len(plain) => plain[j] \in Preparations
    BY DEF Preparations
  <2>. HIDE DEF plain
  <2>. QED  BY <2>1, <2>2, SplitLast DEF Preparing
<1>6. vote \in Seq(SendSteps) /\ Preparing(vote)
  <2>1. /\ vote \in Seq(SendSteps) /\ Len(vote) # 0
        /\ vote[Len(vote)] = "attempt"
    BY DEF SendSteps, Preparations
  <2>2. \A j \in 1 .. Len(vote) :
          j # Len(vote) => vote[j] \in Preparations
    BY DEF Preparations
  <2>. HIDE DEF vote
  <2>. QED  BY <2>1, <2>2, SplitLast DEF Preparing
<1>7. target \in Seq(SendSteps) /\ Preparing(target)
  <2>1. /\ target \in Seq(SendSteps) /\ Len(target) # 0
        /\ target[Len(target)] = "attempt"
    BY DEF SendSteps, Preparations
  <2>2. \A j \in 1 .. Len(target) :
          j # Len(target) => target[j] \in Preparations
    BY DEF Preparations
  <2>. HIDE DEF target
  <2>. QED  BY <2>1, <2>2, SplitLast DEF Preparing
<1>8. react \in Seq(SendSteps) /\ Preparing(react)
  <2>1. /\ react \in Seq(SendSteps) /\ Len(react) # 0
        /\ react[Len(react)] = "attempt"
    BY DEF SendSteps, Preparations
  <2>2. \A j \in 1 .. Len(react) :
          j # Len(react) => react[j] \in Preparations
    BY DEF Preparations
  <2>. HIDE DEF react
  <2>. QED  BY <2>1, <2>2, SplitLast DEF Preparing
<1>9. status \in Seq(SendSteps) /\ Preparing(status)
  <2>1. /\ status \in Seq(SendSteps) /\ Len(status) # 0
        /\ status[Len(status)] = "attempt"
    BY DEF SendSteps, Preparations
  <2>2. \A j \in 1 .. Len(status) :
          j # Len(status) => status[j] \in Preparations
    BY DEF Preparations
  <2>. HIDE DEF status
  <2>. QED  BY <2>1, <2>2, SplitLast DEF Preparing
<1>10. pair \in Seq(SendSteps) /\ Rest(pair) = {"chat", "message"}
  BY DEF Rest, SendSteps, Statements
<1>11. /\ withPoll \in Seq(SendSteps)
       /\ Rest(withPoll) = {"chat", "message", "poll"}
  BY DEF Rest, SendSteps, Statements
<1>12. /\ withVote \in Seq(SendSteps)
       /\ Rest(withVote) = {"chat", "message", "vote"}
  BY DEF Rest, SendSteps, Statements
<1>13. one \in Seq(SendSteps) /\ Rest(one) = {"status"}
  BY DEF Rest, SendSteps, Statements
<1>14. none \in Seq(SendSteps) /\ Rest(none) = {}
  BY DEF Rest, SendSteps, Statements
<1>15. sendKind = "vote" => Finding(vote)
  <2>1. /\ Len(vote) = 4 /\ vote[1] = "warmup" /\ vote[2] = "findPoll"
        /\ vote[3] = "mark" /\ vote[4] = "attempt"
    OBVIOUS
  <2>. HIDE DEF vote
  <2>2. \A j \in 1 .. 4 :
          /\ j < 2 => vote[j] \in {"resolve", "connect", "warmup"}
          /\ j > 2 => vote[j] \in {"mark", "attempt"} \cup OfCommand
    <3>1. \A j \in 1 .. 4 : j = 1 \/ j = 2 \/ j = 3 \/ j = 4
      OBVIOUS
    <3>. QED  BY <2>1, <3>1
  <2>. QED  BY <2>1, <2>2 DEF Finding, Splits
<1>16. CASE sendKind = "text"
  <2>1. CommandSteps(connect)[sendKind] = s \o plain \o pair
    BY <1>16 DEF CommandSteps, TextCommand, TextRecord, first
  <2>2. Required = {"chat", "message"}
    BY <1>16 DEF Required, Statuses
  <2>3. Rest(pair) \subseteq OfCommand
    BY <1>10, <1>16 DEF OfCommand, InAttempt
  <2>. HIDE DEF s, plain, vote, target, react, status, pair, withPoll,
                withVote, one, none
  <2>4. /\ s \o plain \o pair \in Seq(SendSteps)
        /\ Preparing(s \o plain \o pair)
        /\ Rest(pair) \subseteq Rest(s \o plain \o pair)
    BY <1>3, <1>4, <1>5, <1>10, <2>3, PlanIsPreparing
  <2>. QED  BY <2>1, <2>2, <2>4, <1>10, <1>16 DEF PlanOf
<1>17. CASE sendKind = "select"
  <2>1. CommandSteps(connect)[sendKind] = s \o target \o pair
    BY <1>17 DEF CommandSteps, SelectCommand, SelectionRecord, first
  <2>2. Required = {"chat", "message"}
    BY <1>17 DEF Required, Statuses
  <2>3. Rest(pair) \subseteq OfCommand
    BY <1>10, <1>17 DEF OfCommand, InAttempt
  <2>. HIDE DEF s, plain, vote, target, react, status, pair, withPoll,
                withVote, one, none
  <2>4. /\ s \o target \o pair \in Seq(SendSteps)
        /\ Preparing(s \o target \o pair)
        /\ Rest(pair) \subseteq Rest(s \o target \o pair)
    BY <1>3, <1>4, <1>7, <1>10, <2>3, PlanIsPreparing
  <2>. QED  BY <2>1, <2>2, <2>4, <1>10, <1>17 DEF PlanOf
<1>18. CASE sendKind = "react"
  <2>1. CommandSteps(connect)[sendKind] = connect \o react \o pair
    BY <1>18 DEF CommandSteps, ReactCommand, ReactionRecord, first
  <2>2. Required = {"chat", "message"}
    BY <1>18 DEF Required, Statuses
  <2>3. Rest(pair) \subseteq OfCommand
    BY <1>10, <1>18 DEF OfCommand, InAttempt
  <2>. HIDE DEF s, plain, vote, target, react, status, pair, withPoll,
                withVote, one, none
  <2>4. /\ connect \o react \o pair \in Seq(SendSteps)
        /\ Preparing(connect \o react \o pair)
        /\ Rest(pair) \subseteq Rest(connect \o react \o pair)
    BY <1>1, <1>4, <1>8, <1>10, <2>3, PlanIsPreparing
  <2>. QED  BY <2>1, <2>2, <2>4, <1>10, <1>18 DEF PlanOf
<1>19. CASE sendKind = "poll"
  <2>1. CommandSteps(connect)[sendKind] = s \o plain \o withPoll
    BY <1>19 DEF CommandSteps, PollCommand, PollRecord, first
  <2>2. Required = {"chat", "message", "poll"}
    BY <1>19 DEF Required, Statuses
  <2>3. Rest(withPoll) \subseteq OfCommand
    BY <1>11, <1>19 DEF OfCommand, InAttempt
  <2>. HIDE DEF s, plain, vote, target, react, status, pair, withPoll,
                withVote, one, none
  <2>4. /\ s \o plain \o withPoll \in Seq(SendSteps)
        /\ Preparing(s \o plain \o withPoll)
        /\ Rest(withPoll) \subseteq Rest(s \o plain \o withPoll)
    BY <1>3, <1>4, <1>5, <1>11, <2>3, PlanIsPreparing
  <2>. QED  BY <2>1, <2>2, <2>4, <1>11, <1>19 DEF PlanOf
<1>20. CASE sendKind = "vote"
  <2>1. CommandSteps(connect)[sendKind] = s \o vote \o withVote
    BY <1>20 DEF CommandSteps, VoteCommand, VoteRecord, first
  <2>2. Required = {"chat", "message", "vote"}
    BY <1>20 DEF Required, Statuses
  <2>3. Rest(withVote) \subseteq OfCommand
    BY <1>12, <1>20 DEF OfCommand, InAttempt
  <2>. HIDE DEF s, plain, vote, target, react, status, pair, withPoll,
                withVote, one, none
  <2>4. /\ s \o vote \o withVote \in Seq(SendSteps)
        /\ Preparing(s \o vote \o withVote)
        /\ Rest(withVote) \subseteq Rest(s \o vote \o withVote)
    BY <1>3, <1>4, <1>6, <1>12, <2>3, PlanIsPreparing
  <2>5. Finding(s \o vote) /\ s \o vote \in Seq(SendSteps)
    BY <1>3, <1>6, <1>15, <1>20, SplitAfter, Joined DEF Finding
  <2>6. Finding(s \o vote \o withVote)
    BY <1>12, <2>3, <2>5, SplitBefore DEF Finding
  <2>. QED  BY <2>1, <2>2, <2>4, <1>12, <1>20, <2>6 DEF PlanOf
<1>21. CASE sendKind = "status_text"
  <2>1. CommandSteps(connect)[sendKind] = connect \o status \o one
    BY <1>21 DEF CommandSteps, StatusCommand, StatusRecord, first
  <2>2. Required = {"status"}
    BY <1>21 DEF Required, Statuses
  <2>3. Rest(one) \subseteq OfCommand
    BY <1>13, <1>21 DEF OfCommand, InAttempt
  <2>. HIDE DEF s, plain, vote, target, react, status, pair, withPoll,
                withVote, one, none
  <2>4. /\ connect \o status \o one \in Seq(SendSteps)
        /\ Preparing(connect \o status \o one)
        /\ Rest(one) \subseteq Rest(connect \o status \o one)
    BY <1>1, <1>4, <1>9, <1>13, <2>3, PlanIsPreparing
  <2>. QED  BY <2>1, <2>2, <2>4, <1>13, <1>21 DEF PlanOf
<1>22. CASE sendKind = "status_file"
  <2>1. CommandSteps(connect)[sendKind] = connect \o status \o none
    BY <1>22 DEF CommandSteps, StatusCommand, first
  <2>2. Required = {"status"}
    BY <1>22 DEF Required, Statuses
  <2>3. Rest(none) \subseteq OfCommand
    BY <1>14, <1>22 DEF OfCommand, InAttempt
  <2>. HIDE DEF s, plain, vote, target, react, status, pair, withPoll,
                withVote, one, none
  <2>4. /\ connect \o status \o none \in Seq(SendSteps)
        /\ Preparing(connect \o status \o none)
        /\ Rest(none) \subseteq Rest(connect \o status \o none)
    BY <1>1, <1>4, <1>9, <1>14, <2>3, PlanIsPreparing
  <2>. QED  BY <2>1, <2>2, <2>4, AttemptRecords, <1>22 DEF PlanOf
<1>23. CASE sendKind = "file"
  <2>1. CommandSteps(connect)[sendKind] = s \o plain
    BY <1>23 DEF CommandSteps, FileCommand, first
  <2>2. Required = {"chat", "message"}
    BY <1>23 DEF Required, Statuses
  <2>. HIDE DEF s, plain, vote, target, react, status, pair, withPoll,
                withVote, one, none
  <2>4. /\ s \o plain \in Seq(SendSteps) /\ Preparing(s \o plain)
    BY <1>3, <1>4, <1>5, <1>14, PlanIsPreparing
  <2>. QED  BY <2>1, <2>2, <2>4, AttemptRecords, <1>23 DEF PlanOf
<1>24. CASE sendKind = "sticker"
  <2>1. CommandSteps(connect)[sendKind] = s \o plain
    BY <1>24 DEF CommandSteps, StickerCommand, first
  <2>2. Required = {"chat", "message"}
    BY <1>24 DEF Required, Statuses
  <2>. HIDE DEF s, plain, vote, target, react, status, pair, withPoll,
                withVote, one, none
  <2>4. /\ s \o plain \in Seq(SendSteps) /\ Preparing(s \o plain)
    BY <1>3, <1>4, <1>5, <1>14, PlanIsPreparing
  <2>. QED  BY <2>1, <2>2, <2>4, AttemptRecords, <1>24 DEF PlanOf
<1>. QED
  BY <1>16, <1>17, <1>18, <1>19, <1>20, <1>21, <1>22, <1>23, <1>24
  DEF OutboundKinds

-----------------------------------------------------------------------------
(* The row of the sent message.                                            *)

\* What a statement about the message leaves in its rows: nothing of the row
\* is taken back, and the media column is the old one or the new one.
RowsKeep ==
    \A n \in OutNames : outRow[n] # NULL =>
        /\ outRow'[n] # NULL
        /\ outRow[n].revoked => outRow'[n].revoked
        /\ ShowsEdit(outRow[n]) => ShowsEdit(outRow'[n])

RowsBecome(media) ==
    \A n \in OutNames : outRow'[n] # NULL =>
        /\ SentRow(outRow'[n])
        /\ outRow'[n].media_key # NULL =>
             \/ outRow'[n].media_key = media
             \/ \E k \in sent : outRow'[n].media_key = Uploads[k]

\* What a row becomes when it is inserted, or merged into old.
Shown(old, c, n) ==
    /\ n \in Row /\ SentRow(n)
    /\ n.media_key \in {NULL, c.media} \cup
                       (IF old = NULL THEN {} ELSE {old.media_key})
    /\ c.revoked => n.revoked
    /\ c.edited => ShowsEdit(n)
    /\ old # NULL => /\ old.revoked => n.revoked
                     /\ ShowsEdit(old) => ShowsEdit(n)

SentContent(c) ==
    /\ c \in Content /\ ~c.deleted_for_me
    /\ c.edited => c.text = EditedText /\ ~c.revoked
    /\ c.revoked => c.media = NULL

\* The row an INSERT makes of what a send or the phone stores.
LEMMA InsertedSentRow ==
    ASSUME NEW c, SentContent(c)
    PROVE  Shown(NULL, c, Excluded(c))
<1>. DEFINE n == Excluded(c)
<1>1. c \in Content
  BY DEF SentContent
<1>2. n \in Row /\ Hidden(n)
  BY <1>1, ExcludedRow
<1>3. /\ n.deleted_for_me = c.deleted_for_me /\ n.revoked = c.revoked
      /\ n.edited = c.edited
      /\ n.media_key = (IF Tombstone(c) THEN NULL ELSE c.media)
      /\ n.text = (IF Tombstone(c) THEN NULL ELSE c.text)
  BY DEF Excluded
<1>. HIDE DEF n
<1>4. SentRow(n)
  BY <1>2, <1>3 DEF SentRow, SentContent, ShowsEdit, Tombstone
<1>5. c.edited => ShowsEdit(n)
  BY <1>3 DEF SentContent, ShowsEdit, Tombstone
<1>6. Shown(NULL, c, n)
  BY <1>2, <1>3, <1>4, <1>5 DEF Shown
<1>. QED  BY <1>6 DEF n

\* The same content merged into a row that is there.
LEMMA MergedSentRow ==
    ASSUME NEW old \in Row, SentRow(old), NEW c, SentContent(c)
    PROVE  Shown(old, c, OnConflict(old, Excluded(c)))
<1>. DEFINE x == Excluded(c)   n == OnConflict(old, x)
<1>1. c \in Content
  BY DEF SentContent
<1>2. x \in Row /\ Hidden(x) /\ Hidden(old)
  BY <1>1, ExcludedRow DEF SentRow
<1>3. /\ x.deleted_for_me = c.deleted_for_me /\ x.revoked = c.revoked
      /\ x.edited = c.edited
      /\ x.media_key = (IF Tombstone(c) THEN NULL ELSE c.media)
      /\ x.text = (IF Tombstone(c) THEN NULL ELSE c.text)
  BY DEF Excluded
<1>. HIDE DEF x
<1>4. n \in Row /\ Hidden(n)
  BY <1>2, OnConflictRow
<1>5. /\ n.revoked = (old.revoked \/ x.revoked)
      /\ n.deleted_for_me = (old.deleted_for_me \/ x.deleted_for_me)
      /\ n.edited = (~Tombstone(x) /\ (x.edited \/ old.edited))
      /\ n.text = MergedBody(old, x, old.text, x.text)
      /\ n.media_key = MergedOrOld(old, x, old.media_key, x.media_key)
  BY DEF OnConflict
<1>. HIDE DEF n
<1>6. n.revoked <=> old.revoked \/ c.revoked
  BY <1>3, <1>5
<1>7. ~n.deleted_for_me
  BY <1>3, <1>5 DEF SentContent, SentRow
<1>8. n.media_key \in {NULL, c.media, old.media_key}
  BY <1>3, <1>5 DEF MergedOrOld, MergedBody
<1>9. n.revoked => n.media_key = NULL
  BY <1>3, <1>5, <1>6 DEF MergedOrOld, MergedBody, Tombstone
<1>10. ASSUME ~n.revoked, c.edited \/ old.edited
       PROVE  n.edited /\ n.text = EditedText
  <2>1. ~Tombstone(old) /\ ~Tombstone(x) /\ ~Tombstone(c)
    BY <1>3, <1>6, <1>10 DEF SentRow, SentContent, Tombstone
  <2>2. n.edited
    BY <1>3, <1>5, <1>10, <2>1
  <2>3. old.edited => old.text = EditedText
    BY <1>6, <1>10 DEF SentRow, ShowsEdit
  <2>4. c.edited => x.text = EditedText
    BY <1>3, <2>1 DEF SentContent
  <2>5. n.text = IF Stale(old, x) THEN old.text ELSE x.text
    BY <1>5, <2>1 DEF MergedBody
  <2>6. CASE c.edited
    <3>1. Stale(old, x) => old.edited
      BY <1>3, <2>6 DEF Stale
    <3>. QED  BY <2>2, <2>3, <2>4, <2>5, <2>6, <3>1
  <2>7. CASE ~c.edited
    <3>1. Stale(old, x)
      BY <1>3, <1>10, <2>7 DEF Stale
    <3>. QED  BY <1>10, <2>2, <2>3, <2>5, <2>7, <3>1
  <2>. QED  BY <2>6, <2>7
<1>11. c.edited \/ old.edited => ShowsEdit(n)
  BY <1>10 DEF ShowsEdit
<1>12. n.edited => c.edited \/ old.edited
  BY <1>3, <1>5
<1>13. SentRow(n)
  BY <1>4, <1>7, <1>9, <1>11, <1>12 DEF SentRow
<1>14. ShowsEdit(old) => ShowsEdit(n)
  BY <1>6, <1>11 DEF ShowsEdit
<1>15. old # NULL
  BY NullAssumption
<1>16. Shown(old, c, n)
  BY <1>4, <1>6, <1>8, <1>11, <1>13, <1>14, <1>15 DEF Shown
<1>. QED  BY <1>16 DEF n, x

\* The statement that writes a row.
LEMMA WrittenRow ==
    ASSUME outRow \in [OutNames -> Row \cup {NULL}], RowsInv,
           NEW name \in OutNames, NEW c, SentContent(c), WriteOutRow(name, c)
    PROVE  /\ outRow' \in [OutNames -> Row \cup {NULL}]
           /\ RowsKeep /\ RowsBecome(c.media)
           /\ outRow'[name] # NULL
           /\ c.revoked => outRow'[name].revoked
           /\ c.edited => ShowsEdit(outRow'[name])
<1>. DEFINE old == outRow[name]
<1>. DEFINE n == IF old = NULL THEN Excluded(c)
                 ELSE OnConflict(old, Excluded(c))
<1>1. outRow' = [outRow EXCEPT ![name] = n]
  BY DEF WriteOutRow
<1>2. old \in Row \cup {NULL}
  OBVIOUS
<1>3. old # NULL => SentRow(old) /\ old \in Row
  BY DEF RowsInv
<1>4. Shown(old, c, n)
  BY <1>3, InsertedSentRow, MergedSentRow
<1>. HIDE DEF n
<1>5. outRow'[name] = n /\ n \in Row /\ n # NULL
  BY <1>1, <1>4, NullAssumption DEF Shown
<1>6. \A m \in OutNames : m # name => outRow'[m] = outRow[m]
  BY <1>1
<1>7. outRow' \in [OutNames -> Row \cup {NULL}]
  BY <1>1, <1>5
<1>8. RowsKeep
  BY <1>4, <1>5, <1>6 DEF RowsKeep, Shown
<1>9. RowsBecome(c.media)
  <2>1. ASSUME NEW m \in OutNames, m # name, outRow'[m] # NULL
        PROVE  /\ SentRow(outRow'[m])
               /\ outRow'[m].media_key # NULL =>
                    \E k \in sent : outRow'[m].media_key = Uploads[k]
    BY <1>6, <2>1 DEF RowsInv
  <2>2. /\ SentRow(n)
        /\ n.media_key # NULL => \/ n.media_key = c.media
                                 \/ \E k \in sent : n.media_key = Uploads[k]
    BY <1>4 DEF Shown, RowsInv
  <2>. QED  BY <1>5, <2>1, <2>2 DEF RowsBecome
<1>. QED  BY <1>4, <1>5, <1>7, <1>8, <1>9 DEF Shown

\* The contents of the send and of the phone's events.
LEMMA SentBodyIsContent ==
    ASSUME NEW event \in {"send", "edit", "revoke"}, NEW now \in SendTimes,
           NEW media \in Media \cup {NULL}, event # "send" => media = NULL
    PROVE  LET c == SentBody(event, media, now) IN
             /\ SentContent(c) /\ c.media = media
             /\ c.edited = (event = "edit") /\ c.revoked = (event = "revoke")
<1>. DEFINE c == SentBody(event, media, now)
<1>1. /\ c.edited = (event = "edit") /\ c.revoked = (event = "revoke")
      /\ c.media = media /\ c.deleted_for_me = FALSE
      /\ event = "edit" => c.text = EditedText
  BY DEF SentBody
<1>2. c \in Content
  BY OutboundAssumption DEF SentBody, Content
<1>. HIDE DEF c
<1>3. SentContent(c)
  BY <1>1, <1>2 DEF SentContent
<1>4. /\ SentContent(c) /\ c.media = media
      /\ c.edited = (event = "edit") /\ c.revoked = (event = "revoke")
  BY <1>1, <1>3
<1>. QED  BY <1>4 DEF c

-----------------------------------------------------------------------------
(* The steps of the command.                                               *)

\* The step sets do not overlap.
LEMMA StepSets ==
    /\ "attempt" \notin Preparations /\ "attempt" \notin OfCommand
    /\ "send" \notin BeforeSend /\ "send" \notin InAttempt
    /\ Preparations \cap OfCommand = {} /\ Required \cap Preparations = {}
    /\ Required \cap BeforeSend = {} /\ "send" \notin Required
    /\ "attempt" \notin Required
    /\ "findPoll" \notin {"resolve", "connect", "warmup"}
    /\ "findPoll" \notin {"mark", "attempt"} \cup OfCommand
<1>1. /\ "attempt" \notin Preparations /\ "attempt" \notin OfCommand
      /\ Preparations \cap OfCommand = {}
  BY DEF Preparations, OfCommand, InAttempt
<1>2. "send" \notin BeforeSend /\ "send" \notin InAttempt
  BY DEF BeforeSend, InAttempt
<1>3. Required \subseteq {"chat", "message", "poll", "vote", "status"}
  BY DEF Required
<1>4. /\ Required \cap Preparations = {} /\ Required \cap BeforeSend = {}
      /\ "send" \notin Required /\ "attempt" \notin Required
  BY <1>3 DEF Preparations, BeforeSend
<1>5. /\ "findPoll" \notin {"resolve", "connect", "warmup"}
      /\ "findPoll" \notin {"mark", "attempt"} \cup OfCommand
  BY <1>1 DEF Preparations
<1>. QED  BY <1>1, <1>2, <1>4, <1>5

\* What a command does is decided when it starts.
LEMMA SameKind ==
    ASSUME UNCHANGED sendKind
    PROVE  /\ OfCommand' = OfCommand /\ Required' = Required
           /\ AttemptSteps' = AttemptSteps
<1>1. OfCommand' = OfCommand
  BY DEF OfCommand
<1>2. Required' = Required
  BY DEF Required
<1>3. AttemptSteps' = AttemptSteps
  BY DEF AttemptSteps
<1>. QED  BY <1>1, <1>2, <1>3

\* The command before its attempt: nothing has happened yet.
LEMMA BeforeAttempt ==
    ASSUME SendTyped, SenderInv, sender.at = "steps", sender.todo # <<>>,
           Head(sender.todo) \in Preparations \cup {"attempt"}
    PROVE  LET t == sender.todo IN
             /\ t \in Seq(SendSteps) /\ "attempt" \in Rest(t) /\ Preparing(t)
             /\ sent = {} /\ \A n \in AttemptNumbers : attempts[n] = NoAttempt
             /\ Rest(t) = {Head(t)} \cup Rest(Tail(t))
             /\ Tail(t) \in Seq(SendSteps)
             /\ Head(t) # "attempt" =>
                  "attempt" \in Rest(Tail(t)) /\ Preparing(Tail(t))
<1>. DEFINE t == sender.todo
<1>1. t \in Seq(SendSteps) /\ t # <<>>
  BY DEF SendTyped, SenderRecord
<1>2. /\ Head(t) \in Rest(t) /\ Rest(t) = {Head(t)} \cup Rest(Tail(t))
      /\ Tail(t) \in Seq(SendSteps)
  BY <1>1, HeadAndRest
<1>3. "attempt" \in Rest(t)
  <2>1. Head(t) \notin OfCommand
    BY StepSets
  <2>. QED  BY <1>2, <2>1 DEF SenderInv
<1>4. /\ Preparing(t) /\ sent = {}
      /\ \A n \in AttemptNumbers : attempts[n] = NoAttempt
  BY <1>3 DEF SenderInv
<1>5. ASSUME Head(t) # "attempt"
      PROVE  "attempt" \in Rest(Tail(t)) /\ Preparing(Tail(t))
  <2>1. Preparing(Tail(t))
    BY <1>1, <1>4, <1>5, StepSets, SplitHead DEF Preparing
  <2>2. "attempt" \in Rest(Tail(t))
    BY <1>2, <2>1, StepSets, SplitHead DEF Preparing
  <2>. QED  BY <2>1, <2>2
<1>. QED  BY <1>1, <1>2, <1>3, <1>4, <1>5

\* One preparation done.
LEMMA PreparingMove ==
    ASSUME OutInv, sender.at = "steps", sender.todo # <<>>,
           Head(sender.todo) \in Preparations, NextStep,
           UNCHANGED <<scenario, attempts, hostUp, rows, phoneEvent, sent,
                       reported, lost, phoneSaid>>,
           sendTo' \in OutNames, foundAt' \in OutNames \cup {NULL}, FoundInv'
    PROVE  OutInv'
<1>. DEFINE t == sender.todo
<1>1. /\ t \in Seq(SendSteps) /\ "attempt" \in Rest(t) /\ Preparing(t)
      /\ sent = {} /\ \A n \in AttemptNumbers : attempts[n] = NoAttempt
      /\ Rest(t) = {Head(t)} \cup Rest(Tail(t)) /\ Tail(t) \in Seq(SendSteps)
      /\ "attempt" \in Rest(Tail(t)) /\ Preparing(Tail(t))
  BY BeforeAttempt, StepSets DEF OutInv
<1>2. /\ sender' \in SenderRecord
      /\ sender'.todo = Tail(t) /\ sender'.at = "steps"
      /\ sender'.attempt = sender.attempt
  BY <1>1 DEF OutInv, SendTyped, NextStep, SenderRecord
<1>3. /\ OfCommand' = OfCommand /\ Required' = Required
      /\ AttemptSteps' = AttemptSteps
  BY SameKind DEF scenario
<1>4. SendTyped'
  <2>1. OutboundTypeOK'
    BY <1>2 DEF OutInv, SendTyped, OutboundTypeOK, scenario, rows
  <2>. QED  BY <1>2, <2>1 DEF OutInv, SendTyped
<1>5. AttemptInv'
  BY DEF OutInv, AttemptInv
<1>6. SenderInv'
  BY <1>1, <1>2, <1>3 DEF OutInv, SenderInv, Preparing
<1>7. RequiredInv'
  <2>1. Required \subseteq Rest(Tail(t)) \cup Rest(AttemptSteps)
    BY <1>1, StepSets DEF OutInv, RequiredInv
  <2>2. reported' # "sent"
    BY DEF OutInv, SenderInv
  <2>. QED  BY <1>1, <1>2, <1>3, <2>1, <2>2 DEF RequiredInv
<1>8. RowsInv'
  BY DEF OutInv, RowsInv, scenario, rows
<1>9. PhoneInv'
  BY DEF OutInv, PhoneInv, rows
<1>10. VoteJoinsPoll'
  <2>1. outVotes = {}
    BY <1>1 DEF OutInv, RowsInv
  <2>. QED  BY <2>1 DEF VoteJoinsPoll, rows
<1>. QED  BY <1>4, <1>5, <1>6, <1>7, <1>8, <1>9, <1>10 DEF OutInv

\* What a preparation other than findPoll leaves of FoundInv: after findPoll
\* neither the warm-up nor the target's search follows.
LEMMA FoundMove ==
    ASSUME OutInv, sender.at = "steps", sender.todo # <<>>,
           Head(sender.todo) \in Preparations \ {"findPoll"}, NextStep,
           UNCHANGED <<scenario, rows>>,
           Head(sender.todo) # "warmup" => UNCHANGED sendTo,
           Head(sender.todo) # "findTarget" => UNCHANGED foundAt
    PROVE  FoundInv'
<1>. DEFINE t == sender.todo
<1>1. /\ t \in Seq(SendSteps) /\ Rest(t) = {Head(t)} \cup Rest(Tail(t))
  BY BeforeAttempt DEF OutInv
<1>2. sender'.todo = Tail(t) /\ sender'.at = "steps"
  BY DEF OutInv, SendTyped, NextStep
<1>3. OfCommand' = OfCommand
  BY SameKind DEF scenario
<1>4. sendKind' = sendKind
  BY DEF scenario
<1>5. ASSUME sendKind = "vote", "findPoll" \in Rest(Tail(t))
      PROVE  Finding(Tail(t))
  <2>1. Finding(t)
    BY <1>1, <1>5 DEF OutInv, FoundInv
  <2>. QED  BY <1>1, <2>1, StepSets, SplitHead DEF Finding
<1>6. ASSUME sendKind = "vote", "findPoll" \notin Rest(Tail(t))
      PROVE  /\ Rest(Tail(t)) \subseteq {"mark", "attempt"} \cup OfCommand
             /\ foundAt' \in OutNames
             /\ \/ foundAt' \in outPolls' \/ outPolls' = {}
                \/ ~pairKnown' /\ sendTo' \notin outPolls'
  <2>1. "findPoll" \notin Rest(t)
    BY <1>1, <1>6
  <2>2. /\ Rest(t) \subseteq {"mark", "attempt"} \cup OfCommand
        /\ foundAt \in OutNames
        /\ \/ foundAt \in outPolls \/ outPolls = {}
           \/ ~pairKnown /\ sendTo \notin outPolls
    BY <1>6, <2>1 DEF OutInv, FoundInv
  <2>3. Head(t) = "mark"
    BY <1>1, <2>2, StepSets
  <2>4. UNCHANGED <<sendTo, foundAt>>
    BY <2>3
  <2>. QED  BY <1>1, <2>2, <2>4 DEF scenario, rows
<1>. QED  BY <1>2, <1>3, <1>4, <1>5, <1>6 DEF FoundInv, Finding

\* The command gives up, or reports what it has done.
LEMMA ReturnMove ==
    ASSUME OutInv, sender.at # "done", NEW result, SendReturns(result),
           \/ result = "error"
           \/ result = "sent" /\ sender.at = "steps" /\ sender.todo = <<>>,
           UNCHANGED <<scenario, sendTo, foundAt, attempts, hostUp, rows,
                       phoneEvent, sent, lost, phoneSaid>>
    PROVE  OutInv'
<1>1. /\ sender' \in SenderRecord
      /\ sender'.todo = sender.todo /\ sender'.at = "done"
      /\ sender'.attempt = sender.attempt /\ reported' = result
  BY DEF OutInv, SendTyped, SendReturns, SenderRecord
<1>2. /\ OfCommand' = OfCommand /\ Required' = Required
      /\ AttemptSteps' = AttemptSteps
  BY SameKind DEF scenario
<1>3. SendTyped'
  <2>1. OutboundTypeOK'
    BY <1>1 DEF OutInv, SendTyped, OutboundTypeOK, scenario, rows
  <2>. QED  BY <1>1, <2>1 DEF OutInv, SendTyped
<1>4. AttemptInv'
  BY DEF OutInv, AttemptInv
<1>5. SenderInv'
  BY <1>1, <1>2 DEF OutInv, SenderInv, Preparing
<1>6. \A s : Recorded(s)' = Recorded(s)
  BY DEF Recorded, RecordName, CanonicalName, scenario, rows
<1>7. RequiredInv'
  <2>1. "attempt" \in Rest(sender.todo)
          => Required \subseteq Rest(sender.todo) \cup Rest(AttemptSteps)
    BY DEF OutInv, RequiredInv
  <2>2. ASSUME result = "sent", ~lost, NEW s \in Required
        PROVE  Recorded(s)
    <3>1. Rest(sender.todo) = {} /\ sender.at = "steps"
      BY <2>2 DEF Rest
    <3>. QED  BY <2>2, <3>1 DEF OutInv, RequiredInv
  <2>. QED  BY <1>1, <1>2, <1>6, <2>1, <2>2 DEF RequiredInv
<1>8. FoundInv'
  BY <1>1 DEF FoundInv
<1>9. RowsInv'
  BY DEF OutInv, RowsInv, scenario, rows
<1>10. PhoneInv'
  BY DEF OutInv, PhoneInv, rows
<1>11. VoteJoinsPoll'
  BY DEF OutInv, VoteJoinsPoll, scenario, rows
<1>. QED
  BY <1>3, <1>4, <1>5, <1>7, <1>8, <1>9, <1>10, <1>11 DEF OutInv

\* An attempt begins: the first one before anything was sent, the second one
\* after a first one that sent nothing.
LEMMA StartMove ==
    ASSUME OutInv, sendKind \in OutboundKinds, NEW n \in AttemptNumbers,
           StartAttempt(n), sender.todo # <<>>, Head(sender.todo) = "attempt",
           \/ n = 1 /\ sender.at = "steps"
           \/ /\ n = 2 /\ sender.at = "waiting" /\ sender.attempt = 1
              /\ attempts[1].result = "retryable",
           UNCHANGED <<scenario, sendTo, foundAt, hostUp, rows, phoneEvent,
                       sent, reported, lost, phoneSaid>>
    PROVE  OutInv'
<1>. DEFINE t == sender.todo
            b == [NoAttempt EXCEPT !.todo = AttemptSteps,
                                   !.result = "running"]
<1>1. /\ t \in Seq(SendSteps) /\ "attempt" \in Rest(t) /\ Preparing(t)
      /\ n \notin sent
      /\ n = 1 => attempts[2].result = "none"
      /\ n = 2 => attempts[1].result = "retryable"
  <2>1. CASE n = 1 /\ sender.at = "steps"
    <3>1. t \in Seq(SendSteps) /\ "attempt" \in Rest(t) /\ Preparing(t)
          /\ sent = {} /\ \A m \in AttemptNumbers : attempts[m] = NoAttempt
      BY <2>1, BeforeAttempt DEF OutInv
    <3>2. attempts[2].result = "none"
      BY <3>1 DEF AttemptNumbers, NoAttempt
    <3>. QED  BY <2>1, <3>1, <3>2
  <2>2. CASE /\ n = 2 /\ sender.at = "waiting" /\ sender.attempt = 1
             /\ attempts[1].result = "retryable"
    <3>1. t \in Seq(SendSteps)
      BY DEF OutInv, SendTyped, SenderRecord
    <3>2. "attempt" \in Rest(t) /\ Preparing(t)
      BY <2>2, <3>1, HeadAndRest DEF OutInv, SenderInv
    <3>3. 2 \notin sent
      BY <2>2 DEF OutInv, SenderInv, AttemptInv, AttemptNumbers
    <3>. QED  BY <2>2, <3>1, <3>2, <3>3
  <2>. QED  BY <2>1, <2>2
<1>2. AttemptSteps \in Seq(SendSteps) /\ Sendable(AttemptSteps)
  BY AttemptIsSendable
<1>3. attempts' = [attempts EXCEPT ![n] = b]
  BY DEF StartAttempt
<1>4. b \in [todo : Seq(SendSteps), media : Media \cup {NULL},
            result : Results]
  BY <1>2 DEF NoAttempt, Results
<1>5. b.todo = AttemptSteps /\ b.media = NULL /\ b.result = "running"
  BY DEF NoAttempt
<1>. HIDE DEF b
<1>6. attempts' \in [AttemptNumbers -> [todo : Seq(SendSteps),
                       media : Media \cup {NULL}, result : Results]]
  BY <1>3, <1>4 DEF OutInv, SendTyped
<1>7. /\ attempts'[n] = b
      /\ \A m \in AttemptNumbers : m # n => attempts'[m] = attempts[m]
  BY <1>3 DEF OutInv, SendTyped
<1>8. /\ sender' \in SenderRecord
      /\ sender'.todo = t /\ sender'.at = "waiting" /\ sender'.attempt = n
  BY DEF OutInv, SendTyped, StartAttempt, SenderRecord
<1>9. /\ OfCommand' = OfCommand /\ Required' = Required
      /\ AttemptSteps' = AttemptSteps
  BY SameKind DEF scenario
<1>10. SendTyped'
  <2>1. OutboundTypeOK'
    BY <1>6, <1>8 DEF OutInv, SendTyped, OutboundTypeOK, scenario, rows,
       Results
  <2>. QED  BY <1>6, <1>8, <2>1 DEF OutInv, SendTyped
<1>11. AttemptInv'
  <2>1. ASSUME NEW m \in AttemptNumbers
        PROVE  LET a == attempts'[m] IN
                 /\ a.result = "running" /\ m \in sent =>
                      a.todo # <<>> /\ Rest(a.todo) \subseteq InAttempt
                 /\ a.result = "running" /\ m \notin sent => Sendable(a.todo)
                 /\ a.result # "running" => a.todo = <<>>
                 /\ a.result = "ok" => m \in sent
                 /\ a.result \in {"none", "retryable"} => m \notin sent
                 /\ a.media \in {NULL, Uploads[m]}
    <3>1. CASE m = n
      BY <1>1, <1>2, <1>5, <1>7, <3>1
    <3>2. CASE m # n
      BY <1>7, <3>2 DEF OutInv, AttemptInv
    <3>. QED  BY <3>1, <3>2
  <2>2. attempts'[2].result # "none" => attempts'[1].result = "retryable"
    BY <1>1, <1>7 DEF AttemptNumbers
  <2>. QED  BY <2>1, <2>2 DEF AttemptInv, Sendable
<1>12. SenderInv'
  <2>1. n = 1 => attempts'[2].result = "none"
    BY <1>1, <1>7 DEF AttemptNumbers
  <2>. QED  BY <1>1, <1>5, <1>7, <1>8, <1>9, <2>1 DEF OutInv, SenderInv,
    Preparing
<1>13. RequiredInv'
  <2>1. Required \subseteq Rest(t) \cup Rest(AttemptSteps)
    BY <1>1 DEF OutInv, RequiredInv
  <2>2. reported' # "sent"
    BY DEF OutInv, SenderInv
  <2>. QED  BY <1>5, <1>7, <1>8, <1>9, <2>1, <2>2 DEF RequiredInv
<1>14. FoundInv'
  BY <1>8, <1>9 DEF OutInv, FoundInv, Finding, scenario, rows
<1>15. RowsInv'
  BY DEF OutInv, RowsInv, scenario, rows
<1>16. PhoneInv'
  BY DEF OutInv, PhoneInv, rows
<1>17. VoteJoinsPoll'
  BY DEF OutInv, VoteJoinsPoll, scenario, rows
<1>. QED
  BY <1>10, <1>11, <1>12, <1>13, <1>14, <1>15, <1>16, <1>17 DEF OutInv

\* The attempt the command waits for was accepted: only statements are left.
LEMMA ContinueMove ==
    ASSUME OutInv, sender.at = "waiting", Result = "ok",
           sender' = [sender EXCEPT !.at = "steps", !.todo = Tail(@)],
           UNCHANGED <<scenario, sendTo, foundAt, attempts, hostUp, rows,
                       phoneEvent, sent, reported, lost, phoneSaid>>
    PROVE  OutInv'
<1>. DEFINE t == sender.todo
<1>1. t \in Seq(SendSteps) /\ t # <<>> /\ Head(t) = "attempt" /\ Preparing(t)
  BY DEF OutInv, SendTyped, SenderInv, SenderRecord
<1>2. /\ Tail(t) \in Seq(SendSteps)
      /\ Rest(t) = {"attempt"} \cup Rest(Tail(t))
  BY <1>1, HeadAndRest
<1>3. Rest(Tail(t)) \subseteq OfCommand
  BY <1>1, SplitHead, StepSets DEF Preparing
<1>4. /\ sender' \in SenderRecord
      /\ sender'.todo = Tail(t) /\ sender'.at = "steps"
      /\ sender'.attempt = sender.attempt
  BY <1>2 DEF OutInv, SendTyped, SenderRecord
<1>5. /\ OfCommand' = OfCommand /\ Required' = Required
      /\ AttemptSteps' = AttemptSteps
  BY SameKind DEF scenario
<1>6. "attempt" \notin Rest(Tail(t))
  BY <1>3, StepSets
<1>7. attempts[sender.attempt].result = "ok"
      /\ attempts[sender.attempt].todo = <<>>
  BY DEF OutInv, AttemptInv, SendTyped, Result, SenderRecord
<1>8. SendTyped'
  <2>1. OutboundTypeOK'
    BY <1>4 DEF OutInv, SendTyped, OutboundTypeOK, scenario, rows
  <2>. QED  BY <1>4, <2>1 DEF OutInv, SendTyped
<1>9. AttemptInv'
  BY DEF OutInv, AttemptInv
<1>10. SenderInv'
  BY <1>3, <1>4, <1>5, <1>6, <1>7 DEF OutInv, SenderInv
<1>11. \A s : Recorded(s)' = Recorded(s)
  BY DEF Recorded, RecordName, CanonicalName, scenario, rows
<1>12. RequiredInv'
  <2>1. ASSUME ~lost, NEW s \in Required
        PROVE  Recorded(s) \/ s \in Rest(Tail(t))
    <3>1. Rest(<<>>) = {}
      BY DEF Rest
    <3>2. Recorded(s) \/ s \in Rest(t)
      BY <1>7, <2>1, <3>1 DEF OutInv, RequiredInv
    <3>. QED  BY <1>2, <3>2, StepSets
  <2>2. reported' # "sent"
    BY DEF OutInv, SenderInv
  <2>. QED  BY <1>4, <1>5, <1>6, <1>11, <2>1, <2>2 DEF RequiredInv
<1>13. FoundInv'
  <2>1. "findPoll" \notin Rest(t) /\ "findPoll" \notin Rest(Tail(t))
    BY <1>2, <1>3, StepSets
  <2>. QED
    BY <1>2, <1>4, <1>5, <2>1 DEF OutInv, FoundInv, Finding, scenario, rows
<1>14. RowsInv'
  BY DEF OutInv, RowsInv, scenario, rows
<1>15. PhoneInv'
  BY DEF OutInv, PhoneInv, rows
<1>16. VoteJoinsPoll'
  BY DEF OutInv, VoteJoinsPoll, scenario, rows
<1>. QED
  BY <1>8, <1>9, <1>10, <1>12, <1>13, <1>14, <1>15, <1>16 DEF OutInv

\* What the tables hold after a statement, and what a failed one leaves.
RowsTyped ==
    /\ outChats \subseteq OutNames /\ outPolls \subseteq OutNames
    /\ outVotes \subseteq OutNames /\ outStatus \in BOOLEAN
    /\ outRow \in [OutNames -> Row \cup {NULL}]

RecordedKept == \A x \in Required : Recorded(x) => Recorded(x)'

RecordStep(s, media) ==
    /\ RowsTyped' /\ RowsKeep /\ RowsBecome(media)
    /\ RecordedKept /\ (lost' \/ Recorded(s)')
    /\ s # "poll" => outPolls' = outPolls
    /\ \/ outVotes' = outVotes
       \/ s = "vote" /\ outVotes' = outVotes \cup {RecordName}

\* Rows that stay as they are.
LEMMA SameRows ==
    ASSUME OutInv, UNCHANGED outRow, NEW media
    PROVE  RowsKeep /\ RowsBecome(media)
  BY DEF OutInv, RowsInv, RowsKeep, RowsBecome

\* The name under which a send records is one of the contact's names.
LEMMA RecordNameIsName ==
    ASSUME OutInv
    PROVE  RecordName \in OutNames
  BY OutboundAssumption
  DEF OutInv, SendTyped, OutboundTypeOK, RecordName, CanonicalName, OutNames

\* Every statement of a send, done or failed, is such a step.
LEMMA StatementStep ==
    ASSUME OutInv, NEW s \in Statements, NEW media \in Media \cup {NULL},
           UNCHANGED <<scenario, sendTo, foundAt>>,
           \/ Statement(s, media) /\ UNCHANGED lost
           \/ lost' = TRUE /\ UNCHANGED rows
    PROVE  RecordStep(s, media)
<1>1. RowsTyped /\ RecordName \in OutNames
  BY RecordNameIsName DEF OutInv, SendTyped, OutboundTypeOK, RowsTyped
<1>2. RecordName' = RecordName
  BY DEF RecordName, CanonicalName, scenario
<1>3. CASE lost' = TRUE /\ UNCHANGED rows
  <2>1. RowsKeep /\ RowsBecome(media)
    BY <1>3, SameRows DEF rows
  <2>2. RecordedKept
    BY <1>2, <1>3 DEF RecordedKept, Recorded, rows
  <2>3. RowsTyped'
    BY <1>1, <1>3 DEF RowsTyped, rows
  <2>. QED  BY <1>3, <2>1, <2>2, <2>3 DEF RecordStep, rows
<1>4. CASE /\ s = "chat" /\ outChats' = outChats \cup {RecordName}
           /\ UNCHANGED <<outRow, outPolls, outVotes, outStatus>>
  <2>1. RowsKeep /\ RowsBecome(media)
    BY <1>4, SameRows
  <2>2. RecordedKept /\ Recorded(s)'
    BY <1>2, <1>4 DEF RecordedKept, Recorded
  <2>3. RowsTyped'
    BY <1>1, <1>4 DEF RowsTyped
  <2>. QED  BY <1>4, <2>1, <2>2, <2>3 DEF RecordStep
<1>5. CASE /\ s = "message"
           /\ \E now \in SendTimes :
                WriteOutRow(RecordName, SentBody("send", media, now))
           /\ UNCHANGED <<outChats, outPolls, outVotes, outStatus>>
  <2>1. PICK now \in SendTimes :
          WriteOutRow(RecordName, SentBody("send", media, now))
    BY <1>5
  <2>. DEFINE c == SentBody("send", media, now)
  <2>2. SentContent(c) /\ c.media = media
    BY SentBodyIsContent
  <2>3. WriteOutRow(RecordName, c)
    BY <2>1
  <2>. HIDE DEF c
  <2>4. /\ outRow' \in [OutNames -> Row \cup {NULL}]
        /\ RowsKeep /\ RowsBecome(c.media) /\ outRow'[RecordName] # NULL
    BY <1>1, <2>2, <2>3, WrittenRow DEF OutInv, RowsTyped
  <2>5. RecordedKept /\ Recorded(s)'
    BY <1>1, <1>2, <1>5, <2>4 DEF RecordedKept, Recorded, RowsKeep
  <2>6. RowsTyped'
    BY <1>1, <1>5, <2>4 DEF RowsTyped
  <2>. QED  BY <1>5, <2>2, <2>4, <2>5, <2>6 DEF RecordStep
<1>6. CASE /\ s = "poll" /\ outPolls' = outPolls \cup {RecordName}
           /\ UNCHANGED <<outChats, outRow, outVotes, outStatus>>
  <2>1. RowsKeep /\ RowsBecome(media)
    BY <1>6, SameRows
  <2>2. RecordedKept /\ Recorded(s)'
    BY <1>2, <1>6 DEF RecordedKept, Recorded
  <2>3. RowsTyped'
    BY <1>1, <1>6 DEF RowsTyped
  <2>. QED  BY <1>6, <2>1, <2>2, <2>3 DEF RecordStep
<1>7. CASE /\ s = "vote" /\ outVotes' = outVotes \cup {RecordName}
           /\ UNCHANGED <<outChats, outRow, outPolls, outStatus>>
  <2>1. RowsKeep /\ RowsBecome(media)
    BY <1>7, SameRows
  <2>2. RecordedKept /\ Recorded(s)'
    BY <1>2, <1>7 DEF RecordedKept, Recorded
  <2>3. RowsTyped'
    BY <1>1, <1>7 DEF RowsTyped
  <2>. QED  BY <1>7, <2>1, <2>2, <2>3 DEF RecordStep
<1>8. CASE /\ s = "status" /\ outStatus' = TRUE
           /\ UNCHANGED <<outChats, outRow, outPolls, outVotes>>
  <2>1. RowsKeep /\ RowsBecome(media)
    BY <1>8, SameRows
  <2>2. RecordedKept /\ Recorded(s)'
    BY <1>2, <1>8 DEF RecordedKept, Recorded
  <2>3. RowsTyped'
    BY <1>1, <1>8 DEF RowsTyped
  <2>. QED  BY <1>8, <2>1, <2>2, <2>3 DEF RecordStep
<1>. QED  BY <1>3, <1>4, <1>5, <1>6, <1>7, <1>8 DEF Statement

\* The command records a statement, or passes over its failure.
LEMMA PersistMove ==
    ASSUME OutInv, NEW s \in Statements, Persist(s)
    PROVE  OutInv'
<1>. DEFINE t == sender.todo
            u == sender'.todo
<1>1. /\ t \in Seq(SendSteps) /\ t # <<>> /\ Head(t) = s
      /\ sender.at = "steps"
      /\ Tail(t) \in Seq(SendSteps) /\ Rest(t) = {s} \cup Rest(Tail(t))
  BY HeadAndRest DEF OutInv, SendTyped, Persist, AtStep, SenderRecord
<1>2. "attempt" \notin Rest(t)
  <2>1. s # "attempt" /\ s \notin Preparations
    BY DEF Statements, Preparations
  <2>2. ~Preparing(t)
    BY <1>1, <2>1, SplitHead, StepSets DEF Preparing
  <2>. QED  BY <2>2 DEF OutInv, SenderInv
<1>3. /\ attempts[sender.attempt].result = "ok" /\ Rest(t) \subseteq OfCommand
      /\ sender.attempt \in sent /\ reported = "none"
  BY <1>1, <1>2 DEF OutInv, SenderInv, AttemptInv, SendTyped, SenderRecord
<1>4. UNCHANGED <<scenario, sendTo, foundAt, attempts, hostUp, phoneEvent,
                  sent,
                  reported, phoneSaid>>
  BY DEF Persist, SenderUnchanged
<1>5. RecordStep(s, NULL)
  BY <1>4, StatementStep DEF Persist
<1>6. /\ sender' \in SenderRecord
      /\ sender'.at = "steps" /\ sender'.attempt = sender.attempt
      /\ u = Tail(t) \/ (u = <<>> /\ lost')
  <2>1. CASE NextStep
    BY <1>1, <2>1 DEF OutInv, SendTyped, NextStep, SenderRecord
  <2>2. CASE /\ sender' = [sender EXCEPT !.todo = IF StopsAtError(s) THEN <<>>
                                                  ELSE Tail(@)]
             /\ lost' = TRUE
    <3>1. <<>> \in Seq(SendSteps)
      OBVIOUS
    <3>. QED  BY <1>1, <2>2, <3>1 DEF OutInv, SendTyped, SenderRecord
  <2>. QED  BY <2>1, <2>2 DEF Persist
<1>7. Rest(u) \subseteq OfCommand /\ "attempt" \notin Rest(u)
  <2>1. Rest(<<>>) = {}
    BY DEF Rest
  <2>. QED  BY <1>1, <1>2, <1>3, <1>6, <2>1
<1>. HIDE DEF u
<1>8. /\ OfCommand' = OfCommand /\ Required' = Required
      /\ AttemptSteps' = AttemptSteps
  BY <1>4, SameKind DEF scenario
<1>9. s \in OfCommand
  BY <1>1, <1>3
<1>10. (s = "vote" => sendKind = "vote") /\ (s = "poll" => sendKind = "poll")
  BY <1>9 DEF OfCommand, InAttempt
<1>11. lost' \in BOOLEAN
  BY DEF OutInv, SendTyped, OutboundTypeOK, Persist
<1>12. SendTyped'
  <2>1. OutboundTypeOK'
    BY <1>4, <1>5, <1>6, <1>11
    DEF OutInv, SendTyped, OutboundTypeOK, scenario, RecordStep, RowsTyped
  <2>. QED  BY <1>4, <1>6, <2>1 DEF OutInv, SendTyped
<1>13. AttemptInv'
  BY <1>4 DEF OutInv, AttemptInv
<1>14. SenderInv'
  BY <1>3, <1>4, <1>6, <1>7, <1>8 DEF OutInv, SenderInv, u
<1>15. RequiredInv'
  <2>1. ASSUME ~lost', NEW x \in Required
        PROVE  Recorded(x)' \/ x \in Rest(u)
    <3>1. ~lost
      BY <2>1 DEF Persist
    <3>2. Recorded(x) \/ x \in Rest(t)
      BY <1>1, <1>2, <3>1 DEF OutInv, RequiredInv
    <3>3. Recorded(x) => Recorded(x)'
      BY <1>5 DEF RecordStep, RecordedKept
    <3>4. Recorded(s)'
      BY <1>5, <2>1 DEF RecordStep
    <3>5. u = Tail(t)
      BY <1>6, <2>1
    <3>. QED  BY <1>1, <3>2, <3>3, <3>4, <3>5
  <2>2. reported' # "sent"
    BY <1>3, <1>4
  <2>. QED  BY <1>6, <1>7, <1>8, <2>1, <2>2 DEF RequiredInv, u
<1>16. "findPoll" \notin Rest(t) /\ "findPoll" \notin Rest(u)
  BY <1>3, <1>7, StepSets
<1>17. sendKind = "vote" =>
         /\ foundAt \in OutNames
         /\ \/ foundAt \in outPolls \/ outPolls = {}
            \/ ~pairKnown /\ sendTo \notin outPolls
  BY <1>1, <1>16 DEF OutInv, FoundInv
<1>18. sendKind = "vote" => outPolls' = outPolls
  BY <1>5, <1>10 DEF RecordStep
<1>19. FoundInv'
  BY <1>4, <1>6, <1>7, <1>8, <1>16, <1>17, <1>18 DEF FoundInv, scenario, u
<1>20. RowsInv'
  <2>1. sent' # {}
    BY <1>3, <1>4
  <2>2. \A n \in OutNames : outRow'[n] # NULL =>
          /\ SentRow(outRow'[n])
          /\ outRow'[n].media_key # NULL =>
               \E k \in sent' : outRow'[n].media_key = Uploads[k]
    BY <1>4, <1>5 DEF RecordStep, RowsBecome
  <2>3. outVotes' # {} => sendKind' = "vote"
    BY <1>4, <1>5, <1>10 DEF OutInv, RowsInv, RecordStep, scenario
  <2>. QED  BY <2>1, <2>2, <2>3 DEF RowsInv, SentRow
<1>21. PhoneInv'
  BY <1>4, <1>5 DEF OutInv, PhoneInv, RecordStep, RowsKeep
<1>22. VoteJoinsPoll'
  <2>1. CASE s = "vote"
    <3>1. RecordName = foundAt
      BY <1>10, <1>17, <2>1, OutboundAssumption DEF RecordName
    <3>2. outVotes' \subseteq outVotes \cup {foundAt} /\ outPolls' = outPolls
      BY <1>5, <1>18, <1>10, <2>1, <3>1 DEF RecordStep
    <3>. QED
      BY <1>4, <1>10, <1>17, <2>1, <3>2 DEF OutInv, VoteJoinsPoll, scenario
  <2>2. CASE s = "poll"
    <3>1. outVotes' = {}
      BY <1>5, <1>10, <2>2 DEF OutInv, RowsInv, RecordStep
    <3>. QED  BY <3>1 DEF VoteJoinsPoll
  <2>3. CASE s # "vote" /\ s # "poll"
    <3>1. outVotes' = outVotes /\ outPolls' = outPolls
      BY <1>5, <2>3 DEF RecordStep
    <3>. QED  BY <1>4, <3>1 DEF OutInv, VoteJoinsPoll, scenario
  <2>. QED  BY <2>1, <2>2, <2>3
<1>. QED
  BY <1>12, <1>13, <1>14, <1>15, <1>19, <1>20, <1>21, <1>22 DEF OutInv

-----------------------------------------------------------------------------
(* The steps of an attempt, of the event handler, and of the process.      *)

\* What an attempt may be, given whether its message was accepted.
AttemptIs(n, a, accepted) ==
    /\ a.result = "running" /\ accepted =>
         a.todo # <<>> /\ Rest(a.todo) \subseteq InAttempt
    /\ a.result = "running" /\ ~accepted => Sendable(a.todo)
    /\ a.result # "running" => a.todo = <<>>
    /\ a.result = "ok" => accepted
    /\ a.result \in {"none", "retryable"} => ~accepted
    /\ a.media \in {NULL, Uploads[n]}

AttemptRecord ==
    [todo : Seq(SendSteps), media : Media \cup {NULL}, result : Results]

\* Every attempt is as its message was accepted or not.
LEMMA AttemptsAre ==
    ASSUME OutInv, NEW n \in AttemptNumbers
    PROVE  AttemptIs(n, attempts[n], n \in sent)
           /\ attempts[n] \in AttemptRecord
  BY DEF OutInv, SendTyped, AttemptInv, AttemptIs, AttemptRecord

\* The step a running attempt is at.
LEMMA RunningStep ==
    ASSUME OutInv, NEW n \in AttemptNumbers, attempts[n].result = "running"
    PROVE  LET t == attempts[n].todo IN
             /\ t \in Seq(SendSteps) /\ t # <<>> /\ Tail(t) \in Seq(SendSteps)
             /\ Rest(t) = {Head(t)} \cup Rest(Tail(t))
             /\ Len(t) = 1 => Tail(t) = <<>>
             /\ Len(t) # 1 => Tail(t) # <<>>
             /\ n \in sent => Head(t) \in InAttempt
             /\ n \in sent \/ Head(t) = "send" =>
                  Rest(Tail(t)) \subseteq InAttempt
             /\ n \notin sent /\ Head(t) # "send" =>
                  Head(t) \in BeforeSend /\ Len(t) # 1 /\ Sendable(Tail(t))
<1>. DEFINE t == attempts[n].todo
<1>1. AttemptIs(n, attempts[n], n \in sent) /\ attempts[n] \in AttemptRecord
  BY AttemptsAre
<1>2. t \in Seq(SendSteps)
  BY <1>1 DEF AttemptRecord
<1>3. /\ n \in sent => t # <<>> /\ Rest(t) \subseteq InAttempt
      /\ n \notin sent => Sendable(t)
  BY <1>1 DEF AttemptIs
<1>. HIDE DEF t
<1>4. n \notin sent => /\ t # <<>>
                       /\ Head(t) = "send" =>
                            Rest(Tail(t)) \subseteq InAttempt
                       /\ Head(t) # "send" =>
                            /\ Head(t) \in BeforeSend
                            /\ Len(t) # 1 /\ Sendable(Tail(t))
  BY <1>2, <1>3, SplitHead, StepSets DEF Sendable
<1>5. t # <<>>
  BY <1>3, <1>4
<1>6. /\ Tail(t) \in Seq(SendSteps) /\ Head(t) \in Rest(t)
      /\ Rest(t) = {Head(t)} \cup Rest(Tail(t))
      /\ Len(t) = 1 => Tail(t) = <<>>
      /\ Len(t) # 1 => Tail(t) # <<>>
  BY <1>2, <1>5, HeadAndRest
<1>7. /\ n \in sent => Head(t) \in InAttempt
      /\ n \in sent \/ Head(t) = "send" =>
                  Rest(Tail(t)) \subseteq InAttempt
  <2>1. Head(t) = "send" => n \notin sent
    BY <1>3, <1>6, StepSets
  <2>. QED  BY <1>3, <1>4, <1>6, <2>1
<1>. QED  BY <1>2, <1>4, <1>5, <1>6, <1>7 DEF t

\* One attempt moves on; what it records is recorded.
LEMMA AttemptMove ==
    ASSUME OutInv, NEW n \in AttemptNumbers, attempts[n].result = "running",
           NEW b \in AttemptRecord, attempts' = [attempts EXCEPT ![n] = b],
           b.result # "none", AttemptIs(n, b, n \in sent'),
           sent' = sent \/ sent' = sent \cup {n},
           UNCHANGED <<scenario, sendTo, foundAt, sender, hostUp, phoneEvent,
                       reported, phoneSaid, outPolls, outVotes>>,
           RowsTyped', RowsKeep, RowsBecome(attempts[n].media), RecordedKept,
           UNCHANGED rows \/ n \in sent,
           lost' \in BOOLEAN, lost => lost',
           b.result \in {"running", "ok"} /\ ~lost' =>
             \A s \in Required : s \in Rest(attempts[n].todo) =>
                                   Recorded(s)' \/ s \in Rest(b.todo)
    PROVE  OutInv'
<1>. DEFINE t == sender.todo
<1>1. /\ attempts'[n] = b
      /\ \A m \in AttemptNumbers : m # n => attempts'[m] = attempts[m]
      /\ attempts' \in [AttemptNumbers -> AttemptRecord]
  BY DEF OutInv, SendTyped, AttemptRecord
<1>2. /\ OfCommand' = OfCommand /\ Required' = Required
      /\ AttemptSteps' = AttemptSteps
  BY SameKind DEF scenario
<1>3. n = 1 => attempts[2].result = "none"
  BY DEF OutInv, AttemptInv
<1>4. sent \subseteq sent' /\ sent' \subseteq AttemptNumbers
  BY DEF OutInv, SendTyped, OutboundTypeOK
<1>5. SendTyped'
  <2>1. \A m \in AttemptNumbers :
          /\ attempts'[m].media \in Media \cup {NULL}
          /\ attempts'[m].result \in Results
    BY <1>1 DEF AttemptRecord
  <2>2. OutboundTypeOK'
    BY <1>4, <2>1
    DEF OutInv, SendTyped, OutboundTypeOK, scenario, RowsTyped, Results
  <2>. QED  BY <1>1, <2>2 DEF OutInv, SendTyped, AttemptRecord
<1>6. AttemptInv'
  <2>1. ASSUME NEW m \in AttemptNumbers
        PROVE  AttemptIs(m, attempts'[m], m \in sent')
    <3>1. CASE m = n
      BY <1>1, <3>1
    <3>2. CASE m # n
      <4>1. AttemptIs(m, attempts[m], m \in sent)
        BY AttemptsAre
      <4>2. (m \in sent') = (m \in sent)
        BY <3>2
      <4>. QED  BY <1>1, <3>2, <4>1, <4>2
    <3>. QED  BY <3>1, <3>2
  <2>2. attempts'[2].result # "none" => attempts'[1].result = "retryable"
    <3>1. CASE n = 1
      BY <1>1, <1>3, <3>1 DEF AttemptNumbers
    <3>2. CASE n = 2
      BY <1>1, <3>2 DEF AttemptNumbers, OutInv, AttemptInv
    <3>. QED  BY <3>1, <3>2 DEF AttemptNumbers
  <2>. QED  BY <2>1, <2>2 DEF AttemptInv, AttemptIs, Sendable
<1>7. sender.attempt \in AttemptNumbers
  BY DEF OutInv, SendTyped, SenderRecord
<1>8. ~(sender.at = "steps" /\ "attempt" \in Rest(t))
  <2>1. attempts[n] # NoAttempt
    BY DEF NoAttempt
  <2>. QED  BY <2>1 DEF OutInv, SenderInv
<1>9. sender.at = "steps" => sender.attempt # n
  BY <1>8 DEF OutInv, SenderInv
<1>10. SenderInv'
  <2>1. sender.attempt = 1 => attempts'[2].result = "none"
    BY <1>1, <1>3 DEF OutInv, SenderInv, AttemptNumbers
  <2>2. attempts'[sender.attempt] =
          IF sender.attempt = n THEN b ELSE attempts[sender.attempt]
    BY <1>1, <1>7
  <2>. QED  BY <1>2, <1>8, <1>9, <2>1, <2>2 DEF OutInv, SenderInv, Preparing
<1>11. RequiredInv'
  <2>1. "attempt" \in Rest(t) =>
          Required \subseteq Rest(t) \cup Rest(AttemptSteps)
    BY DEF OutInv, RequiredInv
  <2>2. ASSUME sender.at = "waiting", ~lost', NEW s \in Required,
               attempts'[sender.attempt].result \in {"running", "ok"}
        PROVE  \/ Recorded(s)' \/ s \in Rest(t)
               \/ s \in Rest(attempts'[sender.attempt].todo)
    <3>1. CASE sender.attempt = n
      <4>1. Recorded(s) \/ s \in Rest(t) \/ s \in Rest(attempts[n].todo)
        BY <2>2, <3>1 DEF OutInv, RequiredInv
      <4>. QED  BY <1>1, <2>2, <3>1, <4>1 DEF RecordedKept
    <3>2. CASE sender.attempt # n
      <4>1. attempts'[sender.attempt] = attempts[sender.attempt]
        BY <1>1, <1>7, <3>2
      <4>. QED  BY <2>2, <4>1 DEF OutInv, RequiredInv, RecordedKept
    <3>. QED  BY <3>1, <3>2
  <2>3. ASSUME sender.at = "steps", ~lost', NEW s \in Required
        PROVE  Recorded(s)' \/ s \in Rest(t)
    BY <1>8, <2>3 DEF OutInv, RequiredInv, RecordedKept
  <2>4. ASSUME reported = "sent", ~lost', NEW s \in Required
        PROVE  Recorded(s)'
    BY <2>4 DEF OutInv, RequiredInv, RecordedKept
  <2>. QED  BY <1>2, <2>1, <2>2, <2>3, <2>4 DEF RequiredInv
<1>12. FoundInv'
  BY <1>2 DEF OutInv, FoundInv, Finding, scenario
<1>13. RowsInv'
  <2>1. CASE UNCHANGED rows
    BY <1>4, <2>1 DEF OutInv, RowsInv, rows, scenario
  <2>2. CASE n \in sent
    <3>1. attempts[n].media # NULL => attempts[n].media = Uploads[n]
      BY AttemptsAre DEF AttemptIs
    <3>2. ASSUME NEW m \in OutNames, outRow'[m] # NULL
          PROVE  /\ SentRow(outRow'[m])
                 /\ outRow'[m].media_key # NULL =>
                      \E k \in sent' : outRow'[m].media_key = Uploads[k]
      BY <1>4, <2>2, <3>1, <3>2 DEF RowsBecome
    <3>3. sent' # {}
      BY <1>4, <2>2
    <3>4. outVotes' # {} => sendKind' = "vote"
      BY DEF OutInv, RowsInv, scenario
    <3>. QED  BY <3>2, <3>3, <3>4 DEF RowsInv
  <2>. QED  BY <2>1, <2>2
<1>14. PhoneInv'
  BY DEF OutInv, PhoneInv, RowsKeep
<1>15. VoteJoinsPoll'
  BY DEF OutInv, VoteJoinsPoll, scenario
<1>. QED
  BY <1>5, <1>6, <1>10, <1>11, <1>12, <1>13, <1>14, <1>15 DEF OutInv

\* The event handler of the sync, and the end of the process.
LEMMA PhoneMove ==
    ASSUME OutInv,
           UNCHANGED <<scenario, sendTo, foundAt, sender, attempts, sent,
                       reported, lost, outPolls, outVotes, outStatus>>,
           hostUp' \in BOOLEAN, RowsTyped', outChats \subseteq outChats',
           RowsKeep, RowsBecome(NULL), UNCHANGED outRow \/ sent # {},
           phoneEvent' \in [at : {"idle", "chat", "row"}, name : OutNames,
                            event : {"edit", "revoke"}],
           phoneEvent'.at # "idle" => sent # {},
           phoneSaid' \subseteq OutNames \X {"edit", "revoke"}, PhoneInv'
    PROVE  OutInv'
<1>1. /\ OfCommand' = OfCommand /\ Required' = Required
      /\ AttemptSteps' = AttemptSteps
  BY SameKind DEF scenario
<1>2. RecordName' = RecordName /\ RecordName \in OutNames
  BY RecordNameIsName DEF RecordName, CanonicalName, scenario
<1>3. \A s : Recorded(s) => Recorded(s)'
  BY <1>2 DEF Recorded, RowsKeep
<1>4. SendTyped'
  <2>1. OutboundTypeOK'
    BY DEF OutInv, SendTyped, OutboundTypeOK, scenario, RowsTyped
  <2>. QED  BY <2>1 DEF OutInv, SendTyped
<1>5. AttemptInv'
  BY DEF OutInv, AttemptInv
<1>6. SenderInv'
  BY <1>1 DEF OutInv, SenderInv, Preparing
<1>7. RequiredInv'
  BY <1>1, <1>3 DEF OutInv, RequiredInv
<1>8. FoundInv'
  BY <1>1 DEF OutInv, FoundInv, Finding, scenario
<1>9. RowsInv'
  <2>1. ASSUME NEW m \in OutNames, outRow'[m] # NULL
        PROVE  /\ SentRow(outRow'[m])
               /\ outRow'[m].media_key # NULL =>
                    \E k \in sent' : outRow'[m].media_key = Uploads[k]
    BY <2>1 DEF RowsBecome
  <2>2. (\E m \in OutNames : outRow'[m] # NULL) => sent # {}
    BY DEF OutInv, RowsInv
  <2>. QED  BY <2>1, <2>2 DEF OutInv, RowsInv, scenario
<1>10. VoteJoinsPoll'
  BY DEF OutInv, VoteJoinsPoll, scenario
<1>. QED  BY <1>4, <1>5, <1>6, <1>7, <1>8, <1>9, <1>10 DEF OutInv

\* A failed attempt.
LEMMA EndedAttempt ==
    ASSUME NEW n \in AttemptNumbers, NEW result \in {"error", "retryable"},
           NEW accepted \in BOOLEAN, accepted => result = "error"
    PROVE  LET b == [NoAttempt EXCEPT !.result = result] IN
             /\ b \in AttemptRecord /\ b.result = result
             /\ AttemptIs(n, b, accepted)
<1>. DEFINE b == [NoAttempt EXCEPT !.result = result]
<1>1. <<>> \in Seq(SendSteps)
  OBVIOUS
<1>2. b \in AttemptRecord
  BY <1>1 DEF NoAttempt, AttemptRecord, Results
<1>3. b.result = result /\ b.todo = <<>> /\ b.media = NULL
  BY DEF NoAttempt
<1>. HIDE DEF b
<1>4. AttemptIs(n, b, accepted)
  BY <1>3 DEF AttemptIs
<1>5. b \in AttemptRecord /\ b.result = result /\ AttemptIs(n, b, accepted)
  BY <1>2, <1>3, <1>4
<1>. QED  BY <1>5 DEF b

\* An attempt that goes on to its next step, or ends well.
LEMMA SteppedAttempt ==
    ASSUME OutInv, NEW n \in AttemptNumbers, attempts[n].result = "running",
           NEW accepted \in BOOLEAN,
           accepted <=> n \in sent \/ Head(attempts[n].todo) = "send"
    PROVE  LET b == StepOn(attempts[n]) IN
             /\ b \in AttemptRecord /\ b.result \in {"running", "ok"}
             /\ b.todo = Tail(attempts[n].todo) /\ b.media = attempts[n].media
             /\ AttemptIs(n, b, accepted)
<1>. DEFINE a == attempts[n]   b == StepOn(a)
<1>1. AttemptIs(n, a, n \in sent) /\ a \in AttemptRecord
  BY AttemptsAre
<1>2. /\ a.todo \in Seq(SendSteps) /\ a.todo # <<>>
      /\ Tail(a.todo) \in Seq(SendSteps)
      /\ Len(a.todo) = 1 => Tail(a.todo) = <<>>
      /\ Len(a.todo) # 1 => Tail(a.todo) # <<>>
      /\ accepted => Rest(Tail(a.todo)) \subseteq InAttempt
      /\ ~accepted => Len(a.todo) # 1 /\ Sendable(Tail(a.todo))
  BY RunningStep
<1>3. b \in AttemptRecord
  BY <1>1, <1>2 DEF StepOn, AttemptRecord, Results
<1>4. /\ b.todo = Tail(a.todo) /\ b.media = a.media
      /\ b.result = IF Len(a.todo) = 1 THEN "ok" ELSE "running"
  BY <1>1 DEF StepOn, AttemptRecord
<1>5. a.media \in {NULL, Uploads[n]}
  BY <1>1 DEF AttemptIs
<1>. HIDE DEF a, b
<1>6. AttemptIs(n, b, accepted)
  BY <1>2, <1>4, <1>5 DEF AttemptIs
<1>7. /\ b \in AttemptRecord /\ b.result \in {"running", "ok"}
      /\ b.todo = Tail(a.todo) /\ b.media = a.media
      /\ AttemptIs(n, b, accepted)
  BY <1>3, <1>4, <1>6
<1>. QED  BY <1>7 DEF a, b

\* What a step of an attempt that writes no row leaves alone.
LEMMA NoRecord ==
    ASSUME OutInv, NEW n \in AttemptNumbers, AttemptUnchanged,
           UNCHANGED <<rows, lost>>
    PROVE  /\ UNCHANGED <<scenario, sendTo, foundAt, sender, hostUp,
                          phoneEvent,
                          reported, phoneSaid, outPolls, outVotes>>
           /\ RowsTyped' /\ RowsKeep /\ RowsBecome(attempts[n].media)
           /\ RecordedKept /\ lost' \in BOOLEAN /\ (lost => lost')
<1>1. UNCHANGED <<scenario, sendTo, foundAt, sender, hostUp, phoneEvent,
                  reported, phoneSaid, outPolls, outVotes>>
  BY DEF AttemptUnchanged, rows
<1>2. RowsTyped' /\ lost' \in BOOLEAN
  BY DEF OutInv, SendTyped, OutboundTypeOK, RowsTyped, rows
<1>3. RowsKeep /\ RowsBecome(attempts[n].media)
  BY SameRows DEF rows
<1>4. RecordedKept
  BY DEF RecordedKept, Recorded, RecordName, CanonicalName, rows, scenario,
         AttemptUnchanged
<1>. QED  BY <1>1, <1>2, <1>3, <1>4

\* An attempt fails.
LEMMA EndStep ==
    ASSUME OutInv, NEW n \in AttemptNumbers, attempts[n].result = "running",
           NEW result \in {"error", "retryable"}, Ends(n, result),
           sent' = sent \/ sent' = sent \cup {n},
           n \in sent' => result = "error",
           AttemptUnchanged, UNCHANGED <<rows, lost>>
    PROVE  OutInv'
<1>. DEFINE b == [NoAttempt EXCEPT !.result = result]
<1>1. b \in AttemptRecord /\ b.result = result /\ AttemptIs(n, b, n \in sent')
  <2>1. CASE n \in sent'
    <3>1. b \in AttemptRecord /\ b.result = result /\ AttemptIs(n, b, TRUE)
      BY <2>1, EndedAttempt
    <3>2. (n \in sent') = TRUE
      BY <2>1
    <3>. HIDE DEF b
    <3>. QED  BY <3>1, <3>2
  <2>2. CASE n \notin sent'
    <3>1. b \in AttemptRecord /\ b.result = result /\ AttemptIs(n, b, FALSE)
      BY <2>2, EndedAttempt
    <3>2. (n \in sent') = FALSE
      BY <2>2
    <3>. HIDE DEF b
    <3>. QED  BY <3>1, <3>2
  <2>. QED  BY <2>1, <2>2
<1>2. attempts' = [attempts EXCEPT ![n] = b]
  BY DEF Ends
<1>. HIDE DEF b
<1>. QED  BY <1>1, <1>2, NoRecord, AttemptMove

\* The payload is built.
LEMMA PrepareStep ==
    ASSUME OutInv, NEW n \in AttemptNumbers, Prepare(n)
    PROVE  OutInv'
<1>. DEFINE t == attempts[n].todo
<1>1. /\ attempts[n].result = "running" /\ Head(t) = "prepare"
      /\ AttemptUnchanged /\ UNCHANGED <<rows, sent, lost>>
  BY DEF Prepare, Running
<1>2. n \notin sent /\ Rest(t) = {Head(t)} \cup Rest(Tail(t))
  BY <1>1, RunningStep DEF InAttempt
<1>3. CASE attempts' = [attempts EXCEPT ![n] = StepOn(@)]
  <2>. DEFINE b == StepOn(attempts[n])
  <2>1. /\ b \in AttemptRecord /\ b.result \in {"running", "ok"}
        /\ b.todo = Tail(t) /\ AttemptIs(n, b, FALSE)
    BY <1>1, <1>2, SteppedAttempt
  <2>2. attempts' = [attempts EXCEPT ![n] = b]
    BY <1>3
  <2>3. (n \in sent') = FALSE
    BY <1>1, <1>2
  <2>4. "prepare" \notin Required
    BY StepSets DEF BeforeSend
  <2>. HIDE DEF b
  <2>. QED  BY <1>1, <1>2, <2>1, <2>2, <2>3, <2>4, NoRecord, AttemptMove
<1>4. CASE Ends(n, "error")
  BY <1>1, <1>4, EndStep
<1>. QED  BY <1>3, <1>4 DEF Prepare

\* The media is uploaded.
LEMMA UploadStep ==
    ASSUME OutInv, NEW n \in AttemptNumbers, Upload(n)
    PROVE  OutInv'
<1>. DEFINE t == attempts[n].todo
<1>1. /\ attempts[n].result = "running" /\ Head(t) = "upload"
      /\ AttemptUnchanged /\ UNCHANGED <<rows, sent, lost>>
  BY DEF Upload, Running
<1>2. n \notin sent /\ Rest(t) = {Head(t)} \cup Rest(Tail(t))
  BY <1>1, RunningStep DEF InAttempt
<1>3. CASE attempts' = [attempts EXCEPT ![n] =
                          [StepOn(@) EXCEPT !.media = Uploads[n]]]
  <2>. DEFINE a == StepOn(attempts[n])
              b == [a EXCEPT !.media = Uploads[n]]
  <2>1. /\ a \in AttemptRecord /\ a.result \in {"running", "ok"}
        /\ a.todo = Tail(t) /\ AttemptIs(n, a, FALSE)
    BY <1>1, <1>2, SteppedAttempt
  <2>2. attempts' = [attempts EXCEPT ![n] = b]
    BY <1>3
  <2>. HIDE DEF a
  <2>3. Uploads[n] \in Media
    BY OutboundAssumption
  <2>4. b \in AttemptRecord
    BY <2>1, <2>3 DEF AttemptRecord
  <2>5. b.todo = a.todo /\ b.result = a.result /\ b.media = Uploads[n]
    BY <2>1 DEF AttemptRecord
  <2>. HIDE DEF b
  <2>6. AttemptIs(n, b, FALSE)
    BY <2>1, <2>5 DEF AttemptIs
  <2>7. (n \in sent') = FALSE
    BY <1>1, <1>2
  <2>8. "upload" \notin Required
    BY StepSets DEF BeforeSend
  <2>. QED
    BY <1>1, <1>2, <2>1, <2>2, <2>4, <2>5, <2>6, <2>7, <2>8, NoRecord,
       AttemptMove
<1>4. ASSUME NEW result \in {"error", "retryable"}, Ends(n, result)
      PROVE  OutInv'
  BY <1>1, <1>2, <1>4, EndStep
<1>. QED  BY <1>3, <1>4 DEF Upload

\* WhatsApp accepts the message.
LEMMA AcceptStep ==
    ASSUME OutInv, NEW n \in AttemptNumbers, AcceptSend(n)
    PROVE  OutInv'
<1>. DEFINE t == attempts[n].todo   b == StepOn(attempts[n])
<1>1. /\ attempts[n].result = "running" /\ Head(t) = "send"
      /\ AttemptUnchanged /\ UNCHANGED <<rows, lost>> /\ sent' = sent \cup {n}
      /\ attempts' = [attempts EXCEPT ![n] = b]
  BY DEF AcceptSend, Running
<1>2. Rest(t) = {Head(t)} \cup Rest(Tail(t))
  BY <1>1, RunningStep
<1>3. /\ b \in AttemptRecord /\ b.result \in {"running", "ok"}
      /\ b.todo = Tail(t) /\ AttemptIs(n, b, TRUE)
  BY <1>1, SteppedAttempt
<1>4. (n \in sent') = TRUE
  BY <1>1
<1>. HIDE DEF b
<1>. QED  BY <1>1, <1>2, <1>3, <1>4, StepSets, NoRecord, AttemptMove

\* The send fails, before the message was written or after.
LEMMA SendFailsStep ==
    ASSUME OutInv, NEW n \in AttemptNumbers, SendFails(n)
    PROVE  OutInv'
<1>1. /\ attempts[n].result = "running" /\ Head(attempts[n].todo) = "send"
      /\ AttemptUnchanged /\ UNCHANGED <<rows, lost>>
  BY DEF SendFails, Running
<1>2. n \notin sent
  BY <1>1, RunningStep, StepSets
<1>3. CASE Ends(n, "retryable") /\ UNCHANGED sent
  BY <1>1, <1>2, <1>3, EndStep
<1>4. CASE Ends(n, "error") /\ sent' \in {sent, sent \cup {n}}
  BY <1>1, <1>4, EndStep
<1>. QED  BY <1>3, <1>4 DEF SendFails

\* A media attempt records its message itself.
LEMMA RecordInAttemptStep ==
    ASSUME OutInv, NEW n \in AttemptNumbers, NEW s \in Statements,
           RecordInAttempt(n, s)
    PROVE  OutInv'
<1>. DEFINE t == attempts[n].todo   b == StepOn(attempts[n])
<1>1. /\ attempts[n].result = "running" /\ Head(t) = s
      /\ AttemptUnchanged /\ sent' = sent
      /\ attempts' = [attempts EXCEPT ![n] = b]
  BY DEF RecordInAttempt, Running
<1>2. Rest(t) = {Head(t)} \cup Rest(Tail(t)) /\ n \in sent /\ s \in InAttempt
  <2>1. s \notin BeforeSend /\ s # "send"
    BY DEF Statements, BeforeSend
  <2>. QED  BY <1>1, <2>1, RunningStep
<1>3. /\ b \in AttemptRecord /\ b.result \in {"running", "ok"}
      /\ b.todo = Tail(t) /\ AttemptIs(n, b, TRUE)
  BY <1>1, <1>2, SteppedAttempt
<1>4. (n \in sent') = TRUE
  BY <1>1, <1>2
<1>5. /\ UNCHANGED <<scenario, sendTo, foundAt, sender, hostUp, phoneEvent,
                     reported, phoneSaid>>
  BY <1>1 DEF AttemptUnchanged
<1>6. attempts[n].media \in Media \cup {NULL}
  BY DEF OutInv, SendTyped
<1>7. RecordStep(s, attempts[n].media)
  BY <1>5, <1>6, StatementStep DEF RecordInAttempt
<1>8. UNCHANGED <<outPolls, outVotes>>
  BY <1>2, <1>7 DEF RecordStep, InAttempt
<1>9. lost' \in BOOLEAN /\ (lost => lost')
  <2>1. lost' = lost \/ lost' = TRUE
    BY DEF RecordInAttempt
  <2>2. lost \in BOOLEAN
    BY DEF OutInv, SendTyped, OutboundTypeOK
  <2>3. lost' \in BOOLEAN
    BY <2>1, <2>2
  <2>4. lost => lost'
    BY <2>1, Zenon
  <2>. QED  BY <2>3, <2>4
<1>10. /\ RowsTyped' /\ RowsKeep /\ RowsBecome(attempts[n].media)
       /\ RecordedKept /\ (lost' \/ Recorded(s)')
  BY <1>7 DEF RecordStep
<1>. HIDE DEF b
<1>. QED
  BY <1>1, <1>2, <1>3, <1>4, <1>5, <1>8, <1>9, <1>10, AttemptMove

\* findPoll takes a name under which the poll is stored, if there is one among
\* the names of the recipient.
LEMMA FirstWithPollIsPoll ==
    ASSUME OutInv
    PROVE  /\ FirstWithPoll \in OutNames
           /\ \/ FirstWithPoll \in outPolls \/ outPolls = {}
              \/ ~pairKnown /\ sendTo \notin outPolls
<1>. DEFINE hits == {i \in DOMAIN Candidates : Candidates[i] \in outPolls}
            first == CHOOSE i \in hits : \A j \in hits : i <= j
<1>1. FirstWithPoll = Candidates[IF hits = {} THEN 1 ELSE first]
  BY DEF FirstWithPoll
<1>2. outPolls \subseteq OutNames /\ sendTo \in OutNames
      /\ pairKnown \in BOOLEAN
  BY DEF OutInv, SendTyped, OutboundTypeOK
<1>3. CASE pairKnown
  <2>. DEFINE cs == <<"pn", "lid">>
  <2>1. Candidates = cs
    BY <1>3 DEF Candidates
  <2>2. DOMAIN cs = {1, 2} /\ cs[1] = "pn" /\ cs[2] = "lid"
    OBVIOUS
  <2>. HIDE DEF cs
  <2>3. hits \subseteq {1, 2}
    BY <2>1, <2>2
  <2>4. hits # {} => first \in hits
    <3>1. 1 \in hits => \A j \in hits : 1 <= j
      BY <2>3
    <3>2. 1 \notin hits => \A j \in hits : 2 <= j
      BY <2>3
    <3>3. hits # {} => \E i \in hits : \A j \in hits : i <= j
      BY <2>3, <3>1, <3>2
    <3>. QED  BY <3>3
  <2>5. hits = {} => outPolls = {}
    BY <1>2, <2>1, <2>2 DEF OutNames
  <2>. QED  BY <1>1, <2>1, <2>2, <2>3, <2>4, <2>5 DEF OutNames
<1>4. CASE ~pairKnown
  <2>. DEFINE cs == <<sendTo>>
  <2>1. Candidates = cs
    BY <1>4 DEF Candidates
  <2>2. DOMAIN cs = {1} /\ cs[1] = sendTo
    OBVIOUS
  <2>. HIDE DEF cs
  <2>3. hits \subseteq {1} /\ (hits = {} => sendTo \notin outPolls)
    BY <2>1, <2>2
  <2>4. hits # {} => first = 1
    <3>1. hits # {} => hits = {1}
      BY <2>3
    <3>2. (CHOOSE i \in {1} : \A j \in {1} : i <= j) = 1
      OBVIOUS
    <3>. QED  BY <3>1, <3>2
  <2>5. hits # {} => sendTo \in outPolls
    BY <2>1, <2>2, <2>3
  <2>. QED  BY <1>1, <1>2, <1>4, <2>1, <2>2, <2>3, <2>4, <2>5
<1>. QED  BY <1>2, <1>3, <1>4

\* The preparations.
LEMMA CheckStep ==
    ASSUME OutInv, NEW s \in {"resolve", "connect", "mark"}, Check(s)
    PROVE  OutInv'
<1>1. /\ sender.at = "steps" /\ sender.todo # <<>> /\ Head(sender.todo) = s
      /\ UNCHANGED <<scenario, sendTo, foundAt, attempts, hostUp, rows,
                     phoneEvent, sent, lost, phoneSaid>>
  BY DEF Check, AtStep, SenderUnchanged
<1>2. CASE NextStep /\ UNCHANGED reported
  <2>1. FoundInv'
    BY <1>1, <1>2, FoundMove DEF Preparations
  <2>2. sendTo' \in OutNames /\ foundAt' \in OutNames \cup {NULL}
    BY <1>1 DEF OutInv, SendTyped, OutboundTypeOK
  <2>. QED  BY <1>1, <1>2, <2>1, <2>2, PreparingMove DEF Preparations
<1>3. CASE SendReturns("error")
  BY <1>1, <1>3, ReturnMove
<1>. QED  BY <1>2, <1>3 DEF Check

\* The warm-up may change the recipient's name; nothing is stored yet.
LEMMA WarmUpStep ==
    ASSUME OutInv, WarmUpRecipient
    PROVE  OutInv'
<1>1. /\ sender.at = "steps" /\ sender.todo # <<>>
      /\ Head(sender.todo) = "warmup" /\ NextStep
      /\ UNCHANGED <<scenario, foundAt, attempts, hostUp, rows,
                     phoneEvent, sent, reported, lost, phoneSaid>>
  BY DEF WarmUpRecipient, AtStep, SenderUnchanged
<1>2. FoundInv'
  BY <1>1, FoundMove DEF Preparations
<1>3. sendTo' \in OutNames /\ foundAt' \in OutNames \cup {NULL}
  BY <1>1 DEF OutInv, SendTyped, OutboundTypeOK, WarmUpRecipient, OutNames
<1>. QED  BY <1>1, <1>2, <1>3, PreparingMove DEF Preparations

\* The search for the message a selection answers.
LEMMA FindTargetStep ==
    ASSUME OutInv, FindTarget
    PROVE  OutInv'
<1>1. /\ sender.at = "steps" /\ sender.todo # <<>>
      /\ Head(sender.todo) = "findTarget"
      /\ UNCHANGED <<scenario, sendTo, attempts, hostUp, rows,
                     phoneEvent, sent, lost, phoneSaid>>
  BY DEF FindTarget, AtStep, SenderUnchanged
<1>2. CASE /\ \E i \in DOMAIN Candidates : foundAt' = Candidates[i]
           /\ NextStep /\ UNCHANGED reported
  <2>1. FoundInv'
    BY <1>1, <1>2, FoundMove DEF Preparations
  <2>2. sendTo \in OutNames
    BY DEF OutInv, SendTyped, OutboundTypeOK
  <2>3. foundAt' \in OutNames
    <3>1. PICK i \in DOMAIN Candidates : foundAt' = Candidates[i]
      BY <1>2
    <3>. QED  BY <2>2, <3>1 DEF Candidates, OutNames
  <2>. QED  BY <1>1, <1>2, <2>1, <2>2, <2>3, PreparingMove DEF Preparations
<1>3. CASE SendReturns("error") /\ UNCHANGED foundAt
  BY <1>1, <1>3, ReturnMove
<1>. QED  BY <1>2, <1>3 DEF FindTarget

\* The search for the poll a vote is for.
LEMMA FindPollStep ==
    ASSUME OutInv, FindPoll
    PROVE  OutInv'
<1>. DEFINE t == sender.todo
<1>1. /\ sender.at = "steps" /\ t # <<>> /\ Head(t) = "findPoll"
      /\ UNCHANGED <<scenario, sendTo, attempts, hostUp, rows,
                     phoneEvent, sent, lost, phoneSaid>>
  BY DEF FindPoll, AtStep, SenderUnchanged
<1>2. CASE foundAt' = FirstWithPoll /\ NextStep /\ UNCHANGED reported
  <2>1. /\ t \in Seq(SendSteps) /\ Rest(t) = {Head(t)} \cup Rest(Tail(t))
    BY <1>1, BeforeAttempt DEF OutInv, Preparations
  <2>2. sender'.todo = Tail(t) /\ sender'.at = "steps"
    BY <1>1, <1>2 DEF OutInv, SendTyped, NextStep
  <2>3. sendKind = "vote" =>
          Rest(Tail(t)) \subseteq {"mark", "attempt"} \cup OfCommand
    <3>1. sendKind = "vote" => Finding(t)
      BY <1>1, <2>1 DEF OutInv, FoundInv
    <3>. QED  BY <1>1, <2>1, <3>1, StepSets, SplitHead DEF Finding
  <2>4. /\ foundAt' \in OutNames
        /\ \/ foundAt' \in outPolls \/ outPolls = {}
           \/ ~pairKnown /\ sendTo \notin outPolls
    BY <1>2, FirstWithPollIsPoll
  <2>5. OfCommand' = OfCommand
    BY <1>1, SameKind DEF scenario
  <2>6. sendKind' = "vote" => "findPoll" \notin Rest(Tail(t))
    BY <1>1, <2>3, StepSets DEF scenario
  <2>7. FoundInv'
    BY <1>1, <2>2, <2>3, <2>4, <2>5, <2>6 DEF FoundInv, scenario, rows
  <2>8. sendTo' \in OutNames
    BY <1>1 DEF OutInv, SendTyped, OutboundTypeOK
  <2>. QED  BY <1>1, <1>2, <2>4, <2>7, <2>8, PreparingMove DEF Preparations
<1>3. CASE SendReturns("error") /\ UNCHANGED foundAt
  BY <1>1, <1>3, ReturnMove
<1>. QED  BY <1>2, <1>3 DEF FindPoll

\* The attempt as the command sees it.
LEMMA AttemptSteppedByCommand ==
    ASSUME OutInv,
           \/ FirstAttempt \/ AttemptReturns \/ RetryAttempt \/ NoRetry
           \/ SendTimesOut \/ ReportSend
    PROVE  OutInv'
<1>1. sendKind \in OutboundKinds
  BY DEF OutInv, SendTyped, OutboundTypeOK
<1>2. CASE FirstAttempt
  BY <1>1, <1>2, StartMove
  DEF FirstAttempt, AtStep, SenderUnchanged, AttemptNumbers
<1>3. CASE AttemptReturns
  <2>1. CASE Result = "ok"
    BY <1>3, <2>1, ContinueMove DEF AttemptReturns, Waiting, SenderUnchanged
  <2>2. CASE Result = "error"
    BY <1>3, <2>2, ReturnMove DEF AttemptReturns, Waiting, SenderUnchanged
  <2>. QED  BY <1>3, <2>1, <2>2 DEF AttemptReturns
<1>4. CASE RetryAttempt
  <2>1. sender.at = "waiting" /\ sender.attempt = 1
        /\ attempts[1].result = "retryable" /\ StartAttempt(2)
        /\ UNCHANGED <<scenario, sendTo, foundAt, hostUp, rows, phoneEvent,
                       sent, reported, lost, phoneSaid>>
    BY <1>4 DEF RetryAttempt, Waiting, Retried, Result, SenderUnchanged
  <2>2. sender.todo # <<>> /\ Head(sender.todo) = "attempt"
    BY <2>1 DEF OutInv, SenderInv
  <2>. QED  BY <1>1, <2>1, <2>2, StartMove DEF AttemptNumbers
<1>5. CASE NoRetry
  BY <1>5, ReturnMove DEF NoRetry, Waiting, SenderUnchanged
<1>6. CASE SendTimesOut
  BY <1>6, ReturnMove DEF SendTimesOut, Waiting, SenderUnchanged
<1>7. CASE ReportSend
  BY <1>7, ReturnMove DEF ReportSend, SenderUnchanged
<1>. QED  BY <1>2, <1>3, <1>4, <1>5, <1>6, <1>7

\* The event handler, the end of the process, and a step of something else.
LEMMA PhoneStep ==
    ASSUME OutInv,
           \/ PhoneActs \/ StoreEventChat \/ HostEnds
           \/ UNCHANGED outboundVars
    PROVE  OutInv'
<1>1. /\ UNCHANGED <<scenario, sendTo, foundAt, sender, attempts, sent,
                     reported, lost, outRow, outPolls, outVotes, outStatus,
                     phoneSaid>>
      /\ hostUp' \in BOOLEAN
  <2>1. hostUp' = hostUp \/ hostUp' = FALSE
    BY DEF PhoneActs, StoreEventChat, HostEnds, outboundVars, SendUnchanged
  <2>2. hostUp' \in BOOLEAN
    BY <2>1 DEF OutInv, SendTyped, OutboundTypeOK
  <2>. QED
    BY <2>2
    DEF PhoneActs, StoreEventChat, HostEnds, outboundVars, SendUnchanged, rows
<1>2. RowsKeep /\ RowsBecome(NULL)
  BY <1>1, SameRows
<1>3. PhoneInv' /\ phoneSaid' \subseteq OutNames \X {"edit", "revoke"}
  BY <1>1 DEF OutInv, PhoneInv, SendTyped
<1>4. /\ phoneEvent \in [at : {"idle", "chat", "row"}, name : OutNames,
                         event : {"edit", "revoke"}]
      /\ phoneEvent.at # "idle" => sent # {}
      /\ outChats \subseteq OutNames /\ sendTo \in OutNames
  BY DEF OutInv, SendTyped, OutboundTypeOK, RowsInv
<1>5. /\ phoneEvent' \in [at : {"idle", "chat", "row"}, name : OutNames,
                          event : {"edit", "revoke"}]
      /\ phoneEvent'.at # "idle" => sent # {}
      /\ outChats \subseteq outChats' /\ outChats' \subseteq OutNames
  <2>1. CASE PhoneActs
    <3>1. \A name \in OutNames : CanonicalName(name) \in OutNames
      BY DEF CanonicalName, OutNames
    <3>. QED  BY <1>4, <2>1, <3>1 DEF PhoneActs, rows
  <2>2. CASE StoreEventChat
    BY <1>4, <2>2 DEF StoreEventChat, NoPhoneEvent, OutNames
  <2>3. CASE HostEnds \/ UNCHANGED outboundVars
    BY <1>4, <2>3 DEF HostEnds, outboundVars, rows
  <2>. QED  BY <2>1, <2>2, <2>3
<1>6. RowsTyped'
  BY <1>1, <1>5 DEF OutInv, SendTyped, OutboundTypeOK, RowsTyped
<1>. QED  BY <1>1, <1>2, <1>3, <1>5, <1>6, PhoneMove

\* The event handler stores what the phone did to the message.
LEMMA StoreEventStep ==
    ASSUME OutInv, StoreEvent
    PROVE  OutInv'
<1>. DEFINE name == phoneEvent.name   event == phoneEvent.event
<1>1. /\ UNCHANGED <<scenario, sendTo, foundAt, sender, attempts, hostUp,
                     sent,
                     reported, lost, outChats, outPolls, outVotes, outStatus>>
      /\ phoneEvent.at = "row" /\ phoneEvent' = NoPhoneEvent
  BY DEF StoreEvent, SendUnchanged
<1>2. name \in OutNames /\ event \in {"edit", "revoke"} /\ sent # {}
      /\ hostUp' \in BOOLEAN
      /\ phoneSaid \subseteq OutNames \X {"edit", "revoke"}
  BY <1>1 DEF OutInv, SendTyped, OutboundTypeOK, RowsInv
<1>3. /\ phoneEvent' \in [at : {"idle", "chat", "row"}, name : OutNames,
                          event : {"edit", "revoke"}]
      /\ phoneEvent'.at = "idle"
  BY <1>1 DEF NoPhoneEvent, OutNames
<1>4. CASE UNCHANGED <<outRow, phoneSaid>>
  <2>1. RowsKeep /\ RowsBecome(NULL)
    BY <1>4, SameRows
  <2>2. PhoneInv'
    BY <1>4 DEF OutInv, PhoneInv
  <2>3. RowsTyped'
    BY <1>1, <1>4 DEF OutInv, SendTyped, OutboundTypeOK, RowsTyped
  <2>. QED  BY <1>1, <1>2, <1>3, <1>4, <2>1, <2>2, <2>3, PhoneMove
<1>5. CASE /\ \E ts \in SendTimes :
                WriteOutRow(name, SentBody(event, NULL, ts))
           /\ phoneSaid' = phoneSaid \cup {<<name, event>>}
  <2>1. PICK ts \in SendTimes : WriteOutRow(name, SentBody(event, NULL, ts))
    BY <1>5
  <2>. DEFINE c == SentBody(event, NULL, ts)
  <2>2. /\ SentContent(c) /\ c.media = NULL
        /\ c.edited = (event = "edit") /\ c.revoked = (event = "revoke")
    BY <1>2, SentBodyIsContent
  <2>3. WriteOutRow(name, c)
    BY <2>1
  <2>. HIDE DEF c
  <2>4. /\ outRow' \in [OutNames -> Row \cup {NULL}]
        /\ RowsKeep /\ RowsBecome(NULL) /\ outRow'[name] # NULL
        /\ event = "revoke" => outRow'[name].revoked
        /\ event = "edit" => ShowsEdit(outRow'[name])
    BY <1>2, <2>2, <2>3, WrittenRow DEF OutInv, SendTyped, OutboundTypeOK
  <2>5. RowsTyped'
    BY <1>1, <2>4 DEF OutInv, SendTyped, OutboundTypeOK, RowsTyped
  <2>6. ASSUME NEW n \in OutNames, NEW e \in {"edit", "revoke"},
               <<n, e>> \in phoneSaid'
        PROVE  /\ outRow'[n] # NULL
               /\ e = "revoke" => outRow'[n].revoked
               /\ e = "edit" => ShowsEdit(outRow'[n])
    <3>1. CASE <<n, e>> \in phoneSaid
      BY <2>4, <3>1 DEF OutInv, PhoneInv, RowsKeep
    <3>2. CASE n = name /\ e = event
      BY <2>4, <3>2
    <3>. QED  BY <1>5, <2>6, <3>1, <3>2
  <2>7. PhoneInv'
    BY <2>6 DEF PhoneInv, ShowsEdit
  <2>8. phoneSaid' \subseteq OutNames \X {"edit", "revoke"}
    BY <1>2, <1>5
  <2>. QED  BY <1>1, <1>2, <1>3, <2>4, <2>5, <2>7, <2>8, PhoneMove
<1>. QED  BY <1>4, <1>5 DEF StoreEvent

-----------------------------------------------------------------------------
(* The theorems.                                                           *)

\* A command that has only its plan.
LEMMA OutInitInv ==
    ASSUME OutboundInit
    PROVE  OutInv
<1>. DEFINE t == sender.todo
<1>1. sendKind \in OutboundKinds /\ foundAt = NULL /\ sendTo \in OutNames
      /\ outChats = {} /\ outVotes = {} /\ outStatus = FALSE /\ sent = {}
      /\ phoneEvent = NoPhoneEvent /\ reported = "none" /\ lost = FALSE
      /\ phoneSaid = {} /\ outRow = [n \in OutNames |-> NULL]
      /\ attempts = [n \in AttemptNumbers |-> NoAttempt] /\ hostUp = TRUE
      /\ pairKnown \in BOOLEAN /\ delegated \in BOOLEAN
      /\ outPolls \subseteq OutNames /\ (sendKind # "vote" => outPolls = {})
  BY DEF OutboundInit
<1>2. /\ PlanOf(t) /\ sender.at = "steps" /\ sender.attempt = 1
      /\ sender \in SenderRecord
  <2>. DEFINE p == IF delegated THEN DelegatedSteps[sendKind]
                   ELSE CommandSteps(<<"connect">>)[sendKind]
  <2>1. PlanOf(DelegatedSteps[sendKind])
        /\ PlanOf(CommandSteps(<<"connect">>)[sendKind])
    BY <1>1, PlanLemma DEF DelegatedSteps
  <2>2. PlanOf(p)
    BY <2>1
  <2>3. sender = [todo |-> p, at |-> "steps", attempt |-> 1]
    BY DEF OutboundInit
  <2>. HIDE DEF p
  <2>4. p \in Seq(SendSteps)
    BY <2>2 DEF PlanOf
  <2>. QED  BY <2>2, <2>3, <2>4 DEF AttemptNumbers, SenderRecord
<1>3. "attempt" \in Rest(t) /\ ("findPoll" \in Rest(t) \/ sendKind # "vote")
  BY <1>2, SplitHead, StepSets DEF PlanOf, Preparing, Finding
<1>4. \A n \in AttemptNumbers : attempts[n] = NoAttempt
  BY <1>1
<1>5. /\ NoAttempt.todo = <<>> /\ NoAttempt.media = NULL
      /\ NoAttempt.result = "none" /\ <<>> \in Seq(SendSteps)
      /\ NoAttempt \in [todo : Seq(SendSteps), media : Media \cup {NULL},
                        result : Results]
  BY DEF NoAttempt, Results
<1>6. \A n \in OutNames : outRow[n] = NULL
  BY <1>1
<1>7. /\ phoneEvent.at = "idle"
      /\ phoneEvent \in [at : {"idle", "chat", "row"}, name : OutNames,
                         event : {"edit", "revoke"}]
  BY <1>1 DEF NoPhoneEvent, OutNames
<1>8. SendTyped
  <2>1. OutboundTypeOK
    BY <1>1, <1>2, <1>4, <1>5 DEF OutboundTypeOK, OutNames, Results,
        SenderRecord
  <2>. QED  BY <1>1, <1>2, <1>5, <1>7, <2>1 DEF SendTyped
<1>9. AttemptInv
  BY <1>1, <1>4, <1>5 DEF AttemptInv, AttemptNumbers
<1>10. SenderInv
  BY <1>1, <1>2, <1>3, <1>4, <1>5 DEF SenderInv, PlanOf, AttemptNumbers
<1>11. RequiredInv
  BY <1>1, <1>2, <1>3 DEF RequiredInv, PlanOf
<1>12. FoundInv
  BY <1>2, <1>3 DEF FoundInv, PlanOf
<1>13. RowsInv
  BY <1>1, <1>6, <1>7 DEF RowsInv
<1>14. PhoneInv
  BY <1>1 DEF PhoneInv
<1>15. VoteJoinsPoll
  BY <1>1 DEF VoteJoinsPoll
<1>. QED
  BY <1>8, <1>9, <1>10, <1>11, <1>12, <1>13, <1>14, <1>15 DEF OutInv

\* Every step, one action at a time.
LEMMA OutStepInv ==
    ASSUME OutInv, [OutboundNext]_outboundVars
    PROVE  OutInv'
<1>1. CASE ResolveSendTo \/ ConnectToSend \/ WarnRapidSend
  BY <1>1, CheckStep DEF ResolveSendTo, ConnectToSend, WarnRapidSend
<1>2. CASE WarmUpRecipient \/ FindPoll \/ FindTarget
  BY <1>2, WarmUpStep, FindPollStep, FindTargetStep
<1>3. CASE \/ FirstAttempt \/ AttemptReturns \/ RetryAttempt \/ NoRetry
           \/ SendTimesOut \/ ReportSend
  BY <1>3, AttemptSteppedByCommand
<1>4. ASSUME NEW s \in Statements, Persist(s)
      PROVE  OutInv'
  BY <1>4, PersistMove
<1>5. ASSUME NEW n \in AttemptNumbers,
             Prepare(n) \/ Upload(n) \/ AcceptSend(n) \/ SendFails(n)
      PROVE  OutInv'
  BY <1>5, PrepareStep, UploadStep, AcceptStep, SendFailsStep
<1>6. ASSUME NEW n \in AttemptNumbers, NEW s \in Statements,
             RecordInAttempt(n, s)
      PROVE  OutInv'
  BY <1>6, RecordInAttemptStep
<1>7. CASE StoreEvent
  BY <1>7, StoreEventStep
<1>8. CASE PhoneActs \/ StoreEventChat \/ HostEnds \/ UNCHANGED outboundVars
  BY <1>8, PhoneStep
<1>. QED
  BY <1>1, <1>2, <1>3, <1>4, <1>5, <1>6, <1>7, <1>8 DEF OutboundNext

\* The invariant holds in every reachable state.
LEMMA OutInvariance == OutboundSpec => []OutInv
  BY OutInitInv, OutStepInv, PTL DEF OutboundSpec

\* What the invariant says of the rows.
LEMMA RecordedIsAccepted == OutInv => RecordedAsAccepted
<1>. SUFFICES ASSUME OutInv
              PROVE  RecordedAsAccepted
  OBVIOUS
<1>1. /\ \/ \E n \in OutNames : outRow[n] # NULL
         \/ outVotes # {} \/ outStatus
         \/ sendKind = "poll" /\ outPolls # {}
         => sent # {}
      /\ \A n \in OutNames :
           outRow[n] # NULL /\ outRow[n].media_key # NULL
             => \E k \in sent : outRow[n].media_key = Uploads[k]
  BY DEF OutInv, RowsInv
<1>2. ASSUME reported = "sent", ~lost
      PROVE  IF sendKind \in Statuses THEN outStatus
             ELSE /\ RecordName \in outChats /\ outRow[RecordName] # NULL
                  /\ sendKind = "poll" => RecordName \in outPolls
                  /\ sendKind = "vote" => RecordName \in outVotes
  <2>1. \A s \in Required : Recorded(s)
    BY <1>2 DEF OutInv, RequiredInv
  <2>2. Recorded("status") = outStatus
    BY DEF Recorded
  <2>3. /\ Recorded("chat") => RecordName \in outChats
        /\ Recorded("message") => outRow[RecordName] # NULL
        /\ Recorded("poll") => RecordName \in outPolls
        /\ Recorded("vote") => RecordName \in outVotes
    BY DEF Recorded
  <2>4. CASE sendKind \in Statuses
    BY <2>1, <2>2, <2>4 DEF Required
  <2>5. CASE sendKind \notin Statuses
    BY <2>1, <2>3, <2>5 DEF Required
  <2>. QED  BY <2>4, <2>5
<1>. QED  BY <1>1, <1>2 DEF RecordedAsAccepted

\* What the contact's two names have to do with it.  Only the record shows the
\* message as it was sent; where the pair is known, the phone's events are
\* stored by the number; and a command that sends a poll looks for none.
NameInv ==
    /\ \A m \in OutNames : AsSent(m) => m = RecordName
    /\ pairKnown =>
         /\ phoneEvent.at # "idle" => phoneEvent.name = "pn"
         /\ \A x \in phoneSaid : x[1] = "pn"
    /\ sendKind = "poll" =>
         foundAt = NULL /\ Rest(sender.todo) \cap {"findPoll", "findTarget"} = {}

\* A poll is sent, and then recorded; nothing is looked for.
LEMMA PollPlan ==
    ASSUME NEW connect \in {<<>>, <<"connect">>}
    PROVE  Rest(PollCommand(connect)) \cap {"findPoll", "findTarget"} = {}
<1>. DEFINE first == <<"resolve">>
            last == <<"warmup", "mark", "attempt">>
            record == <<"chat", "message", "poll">>
<1>1. /\ first \in Seq(SendSteps) /\ last \in Seq(SendSteps)
      /\ record \in Seq(SendSteps) /\ connect \in Seq(SendSteps)
  <2>1. first \in Seq(SendSteps) /\ last \in Seq(SendSteps)
    BY DEF SendSteps, Preparations
  <2>2. record \in Seq(SendSteps)
    BY DEF SendSteps, Statements
  <2>3. <<>> \in Seq(SendSteps) /\ <<"connect">> \in Seq(SendSteps)
    BY DEF SendSteps, Preparations
  <2>4. connect \in Seq(SendSteps)
    BY <2>3
  <2>. QED  BY <2>1, <2>2, <2>4
<1>2. /\ Rest(first) = {"resolve"} /\ Rest(connect) \subseteq {"connect"}
      /\ Rest(last) = {"warmup", "mark", "attempt"}
      /\ Rest(record) = {"chat", "message", "poll"}
  <2>1. Rest(<<>>) = {} /\ Rest(<<"connect">>) = {"connect"}
    BY DEF Rest
  <2>2. Rest(connect) \subseteq {"connect"}
    BY <2>1
  <2>3. Rest(first) = {"resolve"}
    BY DEF Rest
  <2>4. Rest(last) = {last[1], last[2], last[3]}
    <3>1. Len(last) = 3
      OBVIOUS
    <3>. HIDE DEF last
    <3>. QED  BY <3>1 DEF Rest
  <2>5. Rest(record) = {record[1], record[2], record[3]}
    <3>1. Len(record) = 3
      OBVIOUS
    <3>. HIDE DEF record
    <3>. QED  BY <3>1 DEF Rest
  <2>. QED  BY <2>2, <2>3, <2>4, <2>5
<1>3. PollCommand(connect) = first \o connect \o last \o record
  BY DEF PollCommand, PollRecord
<1>. HIDE DEF first, last, record
<1>4. /\ first \o connect \in Seq(SendSteps)
      /\ Rest(first \o connect) = Rest(first) \cup Rest(connect)
  BY <1>1, Joined
<1>5. /\ first \o connect \o last \in Seq(SendSteps)
      /\ Rest(first \o connect \o last) = Rest(first \o connect) \cup Rest(last)
  BY <1>1, <1>4, Joined
<1>6. Rest(first \o connect \o last \o record) =
        Rest(first \o connect \o last) \cup Rest(record)
  BY <1>1, <1>5, Joined
<1>. QED  BY <1>2, <1>3, <1>4, <1>5, <1>6

\* Nothing is stored, and nothing is looked for by a poll.
LEMMA NameInitInv == OutboundInit => NameInv
<1>. SUFFICES ASSUME OutboundInit PROVE NameInv
  OBVIOUS
<1>1. /\ outRow = [n \in OutNames |-> NULL] /\ foundAt = NULL
      /\ phoneEvent.at = "idle" /\ phoneSaid = {}
  BY DEF OutboundInit, NoPhoneEvent
<1>2. ASSUME sendKind = "poll"
      PROVE  Rest(sender.todo) \cap {"findPoll", "findTarget"} = {}
  <2>1. \E connect \in {<<>>, <<"connect">>} :
          sender.todo = PollCommand(connect)
    <3>1. \A c \in {<<>>, <<"connect">>} :
            CommandSteps(c)["poll"] = PollCommand(c)
      BY DEF CommandSteps
    <3>2. sender.todo = IF delegated THEN CommandSteps(<<>>)["poll"]
                        ELSE CommandSteps(<<"connect">>)["poll"]
      BY <1>2 DEF OutboundInit, DelegatedSteps
    <3>. QED  BY <3>1, <3>2
  <2>. QED  BY <2>1, PollPlan
<1>. QED  BY <1>1, <1>2 DEF NameInv, AsSent

\* A row is written under the name of the record by a statement, and under
\* the name of the phone's event, which it then shows.
LEMMA NameStep ==
    ASSUME OutInv, OutInv', NameInv, [OutboundNext]_outboundVars
    PROVE  NameInv'
<1>1. UNCHANGED scenario
  BY DEF OutboundNext, outboundVars, SenderUnchanged, AttemptUnchanged,
     SendUnchanged, ResolveSendTo, ConnectToSend, WarnRapidSend, Check,
     WarmUpRecipient, FindPoll, FindTarget, FirstAttempt, AttemptReturns,
     RetryAttempt, NoRetry, SendTimesOut, ReportSend, Persist, Prepare,
     Upload, AcceptSend, SendFails, RecordInAttempt, PhoneActs,
     StoreEventChat, StoreEvent, HostEnds
<1>2. \/ UNCHANGED <<sendTo, foundAt>>
      \/ /\ sender.at = "steps" /\ sender.todo # <<>>
         /\ Head(sender.todo) \in {"warmup", "findPoll", "findTarget"}
         /\ UNCHANGED outRow
         /\ foundAt' # foundAt =>
              Head(sender.todo) \in {"findPoll", "findTarget"}
  BY DEF OutboundNext, outboundVars, SenderUnchanged, AttemptUnchanged,
     SendUnchanged, ResolveSendTo, ConnectToSend, WarnRapidSend, Check,
     WarmUpRecipient, FindPoll, FindTarget, FirstAttempt, AttemptReturns,
     RetryAttempt, NoRetry, SendTimesOut, ReportSend, Persist, Prepare,
     Upload, AcceptSend, SendFails, RecordInAttempt, PhoneActs,
     StoreEventChat, StoreEvent, HostEnds, AtStep, rows
<1>3. \/ UNCHANGED outRow
      \/ /\ UNCHANGED <<sendTo, foundAt>>
         /\ \E body : WriteOutRow(RecordName, body)
      \/ StoreEvent
  BY DEF OutboundNext, outboundVars, SenderUnchanged, AttemptUnchanged,
     SendUnchanged, ResolveSendTo, ConnectToSend, WarnRapidSend, Check,
     WarmUpRecipient, FindPoll, FindTarget, FirstAttempt, AttemptReturns,
     RetryAttempt, NoRetry, SendTimesOut, ReportSend, Persist, Prepare,
     Upload, AcceptSend, SendFails, RecordInAttempt, PhoneActs,
     StoreEventChat, HostEnds, rows, Statement
<1>4. \/ sender'.todo = sender.todo \/ sender'.todo = <<>>
      \/ sender.todo # <<>> /\ sender'.todo = Tail(sender.todo)
  <2>1. sender.at = "waiting" => sender.todo # <<>>
    BY DEF OutInv, SenderInv
  <2>2. sender = [todo |-> sender.todo, at |-> sender.at,
                  attempt |-> sender.attempt]
    BY DEF OutInv, SendTyped, SenderRecord
  <2>. QED
    BY <2>1, <2>2
    DEF OutboundNext, outboundVars, SenderUnchanged, AttemptUnchanged,
     SendUnchanged, ResolveSendTo, ConnectToSend, WarnRapidSend, Check,
     WarmUpRecipient, FindPoll, FindTarget, FirstAttempt, AttemptReturns,
     RetryAttempt, NoRetry, SendTimesOut, ReportSend, Persist, Prepare,
     Upload, AcceptSend, SendFails, RecordInAttempt, PhoneActs,
     StoreEventChat, StoreEvent, HostEnds, AtStep, NextStep, SendReturns,
     StartAttempt, Waiting
<1>5. sendKind' = "poll" =>
        foundAt' = NULL
        /\ Rest(sender'.todo) \cap {"findPoll", "findTarget"} = {}
  <2>. SUFFICES ASSUME sendKind = "poll"
                PROVE  /\ foundAt' = NULL
                       /\ Rest(sender'.todo)
                            \cap {"findPoll", "findTarget"} = {}
    BY <1>1 DEF scenario
  <2>1. /\ foundAt = NULL
        /\ Rest(sender.todo) \cap {"findPoll", "findTarget"} = {}
    BY DEF NameInv
  <2>2. sender.todo # <<>> =>
          /\ Head(sender.todo) \in Rest(sender.todo)
          /\ Rest(Tail(sender.todo)) \subseteq Rest(sender.todo)
    BY HeadAndRest DEF OutInv, SendTyped, SenderRecord
  <2>3. Rest(<<>>) = {}
    BY DEF Rest
  <2>4. foundAt' = NULL
    BY <1>2, <2>1, <2>2
  <2>. QED  BY <1>4, <2>1, <2>2, <2>3, <2>4
<1>6. pairKnown' =>
        /\ phoneEvent'.at # "idle" => phoneEvent'.name = "pn"
        /\ \A x \in phoneSaid' : x[1] = "pn"
  <2>. SUFFICES ASSUME pairKnown
                PROVE  /\ phoneEvent'.at # "idle" => phoneEvent'.name = "pn"
                       /\ \A x \in phoneSaid' : x[1] = "pn"
    BY <1>1 DEF scenario
  <2>1. /\ phoneEvent.at # "idle" => phoneEvent.name = "pn"
        /\ \A x \in phoneSaid : x[1] = "pn"
        /\ NoPhoneEvent.at = "idle"
    BY DEF NameInv, NoPhoneEvent
  <2>2. CASE PhoneActs
    BY <2>1, <2>2 DEF PhoneActs, CanonicalName
  <2>3. CASE StoreEventChat
    <3>1. phoneEvent \in [at : {"idle", "chat", "row"}, name : OutNames,
                          event : {"edit", "revoke"}]
      BY DEF OutInv, SendTyped
    <3>. QED  BY <2>1, <2>3, <3>1 DEF StoreEventChat
  <2>4. CASE StoreEvent
    BY <2>1, <2>4 DEF StoreEvent
  <2>5. CASE UNCHANGED <<phoneEvent, phoneSaid>>
    BY <2>1, <2>5
  <2>. QED
    BY <2>2, <2>3, <2>4, <2>5
    DEF OutboundNext, outboundVars, SenderUnchanged, AttemptUnchanged,
     ResolveSendTo, ConnectToSend, WarnRapidSend, Check,
     WarmUpRecipient, FindPoll, FindTarget, FirstAttempt, AttemptReturns,
     RetryAttempt, NoRetry, SendTimesOut, ReportSend, Persist, Prepare,
     Upload, AcceptSend, SendFails, RecordInAttempt, HostEnds
<1>7. UNCHANGED <<sendTo, foundAt>> => RecordName' = RecordName
  BY <1>1 DEF RecordName, CanonicalName, scenario
<1>8. \A m \in OutNames : outRow'[m] = outRow[m] => (AsSent(m)' <=> AsSent(m))
  BY DEF AsSent
<1>9. \A m \in OutNames : AsSent(m)' => m = RecordName'
  <2>. SUFFICES ASSUME NEW m \in OutNames, AsSent(m)'
                PROVE  m = RecordName'
    OBVIOUS
  <2>1. AsSent(m) => m = RecordName
    BY DEF NameInv
  <2>2. CASE UNCHANGED outRow
    <3>1. AsSent(m)
      BY <1>8, <2>2
    <3>2. sent # {}
      BY <3>1 DEF AsSent, OutInv, RowsInv
    <3>3. UNCHANGED <<sendTo, foundAt>>
      <4>1. Head(sender.todo) \in {"warmup", "findPoll", "findTarget"} =>
              ~(sender.at = "steps" /\ sender.todo # <<>>)
        BY <3>2, BeforeAttempt DEF OutInv, Preparations
      <4>. QED  BY <1>2, <4>1
    <3>. QED  BY <1>7, <2>1, <3>1, <3>3
  <2>3. ASSUME UNCHANGED <<sendTo, foundAt>>, NEW body,
               WriteOutRow(RecordName, body)
        PROVE  m = RecordName'
    <3>1. m # RecordName => outRow'[m] = outRow[m]
      BY <2>3 DEF WriteOutRow, OutInv, SendTyped, OutboundTypeOK
    <3>. QED  BY <1>7, <1>8, <2>1, <2>3, <3>1
  <2>4. CASE StoreEvent /\ outRow' # outRow
    <3>1. /\ UNCHANGED <<sendTo, foundAt>>
          /\ <<phoneEvent.name, phoneEvent.event>> \in phoneSaid'
          /\ \E body : WriteOutRow(phoneEvent.name, body)
      BY <2>4 DEF StoreEvent, SendUnchanged
    <3>2. phoneEvent.event \in {"edit", "revoke"}
      BY DEF OutInv, SendTyped
    <3>3. m # phoneEvent.name
      BY <3>1, <3>2 DEF AsSent, OutInv, PhoneInv, ShowsEdit
    <3>4. outRow'[m] = outRow[m]
      BY <3>1, <3>3 DEF WriteOutRow, OutInv, SendTyped, OutboundTypeOK
    <3>. QED  BY <1>7, <1>8, <2>1, <3>1, <3>4
  <2>. QED  BY <1>3, <2>2, <2>3, <2>4
<1>. QED  BY <1>5, <1>6, <1>9 DEF NameInv

\* What the invariants say of the rows, under both names.
LEMMA PhoneIsLast == OutInv /\ NameInv => PhoneHasLastWord
<1>. SUFFICES ASSUME OutInv, NameInv, NEW n \in OutNames
              PROVE  /\ <<n, "revoke">> \in phoneSaid =>
                          outRow[n].revoked /\ outRow[n].text = NULL
                          /\ outRow[n].media_key = NULL
                     /\ <<n, "edit">> \in phoneSaid =>
                          outRow[n].revoked \/ outRow[n].text = EditedText
                     /\ \A other \in OutNames \ {n} :
                          /\ AsSent(other)
                          /\ \E e \in {"edit", "revoke"} :
                               <<n, e>> \in phoneSaid
                          => /\ other = RecordName
                             /\ pairKnown =>
                                  other = "lid" /\ sendKind # "poll"
  BY DEF PhoneHasLastWord
<1>1. outRow[n] # NULL => SentRow(outRow[n])
  BY DEF OutInv, RowsInv
<1>2. /\ <<n, "revoke">> \in phoneSaid =>
           outRow[n].revoked /\ outRow[n].text = NULL
           /\ outRow[n].media_key = NULL
      /\ <<n, "edit">> \in phoneSaid =>
           outRow[n].revoked \/ outRow[n].text = EditedText
  BY <1>1 DEF OutInv, PhoneInv, SentRow, Hidden, Tombstone, ShowsEdit
<1>3. ASSUME NEW other \in OutNames \ {n}, AsSent(other),
             NEW e \in {"edit", "revoke"}, <<n, e>> \in phoneSaid
      PROVE  /\ other = RecordName
             /\ pairKnown => other = "lid" /\ sendKind # "poll"
  <2>1. other = RecordName /\ (pairKnown => n = "pn")
    BY <1>3 DEF NameInv
  <2>2. pairKnown => other = "lid"
    BY <1>3, <2>1 DEF OutNames
  <2>3. pairKnown /\ sendKind = "poll" => RecordName = "pn"
    BY DEF NameInv, RecordName, CanonicalName
  <2>. QED  BY <2>1, <2>2, <2>3
<1>. QED  BY <1>2, <1>3

\* Whatever the command retries, gives up or fails to store, no row is of a
\* message that was not accepted, the media columns are the upload of an
\* accepted attempt, and a success that met no failing statement has left all
\* the rows of its kind (the UpsertX calls after the send in src/cmd/wacli).
THEOREM RecordsAreOfTheSent == OutboundSpec => []RecordedAsAccepted
  BY OutInvariance, RecordedIsAccepted, PTL

\* The account's phone may edit or revoke the message while the command still
\* has to record it: the late record does not bring the first text back (ON
\* CONFLICT of UpsertMessage) under the name that the phone's event is stored
\* by; under the contact's other name it does in no other case than where the
\* pair is unknown or the record is by the hidden id, and never for a poll.
THEOREM PhoneStays == OutboundSpec => []PhoneHasLastWord
<1>1. OutInv /\ NameInv /\ OutInv' /\ [OutboundNext]_outboundVars => NameInv'
  BY NameStep
<1>. QED
  BY <1>1, NameInitInv, OutInvariance, PhoneIsLast, PTL DEF OutboundSpec

\* The vote of `poll vote` goes to the name its poll is stored under, if that
\* is a name the command looks for: either one where the pair is known,
\* although the warm-up may rename the recipient on the way, and otherwise the
\* recipient's name after the warm-up (buildPollVoteInfoForChats).
THEOREM VotesWithPoll == OutboundSpec => []VoteJoinsPoll
<1>1. OutInv => VoteJoinsPoll
  BY DEF OutInv
<1>. QED  BY <1>1, OutInvariance, PTL

\* At most one attempt was accepted.
OneSent == sent \subseteq AttemptNumbers /\ ~(1 \in sent /\ 2 \in sent)

\* The second attempt follows one that sent nothing, so that only one of them
\* sends.
LEMMA AcceptedOnce == OutInv => OneSent
<1>. SUFFICES ASSUME OutInv
              PROVE  OneSent
  OBVIOUS
<1>1. sent \subseteq AttemptNumbers
  BY DEF OutInv, SendTyped, OutboundTypeOK
<1>2. 2 \in sent => attempts[2].result # "none"
  BY DEF OutInv, AttemptInv, AttemptNumbers
<1>3. attempts[1].result = "retryable" => 1 \notin sent
  BY DEF OutInv, AttemptInv, AttemptNumbers
<1>. QED  BY <1>1, <1>2, <1>3 DEF OutInv, AttemptInv, OneSent

\* What was accepted at most once counts at most one.
LEMMA CountOfOne ==
    ASSUME NEW S, S \subseteq AttemptNumbers, ~(1 \in S /\ 2 \in S)
    PROVE  Cardinality(S) = IF S = {} THEN 0 ELSE 1
<1>1. S = {} \/ S = {1} \/ S = {2}
  BY DEF AttemptNumbers
<1>2. Cardinality({1}) = 1 /\ Cardinality({2}) = 1 /\ Cardinality({}) = 0
  BY FS_Singleton, FS_EmptySet
<1>3. {1} # {} /\ {2} # {}
  OBVIOUS
<1>. QED  BY <1>1, <1>2, <1>3

\* What a step does to the acceptance and the report.
SendResult ==
    \/ UNCHANGED <<sent, reported>>
    \/ \E n \in AttemptNumbers : sent' = sent \cup {n} /\ UNCHANGED reported
    \/ reported = "none" /\ reported' = "error" /\ UNCHANGED sent
    \/ reported = "none" /\ reported' = "sent" /\ UNCHANGED sent /\ sent # {}

\* Every step is one of these; success is reported after an acceptance.
LEMMA ResultStep ==
    ASSUME OutInv, [OutboundNext]_outboundVars
    PROVE  SendResult
<1>1. sender.at # "done" => reported = "none"
  BY DEF OutInv, SenderInv
<1>2. CASE \/ ResolveSendTo \/ ConnectToSend \/ WarnRapidSend
  BY <1>1, <1>2
  DEF ResolveSendTo, ConnectToSend, WarnRapidSend, Check, AtStep, SendReturns,
      SenderUnchanged, SendResult
<1>3. CASE WarmUpRecipient \/ FindPoll \/ FindTarget
  BY <1>1, <1>3
  DEF WarmUpRecipient, FindPoll, FindTarget, AtStep, SendReturns,
      SenderUnchanged, SendResult
<1>4. CASE \/ FirstAttempt \/ AttemptReturns \/ RetryAttempt \/ NoRetry
           \/ SendTimesOut
  BY <1>1, <1>4
  DEF FirstAttempt, AttemptReturns, RetryAttempt, NoRetry, SendTimesOut,
      Waiting,
      SendReturns, SenderUnchanged, SendResult
<1>5. CASE ReportSend
  <2>1. Rest(<<>>) = {}
    BY DEF Rest
  <2>2. sender.attempt \in sent
    BY <1>5, <2>1 DEF ReportSend, OutInv, SenderInv, AttemptInv, SendTyped,
        SenderRecord
  <2>. QED
    BY <1>1, <1>5, <2>2 DEF ReportSend, SendReturns, SenderUnchanged,
       SendResult
<1>6. ASSUME NEW s \in Statements, Persist(s)
      PROVE  SendResult
  BY <1>6 DEF Persist, SenderUnchanged, SendResult
<1>7. ASSUME NEW n \in AttemptNumbers,
             Prepare(n) \/ Upload(n) \/ AcceptSend(n) \/ SendFails(n)
      PROVE  SendResult
  BY <1>7
  DEF Prepare, Upload, AcceptSend, SendFails, AttemptUnchanged, SendResult
<1>8. ASSUME NEW n \in AttemptNumbers, NEW s \in Statements,
             RecordInAttempt(n, s)
      PROVE  SendResult
  BY <1>8 DEF RecordInAttempt, AttemptUnchanged, SendResult
<1>9. CASE \/ PhoneActs \/ StoreEventChat \/ StoreEvent \/ HostEnds
           \/ UNCHANGED outboundVars
  BY <1>9
  DEF PhoneActs, StoreEventChat, StoreEvent, HostEnds, outboundVars,
      SendUnchanged, SendResult
<1>. QED
  BY <1>2, <1>3, <1>4, <1>5, <1>6, <1>7, <1>8, <1>9 DEF OutboundNext

\* Such a step is a step of SendOutcome, or changes nothing it sees.
LEMMA PromiseStep ==
    ASSUME OneSent, OneSent', SendResult
    PROVE  [Promise!Next]_<<[c \in {"command"} |-> Cardinality(sent)],
                           [c \in {"command"} |-> reported]>>
<1>1. CASE UNCHANGED <<sent, reported>>
  BY <1>1
<1>2. ASSUME NEW n \in AttemptNumbers, sent' = sent \cup {n}, n \notin sent,
             UNCHANGED reported
      PROVE  Promise!Next
  <2>1. sent = {} /\ sent' # {}
    BY <1>2 DEF OneSent, AttemptNumbers
  <2>2. Cardinality(sent) = 0 /\ Cardinality(sent)' = 1
    BY <2>1, CountOfOne DEF OneSent
  <2>3. Promise!Accept("command")
    BY <1>2, <2>2 DEF Promise!Accept
  <2>. QED  BY <2>3 DEF Promise!Next
<1>3. CASE reported = "none" /\ reported' = "error" /\ UNCHANGED sent
  <2>1. Promise!ReportError("command")
    BY <1>3 DEF Promise!ReportError
  <2>. QED  BY <2>1 DEF Promise!Next
<1>4. CASE /\ reported = "none" /\ reported' = "sent"
           /\ UNCHANGED sent /\ sent # {}
  <2>1. Cardinality(sent) = 1
    BY <1>4, CountOfOne DEF OneSent
  <2>2. Promise!ReportSent("command")
    BY <1>4, <2>1 DEF Promise!ReportSent
  <2>. QED  BY <2>2 DEF Promise!Next
<1>5. ASSUME NEW n \in AttemptNumbers, sent' = sent \cup {n}, n \in sent
      PROVE  sent' = sent
  BY <1>5
<1>. QED  BY <1>1, <1>2, <1>3, <1>4, <1>5 DEF SendResult

\* Every kind of send implements SendOutcome: each step accepts a message that
\* was not accepted before, reports once, success only of what was accepted,
\* or changes neither.
THEOREM PromiseKept == OutboundSpec => KeepsPromise
<1>1. OutboundInit => Promise!Init
  <2>. SUFFICES ASSUME OutboundInit
                PROVE  Promise!Init
    OBVIOUS
  <2>1. sent = {} /\ reported = "none"
    BY DEF OutboundInit
  <2>2. Cardinality(sent) = 0
    BY <2>1, FS_EmptySet
  <2>. QED  BY <2>1, <2>2 DEF Promise!Init
<1>2. OutInv /\ OneSent /\ OneSent' /\ [OutboundNext]_outboundVars
        => [Promise!Next]_<<[c \in {"command"} |-> Cardinality(sent)],
                           [c \in {"command"} |-> reported]>>
  BY ResultStep, PromiseStep
<1>. QED
  BY <1>1, <1>2, AcceptedOnce, OutInvariance, PTL
  DEF OutboundSpec, KeepsPromise, Promise!Spec
-----------------------------------------------------------------------------
(* The commands together.                                                  *)

\* The behaviours MCCommands checks are behaviours of each component: what is
\* proved of a component holds of them.
THEOREM CommandsCompose ==
    CommandsSpec => Spec /\ BackfillSpec /\ AccountsSpec /\ OutboundSpec
<1>1. CommandsInit => Init /\ BackfillInit /\ AccountsInit /\ OutboundInit
  BY DEF CommandsInit
<1>2. ASSUME [CommandsNext]_commandsVars
      PROVE  /\ [Next]_vars
             /\ [BackfillNext]_backfillVars
             /\ [AccountsNext]_accountsVars
             /\ [OutboundNext]_outboundVars
  BY <1>2 DEF CommandsNext, commandsVars
<1>. QED
  BY <1>1, <1>2, PTL
  DEF CommandsSpec, Spec, BackfillSpec, AccountsSpec, OutboundSpec

\* Rows, backfills, accounts commands and sends have values of their types,
\* for every value of the constants.
THEOREM CommandsTyped == CommandsSpec => []CommandsTypeOK
<1>1. ConfigInv => AccountsTypeOK
  BY DEF ConfigInv
<1>2. AccountsSpec => []AccountsTypeOK
  BY <1>1, AccountsInitInv, AccountsStepInv, PTL DEF AccountsSpec
<1>3. OutInv => OutboundTypeOK
  BY DEF OutInv, SendTyped
<1>4. OutboundSpec => []OutboundTypeOK
  BY <1>3, OutInvariance, PTL
<1>5. TypeOK /\ BackfillTypeOK /\ AccountsTypeOK /\ OutboundTypeOK
        => CommandsTypeOK
  BY DEF CommandsTypeOK
<1>. QED
  BY <1>2, <1>4, <1>5, CommandsCompose, TypeCorrect, BackfillTyped, PTL
=============================================================================
