------------------------- MODULE MessageStoreProofs -------------------------
(***************************************************************************)
(* Proofs about MessageStore, for every set of keys, payloads and workers: *)
(* a deleted message stays deleted and hidden, a path has its file, the    *)
(* newest edit is shown, and what comes again changes nothing.             *)
(***************************************************************************)
EXTENDS MessageStore, MessageRowProofs

-----------------------------------------------------------------------------
(* The inductive invariant.                                                *)

\* Every stored row is hidden if it is a tombstone.
RowsHidden == \A k \in Keys : Present(k) => Hidden(messages[k])

\* Handlers and workers are at work only in a sync process.
SyncOnly ==
    /\ mode # "sync" => /\ halfDeleted = {} /\ fetched = {}
                        /\ \A w \in Workers : worker[w] = NoJob
    /\ \A w \in fetched : worker[w] # NoJob

\* The CLI holds the lock and, as long as it does, the row it loaded is
\* there and no tombstone: what Allowed checked is still true when it writes.
CliTarget ==
    cli.stage # "none" =>
        /\ mode = "cli"
        /\ cli \in CliStates \ {Idle}
        /\ Live(cli.key)

IInv == TypeOK /\ RowsHidden /\ SyncOnly /\ CliTarget

\* Writing a good row keeps the table typed and hidden, and deletes nothing
\* if the new row keeps what the old one had.
LEMMA RowWriteKeeps ==
    ASSUME messages \in [Keys -> RowOrNull], RowsHidden,
           NEW k \in Keys, NEW row \in Row, Hidden(row),
           messages' = [messages EXCEPT ![k] = row],
           Present(k) => KeepsDeletion(messages[k], row)
    PROVE  /\ messages' \in [Keys -> RowOrNull]
           /\ RowsHidden'
           /\ \A j \in Keys : Present(j) =>
                /\ messages'[j] # NULL
                /\ KeepsDeletion(messages[j], messages'[j])
<1>1. messages' \in [Keys -> RowOrNull]
  BY DEF RowOrNull
<1>2. \A j \in Keys : messages'[j] = IF j = k THEN row ELSE messages[j]
  OBVIOUS
<1>3. RowsHidden'
  BY <1>2 DEF RowsHidden, Present
<1>4. \A j \in Keys : Present(j) =>
          messages'[j] # NULL /\ KeepsDeletion(messages[j], messages'[j])
  BY <1>2, NullAssumption DEF Present, KeepsDeletion
<1>. QED  BY <1>1, <1>3, <1>4

LEMMA WriteKeeps ==
    ASSUME messages \in [Keys -> RowOrNull], RowsHidden,
           applied \in [Keys -> SUBSET Content],
           NEW k \in Keys, NEW row \in Row, NEW body \in Content,
           Hidden(row), Write(k, row, body),
           Present(k) => KeepsDeletion(messages[k], row)
    PROVE  /\ messages' \in [Keys -> RowOrNull]
           /\ applied' \in [Keys -> SUBSET Content]
           /\ RowsHidden'
           /\ \A j \in Keys : Present(j) =>
                /\ messages'[j] # NULL
                /\ KeepsDeletion(messages[j], messages'[j])
<1>1. /\ messages' = [messages EXCEPT ![k] = row]
      /\ applied' = [applied EXCEPT ![k] = @ \cup {body}]
  BY DEF Write
<1>2. applied' \in [Keys -> SUBSET Content]
  BY <1>1
<1>. QED  BY <1>1, <1>2, RowWriteKeeps

\* UpsertMessage writes a good row.
LEMMA UpsertedRow ==
    ASSUME messages \in [Keys -> RowOrNull], RowsHidden,
           NEW k \in Keys, NEW body \in Content
    PROVE  /\ Upserted(k, body) \in Row
           /\ Hidden(Upserted(k, body))
           /\ Present(k) => KeepsDeletion(messages[k], Upserted(k, body))
<1>1. Excluded(body) \in Row /\ Hidden(Excluded(body))
  BY ExcludedRow
<1>2. CASE Present(k)
  <2>1. messages[k] \in Row /\ Hidden(messages[k])
    BY <1>2 DEF Present, RowOrNull, RowsHidden
  <2>. QED  BY <1>1, <1>2, <2>1, OnConflictRow DEF Upserted
<1>3. CASE ~Present(k)
  BY <1>1, <1>3 DEF Upserted
<1>. QED  BY <1>2, <1>3

\* What a step may do to the table, beside keeping the invariant.
KeepsDeletions ==
    \A j \in Keys : Present(j) =>
        messages'[j] # NULL /\ KeepsDeletion(messages[j], messages'[j])

\* The empty table satisfies the inductive invariant.
THEOREM InitInv == Init => IInv
<1>. SUFFICES ASSUME Init PROVE IInv
  OBVIOUS
<1>1. TypeOK
  BY DEF Init, TypeOK, RowOrNull, CliStates
<1>2. RowsHidden /\ SyncOnly /\ CliTarget
  BY DEF Init, RowsHidden, Present, SyncOnly, CliTarget, Idle
<1>. QED  BY <1>1, <1>2 DEF IInv

\* A step that leaves the table alone deletes nothing.
LEMMA UnchangedKeeps ==
    ASSUME TypeOK, RowsHidden, UNCHANGED messages
    PROVE  RowsHidden' /\ KeepsDeletions
  BY NullAssumption DEF RowsHidden, KeepsDeletions, KeepsDeletion, Present,
                        Hidden, Tombstone

\* Every step keeps the inductive invariant, and takes no deletion back.
THEOREM StepInv == IInv /\ [Next]_vars => IInv' /\ KeepsDeletions
<1>. SUFFICES ASSUME IInv, [Next]_vars PROVE IInv' /\ KeepsDeletions
  OBVIOUS
<1>f. UNCHANGED feed
  BY DEF Next, vars
<1>. USE <1>f DEF IInv
<1>0. CASE UNCHANGED vars
  <2>1. TypeOK' /\ SyncOnly' /\ CliTarget'
    BY <1>0 DEF vars, volatile, TypeOK, SyncOnly, CliTarget, Live, Present
  <2>. QED  BY <1>0, <2>1, UnchangedKeeps DEF vars
<1>1. CASE StartSync
  <2>1. TypeOK' /\ SyncOnly' /\ CliTarget'
    BY <1>1
    DEF StartSync, volatile, TypeOK, SyncOnly, CliTarget, Live, Present
  <2>. QED  BY <1>1, <2>1, UnchangedKeeps DEF StartSync
<1>2. CASE StopSync
  <2>1. TypeOK' /\ SyncOnly' /\ CliTarget'
    BY <1>2 DEF StopSync, TypeOK, SyncOnly, CliTarget, Live, Present
  <2>. QED  BY <1>2, <2>1, UnchangedKeeps DEF StopSync
<1>3. CASE Crash
  <2>1. TypeOK'
    BY <1>3 DEF Crash, TypeOK, CliStates
  <2>2. SyncOnly' /\ CliTarget'
    BY <1>3 DEF Crash, SyncOnly, CliTarget, Idle
  <2>. QED  BY <1>3, <2>1, <2>2, UnchangedKeeps DEF Crash
<1>4. ASSUME NEW p \in feed, StoreParsedMessage(p)
      PROVE  IInv' /\ KeepsDeletions
  <2>1. p.key \in Keys /\ p.body \in Content
    BY PayloadAssumption DEF TypeOK
  <2>2. /\ messages' \in [Keys -> RowOrNull]
        /\ applied' \in [Keys -> SUBSET Content]
        /\ RowsHidden' /\ KeepsDeletions
    <3>1. CASE UpsertMessage(p.key, p.body)
      BY <3>1, <2>1, UpsertedRow, WriteKeeps
         DEF UpsertMessage, TypeOK, KeepsDeletions
    <3>2. CASE UNCHANGED <<messages, applied>>
      BY <3>2, UnchangedKeeps DEF TypeOK
    <3>. QED  BY <1>4, <3>1, <3>2 DEF StoreParsedMessage
  <2>3. TypeOK'
    BY <1>4, <2>1, <2>2 DEF StoreParsedMessage, TypeOK
  <2>4. SyncOnly' /\ CliTarget'
    BY <1>4 DEF StoreParsedMessage, SyncOnly, CliTarget
  <2>. QED  BY <2>2, <2>3, <2>4
<1>5. ASSUME NEW p \in feed, HandleDeleteForMe(p)
      PROVE  IInv' /\ KeepsDeletions
  <2>1. p.key \in Keys /\ p.body \in Content
    BY PayloadAssumption DEF TypeOK
  <2>2. /\ messages' \in [Keys -> RowOrNull]
        /\ applied' \in [Keys -> SUBSET Content]
        /\ RowsHidden' /\ KeepsDeletions
    <3>1. CASE Present(p.key)
      <4>1. messages[p.key] \in Row /\ Hidden(messages[p.key])
        BY <3>1, <2>1 DEF TypeOK, Present, RowOrNull, RowsHidden
      <4>. QED
        BY <1>5, <2>1, <3>1, <4>1, DeletionRow, WriteKeeps
           DEF HandleDeleteForMe, TypeOK, KeepsDeletions
    <3>2. CASE ~Present(p.key)
      BY <1>5, <3>2, UnchangedKeeps DEF HandleDeleteForMe, TypeOK
    <3>. QED  BY <3>1, <3>2
  <2>3. TypeOK'
    BY <1>5, <2>1, <2>2 DEF HandleDeleteForMe, TypeOK
  <2>4. SyncOnly' /\ CliTarget'
    BY <1>5 DEF HandleDeleteForMe, SyncOnly, CliTarget
  <2>. QED  BY <2>2, <2>3, <2>4
<1>6. ASSUME NEW p \in feed, InsertDeletedForMe(p)
      PROVE  IInv' /\ KeepsDeletions
  <2>1. p.key \in Keys /\ p.body \in Content
    BY PayloadAssumption DEF TypeOK
  <2>2. /\ messages' \in [Keys -> RowOrNull]
        /\ applied' \in [Keys -> SUBSET Content]
        /\ RowsHidden' /\ KeepsDeletions
    BY <1>6, <2>1, UpsertedRow, WriteKeeps
       DEF InsertDeletedForMe, UpsertMessage, TypeOK, KeepsDeletions
  <2>3. TypeOK'
    BY <1>6, <2>1, <2>2 DEF InsertDeletedForMe, TypeOK
  <2>4. mode = "sync"
    BY <1>6 DEF InsertDeletedForMe, SyncOnly
  <2>5. SyncOnly' /\ CliTarget'
    BY <1>6, <2>4 DEF InsertDeletedForMe, SyncOnly, CliTarget
  <2>. QED  BY <2>2, <2>3, <2>5
<1>7. ASSUME NEW w \in Workers, NEW k \in Keys, TakeJob(w, k)
      PROVE  IInv' /\ KeepsDeletions
  <2>1. TypeOK'
    BY <1>7 DEF TakeJob, TypeOK
  <2>2. SyncOnly' /\ CliTarget'
    BY <1>7, NoJobAssumption
       DEF TakeJob, TypeOK, SyncOnly, CliTarget
  <2>. QED  BY <1>7, <2>1, <2>2, UnchangedKeeps DEF TakeJob
<1>8. ASSUME NEW w \in Workers, DownloadFails(w)
      PROVE  IInv' /\ KeepsDeletions
  <2>1. TypeOK'
    BY <1>8 DEF DownloadFails, TypeOK
  <2>2. SyncOnly' /\ CliTarget'
    BY <1>8 DEF DownloadFails, TypeOK, SyncOnly, CliTarget, Live, Present
  <2>. QED  BY <1>8, <2>1, <2>2, UnchangedKeeps DEF DownloadFails
<1>9. ASSUME NEW w \in Workers, DownloadMediaToFile(w)
      PROVE  IInv' /\ KeepsDeletions
  <2>1. TypeOK'
    BY <1>9 DEF DownloadMediaToFile, TypeOK
  <2>2. SyncOnly' /\ CliTarget'
    BY <1>9
    DEF DownloadMediaToFile, TypeOK, SyncOnly, CliTarget, Live, Present
  <2>. QED  BY <1>9, <2>1, <2>2, UnchangedKeeps DEF DownloadMediaToFile
<1>10. ASSUME NEW w \in Workers, MarkDownloaded(w)
       PROVE  IInv' /\ KeepsDeletions
  <2>1. /\ worker[w] \in Keys
        /\ mode = "sync"
    BY <1>10 DEF MarkDownloaded, SyncOnly, TypeOK
  <2>2. messages' \in [Keys -> RowOrNull] /\ RowsHidden' /\ KeepsDeletions
    <3>1. CASE Present(worker[w])
      <4>. DEFINE k == worker[w]
                  row == MarkMediaDownloaded(messages[k])
      <4>1. messages[k] \in Row /\ Hidden(messages[k])
        BY <2>1, <3>1 DEF TypeOK, Present, RowOrNull, RowsHidden
      <4>2. row \in Row /\ Hidden(row) /\ KeepsDeletion(messages[k], row)
        BY <4>1, DownloadedRow
      <4>3. messages' = [messages EXCEPT ![k] = row]
        BY <1>10, <3>1 DEF MarkDownloaded
      <4>. HIDE DEF row
      <4>4. messages' \in [Keys -> RowOrNull]
        BY <2>1, <4>2, <4>3 DEF TypeOK, RowOrNull
      <4>5. \A j \in Keys : messages'[j] = IF j = k THEN row ELSE messages[j]
        BY <2>1, <4>3 DEF TypeOK
      <4>. QED
        BY <4>2, <4>4, <4>5, NullAssumption
           DEF RowsHidden, Present, KeepsDeletions, KeepsDeletion
    <3>2. CASE ~Present(worker[w])
      BY <1>10, <3>2, UnchangedKeeps DEF MarkDownloaded, TypeOK
    <3>. QED  BY <3>1, <3>2
  <2>3. TypeOK'
    BY <1>10, <2>2 DEF MarkDownloaded, TypeOK
  <2>4. SyncOnly' /\ CliTarget'
    BY <1>10, <2>1 DEF MarkDownloaded, TypeOK, SyncOnly, CliTarget
  <2>. QED  BY <2>2, <2>3, <2>4
<1>11. ASSUME NEW op \in CliOps, NEW k \in Keys, LoadMutationTarget(op, k)
       PROVE  IInv' /\ KeepsDeletions
  <2>1. Live(k) /\ messages[k].local_path \in BOOLEAN
    BY <1>11 DEF LoadMutationTarget, Allowed, CanRevoke, CanEdit,
                 CanDeleteForMe, Live, Tombstone, TypeOK, Present, RowOrNull,
                 Row, CliOps
  <2>2. cli' \in CliStates \ {Idle}
    BY <1>11, <2>1 DEF LoadMutationTarget, CliStates, Idle, CliOps
  <2>3. TypeOK'
    BY <1>11, <2>2 DEF LoadMutationTarget, TypeOK, volatile
  <2>4. SyncOnly' /\ CliTarget'
    BY <1>11, <2>1, <2>2
       DEF LoadMutationTarget, volatile, SyncOnly, CliTarget, Live, Present
  <2>. QED  BY <1>11, <2>3, <2>4, UnchangedKeeps DEF LoadMutationTarget
<1>12. CASE RemoteAccepts
  <2>1. cli' \in CliStates \ {Idle} /\ cli'.key = cli.key
    BY <1>12 DEF RemoteAccepts, CliTarget, CliStates, Idle, CliOps
  <2>2. TypeOK'
    BY <1>12, <2>1 DEF RemoteAccepts, TypeOK, volatile
  <2>3. SyncOnly' /\ CliTarget'
    BY <1>12, <2>1
       DEF RemoteAccepts, volatile, SyncOnly, CliTarget, Live, Present
  <2>. QED  BY <1>12, <2>2, <2>3, UnchangedKeeps DEF RemoteAccepts
<1>13. CASE CliFails
  <2>1. TypeOK'
    BY <1>13 DEF CliFails, TypeOK, volatile, CliStates
  <2>2. SyncOnly' /\ CliTarget'
    BY <1>13 DEF CliFails, volatile, SyncOnly, CliTarget, Idle
  <2>. QED  BY <1>13, <2>1, <2>2, UnchangedKeeps DEF CliFails
<1>14. CASE RemoveLocalMedia
  <2>1. cli' \in CliStates \ {Idle} /\ cli'.key = cli.key /\ cli.key \in Keys
    BY <1>14 DEF RemoveLocalMedia, CliTarget, CliStates, Idle, CliOps
  <2>2. TypeOK'
    BY <1>14, <2>1 DEF RemoveLocalMedia, TypeOK, volatile
  <2>3. SyncOnly' /\ CliTarget'
    BY <1>14, <2>1
       DEF RemoveLocalMedia, volatile, SyncOnly, CliTarget, Live, Present
  <2>. QED  BY <1>14, <2>2, <2>3, UnchangedKeeps DEF RemoveLocalMedia
\* The four local writes of the CLI: the row they write is the row loaded.
<1>15. ASSUME cli.stage # "none"
       PROVE  /\ cli.key \in Keys
              /\ messages[cli.key] \in Row
              /\ ~Tombstone(messages[cli.key])
              /\ Hidden(messages[cli.key])
              /\ Deletion(messages[cli.key], TRUE) \in Content
              /\ Deletion(messages[cli.key], FALSE) \in Content
              /\ \A text \in Texts, now \in Times :
                   LocalEdit(text, now, messages[cli.key].from_me) \in Content
  <2>1. cli.key \in Keys
    BY <1>15 DEF CliTarget, CliStates, Idle
  <2>2. messages[cli.key] \in Row /\ ~Tombstone(messages[cli.key])
    BY <1>15, <2>1 DEF CliTarget, Live, Present, TypeOK, RowOrNull
  <2>. QED
    BY <2>1, <2>2 DEF Hidden, Deletion, LocalEdit, Content, Row
<1>16. ASSUME NEW row \in Row, NEW body \in Content, cli.stage # "none",
              Write(cli.key, row, body), EndCli, Hidden(row),
              KeepsDeletion(messages[cli.key], row)
       PROVE  IInv' /\ KeepsDeletions
  <2>1. /\ messages' \in [Keys -> RowOrNull]
        /\ applied' \in [Keys -> SUBSET Content]
        /\ RowsHidden' /\ KeepsDeletions
    BY <1>15, <1>16, WriteKeeps DEF TypeOK, KeepsDeletions
  <2>2. TypeOK'
    BY <1>16, <2>1 DEF EndCli, TypeOK, volatile, CliStates
  <2>3. SyncOnly' /\ CliTarget'
    BY <1>16 DEF EndCli, volatile, SyncOnly, CliTarget, Idle
  <2>. QED  BY <2>1, <2>2, <2>3
<1>17. CASE KeepLocalMedia
  BY <1>15, <1>16, <1>17, DeletionRow DEF KeepLocalMedia
<1>18. ASSUME NEW text \in Texts, NEW now \in Times, StoreEdited(text, now)
       PROVE  IInv' /\ KeepsDeletions
  <2>. DEFINE k == cli.key
              row == UpdateMessageText(messages[k], text, now)
              body == LocalEdit(text, now, messages[k].from_me)
  <2>1. /\ messages' = [messages EXCEPT ![k] = row]
        /\ applied' = [applied EXCEPT ![k] = (@ \ Overtaken(k, now))
                                                \cup {body}]
        /\ EndCli /\ k \in Keys /\ body \in Content
    BY <1>15, <1>18 DEF StoreEdited
  <2>2. row \in Row /\ Hidden(row) /\ KeepsDeletion(messages[k], row)
    BY <1>15, <1>18, EditedRow DEF StoreEdited
  <2>. HIDE DEF row, body, k
  <2>3. messages' \in [Keys -> RowOrNull] /\ RowsHidden' /\ KeepsDeletions
    BY <2>1, <2>2, RowWriteKeeps DEF TypeOK, KeepsDeletions
  <2>4. applied' \in [Keys -> SUBSET Content]
    BY <2>1 DEF TypeOK
  <2>5. TypeOK'
    BY <2>1, <2>3, <2>4 DEF EndCli, TypeOK, volatile, CliStates
  <2>6. SyncOnly' /\ CliTarget'
    BY <1>18, <2>1
       DEF StoreEdited, CliTarget, EndCli, volatile, SyncOnly, Idle
  <2>. QED  BY <2>3, <2>5, <2>6
<1>19. CASE StoreRevoked
  BY <1>15, <1>16, <1>19, RevokedRow DEF StoreRevoked
<1>20. CASE StoreDeletedForMe
  BY <1>15, <1>16, <1>20, DeletionRow DEF StoreDeletedForMe
<1>. QED
  BY <1>0, <1>1, <1>2, <1>3, <1>4, <1>5, <1>6, <1>7, <1>8, <1>9, <1>10,
     <1>11, <1>12, <1>13, <1>14, <1>17, <1>18, <1>19, <1>20 DEF Next, Step

\* Type correctness.
THEOREM TypeCorrect == Spec => []TypeOK
<1>1. IInv => TypeOK
  BY DEF IInv
<1>. QED  BY <1>1, InitInv, StepInv, PTL DEF Spec

\* Tombstones hide the message, for every set of payloads: replays, late
\* edits, racing media workers and crashes included.
THEOREM TombstonesHideContent == Spec => []TombstoneHidesContent
<1>1. IInv => TombstoneHidesContent
  BY DEF IInv, RowsHidden, Hidden, TombstoneHidesContent
<1>. QED  BY <1>1, InitInv, StepInv, PTL DEF Spec

\* No step takes a deletion back.  The inductive invariant carries the one
\* non-local reason: the CLI still holds the lock it validated under.
THEOREM DeletionsArePermanent == Spec => DeletionIsPermanent
<1>1. KeepsDeletions =>
        \A k \in Keys :
           /\ Present(k) => messages'[k] # NULL
           /\ Present(k) /\ messages[k].revoked => messages'[k].revoked
           /\ Present(k) /\ messages[k].deleted_for_me
                => messages'[k].deleted_for_me
  BY DEF KeepsDeletions, KeepsDeletion
<1>. QED  BY <1>1, InitInv, StepInv, PTL DEF Spec, DeletionIsPermanent

-----------------------------------------------------------------------------
(* The history of a row.                                                   *)

\* What a step does to one row, and to its history.
Delivered(k) ==
    \E p \in feed :
        /\ p.key = k
        /\ messages'[k] = Upserted(k, p.body)
        /\ applied'[k] = applied[k] \cup {p.body}

DeletedForMe(k) ==
    \E p \in feed :
        /\ p.key = k /\ p.body.deleted_for_me /\ Present(k)
        /\ messages'[k] = MarkMessageDeletedForMe(messages[k])
        /\ applied'[k] = applied[k] \cup {p.body}

EditedHere(k) ==
    \E text \in Texts, now \in Times :
        /\ Live(k)
        /\ messages'[k] = UpdateMessageText(messages[k], text, now)
        /\ applied'[k] =
             (applied[k] \ Overtaken(k, now))
               \cup {LocalEdit(text, now, messages[k].from_me)}

DeletedHere(k) ==
    /\ Live(k)
    /\ \/ /\ messages'[k] = MarkMessageRevoked(messages[k])
          /\ applied'[k] = applied[k] \cup {Deletion(messages[k], FALSE)}
       \/ /\ messages'[k] \in
               {MarkMessageDeletedForMe(messages[k]),
                MarkMessageDeletedForMePreserveMedia(messages[k])}
          /\ applied'[k] = applied[k] \cup {Deletion(messages[k], TRUE)}

Downloaded(k) ==
    /\ \E w \in fetched : worker[w] = k
    /\ Present(k) /\ messages'[k] = MarkMediaDownloaded(messages[k])
    /\ applied'[k] = applied[k]

\* A step leaves a row and its history alone, or does one of the above: the
\* one case analysis of Next that the proofs about rows need.
LEMMA RowSteps ==
    ASSUME IInv, [Next]_vars, NEW k \in Keys
    PROVE  \/ messages'[k] = messages[k] /\ applied'[k] = applied[k]
           \/ Delivered(k) \/ DeletedForMe(k) \/ EditedHere(k)
           \/ DeletedHere(k) \/ Downloaded(k)
<1>. DEFINE Same == messages'[k] = messages[k] /\ applied'[k] = applied[k]
<1>1. ASSUME NEW j \in Keys, NEW row, NEW body, Write(j, row, body)
      PROVE  \/ Same
             \/ /\ j = k /\ messages'[k] = row
                /\ applied'[k] = applied[k] \cup {body}
  BY <1>1 DEF Write, IInv, TypeOK
<1>2. \A p \in feed : p.key \in Keys
  BY PayloadAssumption DEF IInv, TypeOK
<1>3. ASSUME NEW p \in feed, StoreParsedMessage(p) \/ InsertDeletedForMe(p)
      PROVE  Same \/ Delivered(k)
  BY <1>1, <1>2, <1>3 DEF StoreParsedMessage, InsertDeletedForMe,
                          UpsertMessage, Delivered
<1>4. ASSUME NEW p \in feed, HandleDeleteForMe(p)
      PROVE  Same \/ DeletedForMe(k)
  <2>1. CASE Present(p.key)
    BY <1>1, <1>2, <1>4, <2>1 DEF HandleDeleteForMe, DeletedForMe
  <2>2. CASE ~Present(p.key)
    BY <1>4, <2>2 DEF HandleDeleteForMe
  <2>. QED  BY <2>1, <2>2
<1>5. ASSUME NEW w \in Workers, MarkDownloaded(w)
      PROVE  Same \/ Downloaded(k)
  <2>1. applied' = applied /\ worker[w] \in Keys
    BY <1>5 DEF MarkDownloaded, IInv, SyncOnly, TypeOK
  <2>2. CASE Present(worker[w])
    BY <1>5, <2>1, <2>2 DEF MarkDownloaded, Downloaded, IInv, TypeOK
  <2>3. CASE ~Present(worker[w])
    BY <1>5, <2>1, <2>3 DEF MarkDownloaded
  <2>. QED  BY <2>2, <2>3
<1>6. ASSUME cli.stage # "none"
      PROVE  cli.key \in Keys /\ Live(cli.key)
  BY <1>6 DEF IInv, CliTarget, CliStates, Idle
<1>7. ASSUME NEW text \in Texts, NEW now \in Times, StoreEdited(text, now)
      PROVE  Same \/ EditedHere(k)
  <2>. DEFINE row == UpdateMessageText(messages[cli.key], text, now)
              body == LocalEdit(text, now, messages[cli.key].from_me)
              kept == applied[cli.key] \ Overtaken(cli.key, now)
  <2>1. /\ cli.key \in Keys /\ Live(cli.key)
        /\ messages' = [messages EXCEPT ![cli.key] = row]
        /\ applied' = [applied EXCEPT ![cli.key] = kept \cup {body}]
    BY <1>6, <1>7 DEF StoreEdited
  <2>2. \/ Same
        \/ /\ cli.key = k /\ messages'[k] = row
           /\ applied'[k] = kept \cup {body}
    <3>. HIDE DEF row, body, kept
    <3>. QED  BY <2>1 DEF IInv, TypeOK
  <2>. QED  BY <2>1, <2>2 DEF EditedHere
<1>8. CASE StoreRevoked
  BY <1>1, <1>6, <1>8 DEF StoreRevoked, DeletedHere
<1>9. CASE StoreDeletedForMe
  BY <1>1, <1>6, <1>9 DEF StoreDeletedForMe, DeletedHere
<1>10. CASE KeepLocalMedia
  BY <1>1, <1>6, <1>10 DEF KeepLocalMedia, DeletedHere
<1>11. CASE \/ StartSync \/ StopSync \/ Crash \/ RemoteAccepts \/ CliFails
            \/ RemoveLocalMedia \/ UNCHANGED vars
            \/ \E w \in Workers : \E j \in Keys : TakeJob(w, j)
            \/ \E w \in Workers : DownloadFails(w) \/ DownloadMediaToFile(w)
            \/ \E op \in CliOps, j \in Keys : LoadMutationTarget(op, j)
  BY <1>11 DEF StartSync, StopSync, Crash, RemoteAccepts, CliFails,
     RemoveLocalMedia, TakeJob, DownloadFails, DownloadMediaToFile,
     LoadMutationTarget, vars
<1>. HIDE DEF Same
<1>. QED  BY <1>3, <1>4, <1>5, <1>7, <1>8, <1>9, <1>10, <1>11
             DEF Next, Step, Same

-----------------------------------------------------------------------------
(* Local files.                                                            *)

\* A row with a path has its file, and so has the row a worker is to mark.
FilesInv ==
    /\ LocalPathHasFile
    /\ \A w \in fetched : worker[w] \in disk \cup removed

\* Files come and go, and only `--delete-media` takes one away.
LEMMA FilesStay ==
    ASSUME IInv, [Next]_vars
    PROVE  disk \cup removed \subseteq (disk \cup removed)'
BY DEF Next, Step, StartSync, StopSync, Crash, StoreParsedMessage,
   HandleDeleteForMe, InsertDeletedForMe, TakeJob, DownloadFails,
   DownloadMediaToFile, MarkDownloaded, LoadMutationTarget, RemoteAccepts,
   CliFails, RemoveLocalMedia, KeepLocalMedia, StoreEdited, StoreRevoked,
   StoreDeletedForMe, EndCli, vars

\* FilesInv is inductive: a row gets its path from a worker whose file is on
\* disk, and no delivery gives one back to a row that lost it.
LEMMA FilesStep == IInv /\ FilesInv /\ [Next]_vars => FilesInv'
<1>. SUFFICES ASSUME IInv, FilesInv, [Next]_vars PROVE FilesInv'
  OBVIOUS
<1>1. LocalPathHasFile'
  <2>. SUFFICES ASSUME NEW k \in Keys, messages'[k] # NULL,
                       messages'[k].local_path
                PROVE  k \in disk \cup removed
    BY FilesStay DEF LocalPathHasFile, Present
  <2>1. \/ Present(k) /\ messages[k].local_path
        \/ \E w \in fetched : worker[w] = k
    <3>0. Present(k) => messages[k] \in Row
      BY DEF Present, IInv, TypeOK, RowOrNull
    <3>1. CASE messages'[k] = messages[k]
      BY <3>1 DEF Present
    <3>2. CASE Delivered(k)
      <4>1. PICK p \in feed : messages'[k] = Upserted(k, p.body)
        BY <3>2 DEF Delivered
      <4>2. Upserted(k, p.body).local_path
              => Present(k) /\ messages[k].local_path
        BY DEF Upserted, OnConflict, MergedLocalPath, Excluded
      <4>. QED  BY <4>1, <4>2
    <3>3. CASE DeletedForMe(k)
      BY <3>0, <3>3 DEF DeletedForMe, MarkMessageDeletedForMe, Blank, Row
    <3>4. CASE EditedHere(k)
      BY <3>0, <3>4 DEF EditedHere, UpdateMessageText, Row, Live
    <3>5. CASE DeletedHere(k)
      BY <3>0, <3>5 DEF DeletedHere, MarkMessageRevoked,
         MarkMessageDeletedForMe, MarkMessageDeletedForMePreserveMedia, Blank,
         Row, Live
    <3>6. CASE Downloaded(k)
      BY <3>6 DEF Downloaded
    <3>. QED  BY <3>1, <3>2, <3>3, <3>4, <3>5, <3>6, RowSteps
  <2>. QED  BY <2>1 DEF FilesInv, LocalPathHasFile
<1>2. ASSUME NEW w \in fetched'
      PROVE  worker'[w] \in (disk \cup removed)'
  <2>1. CASE w \in fetched /\ worker'[w] = worker[w]
    BY <2>1, FilesStay DEF FilesInv
  <2>2. CASE DownloadMediaToFile(w)
    BY <2>2 DEF DownloadMediaToFile
  <2>3. \/ w \in fetched /\ worker'[w] = worker[w]
        \/ w \in Workers /\ DownloadMediaToFile(w)
    <3>1. ASSUME NEW v \in Workers, NEW k \in Keys, TakeJob(v, k)
          PROVE  w \in fetched /\ worker'[w] = worker[w]
      BY <1>2, <3>1 DEF TakeJob, IInv, SyncOnly, TypeOK
    <3>2. ASSUME NEW v \in Workers, DownloadFails(v) \/ MarkDownloaded(v)
          PROVE  w \in fetched /\ worker'[w] = worker[w]
      BY <1>2, <3>2 DEF DownloadFails, MarkDownloaded, IInv, TypeOK
    <3>3. ASSUME NEW v \in Workers, DownloadMediaToFile(v)
          PROVE  \/ w \in fetched /\ worker'[w] = worker[w]
                 \/ DownloadMediaToFile(w)
      BY <1>2, <3>3 DEF DownloadMediaToFile
    <3>4. CASE Crash
      BY <1>2, <3>4 DEF Crash
    <3>5. CASE \/ StartSync \/ StopSync \/ RemoteAccepts \/ CliFails
               \/ RemoveLocalMedia \/ KeepLocalMedia \/ StoreRevoked
               \/ StoreDeletedForMe \/ UNCHANGED vars
               \/ \E p \in feed : \/ StoreParsedMessage(p)
                                  \/ HandleDeleteForMe(p)
                                  \/ InsertDeletedForMe(p)
               \/ \E op \in CliOps, j \in Keys : LoadMutationTarget(op, j)
               \/ \E text \in Texts, now \in Times : StoreEdited(text, now)
      BY <1>2, <3>5 DEF StartSync, StopSync, RemoteAccepts, CliFails,
         RemoveLocalMedia, KeepLocalMedia, StoreRevoked, StoreDeletedForMe,
         StoreParsedMessage, HandleDeleteForMe, InsertDeletedForMe,
         LoadMutationTarget, StoreEdited, EndCli, volatile, vars
    <3>. QED  BY <3>1, <3>2, <3>3, <3>4, <3>5, <1>2 DEF Next, Step,
              DownloadMediaToFile, IInv, TypeOK
  <2>. QED  BY <2>1, <2>2, <2>3
<1>. QED  BY <1>1, <1>2 DEF FilesInv

\* A path in a row is the path of a file, for every interleaving of workers,
\* deliveries, deletions and crashes.
THEOREM PathsHaveFiles == Spec => []LocalPathHasFile
<1>1. Init => IInv /\ FilesInv
  BY InitInv DEF Init, FilesInv, LocalPathHasFile, Present
<1>2. IInv /\ FilesInv /\ [Next]_vars => (IInv /\ FilesInv)'
  BY StepInv, FilesStep
<1>3. FilesInv => LocalPathHasFile
  BY DEF FilesInv
<1>. QED  BY <1>1, <1>2, <1>3, PTL DEF Spec

-----------------------------------------------------------------------------
(* What a live row says of the bodies that were written to it.             *)

\* The row m shows the body b.
AsShown(m, b) ==
    /\ m.text = b.text /\ m.media_type = b.media
    /\ b.media # NULL => m.media_key = b.media
    /\ DisplayOf(b) # NULL => m.display_text = DisplayOf(b)

\* b is the newest edit among the bodies A, and m shows it.
NewestOf(m, A, b) ==
    /\ b.edited /\ AsShown(m, b) /\ m.edited_ts = b.ts
    /\ \A e \in A : e.edited => e.ts =< b.ts

LiveHistory(m, A) ==
    /\ \A b \in A : ~Tombstone(b)
    /\ \A b \in A : Original(b) => m.ts = b.ts
    /\ m.edited => \E b \in A : NewestOf(m, A, b)
    /\ ~m.edited => /\ m.edited_ts = 0
                    /\ \A b \in A : ~b.edited
                    /\ \E b \in A : AsShown(m, b)

\* The first body is shown.
LEMMA InsertedLive ==
    ASSUME NEW c \in Content, ~Tombstone(c)
    PROVE  LiveHistory(Excluded(c), {c})
<1>. DEFINE x == Excluded(c)
<1>1. /\ x.text = c.text /\ x.media_type = c.media /\ x.media_key = c.media
      /\ x.display_text = DisplayOf(c) /\ x.ts = c.ts
      /\ x.edited = c.edited /\ x.edited_ts = EditStamp(c)
  BY DEF Excluded, Tombstone
<1>. HIDE DEF x
<1>2. AsShown(x, c)
  BY <1>1 DEF AsShown
<1>3. c.edited \in BOOLEAN /\ c.ts \in Int
  BY ColumnAssumption DEF Content
<1>4. c.edited => NewestOf(x, {c}, c)
  BY <1>1, <1>2, <1>3 DEF NewestOf, EditStamp
<1>. QED  BY <1>1, <1>2, <1>4 DEF LiveHistory, Original, EditStamp, x

\* The column types the comparisons of Stale need.
LEMMA RowAndBodyTimes ==
    /\ \A m \in Row : /\ m.edited \in BOOLEAN /\ m.local_path \in BOOLEAN
                      /\ m.ts \in Int /\ m.edited_ts \in Int
    /\ \A c \in Content : c.edited \in BOOLEAN /\ c.ts \in Int
<1>1. Times \cup {0} \subseteq Int
  BY ColumnAssumption
<1>. QED  BY <1>1 DEF Row, Content

\* The body c does not replace what the live row m shows.
StaleBody(m, c) ==
    \/ m.edited /\ ~c.edited
    \/ m.edited /\ c.edited /\ c.ts < m.edited_ts
    \/ ~m.edited /\ ~c.edited /\ c.ts < m.ts

\* The live row n is the live row m with the live body c merged into it.
Merges(m, c, n) ==
    /\ n.edited = (c.edited \/ m.edited)
    /\ n.local_path = m.local_path
    /\ n.revoked = FALSE /\ n.deleted_for_me = FALSE
    /\ c.edited => n.ts = m.ts
    /\ ~c.edited /\ (m.edited \/ ~StaleBody(m, c)) => n.ts = c.ts
    /\ n.edited_ts =
         IF c.edited /\ (~m.edited \/ c.ts > m.edited_ts) THEN c.ts
         ELSE IF m.edited THEN m.edited_ts ELSE 0
    /\ StaleBody(m, c) =>
         /\ n.text = m.text /\ n.from_me = m.from_me
         /\ n.media_type = m.media_type /\ n.media_key = m.media_key
         /\ n.display_text = m.display_text
    /\ ~StaleBody(m, c) =>
         /\ n.text = c.text /\ n.from_me = c.from_me
         /\ n.media_type = c.media
         /\ n.media_key = IF c.media = NULL THEN m.media_key ELSE c.media
         /\ n.display_text = IF DisplayOf(c) = NULL THEN m.display_text
                             ELSE DisplayOf(c)

\* OnConflict, where neither the row nor the payload is a tombstone.
LEMMA LiveMerge ==
    ASSUME NEW m \in Row, ~Tombstone(m), NEW c \in Content, ~Tombstone(c)
    PROVE  Merges(m, c, OnConflict(m, Excluded(c)))
<1>. DEFINE n == OnConflict(m, Excluded(c))
<1>. DEFINE x == Excluded(c)
<1>1. /\ x.text = c.text /\ x.media_type = c.media /\ x.media_key = c.media
      /\ x.display_text = DisplayOf(c) /\ x.ts = c.ts
      /\ x.from_me = c.from_me
      /\ x.edited = c.edited /\ x.edited_ts = EditStamp(c)
      /\ x.revoked = c.revoked /\ x.deleted_for_me = c.deleted_for_me
  BY DEF Excluded, Tombstone
<1>2. /\ n.ts = MergedTs(m, x) /\ n.from_me = MergedFromMe(m, x)
      /\ n.text = MergedBody(m, x, m.text, x.text)
      /\ n.display_text = MergedDisplay(m, x)
      /\ n.media_type = MergedBody(m, x, m.media_type, x.media_type)
      /\ n.media_key = MergedOrOld(m, x, m.media_key, x.media_key)
      /\ n.local_path = MergedLocalPath(m, x)
      /\ n.revoked = (m.revoked \/ x.revoked)
      /\ n.deleted_for_me = (m.deleted_for_me \/ x.deleted_for_me)
      /\ n.edited = (~Tombstone(x) /\ (x.edited \/ m.edited))
      /\ n.edited_ts = MergedEditedTs(m, x)
  BY DEF OnConflict
<1>. HIDE DEF x
<1>3. ~Tombstone(x)
  BY <1>1 DEF Tombstone
<1>4. /\ m.edited \in BOOLEAN /\ c.edited \in BOOLEAN /\ m.ts \in Int
      /\ c.ts \in Int /\ m.edited_ts \in Int /\ m.local_path \in BOOLEAN
  BY RowAndBodyTimes
<1>0. ~m.revoked /\ ~m.deleted_for_me /\ ~c.revoked /\ ~c.deleted_for_me
  BY DEF Tombstone
<1>5. Stale(m, x) <=> StaleBody(m, c)
  BY <1>1, <1>4 DEF Stale, StaleBody, EditStamp
<1>6. /\ n.revoked = FALSE /\ n.deleted_for_me = FALSE
      /\ n.local_path = m.local_path
      /\ n.edited = (c.edited \/ m.edited)
  <2>1. n.revoked = FALSE
    BY <1>0, <1>1, <1>2, Zenon
  <2>2. n.deleted_for_me = FALSE
    BY <1>0, <1>1, <1>2, Zenon
  <2>3. n.local_path = m.local_path
    BY <1>2, <1>3, <1>4 DEF MergedLocalPath
  <2>4. n.edited = (c.edited \/ m.edited)
    BY <1>1, <1>2, <1>3, Zenon
  <2>. QED  BY <2>1, <2>2, <2>3, <2>4, Zenon
<1>7. c.edited => n.ts = m.ts
  BY <1>1, <1>2 DEF MergedTs
<1>8. ~c.edited /\ (m.edited \/ ~Stale(m, x)) => n.ts = c.ts
  BY <1>1, <1>2, <1>3, <1>4 DEF MergedTs, Stale
<1>9. Stale(m, x) =>
        /\ n.text = m.text /\ n.from_me = m.from_me
        /\ n.media_type = m.media_type /\ n.media_key = m.media_key
        /\ n.display_text = m.display_text
  BY <1>0, <1>1, <1>2, <1>3, <1>4 DEF MergedFromMe, MergedBody, MergedOrOld,
                                MergedDisplay, Tombstone
<1>11. ~Stale(m, x) =>
        /\ n.text = c.text /\ n.from_me = c.from_me
        /\ n.media_type = c.media
        /\ n.media_key = IF c.media = NULL THEN m.media_key ELSE c.media
        /\ n.display_text = IF DisplayOf(c) = NULL THEN m.display_text
                            ELSE DisplayOf(c)
  <2>. SUFFICES ASSUME ~Stale(m, x)
                PROVE  /\ n.text = c.text /\ n.from_me = c.from_me
                       /\ n.media_type = c.media
                       /\ n.media_key = IF c.media = NULL THEN m.media_key
                                        ELSE c.media
                       /\ n.display_text =
                            IF DisplayOf(c) = NULL THEN m.display_text
                            ELSE DisplayOf(c)
    OBVIOUS
  <2>1. n.from_me = c.from_me /\ n.text = c.text /\ n.media_type = c.media
    BY <1>1, <1>2, <1>3 DEF MergedFromMe, MergedBody
  <2>2. n.media_key = IF c.media = NULL THEN m.media_key ELSE c.media
    BY <1>1, <1>2, <1>3 DEF MergedBody, MergedOrOld
  <2>3. n.display_text = IF DisplayOf(c) = NULL THEN m.display_text
                         ELSE DisplayOf(c)
    BY <1>0, <1>1, <1>2 DEF MergedDisplay
  <2>. QED  BY <2>1, <2>2, <2>3
<1>12. n.edited_ts =
         IF c.edited /\ (~m.edited \/ c.ts > m.edited_ts) THEN c.ts
         ELSE IF m.edited THEN m.edited_ts ELSE 0
  BY <1>1, <1>2, <1>3 DEF MergedEditedTs, EditStamp
<1>. HIDE DEF n
<1>10. Merges(m, c, n)
  BY <1>5, <1>6, <1>7, <1>8, <1>9, <1>11, <1>12, Zenon DEF Merges
<1>. QED  BY <1>10 DEF n

\* A body that arrives when the row is live is shown, or an edit that is
\* newer is.
LEMMA MergedLive ==
    ASSUME NEW m \in Row, ~Tombstone(m), NEW c \in Content, ~Tombstone(c),
           NEW A \in SUBSET Content, LiveHistory(m, A),
           \A b \in A : Original(b) /\ Original(c) => b = c,
           NEW n, n = OnConflict(m, Excluded(c))
    PROVE  LiveHistory(n, A \cup {c})
<1>1. Merges(m, c, n)
  BY LiveMerge
<1>2. /\ n.edited = (c.edited \/ m.edited)
      /\ c.edited => n.ts = m.ts
      /\ ~c.edited /\ (m.edited \/ ~StaleBody(m, c)) => n.ts = c.ts
      /\ n.edited_ts =
           IF c.edited /\ (~m.edited \/ c.ts > m.edited_ts) THEN c.ts
           ELSE IF m.edited THEN m.edited_ts ELSE 0
  BY <1>1 DEF Merges
<1>4. /\ m.edited \in BOOLEAN /\ c.edited \in BOOLEAN
      /\ m.ts \in Int /\ c.ts \in Int /\ m.edited_ts \in Int
  BY RowAndBodyTimes
<1>5. \A b \in A : b.ts \in Int /\ b.edited \in BOOLEAN
  BY RowAndBodyTimes
<1>6. Original(c) <=> ~c.edited
  BY DEF Original
<1>7. ~c.edited => ~(~m.edited /\ c.ts < m.ts)
  <2>. SUFFICES ASSUME ~c.edited, ~m.edited PROVE m.ts = c.ts
    BY <1>4
  <2>1. PICK b \in A : ~b.edited
    BY DEF LiveHistory
  <2>2. Original(b)
    BY <2>1 DEF LiveHistory, Original
  <2>. QED  BY <1>6, <2>2 DEF LiveHistory
<1>8. ~StaleBody(m, c) => AsShown(n, c)
  BY <1>1 DEF Merges, AsShown
<1>9. \A b \in A : StaleBody(m, c) /\ AsShown(m, b) => AsShown(n, b)
  BY <1>1 DEF Merges, AsShown
<1>10. \A b \in A \cup {c} : ~Tombstone(b)
  BY DEF LiveHistory
<1>11. \A b \in A \cup {c} : Original(b) => n.ts = b.ts
  <2>1. CASE c.edited
    BY <1>2, <1>6, <2>1 DEF LiveHistory
  <2>2. CASE ~c.edited
    <3>1. n.ts = c.ts
      BY <1>2, <1>4, <1>7, <2>2 DEF StaleBody
    <3>. QED  BY <1>6, <2>2, <3>1
  <2>. QED  BY <2>1, <2>2
<1>12. n.edited => \E b \in A \cup {c} : NewestOf(n, A \cup {c}, b)
  <2>. SUFFICES ASSUME n.edited
                PROVE  \E b \in A \cup {c} : NewestOf(n, A \cup {c}, b)
    OBVIOUS
  <2>1. CASE ~m.edited
    <3>1. c.edited /\ ~StaleBody(m, c)
      BY <1>2, <2>1 DEF StaleBody
    <3>2. AsShown(n, c) /\ n.edited_ts = c.ts
      BY <1>2, <1>8, <2>1, <3>1
    <3>3. \A e \in A \cup {c} : e.edited => e.ts =< c.ts
      BY <1>4, <2>1 DEF LiveHistory
    <3>. QED  BY <3>1, <3>2, <3>3 DEF NewestOf
  <2>2. CASE m.edited
    <3>1. PICK b \in A : NewestOf(m, A, b)
      BY <2>2 DEF LiveHistory
    <3>2. b.edited /\ AsShown(m, b) /\ m.edited_ts = b.ts
            /\ \A e \in A : e.edited => e.ts =< b.ts
      BY <3>1 DEF NewestOf
    <3>3. CASE StaleBody(m, c)
      <4>1. AsShown(n, b) /\ n.edited_ts = b.ts
        BY <1>2, <1>4, <1>9, <2>2, <3>2, <3>3 DEF StaleBody
      <4>2. c.edited => c.ts =< b.ts
        BY <1>4, <2>2, <3>2, <3>3 DEF StaleBody
      <4>. QED  BY <3>2, <4>1, <4>2 DEF NewestOf
    <3>4. CASE ~StaleBody(m, c)
      <4>1. c.edited /\ c.ts >= m.edited_ts
        BY <1>4, <2>2, <3>4 DEF StaleBody
      <4>2. AsShown(n, c) /\ n.edited_ts = c.ts
        BY <1>2, <1>4, <1>8, <2>2, <3>4, <4>1
      <4>3. \A e \in A \cup {c} : e.edited => e.ts =< c.ts
        BY <1>4, <1>5, <3>2, <4>1
      <4>. QED  BY <4>1, <4>2, <4>3 DEF NewestOf
    <3>. QED  BY <3>3, <3>4
  <2>. QED  BY <1>4, <2>1, <2>2
<1>13. ~n.edited => /\ n.edited_ts = 0
                    /\ \A b \in A \cup {c} : ~b.edited
                    /\ \E b \in A \cup {c} : AsShown(n, b)
  <2>. SUFFICES ASSUME ~n.edited
                PROVE  /\ n.edited_ts = 0
                       /\ \A b \in A \cup {c} : ~b.edited
                       /\ AsShown(n, c)
    OBVIOUS
  <2>1. ~m.edited /\ ~c.edited
    BY <1>2
  <2>2. ~StaleBody(m, c)
    BY <1>7, <2>1 DEF StaleBody
  <2>. QED  BY <1>2, <1>8, <2>1, <2>2 DEF LiveHistory
<1>. QED  BY <1>10, <1>11, <1>12, <1>13 DEF LiveHistory

\* The local half of `messages edit` is the newest edit of those it leaves.
LEMMA EditedLive ==
    ASSUME NEW m \in Row, ~Tombstone(m), NEW A \in SUBSET Content,
           NEW text \in Texts, NEW now \in Times, NEW mine,
           \A b \in A : ~Tombstone(b),
           \A b \in A : Original(b) => m.ts = b.ts,
           \A b \in A : b.edited => b.ts =< now
    PROVE  LiveHistory(UpdateMessageText(m, text, now),
                       A \cup {LocalEdit(text, now, mine)})
<1>. DEFINE n == UpdateMessageText(m, text, now)
            c == LocalEdit(text, now, mine)
<1>1. /\ n.ts = m.ts /\ n.text = text /\ n.display_text = text
      /\ n.media_type = NULL /\ n.edited /\ n.edited_ts = now
  BY DEF UpdateMessageText, Row
<1>2. /\ c.ts = now /\ c.text = text /\ c.media = NULL /\ c.edited
      /\ ~Tombstone(c) /\ ~Original(c)
  BY DEF LocalEdit, Tombstone, Original
<1>3. DisplayOf(c) = text
  BY ColumnAssumption DEF LocalEdit, DisplayOf, Tombstone
<1>4. now =< now
  BY ColumnAssumption
<1>. HIDE DEF n, c
<1>5. NewestOf(n, A \cup {c}, c)
  BY <1>1, <1>2, <1>3, <1>4 DEF NewestOf, AsShown
<1>6. \A b \in A \cup {c} : Original(b) => n.ts = b.ts
  BY <1>1, <1>2
<1>7. LiveHistory(n, A \cup {c})
  BY <1>1, <1>2, <1>5, <1>6 DEF LiveHistory
<1>. QED  BY <1>7 DEF n, c

\* A download changes nothing that a body says.
LEMMA DownloadedLive ==
    ASSUME NEW m \in Row, NEW A, LiveHistory(m, A)
    PROVE  LiveHistory(MarkMediaDownloaded(m), A)
<1>. DEFINE n == MarkMediaDownloaded(m)
<1>1. /\ n.ts = m.ts /\ n.text = m.text /\ n.display_text = m.display_text
      /\ n.media_type = m.media_type /\ n.media_key = m.media_key
      /\ n.edited = m.edited /\ n.edited_ts = m.edited_ts
  BY DEF MarkMediaDownloaded, Row
<1>. HIDE DEF n
<1>2. \A b \in A : AsShown(m, b) => AsShown(n, b)
  BY <1>1 DEF AsShown
<1>3. \A b \in A : NewestOf(m, A, b) => NewestOf(n, A, b)
  BY <1>1, <1>2 DEF NewestOf
<1>4. LiveHistory(n, A)
  BY <1>1, <1>2, <1>3 DEF LiveHistory
<1>. QED  BY <1>4 DEF n

\* A live body that was applied before, merged again, changes nothing.
LEMMA RedeliveredLive ==
    ASSUME NEW m \in Row, ~Tombstone(m), NEW A \in SUBSET Content,
           LiveHistory(m, A), NEW c \in A, c.from_me = m.from_me,
           \A b \in A : Original(b) /\ Original(c) => b = c,
           ~(c.edited /\ \E e \in A : e.edited /\ e # c /\ e.ts = c.ts)
    PROVE  OnConflict(m, Excluded(c)) = m
<1>. DEFINE n == OnConflict(m, Excluded(c))
<1>0. ~Tombstone(c)
  BY DEF LiveHistory
<1>1. Merges(m, c, n)
  BY <1>0, LiveMerge
<1>2. n = [ts |-> n.ts, from_me |-> n.from_me, text |-> n.text,
           display_text |-> n.display_text, media_type |-> n.media_type,
           media_key |-> n.media_key, local_path |-> n.local_path,
           revoked |-> n.revoked, deleted_for_me |-> n.deleted_for_me,
           edited |-> n.edited, edited_ts |-> n.edited_ts]
  BY DEF OnConflict
<1>. HIDE DEF n
<1>3. m = [ts |-> m.ts, from_me |-> m.from_me, text |-> m.text,
           display_text |-> m.display_text, media_type |-> m.media_type,
           media_key |-> m.media_key, local_path |-> m.local_path,
           revoked |-> m.revoked, deleted_for_me |-> m.deleted_for_me,
           edited |-> m.edited, edited_ts |-> m.edited_ts]
  BY DEF Row
<1>4. /\ m.edited \in BOOLEAN /\ c.edited \in BOOLEAN
      /\ m.ts \in Int /\ c.ts \in Int /\ m.edited_ts \in Int
  BY RowAndBodyTimes
<1>5. m.revoked = FALSE /\ m.deleted_for_me = FALSE
  BY DEF Tombstone, Row
<1>6. Original(c) <=> ~c.edited
  BY <1>0 DEF Original
<1>7. ~m.edited => m.edited_ts = 0 /\ ~c.edited /\ m.ts = c.ts
                   /\ AsShown(m, c)
  BY <1>6 DEF LiveHistory, Original
<1>8. ~c.edited => m.ts = c.ts
  BY <1>6 DEF LiveHistory
<1>9. m.edited /\ c.edited =>
        /\ c.ts =< m.edited_ts
        /\ c.ts = m.edited_ts => AsShown(m, c)
  <2>. SUFFICES ASSUME m.edited, c.edited
                PROVE  /\ c.ts =< m.edited_ts
                       /\ c.ts = m.edited_ts => AsShown(m, c)
    OBVIOUS
  <2>1. PICK b \in A : NewestOf(m, A, b)
    BY DEF LiveHistory
  <2>. QED  BY <2>1 DEF NewestOf
<1>10. ~StaleBody(m, c) =>
         AsShown(m, c) /\ (c.edited => m.edited /\ c.ts = m.edited_ts)
  BY <1>4, <1>7, <1>9 DEF StaleBody
<1>11. n.ts = m.ts
  BY <1>1, <1>4, <1>7, <1>8 DEF Merges, StaleBody
<1>12. /\ n.text = m.text /\ n.from_me = m.from_me
       /\ n.media_type = m.media_type /\ n.media_key = m.media_key
       /\ n.display_text = m.display_text
  BY <1>1, <1>10 DEF Merges, AsShown
<1>13. n.edited_ts = m.edited_ts
  BY <1>1, <1>4, <1>7, <1>9 DEF Merges
<1>14. n.edited = m.edited
  BY <1>1, <1>4, <1>7 DEF Merges
<1>15. n.local_path = m.local_path /\ n.revoked = m.revoked
         /\ n.deleted_for_me = m.deleted_for_me
  BY <1>1, <1>5 DEF Merges
<1>16. n = m
  BY <1>2, <1>3, <1>11, <1>12, <1>13, <1>14, <1>15
<1>. QED  BY <1>16 DEF n

-----------------------------------------------------------------------------
(* The history of every row.                                               *)

\* The row m (or NULL) of the key k agrees with the bodies A written to it.
Agrees(k, m, A) ==
    /\ A # {} => m # NULL
    /\ m # NULL =>
         /\ \E p \in feed : p.key = k /\ p.body.from_me = m.from_me
         /\ \A b \in A : /\ b.revoked => m.revoked
                         /\ b.deleted_for_me => m.deleted_for_me
         /\ ~Tombstone(m) => LiveHistory(m, A)
    /\ \A b \in A : Original(b) => \E p \in feed : p.key = k /\ p.body = b

HistoryInv == \A k \in Keys : Agrees(k, messages[k], applied[k])

\* A delivery keeps a row in agreement with its history.
LEMMA DeliveredAgrees ==
    ASSUME IInv, NEW k \in Keys, Agrees(k, messages[k], applied[k]),
           Delivered(k)
    PROVE  Agrees(k, messages'[k], applied'[k])
<1>1. PICK p \in feed :
        /\ p.key = k
        /\ messages'[k] = Upserted(k, p.body)
        /\ applied'[k] = applied[k] \cup {p.body}
  BY DEF Delivered
<1>. DEFINE c == p.body
            A == applied[k]
            m == messages[k]
            n == Upserted(k, p.body)
<1>2. c \in Content /\ A \in SUBSET Content
  BY <1>1, PayloadAssumption DEF IInv, TypeOK
<1>3. \A b \in A : Original(b) /\ Original(c) => b = c
  <2>. SUFFICES ASSUME NEW b \in A, Original(b), Original(c) PROVE b = c
    OBVIOUS
  <2>1. PICK q \in feed : q.key = k /\ q.body = b
    BY DEF Agrees
  <2>. QED  BY <1>1, <2>1, OriginalAssumption DEF IInv, TypeOK
<1>4. \A b \in A \cup {c} :
        Original(b) => \E q \in feed : q.key = k /\ q.body = b
  BY <1>1 DEF Agrees
<1>5. CASE ~Present(k)
  <2>1. A = {} /\ n = Excluded(c)
    BY <1>5 DEF Agrees, Present, Upserted
  <2>2. n.from_me = c.from_me /\ n.revoked = c.revoked
          /\ n.deleted_for_me = c.deleted_for_me
    BY <2>1 DEF Excluded
  <2>3. n # NULL
    BY <1>2, <2>1, ExcludedRow, NullAssumption
  <2>4. ~Tombstone(n) => LiveHistory(n, {c})
    BY <1>2, <2>1, <2>2, InsertedLive DEF Tombstone
  <2>. HIDE DEF n, c
  <2>5. A \cup {c} = {c}
    BY <2>1
  <2>6. \E q \in feed : q.key = k /\ q.body.from_me = n.from_me
    BY <1>1, <2>2 DEF c
  <2>7. Agrees(k, n, A \cup {c})
    BY <1>4, <2>2, <2>3, <2>4, <2>5, <2>6 DEF Agrees
  <2>. QED  BY <1>1, <2>7 DEF n, c
<1>6. CASE Present(k)
  <2>1. m \in Row /\ Hidden(m)
    BY <1>6 DEF Present, IInv, TypeOK, RowOrNull, RowsHidden
  <2>2. n = OnConflict(m, Excluded(c)) /\ n # NULL
    BY <1>2, <1>6, NullAssumption, UpsertedRow DEF Upserted, IInv, TypeOK
  <2>3. /\ n.from_me \in {m.from_me, c.from_me}
        /\ n.revoked = (m.revoked \/ c.revoked)
        /\ n.deleted_for_me = (m.deleted_for_me \/ c.deleted_for_me)
    BY <2>2 DEF OnConflict, MergedFromMe, Excluded
  <2>4. ~Tombstone(n) => LiveHistory(n, A \cup {c})
    <3>. SUFFICES ASSUME ~Tombstone(n) PROVE LiveHistory(n, A \cup {c})
      OBVIOUS
    <3>1. ~Tombstone(m) /\ ~Tombstone(c)
      BY <2>3 DEF Tombstone
    <3>2. LiveHistory(m, A)
      BY <1>6, <3>1 DEF Agrees, Present
    <3>. HIDE DEF m, n, c, A
    <3>. QED  BY <1>2, <1>3, <2>1, <2>2, <3>1, <3>2, MergedLive
  <2>5. \E q \in feed : q.key = k /\ q.body.from_me = n.from_me
    BY <1>1, <1>6, <2>3 DEF Agrees, Present
  <2>6. \A b \in A : /\ b.revoked => m.revoked
                     /\ b.deleted_for_me => m.deleted_for_me
    BY <1>6 DEF Agrees, Present
  <2>. HIDE DEF n, c, m
  <2>7. \A b \in A \cup {c} : /\ b.revoked => n.revoked
                              /\ b.deleted_for_me => n.deleted_for_me
    BY <2>3, <2>6
  <2>8. Agrees(k, n, A \cup {c})
    BY <1>4, <2>2, <2>4, <2>5, <2>7 DEF Agrees
  <2>. QED  BY <1>1, <2>8 DEF n, c
<1>. QED  BY <1>5, <1>6

\* Every step keeps every row in agreement with its history.
LEMMA HistoryStep == IInv /\ HistoryInv /\ [Next]_vars => HistoryInv'
<1>. SUFFICES ASSUME IInv, HistoryInv, [Next]_vars PROVE HistoryInv'
  OBVIOUS
<1>f. feed' = feed
  BY DEF Next, vars
<1>. SUFFICES ASSUME NEW k \in Keys
              PROVE  Agrees(k, messages'[k], applied'[k])
  BY <1>f DEF HistoryInv, Agrees
<1>. DEFINE m == messages[k]
            n == messages'[k]
            A == applied[k]
<1>0. Agrees(k, m, A) /\ A \in SUBSET Content
  BY DEF HistoryInv, IInv, TypeOK
<1>1. CASE n = m /\ applied'[k] = A
  BY <1>0, <1>1
<1>2. CASE Delivered(k)
  BY <1>0, <1>2, DeliveredAgrees
<1>3. Present(k) => m \in Row /\ m # NULL
  BY DEF Present, IInv, TypeOK, RowOrNull
\* The writes that leave a tombstone: no live row, nothing original written.
<1>4. ASSUME Present(k), NEW c, applied'[k] = A \cup {c}, Tombstone(c),
             Tombstone(n), n \in Row, n.from_me = m.from_me,
             KeepsDeletion(m, n), c.revoked => n.revoked,
             c.deleted_for_me => n.deleted_for_me
      PROVE  Agrees(k, n, applied'[k])
  <2>1. n # NULL /\ ~Original(c)
    BY <1>4, NullAssumption DEF Original
  <2>2. \E q \in feed : q.key = k /\ q.body.from_me = n.from_me
    BY <1>0, <1>3, <1>4 DEF Agrees
  <2>3. \A b \in A \cup {c} : /\ b.revoked => n.revoked
                              /\ b.deleted_for_me => n.deleted_for_me
    BY <1>0, <1>3, <1>4 DEF Agrees, KeepsDeletion
  <2>4. \A b \in A \cup {c} :
          Original(b) => \E q \in feed : q.key = k /\ q.body = b
    BY <1>0, <2>1 DEF Agrees
  <2>. HIDE DEF n, m, A
  <2>. QED  BY <1>4, <2>1, <2>2, <2>3, <2>4 DEF Agrees
<1>5. CASE DeletedForMe(k)
  <2>1. PICK p \in feed :
          /\ p.body.deleted_for_me /\ ~p.body.revoked /\ Present(k)
          /\ n = MarkMessageDeletedForMe(m)
          /\ applied'[k] = A \cup {p.body}
    BY <1>5, DeletionAssumption DEF DeletedForMe, IInv, TypeOK
  <2>2. m \in Row /\ Hidden(m)
    BY <1>3, <2>1 DEF IInv, RowsHidden
  <2>3. n \in Row /\ Hidden(n) /\ KeepsDeletion(m, n)
    BY <2>1, <2>2, DeletionRow
  <2>4. n.deleted_for_me /\ n.from_me = m.from_me /\ n.revoked = m.revoked
    BY <2>1, <2>2 DEF MarkMessageDeletedForMe, Blank, Row
  <2>. QED  BY <1>4, <2>1, <2>3, <2>4 DEF Tombstone
<1>6. CASE DeletedHere(k)
  <2>1. Present(k) /\ m \in Row /\ ~Tombstone(m) /\ Hidden(m)
    BY <1>3, <1>6 DEF DeletedHere, Live, Hidden
  <2>2. PICK forMe \in BOOLEAN :
          /\ applied'[k] = A \cup {Deletion(m, forMe)}
          /\ n \in IF forMe THEN {MarkMessageDeletedForMe(m),
                                  MarkMessageDeletedForMePreserveMedia(m)}
                             ELSE {MarkMessageRevoked(m)}
    BY <1>6 DEF DeletedHere
  <2>. DEFINE c == Deletion(m, forMe)
  <2>3. n \in Row /\ Hidden(n) /\ KeepsDeletion(m, n)
    BY <2>1, <2>2, DeletionRow, RevokedRow
  <2>4. /\ forMe => n.deleted_for_me
        /\ ~forMe => n.revoked
        /\ n.from_me = m.from_me
    BY <2>1, <2>2 DEF MarkMessageDeletedForMe, MarkMessageRevoked, Blank, Row,
                      MarkMessageDeletedForMePreserveMedia
  <2>5. c.revoked = ~forMe /\ c.deleted_for_me = forMe
    BY DEF Deletion
  <2>. HIDE DEF c, m, n, A
  <2>6. applied'[k] = A \cup {c}
    BY <2>2 DEF c, m
  <2>7. Tombstone(c) /\ Tombstone(n)
    BY <2>4, <2>5 DEF Tombstone
  <2>8. Agrees(k, n, applied'[k])
    BY <1>4, <2>1, <2>3, <2>4, <2>5, <2>6, <2>7 DEF n, m, A
  <2>. QED  BY <2>8 DEF n
<1>7. CASE EditedHere(k)
  <2>1. PICK text \in Texts, now \in Times :
          /\ Live(k)
          /\ n = UpdateMessageText(m, text, now)
          /\ applied'[k] = (A \ Overtaken(k, now))
                             \cup {LocalEdit(text, now, m.from_me)}
    BY <1>7 DEF EditedHere
  <2>. DEFINE c == LocalEdit(text, now, m.from_me)
              B == A \ Overtaken(k, now)
  <2>2. m \in Row /\ m # NULL /\ ~Tombstone(m)
    BY <1>3, <2>1 DEF Live
  <2>3. n # NULL /\ n.from_me = m.from_me /\ ~Tombstone(n)
    <3>1. n \in Row
      BY <2>1, <2>2, EditedRow
    <3>2. n.from_me = m.from_me /\ ~n.revoked /\ ~n.deleted_for_me
      BY <2>1, <2>2 DEF UpdateMessageText, Row
    <3>. QED  BY <3>1, <3>2, NullAssumption DEF Tombstone
  <2>4. ~c.revoked /\ ~c.deleted_for_me /\ ~Original(c)
    BY DEF LocalEdit, Original
  <2>5. LiveHistory(m, A)
    BY <1>0, <2>2 DEF Agrees
  <2>6. LiveHistory(n, B \cup {c})
    <3>1. B \in SUBSET A /\ \A b \in B : b.edited => ~(now < b.ts)
      BY DEF Overtaken
    <3>2. \A b \in B : b.edited => b.ts =< now
      <4>1. now \in Int /\ \A b \in B : b.ts \in Int
        BY <1>0, <3>1, ColumnAssumption, RowAndBodyTimes
      <4>. QED  BY <3>1, <4>1
    <3>3. /\ \A b \in B : ~Tombstone(b)
          /\ \A b \in B : Original(b) => m.ts = b.ts
      BY <2>5, <3>1 DEF LiveHistory
    <3>4. B \in SUBSET Content
      BY <1>0, <3>1
    <3>. HIDE DEF B, m, A
    <3>5. LiveHistory(UpdateMessageText(m, text, now),
                      B \cup {LocalEdit(text, now, m.from_me)})
      BY <2>2, <3>2, <3>3, <3>4, EditedLive
    <3>. QED  BY <2>1, <3>5
  <2>11. B \subseteq A
    OBVIOUS
  <2>. HIDE DEF n, m, A, B, c
  <2>7. \E p \in feed : p.key = k /\ p.body.from_me = n.from_me
    BY <1>0, <2>2, <2>3 DEF Agrees
  <2>8. \A b \in B \cup {c} : ~b.revoked /\ ~b.deleted_for_me
    BY <2>4, <2>5, <2>11 DEF LiveHistory, Tombstone
  <2>9. \A b \in B \cup {c} :
          Original(b) => \E p \in feed : p.key = k /\ p.body = b
    BY <1>0, <2>4, <2>11 DEF Agrees
  <2>10. Agrees(k, n, B \cup {c})
    BY <2>3, <2>6, <2>7, <2>8, <2>9 DEF Agrees
  <2>. QED  BY <2>1, <2>10 DEF c, m, n, A, B
<1>8. CASE Downloaded(k)
  <2>1. n = MarkMediaDownloaded(m) /\ applied'[k] = A /\ m \in Row /\ m # NULL
    BY <1>3, <1>8 DEF Downloaded
  <2>2. n \in Row /\ n.from_me = m.from_me /\ n.revoked = m.revoked
          /\ n.deleted_for_me = m.deleted_for_me
    BY <2>1 DEF MarkMediaDownloaded, Row
  <2>3. ~Tombstone(n) => LiveHistory(n, A)
    <3>. SUFFICES ASSUME ~Tombstone(n) PROVE LiveHistory(n, A)
      OBVIOUS
    <3>1. LiveHistory(m, A)
      BY <1>0, <2>1, <2>2 DEF Agrees, Tombstone
    <3>. QED  BY <2>1, <3>1, DownloadedLive
  <2>4. n # NULL
    BY <2>2, NullAssumption
  <2>. HIDE DEF n, m, A
  <2>5. Agrees(k, n, A)
    BY <1>0, <2>1, <2>2, <2>3, <2>4 DEF Agrees
  <2>. QED  BY <2>1, <2>5 DEF n, A
<1>. QED  BY <1>1, <1>2, <1>5, <1>6, <1>7, <1>8, RowSteps

-----------------------------------------------------------------------------
\* Every row agrees with its history in every reachable state.
THEOREM HistoryKept == Spec => [](IInv /\ HistoryInv)
<1>1. Init => IInv /\ HistoryInv
  BY InitInv DEF Init, HistoryInv, Agrees
<1>2. IInv /\ HistoryInv /\ [Next]_vars => (IInv /\ HistoryInv)'
  BY StepInv, HistoryStep
<1>. QED  BY <1>1, <1>2, PTL DEF Spec

\* A live row shows the newest edit applied to it, or its original, for every
\* set of payloads and order of their arrival.
THEOREM EditsWin == Spec => []NewestEditWins
<1>1. IInv /\ HistoryInv => NewestEditWins
  <2>. SUFFICES ASSUME IInv, HistoryInv, NEW k \in Keys, Live(k)
                PROVE  /\ \E b \in IF Edits(k) = {} THEN Originals(k)
                                                   ELSE Edits(k) :
                            /\ messages[k].text = b.text
                            /\ messages[k].media_type = b.media
                            /\ \A e \in Edits(k) : e.ts =< b.ts
                       /\ \A b \in Originals(k) : messages[k].ts = b.ts
    BY DEF NewestEditWins
  <2>. DEFINE m == messages[k]
              A == applied[k]
  <2>1. LiveHistory(m, A)
    BY DEF HistoryInv, Agrees, Live, Present
  <2>2. CASE m.edited
    <3>1. PICK b \in A : NewestOf(m, A, b)
      BY <2>1, <2>2 DEF LiveHistory
    <3>2. b \in Edits(k) /\ \A e \in Edits(k) : e.ts =< b.ts
      BY <3>1 DEF NewestOf, Edits
    <3>3. m.text = b.text /\ m.media_type = b.media
      BY <3>1 DEF NewestOf, AsShown
    <3>. QED  BY <2>1, <3>2, <3>3 DEF LiveHistory, Originals
  <2>3. CASE ~m.edited
    <3>1. PICK b \in A : AsShown(m, b)
      BY <2>1, <2>3 DEF LiveHistory
    <3>2. Edits(k) = {} /\ b \in Originals(k)
      BY <2>1, <2>3, <3>1 DEF LiveHistory, Edits, Originals, Original
    <3>3. m.text = b.text /\ m.media_type = b.media
      BY <3>1 DEF AsShown
    <3>. QED  BY <2>1, <3>2, <3>3 DEF LiveHistory, Originals
  <2>. QED  BY <2>2, <2>3
<1>. QED  BY <1>1, HistoryKept, PTL

\* Nothing a tombstone's flags account for changes what is seen of it.
LEMMA RedeliveredTombstone ==
    ASSUME NEW m \in Row, Tombstone(m), Hidden(m), NEW c \in Content,
           c.revoked => m.revoked, c.deleted_for_me => m.deleted_for_me
    PROVE  Visible(OnConflict(m, Excluded(c))) = Visible(m)
<1>. DEFINE x == Excluded(c)
            n == OnConflict(m, x)
<1>1. /\ x.revoked = c.revoked /\ x.deleted_for_me = c.deleted_for_me
      /\ c.deleted_for_me => x.display_text = DeletedLabel
      /\ c.revoked /\ ~c.deleted_for_me => x.display_text = RevokedLabel
  BY DEF Excluded, DisplayOf, Tombstone
<1>2. /\ n.ts = MergedTs(m, x) /\ n.from_me = MergedFromMe(m, x)
      /\ n.text = MergedBody(m, x, m.text, x.text)
      /\ n.display_text = MergedDisplay(m, x)
      /\ n.revoked = (m.revoked \/ x.revoked)
      /\ n.deleted_for_me = (m.deleted_for_me \/ x.deleted_for_me)
  BY DEF OnConflict
<1>. HIDE DEF n, x
<1>3. n.ts = m.ts /\ n.from_me = m.from_me /\ n.text = m.text
  BY <1>2 DEF MergedTs, MergedFromMe, MergedBody, Hidden
<1>4. m.revoked \in BOOLEAN /\ m.deleted_for_me \in BOOLEAN
  BY DEF Row
<1>5. n.revoked = m.revoked /\ n.deleted_for_me = m.deleted_for_me
  BY <1>1, <1>2, <1>4
<1>6. n.display_text = m.display_text
  BY <1>1, <1>2 DEF MergedDisplay, Hidden, Tombstone
<1>7. Visible(n) = Visible(m)
  BY <1>3, <1>5, <1>6 DEF Visible, Tombstone
<1>. QED  BY <1>7 DEF n, x

\* What was applied once may be applied again: nobody sees a difference.
THEOREM RedeliveryHarmless == Spec => []RedeliveryIsHarmless
<1>1. IInv /\ HistoryInv => RedeliveryIsHarmless
  <2>. SUFFICES ASSUME IInv, HistoryInv, NEW p \in feed,
                       p.body \in applied[p.key], ~TiedEdit(p.key, p.body)
                PROVE  Visible(Upserted(p.key, p.body))
                         = Visible(messages[p.key])
    BY DEF RedeliveryIsHarmless
  <2>. DEFINE k == p.key
              c == p.body
              m == messages[p.key]
              A == applied[p.key]
  <2>1. k \in Keys /\ c \in Content /\ A \in SUBSET Content
    BY PayloadAssumption DEF IInv, TypeOK
  <2>2. Agrees(k, m, A)
    BY <2>1 DEF HistoryInv
  <2>3. Present(k) /\ m \in Row /\ Hidden(m)
    BY <2>1, <2>2 DEF Agrees, Present, IInv, TypeOK, RowOrNull, RowsHidden
  <2>4. Upserted(k, c) = OnConflict(m, Excluded(c))
    BY <2>3 DEF Upserted
  <2>5. CASE Tombstone(m)
    <3>1. (c.revoked => m.revoked) /\ (c.deleted_for_me => m.deleted_for_me)
      BY <2>2, <2>3 DEF Agrees, Present
    <3>. QED  BY <2>1, <2>3, <2>4, <2>5, <3>1, RedeliveredTombstone
  <2>6. CASE ~Tombstone(m)
    <3>1. LiveHistory(m, A)
      BY <2>2, <2>3, <2>6 DEF Agrees, Present
    <3>2. feed \in Feeds
      BY DEF IInv, TypeOK
    <3>3. c.from_me = m.from_me
      <4>1. PICK q \in feed : q.key = k /\ q.body.from_me = m.from_me
        BY <2>2, <2>3 DEF Agrees, Present
      <4>. QED  BY <3>2, <4>1, OriginalAssumption
    <3>4. \A b \in A : Original(b) /\ Original(c) => b = c
      <4>. SUFFICES ASSUME NEW b \in A, Original(b), Original(c) PROVE b = c
        OBVIOUS
      <4>1. PICK q \in feed : q.key = k /\ q.body = b
        BY <2>2 DEF Agrees
      <4>. QED  BY <3>2, <4>1, OriginalAssumption
    <3>5. ~(c.edited /\ \E e \in A : e.edited /\ e # c /\ e.ts = c.ts)
      BY DEF TiedEdit, Edits
    <3>6. c \in A
      OBVIOUS
    <3>. HIDE DEF A, m, c
    <3>7. OnConflict(m, Excluded(c)) = m
      BY <2>1, <2>3, <2>6, <3>1, <3>3, <3>4, <3>5, <3>6, RedeliveredLive
    <3>. QED  BY <2>4, <3>7 DEF m, c, k
  <2>. QED  BY <2>5, <2>6
<1>. QED  BY <1>1, HistoryKept, PTL
=============================================================================
