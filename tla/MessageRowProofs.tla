--------------------------- MODULE MessageRowProofs ---------------------------
(***************************************************************************)
(* What the statements on a row of `messages` return, for every row and    *)
(* every payload: lemmas for the modules about the components that write   *)
(* these rows.                                                             *)
(***************************************************************************)
EXTENDS MessageRow, TLAPS

-----------------------------------------------------------------------------
\* What TombstoneHidesContent asks of one row.
Hidden(m) ==
    Tombstone(m) =>
        /\ m.text = NULL
        /\ m.display_text = IF m.deleted_for_me THEN DeletedLabel
                            ELSE RevokedLabel

\* The row n still shows every deletion the row m shows.
KeepsDeletion(m, n) ==
    /\ m.revoked => n.revoked
    /\ m.deleted_for_me => n.deleted_for_me

\* The row UpsertMessage inserts is well typed, and blank if it is a deletion.
LEMMA ExcludedRow ==
    ASSUME NEW c \in Content
    PROVE  Excluded(c) \in Row /\ Hidden(Excluded(c))
<1>1. DisplayOf(c) \in Texts \cup Media \cup Labels \cup {NULL}
  BY DEF Content, DisplayOf, Labels, Tombstone
<1>2. Excluded(c) \in Row
  BY <1>1 DEF Excluded, EditStamp, Content, Row, Tombstone
<1>3. Hidden(Excluded(c))
  BY DEF Hidden, Excluded, EditStamp, DisplayOf, Tombstone, Content
<1>. QED  BY <1>2, <1>3

\* ON CONFLICT yields a row, keeps both deletions and hides their content.
LEMMA OnConflictRow ==
    ASSUME NEW m \in Row, NEW x \in Row, Hidden(m), Hidden(x)
    PROVE  /\ OnConflict(m, x) \in Row
           /\ Hidden(OnConflict(m, x))
           /\ KeepsDeletion(m, OnConflict(m, x))
<1>1. MergedTs(m, x) \in Times
  BY DEF MergedTs, Row
<1>2. MergedFromMe(m, x) \in BOOLEAN
  BY DEF MergedFromMe, Row
<1>3. /\ MergedBody(m, x, m.text, x.text) \in Texts \cup {NULL}
      /\ MergedBody(m, x, m.media_type, x.media_type) \in Media \cup {NULL}
      /\ MergedOrOld(m, x, m.media_key, x.media_key) \in Media \cup {NULL}
  BY DEF MergedBody, MergedOrOld, Row
<1>4. MergedDisplay(m, x) \in Texts \cup Media \cup Labels \cup {NULL}
  BY DEF MergedDisplay, Row
<1>5. MergedEditedTs(m, x) \in Times \cup {0}
  BY DEF MergedEditedTs, Row
<1>6. OnConflict(m, x) \in Row
  BY <1>1, <1>2, <1>3, <1>4, <1>5
  DEF OnConflict, MergedLocalPath, Row, Tombstone
<1>7. Hidden(OnConflict(m, x))
  BY DEF Hidden, OnConflict, MergedLocalPath, MergedBody, MergedDisplay,
         Tombstone, Row
<1>8. KeepsDeletion(m, OnConflict(m, x))
  BY DEF KeepsDeletion, OnConflict
<1>. QED  BY <1>6, <1>7, <1>8

\* The UPDATE statements that delete a message.
LEMMA DeletionRow ==
    ASSUME NEW m \in Row, Hidden(m)
    PROVE  /\ MarkMessageDeletedForMe(m) \in Row
           /\ Hidden(MarkMessageDeletedForMe(m))
           /\ KeepsDeletion(m, MarkMessageDeletedForMe(m))
           /\ MarkMessageDeletedForMePreserveMedia(m) \in Row
           /\ Hidden(MarkMessageDeletedForMePreserveMedia(m))
           /\ KeepsDeletion(m, MarkMessageDeletedForMePreserveMedia(m))
  BY DEF MarkMessageDeletedForMe, MarkMessageDeletedForMePreserveMedia,
         Blank, Row, Hidden, KeepsDeletion, Tombstone, Labels

\* The local half of `messages revoke` relabels the row: it keeps the label
\* right only because the row was not deleted for me before.
LEMMA RevokedRow ==
    ASSUME NEW m \in Row, ~Tombstone(m)
    PROVE  /\ MarkMessageRevoked(m) \in Row
           /\ Hidden(MarkMessageRevoked(m))
           /\ KeepsDeletion(m, MarkMessageRevoked(m))
  BY DEF MarkMessageRevoked, Blank, Row, Hidden, KeepsDeletion, Tombstone,
         Labels

\* The local half of `messages edit` resets both flags: it deletes nothing
\* only because neither was set.
LEMMA EditedRow ==
    ASSUME NEW m \in Row, ~Tombstone(m), NEW text \in Texts, NEW now \in Times
    PROVE  /\ UpdateMessageText(m, text, now) \in Row
           /\ Hidden(UpdateMessageText(m, text, now))
           /\ KeepsDeletion(m, UpdateMessageText(m, text, now))
  BY DEF UpdateMessageText, Row, Hidden, KeepsDeletion, Tombstone

\* MarkMediaDownloaded touches only the media columns: flags and text stay.
LEMMA DownloadedRow ==
    ASSUME NEW m \in Row, Hidden(m)
    PROVE  /\ MarkMediaDownloaded(m) \in Row
           /\ Hidden(MarkMediaDownloaded(m))
           /\ KeepsDeletion(m, MarkMediaDownloaded(m))
  BY DEF MarkMediaDownloaded, Row, Hidden, KeepsDeletion, Tombstone
=============================================================================
