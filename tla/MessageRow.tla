----------------------------- MODULE MessageRow -----------------------------
(***************************************************************************)
(* One row of the `messages` table and the statements that write it.       *)
(*                                                                         *)
(* A row is addressed by (chat_jid, msg_id).  Every statement is a single  *)
(* SQLite autocommit statement, so each operator below is one atomic step. *)
(* Columns that follow the same rule are represented by one column:        *)
(*   text        also media_caption and buttons;                           *)
(*   media_type  is replaced even by an empty value, as text is;           *)
(*   media_key   also direct_path, file hashes, filename, mime_type and    *)
(*               quoted ids: an empty new value keeps the old one;         *)
(*   local_path  also downloaded_at (TRUE when a path is recorded).        *)
(* Sender, forwarding and reaction columns are left out: no property reads *)
(* them.  Timestamps are Unix seconds, as in the table.                    *)
(***************************************************************************)
EXTENDS Integers

CONSTANTS
    Texts,          \* bodies a message or an edit can carry
    Media,          \* media descriptors (type, path, key, hashes)
    Times,          \* seconds at which messages, edits and deletions happen
    NULL,           \* the SQL NULL / empty string
    RevokedLabel,   \* DeletedMessageDisplayText
    DeletedLabel    \* DeletedForMeMessageDisplayText

Labels == {RevokedLabel, DeletedLabel}

ASSUME ColumnAssumption ==
    /\ Times \subseteq Int
    /\ NULL \notin Texts \cup Media \cup Labels
    /\ Labels \cap (Texts \cup Media) = {}
    /\ RevokedLabel # DeletedLabel

Row ==
    [ts : Times, from_me : BOOLEAN,
     text : Texts \cup {NULL},
     display_text : Texts \cup Media \cup Labels \cup {NULL},
     media_type : Media \cup {NULL}, media_key : Media \cup {NULL},
     local_path : BOOLEAN,
     revoked : BOOLEAN, deleted_for_me : BOOLEAN,
     edited : BOOLEAN, edited_ts : Times \cup {0}]

\* No row is distinguishable from every row.
ASSUME NullAssumption == NULL \notin Row

\* What a handler passes to the store for one wire payload or event.
Content ==
    [ts : Times, from_me : BOOLEAN,
     text : Texts \cup {NULL}, media : Media \cup {NULL},
     edited : BOOLEAN, revoked : BOOLEAN, deleted_for_me : BOOLEAN]

Tombstone(r) == r.revoked \/ r.deleted_for_me

(***************************************************************************)
(* The row UpsertMessage tries to insert: a revoked or deleted payload is  *)
(* blanked and labelled first, an edit is stamped with its own timestamp.  *)
(***************************************************************************)
DisplayOf(c) ==
    CASE c.deleted_for_me -> DeletedLabel
      [] c.revoked /\ ~c.deleted_for_me -> RevokedLabel
      [] ~Tombstone(c) /\ c.text # NULL -> c.text
      [] OTHER -> c.media

\* Variant: the edit's time in milliseconds.
EditStampMillis(c) == IF c.edited THEN c.ts * 1000 ELSE 0

EditStamp(c) == IF c.edited THEN c.ts ELSE 0

Excluded(c) ==
    LET Unless(v) == IF Tombstone(c) THEN NULL ELSE v
    IN  [ts |-> c.ts, from_me |-> c.from_me,
         text |-> Unless(c.text), display_text |-> DisplayOf(c),
         media_type |-> Unless(c.media), media_key |-> Unless(c.media),
         local_path |-> FALSE,
         revoked |-> c.revoked, deleted_for_me |-> c.deleted_for_me,
         edited |-> c.edited,
         edited_ts |-> EditStamp(c)]

(***************************************************************************)
(* ON CONFLICT(chat_jid, msg_id) DO UPDATE, for the stored row m and the   *)
(* row x that was not inserted.                                            *)
(***************************************************************************)
\* Variant: an edit always replaces.
StaleOriginalsOnly(m, x) == ~x.edited /\ (m.edited \/ x.ts < m.ts)

\* x must not replace what m shows: m is an edit and x is not, or x is the
\* older of two edits, or the older of two originals.
Stale(m, x) ==
    \/ m.edited /\ ~x.edited
    \/ m.edited /\ x.edited /\ x.edited_ts < m.edited_ts
    \/ ~m.edited /\ ~x.edited /\ x.ts < m.ts

\* Variant: an edit brings its own time.
MergedTsOfEdit(m, x) ==
    IF Tombstone(m) THEN m.ts
    ELSE IF ~m.edited /\ x.ts < m.ts /\ ~Tombstone(x) THEN m.ts
    ELSE x.ts

MergedTs(m, x) ==
    IF Tombstone(m) \/ x.edited THEN m.ts
    ELSE IF ~m.edited /\ x.ts < m.ts /\ ~Tombstone(x) THEN m.ts
    ELSE x.ts

MergedFromMe(m, x) ==
    IF Tombstone(m) \/ (Stale(m, x) /\ ~Tombstone(x))
    THEN m.from_me ELSE x.from_me

\* text and media_type are replaced as a whole, the media columns only by a
\* value; a tombstone on either side clears both.
\* (Variant: only a deletion that arrives clears.)
MergedBodyUnguarded(m, x, old, new) ==
    IF Tombstone(x) THEN NULL ELSE IF Stale(m, x) THEN old ELSE new

MergedBody(m, x, old, new) ==
    IF Tombstone(m) \/ Tombstone(x) THEN NULL
    ELSE IF Stale(m, x) THEN old ELSE new

MergedOrOld(m, x, old, new) ==
    MergedBody(m, x, old, IF new = NULL THEN old ELSE new)

MergedDisplay(m, x) ==
    IF x.deleted_for_me THEN x.display_text
    ELSE IF m.deleted_for_me THEN m.display_text
    ELSE IF x.revoked THEN x.display_text
    ELSE IF m.revoked \/ Stale(m, x) \/ x.display_text = NULL
         THEN m.display_text
    ELSE x.display_text

\* (Variant: the stamp of the first edit stays.)
MergedEditedTsFirst(m, x) ==
    IF Tombstone(x) THEN 0
    ELSE IF m.edited THEN m.edited_ts ELSE x.edited_ts

MergedEditedTs(m, x) ==
    IF Tombstone(x) THEN 0
    ELSE IF x.edited /\ (~m.edited \/ x.edited_ts > m.edited_ts)
         THEN x.edited_ts
    ELSE IF m.edited THEN m.edited_ts ELSE 0

MergedLocalPath(m, x) == m.local_path /\ ~Tombstone(m) /\ ~Tombstone(x)

OnConflict(m, x) ==
    [ts |-> MergedTs(m, x), from_me |-> MergedFromMe(m, x),
     text |-> MergedBody(m, x, m.text, x.text),
     display_text |-> MergedDisplay(m, x),
     media_type |-> MergedBody(m, x, m.media_type, x.media_type),
     media_key |-> MergedOrOld(m, x, m.media_key, x.media_key),
     local_path |-> MergedLocalPath(m, x),
     revoked |-> m.revoked \/ x.revoked,
     deleted_for_me |-> m.deleted_for_me \/ x.deleted_for_me,
     edited |-> ~Tombstone(x) /\ (x.edited \/ m.edited),
     edited_ts |-> MergedEditedTs(m, x)]

(***************************************************************************)
(* The UPDATE statements.                                                  *)
(***************************************************************************)
Blank(m, label) ==
    [m EXCEPT !.text = NULL, !.display_text = label,
              !.media_type = NULL, !.media_key = NULL, !.local_path = FALSE,
              !.edited = FALSE, !.edited_ts = 0]

MarkMessageRevoked(m) ==
    [Blank(m, RevokedLabel) EXCEPT !.revoked = TRUE]

MarkMessageDeletedForMe(m) ==
    [Blank(m, DeletedLabel) EXCEPT !.deleted_for_me = TRUE]

\* Used when the local media file could not be removed: the media columns,
\* the path and the edit stamp stay.
MarkMessageDeletedForMePreserveMedia(m) ==
    [m EXCEPT !.deleted_for_me = TRUE, !.text = NULL,
              !.display_text = DeletedLabel]

\* The local half of `messages edit`, stamped with the local clock.
UpdateMessageText(m, text, now) ==
    [m EXCEPT !.text = text, !.display_text = text,
              !.media_type = NULL, !.media_key = NULL, !.local_path = FALSE,
              !.revoked = FALSE, !.deleted_for_me = FALSE,
              !.edited = TRUE, !.edited_ts = now]

\* Unconditional: the statement does not look at the tombstone flags.
MarkMediaDownloaded(m) == [m EXCEPT !.local_path = TRUE]
=============================================================================
