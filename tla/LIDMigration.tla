---------------------------- MODULE LIDMigration ----------------------------
(***************************************************************************)
(* One contact, stored under two names: the hidden id "lid" while          *)
(* whatsmeow does not know its phone number, the number "pn" afterwards.   *)
(* Sync's handler resolves the name of each event first and writes the     *)
(* chat row and the event's own row with two later statements.  After      *)
(* every connect, while handlers already run, migrateHistoricalLIDs merges *)
(* what is stored under "lid" into "pn", in one transaction per id.        *)
(*                                                                         *)
(* The chat holds one message, one poll of which the contact is the voter, *)
(* one call, the message's star, and what commands sent to the contact.  A *)
(* group has one message, which the contact sent and which quotes another  *)
(* message of the contact.  Chat names, and a look-up of the pair that     *)
(* fails, are left out.                                                    *)
(***************************************************************************)
EXTENDS MessageRow

CONSTANTS
    LIDHandlers,    \* dispatchers that run the event handler
    PollOptions,    \* options a poll message of the contact may bring
    LIDFeeds        \* sets of events that WhatsApp may deliver, again and again

Message(body)  == [kind |-> "message", body |-> body]
Poll(options)  == [kind |-> "poll", options |-> options]
Vote(ts, sel)  == [kind |-> "vote", ts |-> ts, sel |-> sel]
Call           == [kind |-> "call"]
CallDeleted    == [kind |-> "callDeleted"]
Star(on)       == [kind |-> "star", on |-> on]
\* The message in the group; it names who it quotes.
Reply(name)    == [kind |-> "reply", quotes |-> name]
\* No event of WhatsApp: a command is used on the contact.
Sent           == [kind |-> "sent"]

LIDNames == {"lid", "pn"}

ContactEvents ==
    {Message(b) : b \in Content} \cup {Poll(o) : o \in SUBSET PollOptions}
      \cup {Vote(t, s) : t \in Times, s \in SUBSET PollOptions}
      \cup {Call, CallDeleted, Sent} \cup {Star(on) : on \in BOOLEAN}
      \cup {Reply(n) : n \in LIDNames}

ASSUME LIDAssumption ==
    /\ Times \subseteq Nat \ {0}
    /\ \A feed \in LIDFeeds : feed \subseteq ContactEvents

VARIABLES
    mapped,     \* whatsmeow has the pair (lid, pn)
    known,      \* names with a row in `chats`
    row,        \* the message's row under each name, or NULL
    options,    \* options_json of the poll under each name, {} for no row
    vote,       \* the vote's row under each name
    call,       \* names with the row in `call_events`
    starred,    \* names with the row in `starred`
    sent,       \* names with a message that a command sent
    author,     \* sender_jid of the message in the group, or NULL
    quoted,     \* quoted_sender_jid of it, or NULL
    raw,        \* history: what was stored unresolved since the last merge
    resolved,   \* what each handler has resolved and not yet written
    migration,  \* migrateHistoricalLIDs
    unsplit,    \* history: the message's row had there been one name
    voted,      \* history: the votes that were stored
    settled,    \* history: migrated while no handler held the hidden name
    contactFeed \* the events of this behaviour

elsewhere == <<sent, author, quoted, raw>>
tables == <<known, row, options, vote, call, starred, elsewhere>>
written == <<unsplit, voted>>
lidVars == <<mapped, tables, resolved, migration, written, settled,
             contactFeed>>

NoVoteRow == [ts |-> 0, sel |-> {}]
Unresolved == [at |-> "idle", name |-> "pn", event |-> Call]

LIDInit ==
    /\ mapped = FALSE
    /\ known = {} /\ call = {} /\ starred = {}
    /\ sent = {} /\ author = NULL /\ quoted = NULL /\ raw = {}
    /\ row = [n \in LIDNames |-> NULL]
    /\ options = [n \in LIDNames |-> {}]
    /\ vote = [n \in LIDNames |-> NoVoteRow]
    /\ resolved = [d \in LIDHandlers |-> Unresolved]
    /\ migration = "idle"
    /\ unsplit = NULL /\ voted = {} /\ settled = FALSE
    /\ contactFeed \in LIDFeeds

-----------------------------------------------------------------------------
(* The event handler.                                                      *)

\* Variant: the name is taken as it comes.
NeverResolved(name) == name

\* canonicalStoreJID: the mapping as it is known at that moment.
CanonicalStoreJID(name) == IF mapped THEN "pn" ELSE name

\* WhatsApp addresses the contact by either name; a star, a poll and a vote
\* need no row in `chats`, and the group has its own.
ResolveEvent(d, e, name) ==
    /\ resolved[d].at = "idle" /\ e \in contactFeed \ {Sent}
    /\ resolved' =
         [resolved EXCEPT ![d] =
            [at |-> IF e.kind \in {"message", "call"} THEN "chat" ELSE "row",
             name |-> CanonicalStoreJID(name), event |-> e]]
    /\ UNCHANGED <<mapped, tables, migration, written, settled, contactFeed>>

UpsertContactChat(d) ==
    /\ resolved[d].at = "chat"
    /\ known' = known \cup {resolved[d].name}
    /\ resolved' = [resolved EXCEPT ![d].at = "row"]
    /\ UNCHANGED <<mapped, row, options, vote, call, starred, elsewhere,
                   migration, written, settled, contactFeed>>

HandlerDone(d) == resolved' = [resolved EXCEPT ![d] = Unresolved]

Upsert(old, body) ==
    IF body.deleted_for_me /\ old # NULL THEN MarkMessageDeletedForMe(old)
    ELSE IF old # NULL THEN OnConflict(old, Excluded(body))
    ELSE Excluded(body)

\* `messages` and `call_events` have a foreign key on `chats`: if the chat
\* row went in between, the event is lost with a warning.
WriteMessage(n, e) ==
    /\ e.kind = "message" /\ n \in known
    /\ row' = [row EXCEPT ![n] = Upsert(@, e.body)]
    /\ unsplit' = Upsert(unsplit, e.body)
    /\ UNCHANGED <<options, vote, call, starred, elsewhere, voted>>

WriteCall(n, e) ==
    /\ e.kind = "call" /\ n \in known
    /\ call' = call \cup {n}
    /\ UNCHANGED <<row, options, vote, starred, elsewhere, written>>

ForeignKeyFails(n, e) ==
    /\ e.kind \in {"message", "call"} /\ n \notin known
    /\ UNCHANGED <<row, options, vote, call, starred, elsewhere, written>>

\* deleteParsedCallEvents
DeleteCall(n, e) ==
    /\ e.kind = "callDeleted"
    /\ call' = call \ {n}
    /\ UNCHANGED <<row, options, vote, starred, elsewhere, written>>

\* UpsertPoll merges the options it finds.
WriteContactPoll(n, e) ==
    /\ e.kind = "poll"
    /\ options' = [options EXCEPT ![n] = @ \cup e.options]
    /\ UNCHANGED <<row, vote, call, starred, elsewhere, written>>

\* UpsertPollVote, or DeletePollVote for a retraction.
WriteContactVote(n, e) ==
    /\ e.kind = "vote"
    /\ vote' = IF e.ts >= vote[n].ts
               THEN [vote EXCEPT ![n] =
                       IF e.sel = {} THEN NoVoteRow
                       ELSE [ts |-> e.ts, sel |-> e.sel]]
               ELSE vote
    /\ voted' = voted \cup {e}
    /\ UNCHANGED <<row, options, call, starred, elsewhere, unsplit>>

\* SetStarred
WriteStar(n, e) ==
    /\ e.kind = "star"
    /\ starred' = IF e.on THEN starred \cup {n} ELSE starred \ {n}
    /\ UNCHANGED <<row, options, vote, call, elsewhere, written>>

\* The sender is stored by the resolved name, whom the message quotes by the
\* name that the message has for it.
WriteReply(n, e) ==
    /\ e.kind = "reply"
    /\ author' = n /\ quoted' = e.quotes
    /\ raw' = IF e.quotes = "lid" THEN raw \cup {"quoted"} ELSE raw
    /\ UNCHANGED <<row, options, vote, call, starred, sent, written>>

WriteEvent(d) ==
    /\ resolved[d].at = "row"
    /\ LET n == resolved[d].name   e == resolved[d].event IN
         \/ WriteMessage(n, e) \/ WriteCall(n, e) \/ ForeignKeyFails(n, e)
         \/ DeleteCall(n, e) \/ WriteContactPoll(n, e)
         \/ WriteContactVote(n, e) \/ WriteStar(n, e) \/ WriteReply(n, e)
    /\ HandlerDone(d)
    /\ UNCHANGED <<mapped, known, migration, settled, contactFeed>>

\* persistOutboundText and its like record what they sent by the recipient as
\* it was given, or as the warm-up returned it: the chat row, then, unless the
\* statement fails or the chat row is gone again, the message.
RecordSent(name) ==
    /\ Sent \in contactFeed
    /\ known' = known \cup {name}
    /\ sent' \in {sent, sent \cup {name}}
    /\ raw' = IF name = "lid" THEN raw \cup {"sent"} ELSE raw
    /\ UNCHANGED <<mapped, row, options, vote, call, starred, author, quoted,
                   resolved, migration, written, settled, contactFeed>>

-----------------------------------------------------------------------------
(* The merge of the row x under the hidden id into the row m under the     *)
(* phone number.                                                           *)

\* Variant: an edit of the hidden row always replaces.
AnyEdit(m, x) == x.edited

NewerEdit(m, x) == x.edited /\ (~m.edited \/ x.edited_ts > m.edited_ts)

OrElse(old, new) == IF old = NULL THEN new ELSE old

MigratedTs(m, x) ==
    IF Tombstone(m) \/ x.edited THEN m.ts
    ELSE IF m.edited \/ x.ts > m.ts THEN x.ts ELSE m.ts

\* text and display_text: the newer edit, an edit before an original, and
\* otherwise what the phone-number row has.
MigratedBody(m, x, old, new) ==
    IF NewerEdit(m, x) THEN new
    ELSE IF m.edited /\ ~x.edited THEN old
    ELSE OrElse(old, new)

MigratedDisplay(m, x) ==
    IF m.deleted_for_me \/ x.deleted_for_me THEN DeletedLabel
    ELSE IF m.revoked \/ x.revoked THEN RevokedLabel
    ELSE MigratedBody(m, x, m.display_text, x.display_text)

MigratedRow(m, x) ==
    LET tomb == Tombstone(m) \/ Tombstone(x)
        Unless(v) == IF tomb THEN NULL ELSE v
    IN  [ts |-> MigratedTs(m, x), from_me |-> m.from_me,
         text |-> Unless(MigratedBody(m, x, m.text, x.text)),
         display_text |-> MigratedDisplay(m, x),
         media_type |-> Unless(OrElse(m.media_type, x.media_type)),
         media_key |-> Unless(OrElse(m.media_key, x.media_key)),
         local_path |-> ~tomb /\ (m.local_path \/ x.local_path),
         revoked |-> m.revoked \/ x.revoked,
         deleted_for_me |-> m.deleted_for_me \/ x.deleted_for_me,
         edited |-> ~tomb /\ (m.edited \/ x.edited),
         edited_ts |-> IF tomb THEN 0
                       ELSE IF x.edited_ts > m.edited_ts THEN x.edited_ts
                       ELSE m.edited_ts]

ToPN(name) == IF name = "lid" THEN "pn" ELSE name

MigrateLIDMessagesToPN ==
    /\ row' = [lid |-> NULL,
               pn  |-> IF row["lid"] = NULL THEN row["pn"]
                       ELSE IF row["pn"] = NULL THEN row["lid"]
                       ELSE MigratedRow(row["pn"], row["lid"])]
    /\ sent' = {ToPN(n) : n \in sent}

\* Of every message, whatever chat it is in.
MigrateLIDSenderToPN == author' = ToPN(author) /\ quoted' = ToPN(quoted)

\* Variant: the vote of the phone-number row stays.
KeepVote == IF vote["pn"].ts = 0 THEN vote["lid"] ELSE vote["pn"]

NewerVote == IF vote["lid"].ts >= vote["pn"].ts THEN vote["lid"]
             ELSE vote["pn"]

MigrateLIDPollsToPN ==
    /\ options' = [lid |-> {}, pn |-> options["pn"] \cup options["lid"]]
    /\ vote' = [lid |-> NoVoteRow, pn |-> NewerVote]

\* migrateLIDChatToPN and, last, deleteLIDChat.  Its cascade takes the rows
\* of `call_events` along; nothing touches `starred`.
MigrateLIDChat ==
    /\ known' = IF "lid" \in known \cup sent \/ row["lid"] # NULL
                THEN (known \ {"lid"}) \cup {"pn"} ELSE known
    /\ call' = IF "lid" \in known THEN call \ {"lid"} ELSE call

\* HistoricalLIDJIDs, which does not look at calls or stars.
HasHistoricalLID ==
    \/ "lid" \in known \cup sent \/ row["lid"] # NULL
    \/ author = "lid" \/ quoted = "lid"
    \/ options["lid"] # {} \/ vote["lid"] # NoVoteRow

ListHistoricalLIDs ==
    /\ migration = "idle" /\ HasHistoricalLID
    /\ migration' = "listed"
    /\ UNCHANGED <<mapped, tables, resolved, written, settled, contactFeed>>

MigrateLIDToPN ==
    /\ migration = "listed" /\ mapped
    /\ MigrateLIDChat /\ MigrateLIDMessagesToPN /\ MigrateLIDSenderToPN
    /\ MigrateLIDPollsToPN
    /\ migration' = "idle" /\ raw' = {}
    /\ settled' = \A d \in LIDHandlers :
                    resolved[d].at # "idle" => resolved[d].name = "pn"
    /\ UNCHANGED <<mapped, starred, resolved, written, contactFeed>>

\* No mapping, or the transaction fails and is rolled back.
SkipLID ==
    /\ migration = "listed"
    /\ migration' = "idle"
    /\ UNCHANGED <<mapped, tables, resolved, written, settled, contactFeed>>

-----------------------------------------------------------------------------

LearnMapping ==
    /\ ~mapped /\ mapped' = TRUE
    /\ UNCHANGED <<tables, resolved, migration, written, settled,
                   contactFeed>>

\* The process dies; the session store and the tables remain.
LIDCrash ==
    /\ resolved' = [d \in LIDHandlers |-> Unresolved] /\ migration' = "idle"
    /\ UNCHANGED <<mapped, tables, written, settled, contactFeed>>

LIDNext ==
    \/ \E d \in LIDHandlers, e \in contactFeed, n \in LIDNames :
         ResolveEvent(d, e, n)
    \/ \E d \in LIDHandlers : UpsertContactChat(d) \/ WriteEvent(d)
    \/ \E n \in LIDNames : RecordSent(n)
    \/ ListHistoricalLIDs \/ MigrateLIDToPN \/ SkipLID
    \/ LearnMapping \/ LIDCrash

LIDSpec == LIDInit /\ [][LIDNext]_lidVars

-----------------------------------------------------------------------------
(* Properties.                                                             *)

LIDTypeOK ==
    /\ mapped \in BOOLEAN /\ settled \in BOOLEAN
    /\ known \subseteq LIDNames /\ call \subseteq LIDNames
    /\ starred \subseteq LIDNames /\ sent \subseteq LIDNames
    /\ author \in LIDNames \cup {NULL} /\ quoted \in LIDNames \cup {NULL}
    /\ raw \subseteq {"sent", "quoted"}
    /\ row \in [LIDNames -> Row \cup {NULL}] /\ unsplit \in Row \cup {NULL}
    /\ options \in [LIDNames -> SUBSET PollOptions]
    /\ vote \in [LIDNames -> [ts : Times \cup {0}, sel : SUBSET PollOptions]]
    /\ resolved \in [LIDHandlers -> [at : {"idle", "chat", "row"},
                                     name : LIDNames, event : ContactEvents]]
    /\ migration \in {"idle", "listed"}
    /\ voted \subseteq ContactEvents /\ contactFeed \in LIDFeeds

\* What a reader sees of a message.  (Its time is left out: an edit under the
\* number and the original under the hidden id merge to the edit's time.)
Shown(m) ==
    [text |-> m.text, display_text |-> m.display_text, revoked |-> m.revoked,
     deleted_for_me |-> m.deleted_for_me,
     edited_ts |-> IF Tombstone(m) THEN 0 ELSE m.edited_ts]

\* What a feed may bring of the message.
Bodies(feed) == {e.body : e \in {f \in feed : f.kind = "message"}}

\* Of each edit, told by its second, and of the original there is one version;
\* an edit has a text; a delete-for-me is no revocation.
OneHistory(feed) ==
    /\ \A b \in Bodies(feed) :
         /\ ~(b.revoked /\ b.deleted_for_me)
         /\ ~Tombstone(b) => b.text # NULL \/ (~b.edited /\ b.media # NULL)
    /\ \A b, c \in Bodies(feed) :
         ~Tombstone(b) /\ ~Tombstone(c) /\ EditStamp(b) = EditStamp(c) =>
             b.text = c.text /\ b.media = c.media

\* Whatever part of a message's history was stored under each name, and in
\* whatever order the parts arrived, replayed or not, the merged row shows
\* what one row that had received everything would show (lid_migration.go:51,
\* "merges duplicate chat/message rows"): the merge has rules of its own,
\* which must agree with those of UpsertMessage.  And a vote that was stored
\* under either name is there, or a newer one, unless it was retracted at its
\* time or later.
MergedAsUnsplit ==
    /\ (row["lid"] = NULL) # (row["pn"] = NULL) =>
          LET m == IF row["lid"] = NULL THEN row["pn"] ELSE row["lid"]
          IN  Shown(m) = Shown(unsplit)
    /\ \A b \in voted :
          \/ \E n \in LIDNames : vote[n].ts >= b.ts
          \/ \E r \in voted : r.sel = {} /\ r.ts >= b.ts

\* Once the rows were merged with no handler between resolving the hidden id
\* and writing under it, the handler stores nothing by it any more: a later
\* event that WhatsApp addresses to the hidden id, or whose sender or voter it
\* names so, goes to the number.  (A handler that was overtaken leaves a row
\* behind until the next connect.)  The split does not end for the two who
\* write a name unresolved: the sender that a message quotes, and a command
\* that records what it sent.  What they store by the hidden id stays until
\* the next merge, and no longer.
HandlerSplitsNoMore ==
    settled =>
        /\ row["lid"] = NULL /\ author # "lid"
        /\ options["lid"] = {} /\ vote["lid"] = NoVoteRow
        /\ "lid" \in known \cup sent => "sent" \in raw
        /\ quoted = "lid" => "quoted" \in raw
=============================================================================
