--------------------------- MODULE MCMessageStore ---------------------------
(***************************************************************************)
(* One message of each kind WhatsApp can mutate: an original (with or      *)
(* without media), two edits, a revocation and a delete-for-me.            *)
(***************************************************************************)
EXTENDS MessageStore

CONSTANTS k1, w1, w2, t0, t1, pic

\* A local clock may show any of these when `messages edit` reads it.
MCTimes == 1..3

Body(ts, text, media) ==
    [ts |-> ts, from_me |-> TRUE, text |-> text, media |-> media,
     edited |-> FALSE, revoked |-> FALSE, deleted_for_me |-> FALSE]
Edit(b)   == [b EXCEPT !.edited = TRUE]
Revoke(b) == [b EXCEPT !.revoked = TRUE, !.text = NULL, !.media = NULL]
ForMe(b)  == [b EXCEPT !.deleted_for_me = TRUE, !.text = NULL, !.media = NULL]

On(bodies) == {[key |-> k1, body |-> b] : b \in bodies}

\* A text message, edited twice elsewhere, revoked, deleted for me.
TextPayloads ==
    On({Body(1, t0, NULL), Edit(Body(2, t1, NULL)), Edit(Body(2, t0, NULL)),
        Edit(Body(3, t1, NULL)),
        Revoke(Body(3, NULL, NULL)), ForMe(Body(3, NULL, NULL))})

\* A captioned picture whose caption is edited, once by a text-only edit.
MediaPayloads ==
    On({Body(1, t0, pic), Edit(Body(2, t1, pic)), Edit(Body(3, t1, NULL)),
        Revoke(Body(3, NULL, NULL)), ForMe(Body(3, NULL, NULL))})

MCFeeds == {TextPayloads, MediaPayloads}
=============================================================================
