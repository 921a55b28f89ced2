---------------------------- MODULE MCSyncEngine ----------------------------
(***************************************************************************)
(* Calls of Sync for model checking: each puts one source of trouble to    *)
(* work, so that its bounds can be what that trouble needs.                *)
(***************************************************************************)
EXTENDS SyncEngine

Call(f, limit, stored, finite, msgs, losses, sends) ==
    [max_messages |-> limit, follow |-> f, max_reconnect |-> finite,
     rows |-> stored, arrivals |-> msgs, drops |-> losses,
     delegated |-> sends]

\* A limit of two, from an empty and from a full table; a connection lost up
\* to three times.
SafetyStarts ==
    {Call(TRUE, 2, 0, FALSE, 4, 0, 1), Call(TRUE, 2, 2, FALSE, 4, 0, 1),
     Call(TRUE, 0, 0, TRUE, 1, 3, 1)}

\* --once, and --follow with a limit.
EndingStarts ==
    {Call(FALSE, 0, 0, TRUE, 3, 0, 0), Call(FALSE, 0, 0, TRUE, 1, 1, 0),
     Call(TRUE, 2, 0, FALSE, 3, 0, 0), Call(TRUE, 2, 0, FALSE, 2, 1, 0)}

\* One lost connection, one delegated send.
StrandedStarts == {Call(TRUE, 0, 0, FALSE, 1, 1, 1)}
=============================================================================
