---------------------------- MODULE MCChatState ----------------------------
(***************************************************************************)
(* Scenes for model checking: messages being read and counted; flags       *)
(* changed on the phone and by commands.                                   *)
(***************************************************************************)
EXTENDS ChatState

CONSTANTS m1, m2

MCMessages == {m1, m2}
MCRecent == {m2}

MCScenes ==
    {[messages |-> {m1, m2}, kinds |-> {"read"}, events |-> 3],
     [messages |-> {}, kinds |-> {"archive", "pin"}, events |-> 4],
     [messages |-> {}, kinds |-> {"archive", "mute"}, events |-> 3]}
=============================================================================
