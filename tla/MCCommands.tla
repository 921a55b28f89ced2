----------------------------- MODULE MCCommands -----------------------------
(***************************************************************************)
(* The rows of `messages` and the commands that write them or keep state   *)
(* of their own while they run, model-checked together: one message and    *)
(* everything that changes it, a history backfill, the accounts commands,  *)
(* one `send`.  They share no row here: a behaviour has one of them.       *)
(***************************************************************************)
EXTENDS MCMessageStore, Backfill, Accounts, Outbound

CONSTANT u1

VARIABLE part

MCUploads == <<pic, u1>>

\* An edit of the first message and a revocation of the second.
MCKind == <<"message", "message", "edit", "revoke">>
MCSubject == <<1, 2, 1, 2>>

Parts == {"rows", "backfill", "accounts", "send"}

commandsVars == <<part, vars, backfillVars, accountsVars, outboundVars>>

CommandsInit ==
    /\ part \in Parts
    /\ Init /\ BackfillInit /\ AccountsInit /\ OutboundInit
    /\ part # "rows" => feed = CHOOSE f \in Feeds : TRUE
    /\ part # "backfill" => /\ backfill = NotBegun /\ anchor.time = 1
                           /\ delivery = CHOOSE d \in Deliveries : TRUE
    /\ part # "send" => /\ sendKind = "text" /\ sendTo = "pn"
                       /\ ~delegated /\ ~pairKnown

CommandsNext ==
    \/ /\ part = "rows" /\ Next
       /\ UNCHANGED <<part, backfillVars, accountsVars, outboundVars>>
    \/ /\ part = "backfill" /\ BackfillNext
       /\ UNCHANGED <<part, vars, accountsVars, outboundVars>>
    \/ /\ part = "accounts" /\ AccountsNext
       /\ UNCHANGED <<part, vars, backfillVars, outboundVars>>
    \/ /\ part = "send" /\ OutboundNext
       /\ UNCHANGED <<part, vars, backfillVars, accountsVars>>

CommandsSpec ==
    CommandsInit /\ [][CommandsNext]_commandsVars /\ BackfillFairness

-----------------------------------------------------------------------------

\* Every component has values of its types; the ones a behaviour does not
\* touch keep their first value.
CommandsTypeOK ==
    /\ part = "rows" => TypeOK
    /\ part = "backfill" => BackfillTypeOK
    /\ part = "accounts" => AccountsTypeOK
    /\ part = "send" => OutboundTypeOK
=============================================================================
