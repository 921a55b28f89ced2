----------------------------- MODULE SendOutcome -----------------------------
(***************************************************************************)
(* What a `send` command promises, whoever carries it out: the message is  *)
(* accepted by WhatsApp at most once, and success is reported only for a   *)
(* message that was accepted.  An error promises nothing: the message may  *)
(* have been accepted, or may yet be.                                      *)
(***************************************************************************)
EXTENDS Naturals

CONSTANT Clients        \* send commands, each with one message

VARIABLES
    accepted,           \* how often WhatsApp accepted the message
    outcome             \* what the command reported

Init ==
    /\ accepted = [c \in Clients |-> 0]
    /\ outcome = [c \in Clients |-> "none"]

Accept(c) ==
    /\ accepted[c] = 0
    /\ accepted' = [accepted EXCEPT ![c] = 1]
    /\ UNCHANGED outcome

ReportSent(c) ==
    /\ outcome[c] = "none" /\ accepted[c] = 1
    /\ outcome' = [outcome EXCEPT ![c] = "sent"]
    /\ UNCHANGED accepted

ReportError(c) ==
    /\ outcome[c] = "none"
    /\ outcome' = [outcome EXCEPT ![c] = "error"]
    /\ UNCHANGED accepted

Next == \E c \in Clients : Accept(c) \/ ReportSent(c) \/ ReportError(c)

Spec == Init /\ [][Next]_<<accepted, outcome>>
=============================================================================
