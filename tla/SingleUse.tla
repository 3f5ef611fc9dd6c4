------------------------------ MODULE SingleUse ------------------------------
(***************************************************************************)
(* What a per-operation step-up promises (docs/OPERATION-STEPUP.md): the   *)
(* proof a user gave for an act authorizes one write, and that act only.   *)
(***************************************************************************)
EXTENDS Sequences

CONSTANTS Challenges, Purposes, Bodies, NoHash

VARIABLES
    raisedFor,  \* the act each challenge was raised for, or NoAct
    writes      \* the writes performed under each challenge

\* What the user agreed to; bound is NoHash if the purpose is not body-bound.
Act == [purpose : Purposes, bound : Bodies \cup {NoHash}]
NoAct == [bound |-> NoHash]

Write == [purpose : Purposes, body : Bodies]

Init ==
    /\ raisedFor = [c \in Challenges |-> NoAct]
    /\ writes = [c \in Challenges |-> <<>>]

StepUp(c, act) ==
    /\ raisedFor[c] = NoAct
    /\ raisedFor' = [raisedFor EXCEPT ![c] = act]
    /\ UNCHANGED writes

\* One write, for the purpose and of the body the challenge was raised for.
Perform(c, write) ==
    /\ raisedFor[c] \in Act
    /\ raisedFor[c].purpose = write.purpose
    /\ raisedFor[c].bound \in {NoHash, write.body}
    /\ writes[c] = <<>>
    /\ writes' = [writes EXCEPT ![c] = <<write>>]
    /\ UNCHANGED raisedFor

Next ==
    \E c \in Challenges :
        \/ \E act \in Act : StepUp(c, act)
        \/ \E write \in Write : Perform(c, write)

Spec == Init /\ [][Next]_<<raisedFor, writes>>
=============================================================================
