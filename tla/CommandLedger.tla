----------------------------- MODULE CommandLedger -----------------------------
(***************************************************************************)
(* What the cloud's command path promises: a bridge accepts a command only *)
(* while it is fresh, and runs a command it has accepted at most once.     *)
(***************************************************************************)
EXTENDS Naturals

CONSTANTS
    Commands, \* the commands members send from the cloud
    Bridges   \* the Bridge objects that come into being

VARIABLES
    sent,     \* the commands that have been sent
    fresh,    \* those that are still young enough to be accepted
    accepted, \* accepted[b]: what bridge b has accepted
    ran       \* ran[b][c]: how often bridge b has run c

ledger == <<sent, fresh, accepted, ran>>

Init ==
    /\ sent = {} /\ fresh = {}
    /\ accepted = [b \in Bridges |-> {}]
    /\ ran = [b \in Bridges |-> [c \in Commands |-> 0]]

Send(c) ==
    /\ c \notin sent
    /\ sent' = sent \cup {c} /\ fresh' = fresh \cup {c}
    /\ UNCHANGED <<accepted, ran>>

Expire(c) ==
    /\ fresh' = fresh \ {c}
    /\ UNCHANGED <<sent, accepted, ran>>

Accept(b, c) ==
    /\ c \in fresh \ accepted[b]
    /\ accepted' = [accepted EXCEPT ![b] = @ \cup {c}]
    /\ UNCHANGED <<sent, fresh, ran>>

Run(b, c) ==
    /\ c \in accepted[b] /\ ran[b][c] = 0
    /\ ran' = [ran EXCEPT ![b][c] = 1]
    /\ UNCHANGED <<sent, fresh, accepted>>

Next ==
    \/ \E c \in Commands : Send(c) \/ Expire(c)
    \/ \E b \in Bridges, c \in Commands : Accept(b, c) \/ Run(b, c)

Spec == Init /\ [][Next]_ledger

=============================================================================
