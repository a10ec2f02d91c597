---------------------------- MODULE ExactEffect -----------------------------
(***************************************************************************)
(* What a single-use grant promises its owner: its effect is sent at most  *)
(* once and only while the grant is spent on it, an effect that depends on *)
(* another comes after the other is proven, what was called denied is never *)
(* sent, and what is called completed was there to be seen.                *)
(***************************************************************************)
EXTENDS Naturals

CONSTANTS Grants, Needs

VARIABLES
    spent,     \* the grants that are used up for their effect
    denied,    \* the grants whose effect was called denied
    sent,      \* how often the effect of a grant was sent to the remote
    seen,      \* the grants whose result the remote has held
    completed  \* the grants whose effect is recorded as completed

vars == <<spent, denied, sent, seen, completed>>

Init == /\ spent = {} /\ denied = {} /\ completed = {}
        /\ sent = [g \in Grants |-> 0]
        /\ seen \in SUBSET Grants

Spend(g) ==
    /\ g \notin spent \union denied
    /\ Needs[g] \subseteq completed
    /\ spent' = spent \union {g}
    /\ UNCHANGED <<denied, sent, seen, completed>>

Deny(g) ==
    /\ sent[g] = 0
    /\ denied' = denied \union {g}
    /\ UNCHANGED <<spent, sent, seen, completed>>

Send(g) ==
    /\ g \in spent \ denied
    /\ sent[g] = 0
    /\ sent' = [sent EXCEPT ![g] = 1]
    /\ UNCHANGED <<spent, denied, seen, completed>>

Show ==
    /\ \E more \in SUBSET Grants : seen' = seen \union more
    /\ UNCHANGED <<spent, denied, sent, completed>>

Complete(g) ==
    /\ g \in (spent \intersect seen) \ denied
    /\ completed' = completed \union {g}
    /\ UNCHANGED <<spent, denied, sent, seen>>

Next == Show \/ \E g \in Grants : Spend(g) \/ Deny(g) \/ Send(g) \/ Complete(g)
Spec == Init /\ [][Next]_vars
=============================================================================
