----------------------------- MODULE FencedLog -----------------------------
(***************************************************************************)
(* What the scheduler daemon lease promises, without leases, clocks or     *)
(* versions: incarnations of the daemon write one log, one incarnation at  *)
(* a time, and an incarnation that has ended never writes again.           *)
(* DaemonLease.tla is shown to implement this specification.               *)
(***************************************************************************)
EXTENDS Naturals, Sequences

CONSTANTS Procs,   \* daemon incarnations
          NoProc   \* no incarnation

VARIABLES owner,   \* the incarnation that may write, or NoProc
          gone,    \* incarnations that crashed or stopped
          log      \* who wrote each entry, in order

vars == <<owner, gone, log>>

Init == owner = NoProc /\ gone = {} /\ log = <<>>

Take(p) ==
    /\ owner = NoProc
    /\ p \notin gone
    /\ owner' = p
    /\ UNCHANGED <<gone, log>>

Write(p) ==
    /\ owner = p
    /\ p \notin gone
    /\ log' = Append(log, p)
    /\ UNCHANGED <<owner, gone>>

\* A clean stop gives the ownership up; a crash leaves it behind.
Stop(p) ==
    /\ owner = p
    /\ owner' = NoProc
    /\ gone' = gone \cup {p}
    /\ UNCHANGED log

Crash(p) ==
    /\ gone' = gone \cup {p}
    /\ UNCHANGED <<owner, log>>

\* Only the ownership of an ended incarnation is cleared by others.
Clear ==
    /\ owner \in gone
    /\ owner' = NoProc
    /\ UNCHANGED <<gone, log>>

Next == Clear \/ \E p \in Procs : Take(p) \/ Write(p) \/ Stop(p) \/ Crash(p)

Spec == Init /\ [][Next]_vars
=============================================================================
