-------------------------- MODULE OrderedDelivery --------------------------
(***************************************************************************)
(* What a projection of the journal promises the readers of its copy: the  *)
(* copy receives every event once, in journal order and never ahead of the *)
(* journal, and the cursor never runs ahead of the copy.  How many         *)
(* processes deliver, and which of them crash, is not visible here.        *)
(* ProjectingJournal.tla implements this specification.                    *)
(***************************************************************************)
EXTENDS Naturals, Sequences

VARIABLES head,     \* events of the journal
          copy,     \* the positions delivered, in order of delivery
          position  \* the projection cursor

vars == <<head, copy, position>>

Init == head = 0 /\ copy = <<>> /\ position = 0

Publish == head' = head + 1 /\ UNCHANGED <<copy, position>>

Deliver ==
    /\ Len(copy) < head
    /\ copy' = Append(copy, Len(copy) + 1)
    /\ UNCHANGED <<head, position>>

Commit ==
    /\ \E through \in (position + 1)..Len(copy) : position' = through
    /\ UNCHANGED <<head, copy>>

Next == Publish \/ Deliver \/ Commit

Spec == Init /\ [][Next]_vars
=============================================================================
