--------------------------- MODULE WriterGovernor ---------------------------
(***************************************************************************)
(* The capacity arithmetic of the writer resource governor                 *)
(* (orchestration/writer-resource-governor.ts): a wave of writers is       *)
(* admitted as a whole, against a global limit and one limit per model,    *)
(* and the waves that do not fit wait in one first-in first-out queue.     *)
(*                                                                         *)
(* The governor lives in the memory of one process.  Its identities and    *)
(* capability digests are the members of Writers and Models: two writers   *)
(* that the code would find equal are one value here, and a capability     *)
(* keeps the limit it was pinned with.                                     *)
(***************************************************************************)
EXTENDS Naturals, FiniteSets, Sequences

CONSTANTS
    Writers,      \* the writer tasks
    Models,       \* the model capabilities
    ModelOf,      \* the capability a writer runs on
    GlobalLimit,  \* maxConcurrentWriters
    ModelLimit    \* maxConcurrency of a capability

ASSUME GovernorAssumption ==
    /\ IsFiniteSet(Writers)
    /\ ModelOf \in [Writers -> Models]
    /\ GlobalLimit \in Nat \ {0}
    /\ ModelLimit \in [Models -> Nat \ {0}]

OnModel(ws, x) == {w \in ws : ModelOf[w] = x}

(* Capacity that a set of writers may use at once: what validate() asks of *)
(* one wave and every grant of all of them.                                *)
WithinLimits(ws) ==
    /\ Cardinality(ws) <= GlobalLimit
    /\ \A x \in Models : Cardinality(OnModel(ws, x)) <= ModelLimit[x]

(* canAcquire(): the wave fits beside the active writers. Only the models  *)
(* of the wave are looked at.                                              *)
CanAcquire(act, ws) ==
    /\ Cardinality(act) + Cardinality(ws) <= GlobalLimit
    /\ \A x \in {ModelOf[w] : w \in ws} :
         Cardinality(OnModel(act, x)) + Cardinality(OnModel(ws, x)) <= ModelLimit[x]

(* drain(): the head of the queue is granted as long as it fits; the first *)
(* wave that does not fit holds back all those behind it. q is the         *)
(* sequence of the waiting waves; the result is how many are granted.      *)
Taken(q, n) == UNION {q[i] : i \in 1..n}
Drained(act, q) ==
    Cardinality({n \in 1..Len(q) :
                   \A i \in 1..n : CanAcquire(act \union Taken(q, i - 1), q[i])})
=============================================================================
