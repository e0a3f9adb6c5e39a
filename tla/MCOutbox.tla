------------------------------ MODULE MCOutbox ------------------------------
(* Instances of Outbox for TLC.                                            *)
EXTENDS Outbox, TLC

\* Two sinks that both match, and stay
BothSinks == {[i \in Indices |-> i]}

\* Routing drift: sinks keep their index, the set that matches changes
Drifting == {[i \in Indices |-> IF i \in m THEN i ELSE NoTarget] : m \in SUBSET Indices}

\* Sink 1 comes and goes, sink 0 stays
OneStays == {[i \in Indices |-> i], [i \in Indices |-> IF i = 0 THEN 0 ELSE NoTarget]}

\* A config apply that swaps the order of two sinks
Reordered == {[i \in Indices |-> i], [i \in Indices |-> 1 - i]}

\* Flushing tasks, and contents, are interchangeable
Symmetry == Permutations(Flushers) \cup Permutations(Contents)

NoRaces == {}
RequeueRace == {"requeue"}
=============================================================================
