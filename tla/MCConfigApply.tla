----------------------------- MODULE MCConfigApply -----------------------------
(* ConfigApply on a small instance: two documents with a secret each, one    *)
(* that fails validation and two seed files.                                 *)
EXTENDS ConfigApply, TLC

MCShapes == {"a", "b", "bad", "seed1", "seed2"}
MCNeeds  == [x \in MCShapes |-> CASE x = "a" -> {"k1"} [] x = "b" -> {"k2"} [] OTHER -> {}]

Single(f) == [orgs |-> FALSE, api |-> TRUE, faults |-> f]
Multi(f)  == [orgs |-> TRUE,  api |-> TRUE, faults |-> f]
GitPin(o) == [orgs |-> o, api |-> FALSE, faults |-> {"crash", "bootEdit"}]

\* Every kind of instance, every fault the ledger is meant to survive.
MCAll     == {Single(Faults), Multi({"crash", "prune", "append", "record"}),
              GitPin(TRUE), GitPin(FALSE)}
\* One instance whose process may die, or one whose seals may fail, or none.
MCCrash   == {Single({"crash"})}
MCSeal    == {Single({"seal"})}
MCCalm    == {Single({})}

MCRows     == (TRUE :> 2) @@ (FALSE :> 3)
MCSymmetry == Permutations(Orgs)

=============================================================================
