----------------------------- MODULE MCServices -----------------------------
(***************************************************************************)
(* Three background services of one process that share no state, checked   *)
(* in one run: the poller lease with the supervisor, the key cache, and    *)
(* the advisory lookups.  A behaviour is a behaviour of the service in     *)
(* focus, and the others stay in an initial state.                         *)
(***************************************************************************)
EXTENDS Lifecycle, Jwks, Advisories

VARIABLE focus

servicesVars == <<focus, lifecycleVars, jwksVars, advisoriesVars>>

Init ==
    /\ focus \in {"lifecycle", "jwks", "advisories"}
    /\ LifecycleInit
    /\ JwksInit
    /\ focus # "jwks" => idp = [up |-> FALSE, set |-> {}] /\ uri
    /\ AdvisoriesInit
    /\ focus # "advisories" => ~osv.up

\* A step A of one service leaves the others alone.
OfLifecycle(A)  == focus = "lifecycle" /\ A /\ UNCHANGED <<focus, jwksVars, advisoriesVars>>
OfKeyCache(A)   == focus = "jwks" /\ A /\ UNCHANGED <<focus, lifecycleVars, advisoriesVars>>
OfAdvisories(A) == focus = "advisories" /\ A /\ UNCHANGED <<focus, lifecycleVars, jwksVars>>

Lifecycles == OfLifecycle(LifecycleNext)
KeyCache   == OfKeyCache(JwksNext)
Lookups    == OfAdvisories(AdvisoriesNext)

Next == Lifecycles \/ KeyCache \/ Lookups

\* The fairness of each service, for the behaviours that are its own.
Fairness ==
    /\ \A p \in Processes :
        /\ WF_servicesVars(OfLifecycle(SwapStep(p)))
        /\ WF_servicesVars(OfLifecycle(ShutdownStep(p)))
    /\ WF_servicesVars(OfKeyCache(JwksAge))
    /\ WF_servicesVars(OfKeyCache(JwksTask))
    /\ WF_servicesVars(OfAdvisories(BreakerCools))
    /\ WF_servicesVars(OfAdvisories(StartLookup("sweep")))
    /\ \A c \in Lookers : WF_servicesVars(OfAdvisories(CallerStep(c)))

Spec == Init /\ [][Next]_servicesVars /\ Fairness

=============================================================================
