-------------------------------- MODULE Jwks --------------------------------
(***************************************************************************)
(* The key cache of the OIDC validator (src/api/oidc.rs): warmed at start, *)
(* refreshed by one background task (src/api/mod.rs), read by every        *)
(* request that carries a JWT.  The identity provider rotates its keys and *)
(* fails whenever it likes.                                                *)
(***************************************************************************)
CONSTANT Keys    \* key ids the provider may sign with

VARIABLES
    idp,      \* the provider: reachable or not, and the set it publishes
    jwks,     \* CachedJwks: the set, and how old the fetch is
    uri,      \* jwks_uri is known
    refresh   \* the refresh in flight: its step and what it fetched

jwksVars == <<idp, jwks, uri, refresh>>

Resting == [step |-> "none", set |-> {}]

\* try_from_config: an empty cache and a first refresh; jwks_uri may be given.
JwksInit ==
    /\ idp \in [up : BOOLEAN, set : SUBSET Keys]
    /\ jwks = [set |-> {}, age |-> "never"]
    /\ uri \in BOOLEAN
    /\ refresh = [step |-> "resolve", set |-> {}]

\* The provider rotates, goes away or comes back.
IdpChanges ==
    /\ idp' \in [up : BOOLEAN, set : SUBSET Keys] /\ idp' # idp
    /\ UNCHANGED <<jwks, uri, refresh>>

\* JWKS_REFRESH_INTERVAL passes.
JwksAge ==
    /\ jwks.age = "fresh"
    /\ jwks' = [jwks EXCEPT !.age = "stale"]
    /\ UNCHANGED <<idp, uri, refresh>>

\* Mutant: a cache that has keys is never refreshed
Mut_refresh_if_stale ==
    /\ refresh.step = "none" /\ jwks.age = "never"
    /\ refresh' = [Resting EXCEPT !.step = "resolve"]
    /\ UNCHANGED <<idp, jwks, uri>>

\* Every JWKS_RETRY_INTERVAL: only the age of the last fetch counts.
refresh_if_stale ==
    /\ refresh.step = "none" /\ jwks.age # "fresh"
    /\ refresh' = [Resting EXCEPT !.step = "resolve"]
    /\ UNCHANGED <<idp, jwks, uri>>

\* The known uri, else discovery, which an unreachable provider fails.
resolve_jwks_uri ==
    /\ refresh.step = "resolve"
    /\ uri' = (uri \/ idp.up)
    /\ refresh' = IF uri' THEN [refresh EXCEPT !.step = "fetch"] ELSE Resting
    /\ UNCHANGED <<idp, jwks>>

\* GET: any body that parses as a key set is taken, an empty set included.
fetch_jwks ==
    /\ refresh.step = "fetch"
    /\ refresh' = IF idp.up THEN [step |-> "store", set |-> idp.set] ELSE Resting
    /\ UNCHANGED <<idp, jwks, uri>>

refresh_now ==
    /\ refresh.step = "store"
    /\ jwks' = [set |-> refresh.set, age |-> "fresh"]
    /\ refresh' = Resting
    /\ UNCHANGED <<idp, uri>>

JwksTask == refresh_if_stale \/ resolve_jwks_uri \/ fetch_jwks \/ refresh_now

JwksNext == IdpChanges \/ JwksAge \/ JwksTask

JwksFair == WF_jwksVars(JwksAge) /\ WF_jwksVars(JwksTask)

JwksSpec == JwksInit /\ [][JwksNext]_jwksVars /\ JwksFair

\* decode_and_validate: the token's kid must be in the cached set; an empty
\* cache accepts nothing.
decode_and_validate(kid) == kid \in jwks.set

----------------------------------------------------------------------------
\* Once the provider stays reachable with one key set, the tokens of exactly
\* those keys are accepted from some time on: an outage at boot, a rotation, a
\* failed discovery or an empty answer heals without a restart.
KeysConverge ==
    \A set \in SUBSET Keys :
        <>[](idp = [up |-> TRUE, set |-> set]) =>
            <>[](\A kid \in Keys : decode_and_validate(kid) <=> kid \in set)

=============================================================================
