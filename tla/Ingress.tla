------------------------------ MODULE Ingress ------------------------------
(***************************************************************************)
(* Events pushed by forges and checks asked for by an operator, from the   *)
(* HTTP request to the pipeline (src/api/webhook.rs, webhook_payload.rs,   *)
(* webhook_id.rs, auth.rs, handlers.rs, src/watch_lookup.rs).  What the    *)
(* pipeline does with one release of one watch is the module Poll; here it *)
(* is one step that announces what the watch admits and has not seen, or   *)
(* takes it in silence when the watch has observed nothing before.         *)
(***************************************************************************)
EXTENDS Naturals, Sequences, FiniteSets

CONSTANTS
    Slots,      \* requests handled at the same time
    Pushes,   \* requests that may arrive, see TypeOfRequest in the MC module
    Watches,    \* configured watches
    WatchOf,    \* watch -> [kind, name]
    lower,      \* name -> its lower-case form
    Admits,     \* watch -> the tags its filter lets through
    Listed,   \* watch -> the tags its forge lists
    Fresh,      \* watches that have observed nothing before the first request
    Secret,     \* is a webhook secret configured?
    Missing,       \* no delivery id, no repository, no tag name
    MaxRequests, \* bound: requests that arrive
    MaxFaults   \* bound: store errors and crashes

\* Watches and listings are finite; a forge that sends a delivery again sends
\* the body it sent before, which is what its id stands for (webhook_id.rs).
ASSUME IngressAssumption ==
    /\ IsFiniteSet(Watches) /\ \A w \in Watches : IsFiniteSet(Listed[w])
    /\ \A r \in Pushes : r.kind \in {"github", "gitea", "gitlab", "bitbucket", "docker",
                                    "generic", "check"}
    /\ \A r, q \in Pushes :
         r.kind # "check" /\ q.kind = r.kind /\ r.id # Missing /\ q.id = r.id => q.body = r.body

VARIABLES
    claimed,    \* webhook_delivery: [kind, id]
    seen,       \* seen_release: watch -> tags it has announced or taken as its baseline
    baselined, \* source_state.initialized: watches that have a baseline
    slot,       \* slot -> the request it is handling
    spoiled,    \* history: delivery ids whose handling met an error
    arrived,    \* requests so far
    faults      \* errors so far

ingressVars == <<claimed, seen, baselined, slot, spoiled, arrived, faults>>

Empty == [pc |-> "idle"]

IngressInit ==
    /\ claimed = {} /\ spoiled = {} /\ arrived = 0 /\ faults = 0
    /\ seen = [w \in Watches |-> {}] /\ baselined = Watches \ Fresh
    /\ slot = [s \in Slots |-> Empty]

Goes(s, what) == slot' = [slot EXCEPT ![s] = what]
Replies(s, status, said) ==
    Goes(s, [slot[s] EXCEPT !.pc = "answered", !.status = status, !.said = said])

----------------------------------------------------------------------------
(* auth.rs: what proves a request.  good and bad are the headers it        *)
(* carries with a value that fits the secret and the body, or does not.    *)

Has(r, header) == header \in r.good \cup r.bad

verify_bitbucket_signature(r) ==
    IF Has(r, "X-Hub-Signature") THEN "X-Hub-Signature" \in r.good
    ELSE "X-Hub-Signature-256" \in r.good

\* A wrong X-Webhook-Secret is not made good by a right bearer.
verify_webhook_secret(r) ==
    IF Has(r, "X-Webhook-Secret") THEN "X-Webhook-Secret" \in r.good ELSE "Bearer" \in r.good

verified(r) ==
    \/ ~Secret
    \/ r.kind = "github" /\ "X-Hub-Signature-256" \in r.good
    \/ r.kind = "gitlab" /\ "X-Gitlab-Token" \in r.good
    \/ r.kind = "bitbucket" /\ verify_bitbucket_signature(r)
    \/ r.kind \in {"gitea", "docker", "generic"} /\ verify_webhook_secret(r)

\* Mutant: the id without the forge that gave it
Mut_delivery_id(r) == [kind |-> "any", id |-> r.id]

delivery_id(r) == [kind |-> r.kind, id |-> r.id]

----------------------------------------------------------------------------
(* webhook_payload.rs: a body to a repository and a tag.                   *)

Ignored    == [is |-> "ignored"]
BadRequest == [is |-> "bad"]
Release(key, tag) == [is |-> "release", key |-> key, tag |-> tag]

\* GitHub and Gitea: a published release that is no draft.
GiteaCompatible_into_release(b) ==
    CASE b.event # "published" -> Ignored
      [] b.event = "published" /\ ~b.item -> BadRequest
      [] b.event = "published" /\ b.item /\ b.draft -> Ignored
      [] b.event = "published" /\ b.item /\ ~b.draft /\ b.repo = Missing -> BadRequest
      [] OTHER -> Release(b.repo, Head(b.tags))

\* GitLab: the tag, or the release's name in its place.
Gitlab_into_release(b) ==
    CASE b.event # "release" -> Ignored
      [] b.event = "release" /\ (~b.item \/ b.tags = <<>>) -> BadRequest
      [] OTHER -> Release(b.repo, Head(b.tags))

\* Bitbucket: the first change that is a tag; a nameless one is an error.
Bitbucket_into_release(b) ==
    LET pushed == SelectSeq(b.tags, LAMBDA t : t # "branch") IN
    CASE b.repo = Missing -> BadRequest
      [] b.repo # Missing /\ pushed = <<>> -> Ignored
      [] b.repo # Missing /\ pushed # <<>> /\ Head(pushed) = Missing -> BadRequest
      [] OTHER -> Release(b.repo, Head(pushed))

Docker_into_release(b) ==
    IF ~b.item \/ b.tags = <<>> \/ b.repo = Missing THEN BadRequest
    ELSE Release(b.repo, Head(b.tags))

into_release(r) ==
    CASE r.kind \in {"github", "gitea"} -> GiteaCompatible_into_release(r.body)
      [] r.kind = "gitlab" -> Gitlab_into_release(r.body)
      [] r.kind = "bitbucket" ->
            IF r.body.event # "repo:push" THEN Ignored ELSE Bitbucket_into_release(r.body)
      [] r.kind = "docker" -> Docker_into_release(r.body)
      [] r.kind = "generic" -> Release(r.body.repo, Head(r.body.tags))

----------------------------------------------------------------------------
(* watch_lookup.rs: every watch of what the event names.                   *)

CONTAINER_KINDS == {"docker", "ghcr", "quay", "ecr"}

\* Mutant: one watch per repository
Mut_find_repos_any(kinds, name) ==
    LET all == {w \in Watches : WatchOf[w].kind \in kinds /\ lower[WatchOf[w].name] = lower[name]} IN
    IF all = {} THEN {} ELSE {CHOOSE w \in all : TRUE}

find_repos_any(kinds, name) ==
    {w \in Watches : WatchOf[w].kind \in kinds /\ lower[WatchOf[w].name] = lower[name]}

find_by_id(name) == {w \in Watches : w = name}

find_watches(r, key) ==
    CASE r.kind = "github" -> find_repos_any({"github"}, key)
      [] r.kind = "gitea" -> find_repos_any({"gitea", "codeberg"}, key)
      [] r.kind \in {"gitlab", "bitbucket"} -> find_repos_any({r.kind}, key)
      [] r.kind = "docker" -> find_repos_any(CONTAINER_KINDS, key)
      [] r.kind = "generic" -> find_by_id(key)

----------------------------------------------------------------------------
(* webhook.rs: verify, claim, parse, look up, deliver.                     *)

\* A request arrives and is refused or goes on to claim its delivery id.
Arrive(s, r) ==
    /\ slot[s].pc = "idle" /\ r.kind # "check"
    /\ arrived < MaxRequests /\ arrived' = arrived + 1
    /\ Goes(s, [pc |-> IF verified(r) THEN "claim" ELSE "answered", req |-> r,
                todo |-> {}, sent |-> 0, failed |-> 0, tag |-> Missing,
                status |-> IF verified(r) THEN 0 ELSE 401, said |-> "refused"])
    /\ UNCHANGED <<claimed, seen, baselined, spoiled, faults>>

\* The insert that claims an id; without one every request is new.
ensure_idempotent(s) ==
    LET r == slot[s].req IN
    /\ slot[s].pc = "claim"
    /\ IF r.id = Missing THEN Goes(s, [slot[s] EXCEPT !.pc = "parse"]) /\ claimed' = claimed
       ELSE IF delivery_id(r) \in claimed THEN Replies(s, 200, "duplicate") /\ claimed' = claimed
       ELSE Goes(s, [slot[s] EXCEPT !.pc = "parse"]) /\ claimed' = claimed \cup {delivery_id(r)}
    /\ UNCHANGED <<seen, baselined, spoiled, faults, arrived>>

\* From the body to the watches, all under one read of the running runtime.
ingest_mapped_release(s) ==
    LET r == slot[s].req
        mapped == IF r.body.json THEN into_release(r) ELSE BadRequest
        todo == IF mapped.is = "release" THEN find_watches(r, mapped.key) ELSE {} IN
    /\ slot[s].pc = "parse"
    /\ CASE mapped.is = "ignored" -> Replies(s, 200, "ignored")
         [] mapped.is = "bad" -> Replies(s, 400, "bad")
         [] mapped.is = "release" /\ todo = {} -> Replies(s, 404, "unknown")
         [] OTHER -> Goes(s, [slot[s] EXCEPT !.pc = "deliver", !.todo = todo, !.tag = mapped.tag])
    /\ UNCHANGED <<claimed, seen, baselined, spoiled, faults, arrived>>

\* deliver_new_releases (pipeline/poll.rs): w records what is new to it, and
\* announces it unless this is the first it ever observes (select_for_delivery).
Hear(s, w, new) ==
    /\ seen' = [seen EXCEPT ![w] = @ \cup new]
    /\ baselined' = baselined \cup {w}
    /\ Goes(s, [slot[s] EXCEPT !.todo = @ \ {w},
                               !.sent = @ + IF w \in baselined THEN Cardinality(new) ELSE 0])

\* One matched watch after the other, in the order of the index.
process_pushed_release(s, w) ==
    /\ slot[s].pc = "deliver" /\ w \in slot[s].todo
    /\ Hear(s, w, {slot[s].tag} \cap (Admits[w] \ seen[w]))
    /\ UNCHANGED <<claimed, spoiled, faults, arrived>>

Delivered(s) ==
    /\ slot[s].pc = "deliver" /\ slot[s].todo = {}
    /\ Replies(s, 200, IF slot[s].sent = 0 THEN "nothing" ELSE "delivered")
    /\ UNCHANGED <<claimed, seen, baselined, spoiled, faults, arrived>>

DeliveryOf(r) == IF r.kind = "check" THEN {} ELSE {delivery_id(r)}

\* A store error ends the request, whatever was delivered before it.
StoreFails(s) ==
    /\ faults < MaxFaults /\ faults' = faults + 1
    /\ slot[s].pc \in {"claim", "deliver", "flush"}
    /\ Replies(s, 500, "failed")
    /\ spoiled' = spoiled \cup DeliveryOf(slot[s].req)
    /\ UNCHANGED <<claimed, seen, baselined, arrived>>

\* The process stops between two steps; the claim stays.
Crash ==
    /\ faults < MaxFaults /\ faults' = faults + 1
    /\ spoiled' = spoiled \cup UNION {DeliveryOf(slot[s].req) :
                       s \in {t \in Slots : slot[t].pc \notin {"idle", "answered"}}}
    /\ slot' = [s \in Slots |-> Empty]
    /\ UNCHANGED <<claimed, seen, baselined, arrived>>

----------------------------------------------------------------------------
(* handlers.rs: POST /api/v1/check.                                        *)

Check(s, r) ==
    /\ slot[s].pc = "idle" /\ r.kind = "check"
    /\ arrived < MaxRequests /\ arrived' = arrived + 1
    /\ Goes(s, [pc |-> IF r.dry THEN "poll" ELSE "flush", req |-> r, todo |-> Watches, sent |-> 0,
                failed |-> 0, tag |-> Missing, status |-> 0, said |-> "checking"])
    /\ UNCHANGED <<claimed, seen, baselined, spoiled, faults>>

\* flush_outbox before the polls; what it sends is the modules Outbox and Digest.
Flush(s) ==
    /\ slot[s].pc = "flush"
    /\ Goes(s, [slot[s] EXCEPT !.pc = "poll"])
    /\ UNCHANGED <<claimed, seen, baselined, spoiled, faults, arrived>>

\* A forge does not answer: a dry run ends, a real check goes on.
PollFails(s, w) ==
    /\ slot[s].pc = "poll" /\ w \in slot[s].todo
    /\ IF slot[s].req.dry THEN Replies(s, 502, "failed")
       ELSE Goes(s, [slot[s] EXCEPT !.todo = @ \ {w}, !.failed = @ + 1])
    /\ UNCHANGED <<claimed, seen, baselined, spoiled, faults, arrived>>

\* A dry run fetches and announces nothing.
Poll(s, w) ==
    /\ slot[s].pc = "poll" /\ w \in slot[s].todo
    /\ IF slot[s].req.dry
       THEN Goes(s, [slot[s] EXCEPT !.todo = @ \ {w}]) /\ UNCHANGED <<seen, baselined>>
       ELSE Hear(s, w, (Listed[w] \cap Admits[w]) \ seen[w])
    /\ UNCHANGED <<claimed, spoiled, faults, arrived>>

\* 502 only when every source failed.
Checked(s) ==
    /\ slot[s].pc = "poll" /\ slot[s].todo = {}
    /\ IF slot[s].failed > 0 /\ slot[s].failed = Cardinality(Watches)
       THEN Replies(s, 502, "failed") ELSE Replies(s, 200, "checked")
    /\ UNCHANGED <<claimed, seen, baselined, spoiled, faults, arrived>>

\* The client has its answer; it may send the same request again.
Close(s) ==
    /\ slot[s].pc = "answered"
    /\ Goes(s, Empty)
    /\ UNCHANGED <<claimed, seen, baselined, spoiled, faults, arrived>>

IngressNext ==
    \/ \E s \in Slots, r \in Pushes : Arrive(s, r) \/ Check(s, r)
    \/ \E s \in Slots : ensure_idempotent(s) \/ ingest_mapped_release(s) \/ Delivered(s)
                        \/ StoreFails(s) \/ Flush(s) \/ Checked(s) \/ Close(s)
    \/ \E s \in Slots, w \in Watches : process_pushed_release(s, w) \/ PollFails(s, w) \/ Poll(s, w)
    \/ Crash

----------------------------------------------------------------------------
(* Properties.                                                             *)

\* The watches an event is for: same forge, same repository in any case.
Family == [github |-> {"github"}, gitea |-> {"gitea", "codeberg"}, gitlab |-> {"gitlab"},
           bitbucket |-> {"bitbucket"}, docker |-> CONTAINER_KINDS]
\* A watch has heard of a tag it has announced or, in silence, taken as part of the
\* first batch it observed (an answer does not tell the two apart).
Heard(w, tag) == tag \in Admits[w] => tag \in seen[w]
Tenants(r) ==
    IF r.kind = "generic" THEN {r.body.repo} \cap Watches
    ELSE {w \in Watches : WatchOf[w].kind \in Family[r.kind]
                           /\ lower[WatchOf[w].name] = lower[r.body.repo]}

\* A push that is answered as handled was handled for every organization that
\* watches the repository, not for one of them: none waits for its next poll
\* because another tenant came first or had seen the tag.
EveryTenantHears ==
    \A s \in Slots : slot[s].pc = "answered" /\ slot[s].said \in {"delivered", "nothing"} =>
        \A w \in Tenants(slot[s].req) : Heard(w, slot[s].tag)

\* A delivery turned away as a duplicate was handled: unless its handling met
\* an error or still runs, everyone it is for has heard it.  Two forges may
\* number their deliveries alike.
DuplicateIsTruthful ==
    \A s \in Slots :
        LET r == slot[s].req IN
        slot[s].pc = "answered" /\ slot[s].said = "duplicate" /\ r.body.json
            /\ into_release(r).is = "release" /\ delivery_id(r) \notin spoiled
            /\ (\A t \in Slots : slot[t].pc \in {"parse", "deliver"} => slot[t].req.id # r.id)
        => \A w \in Tenants(r) : Heard(w, into_release(r).tag)

\* A manual check reports as many failures as there are sources it has not
\* brought up to date: one broken forge does not keep the others from being polled.
CheckCoversAll ==
    \A s \in Slots : slot[s].pc = "answered" /\ slot[s].said = "checked" /\ ~slot[s].req.dry =>
        Cardinality({w \in Watches : \E tag \in Listed[w] : ~Heard(w, tag)}) <= slot[s].failed

\* The three rules above: an answer to a forge or to an operator never says
\* more than was done for every tenant.
AnswersAreTrue == EveryTenantHears /\ DuplicateIsTruthful /\ CheckCoversAll

IngressSpec == IngressInit /\ [][IngressNext]_ingressVars

=============================================================================
