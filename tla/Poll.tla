-------------------------------- MODULE Poll --------------------------------
(***************************************************************************)
(* How one source's releases are found: the watch loop, manual checks and  *)
(* webhooks of xrelease against the tables source_state, seen_release and  *)
(* webhook_delivery (src/pipeline/poll.rs, src/api/webhook.rs).            *)
(*                                                                         *)
(* Every store call and every upstream request is one step.  The outbox is *)
(* here what module Delivery promises of it: a row per release that is     *)
(* queued, sent or dead.  A release is an identity and a version, the      *)
(* digest of its body and URL; later versions are later edits.             *)
(***************************************************************************)
EXTENDS Integers

CONSTANTS
    Releases,     \* identities, in the order of their publication
    Old,          \* those upstream lists before the source is first observed
    Accepted,     \* those the watch's filter accepts
    Undated,      \* those upstream gives no published_at
    MaxVersion,   \* bound on the edits of a release
    Excluding,    \* the filter's exclude_updated
    Loops,        \* the source's watch loop
    Checks,       \* manual checks (POST /check): forced, unconditional fetches
    Hooks,        \* webhook requests
    Keyed,        \* those that carry a delivery id
    Mortal,       \* tasks that may die, or meet a store error, at any step
    Retention,    \* tables the prune ages: "seen", "outbox", "webhooks"
    None          \* no ETag stored; no webhook event sent

Versions  == 0 .. MaxVersion              \* 0: not published, not seen
Listings  == [Releases -> Versions]       \* what upstream lists; its ETag too
Tasks     == Loops \cup Checks \cup Hooks

ASSUME PollAssumption ==
    /\ Releases \subseteq Nat
    /\ Old \subseteq Releases /\ Accepted \subseteq Releases /\ Undated \subseteq Releases
    /\ MaxVersion \in Nat \ {0}
    /\ Excluding \in BOOLEAN
    /\ Loops \cap Checks = {} /\ (Loops \cup Checks) \cap Hooks = {}
    /\ Keyed \subseteq Hooks /\ Mortal \subseteq Tasks
    /\ Retention \subseteq {"seen", "outbox", "webhooks"}
    /\ None \notin Listings

VARIABLES
    upstream,     \* the provider's releases (environment)
    etag,         \* source_state.etag
    initialized,  \* source_state.initialized
    seen,         \* seen_release: identity -> content_digest
    outbox,       \* notification_outbox, as Delivery abstracts it
    claimed,      \* webhook_delivery
    event,        \* what each webhook carries, once its forge has sent it
    told,         \* history: how often each version was delivered (2: more than once)
    job           \* what each task is doing

vars == <<upstream, etag, initialized, seen, outbox, claimed, event, told, job>>
store == <<etag, initialized, seen, outbox, claimed>>

Rest    == [pc |-> "idle", cond |-> None, snap |-> [r \in Releases |-> 0], todo |-> {}]
NoRow   == [status |-> "none", version |-> 0]

Becomes(w, j) == job' = [job EXCEPT ![w] = j]
Goto(w, pc)   == Becomes(w, [job[w] EXCEPT !.pc = pc])
Stop(w)       == Becomes(w, Rest)

\* The releases of a listing that pass the filter
Listed(l) == {r \in Accepted : l[r] > 0}

----------------------------------------------------------------------------
(* The poll: poll_once_inner.                                              *)

\* get_etag; a manual check fetches unconditionally
Start(w) ==
    /\ w \in Loops \cup Checks
    /\ job[w].pc = "idle"
    /\ Becomes(w, [Rest EXCEPT !.pc = "fetch", !.cond = IF w \in Loops THEN etag ELSE None])
    /\ UNCHANGED <<upstream, store, event, told>>

\* The conditional request.  After a 304 the loop refetches when a seen release
\* still lacks its date.
Fetch(w) ==
    /\ job[w].pc = "fetch"
    /\ IF job[w].cond = upstream
       THEN IF \E r \in Undated : seen[r] > 0 THEN Goto(w, "refetch") ELSE Stop(w)
       ELSE Becomes(w, [job[w] EXCEPT !.pc = "etag", !.snap = upstream])
    /\ UNCHANGED <<upstream, store, event, told>>

\* A failed request: the loop backs off, the check reports the source as failed
FetchFails(w) ==
    /\ job[w].pc \in {"fetch", "refetch"}
    /\ Stop(w)
    /\ UNCHANGED <<upstream, store, event, told>>

\* set_etag, before anything of the listing is processed
SetEtag(w) ==
    /\ job[w].pc = "etag"
    /\ etag' = job[w].snap
    /\ Goto(w, "select")
    /\ UNCHANGED <<upstream, initialized, seen, outbox, claimed, event, told>>

\* refresh_seen_metadata: an unconditional fetch that merges dates ...
Refetch(w) ==
    /\ job[w].pc = "refetch"
    /\ Becomes(w, [job[w] EXCEPT !.pc = "restamp", !.snap = upstream])
    /\ UNCHANGED <<upstream, store, event, told>>

\* ... and stores the ETag of a listing it does not look for releases in
Restamp(w) ==
    /\ job[w].pc = "restamp"
    /\ etag' = job[w].snap
    /\ Stop(w)
    /\ UNCHANGED <<upstream, initialized, seen, outbox, claimed, event, told>>

----------------------------------------------------------------------------
(* Webhooks: ensure_idempotent, then the pipeline with a single release.   *)

\* The forge sends, or sends again, the event of a release
Post(h, r) ==
    /\ event[h] = None
    /\ upstream[r] > 0
    /\ event' = [event EXCEPT ![h] = [q \in Releases |-> IF q = r THEN upstream[r] ELSE 0]]
    /\ UNCHANGED <<upstream, store, told, job>>

\* claim_webhook_delivery; a duplicate is answered and nothing else happens
Receive(h) ==
    /\ job[h].pc = "idle"
    /\ event[h] # None
    /\ h \notin claimed
    /\ claimed' = IF h \in Keyed THEN claimed \cup {h} ELSE claimed
    /\ Becomes(h, [Rest EXCEPT !.pc = "select", !.snap = event[h]])
    /\ UNCHANGED <<upstream, etag, initialized, seen, outbox, event, told>>

----------------------------------------------------------------------------
(* deliver_new_releases, for polls and webhooks alike.                     *)

\* select_for_delivery: is_initialized
Select(w) ==
    /\ job[w].pc = "select"
    /\ Goto(w, IF initialized THEN "diff" ELSE "baseline")
    /\ UNCHANGED <<upstream, store, event, told>>

\* Mutant: the flag alone is written, the batch is forgotten
MutBaseline(w) ==
    /\ job[w].pc = "baseline"
    /\ initialized' = TRUE
    /\ Stop(w)
    /\ UNCHANGED <<upstream, etag, seen, outbox, claimed, event, told>>

\* record_seen_batch: the listing and the flag in one transaction (the flag
\* alone when the filter leaves nothing)
Baseline(w) ==
    /\ job[w].pc = "baseline"
    /\ initialized' = TRUE
    /\ seen' = [r \in Releases |-> IF r \in Listed(job[w].snap) THEN job[w].snap[r] ELSE seen[r]]
    /\ Stop(w)
    /\ UNCHANGED <<upstream, etag, outbox, claimed, event, told>>

\* Mutant: only the newest listed release is looked at
MutNovel(l) ==
    {r \in Listed(l) : /\ seen[r] = 0 \/ (~Excluding /\ seen[r] # l[r])
                       /\ \A q \in Listed(l) : q <= r}

\* should_deliver_cached
Novel(l) == {r \in Listed(l) : seen[r] = 0 \/ (~Excluding /\ seen[r] # l[r])}

\* load_seen_index and the comparison
Diff(w) ==
    LET todo == Novel(job[w].snap) IN
    /\ job[w].pc = "diff"
    /\ IF todo = {} THEN Stop(w)
       ELSE Becomes(w, [job[w] EXCEPT !.pc = "enqueue", !.todo = todo])
    /\ UNCHANGED <<upstream, store, event, told>>

\* The release at the head of the oldest-first loop, and what follows it
Oldest(w)  == CHOOSE r \in job[w].todo : \A q \in job[w].todo : r <= q

\* Mutant: the loop goes on after its last release
MutNextOne(w) == Becomes(w, [job[w] EXCEPT !.pc = "enqueue", !.todo = @ \ {Oldest(w)}])

NextOne(w) == LET left == job[w].todo \ {Oldest(w)} IN
              IF left = {} THEN Stop(w)
              ELSE Becomes(w, [job[w] EXCEPT !.pc = "enqueue", !.todo = left])

\* Mutant: a sent row is reopened whatever its content
MutLook(w) ==
    LET r == Oldest(w) IN
    /\ job[w].pc = "enqueue"
    /\ outbox' = IF outbox[r].status = "none"
                 THEN [outbox EXCEPT ![r] = [status |-> "queued", version |-> job[w].snap[r]]]
                 ELSE outbox
    /\ CASE outbox[r].status = "dead" -> NextOne(w)
         [] outbox[r].status = "sent" -> Goto(w, "reopen")
         [] OTHER                     -> Goto(w, "catalogue")
    /\ UNCHANGED <<upstream, etag, initialized, seen, claimed, event, told>>

\* try_enqueue_notification: a new row is inserted, or the row there is looked
\* at.  One still queued is left as it is; one sent with this content, or dead,
\* is skipped without being catalogued.
Look(w) ==
    LET r == Oldest(w)
        v == job[w].snap[r]
    IN  /\ job[w].pc = "enqueue"
        /\ \/ /\ outbox[r].status = "none"
              /\ outbox' = [outbox EXCEPT ![r] = [status |-> "queued", version |-> v]]
              /\ Goto(w, "catalogue")
           \/ /\ outbox[r].status = "queued"
              /\ Goto(w, "catalogue")
              /\ UNCHANGED outbox
           \/ /\ outbox[r].status = "sent" /\ outbox[r].version # v
              /\ Goto(w, "reopen")
              /\ UNCHANGED outbox
           \/ /\ \/ outbox[r].status = "dead"
                 \/ outbox[r] = [status |-> "sent", version |-> v]
              /\ NextOne(w)
              /\ UNCHANGED outbox
        /\ UNCHANGED <<upstream, etag, initialized, seen, claimed, event, told>>

\* The reopening transaction: the row takes the new content, if it is still
\* sent (with whatever content by now); else the release is skipped.
Reopen(w) ==
    LET r == Oldest(w) IN
    /\ job[w].pc = "reopen"
    /\ IF outbox[r].status = "sent"
       THEN /\ outbox' = [outbox EXCEPT ![r] = [status |-> "queued", version |-> job[w].snap[r]]]
            /\ Goto(w, "catalogue")
       ELSE NextOne(w) /\ UNCHANGED outbox
    /\ UNCHANGED <<upstream, etag, initialized, seen, claimed, event, told>>

Enqueue(w) == Look(w) \/ Reopen(w)

\* record_seen
Catalogue(w) ==
    /\ job[w].pc = "catalogue"
    /\ seen' = [seen EXCEPT ![Oldest(w)] = job[w].snap[Oldest(w)]]
    /\ NextOne(w)
    /\ UNCHANGED <<upstream, etag, initialized, outbox, claimed, event, told>>

\* The task dies, or a store error ends it
Crash(w) ==
    /\ w \in Mortal
    /\ job[w].pc # "idle"
    /\ Stop(w)
    /\ UNCHANGED <<upstream, store, event, told>>

----------------------------------------------------------------------------
(* The outbox, retention, and the world.                                   *)

\* complete_notification, after an inline delivery or a flush: the row's own
\* content goes to the sinks and into seen_release
Deliver(r) ==
    LET v == outbox[r].version IN
    /\ outbox[r].status = "queued"
    /\ outbox' = [outbox EXCEPT ![r].status = "sent"]
    /\ seen' = [seen EXCEPT ![r] = v]
    /\ told' = [told EXCEPT ![r] = [told[r] EXCEPT ![v] = IF @ = 2 THEN 2 ELSE @ + 1]]
    /\ UNCHANGED <<upstream, etag, initialized, claimed, event, job>>

\* The row is dead-lettered, or an operator requeues it
Bury(r) ==
    /\ outbox[r].status = "queued"
    /\ outbox' = [outbox EXCEPT ![r].status = "dead"]
    /\ UNCHANGED <<upstream, etag, initialized, seen, claimed, event, told, job>>

Requeue(r) ==
    /\ outbox[r].status = "dead"
    /\ outbox' = [outbox EXCEPT ![r].status = "queued"]
    /\ UNCHANGED <<upstream, etag, initialized, seen, claimed, event, told, job>>

\* prune.  Retention is days: no task that selected the release before it was
\* recorded is still at work.
Settled(r) == \A w \in Tasks : r \notin job[w].todo

PruneSeen(r) ==
    /\ "seen" \in Retention
    /\ seen[r] > 0 /\ Settled(r)
    /\ seen' = [seen EXCEPT ![r] = 0]
    /\ UNCHANGED <<upstream, etag, initialized, outbox, claimed, event, told, job>>

PruneSent(r) ==
    /\ "outbox" \in Retention
    /\ outbox[r].status = "sent" /\ Settled(r)
    /\ outbox' = [outbox EXCEPT ![r] = NoRow]
    /\ UNCHANGED <<upstream, etag, initialized, seen, claimed, event, told, job>>

PruneClaim(h) ==
    /\ "webhooks" \in Retention
    /\ h \in claimed /\ job[h].pc = "idle"
    /\ claimed' = claimed \ {h}
    /\ UNCHANGED <<upstream, etag, initialized, seen, outbox, event, told, job>>

\* Upstream publishes the next release, or edits one
Publish(r) ==
    /\ upstream[r] < MaxVersion
    /\ \A q \in Releases : q < r => upstream[q] > 0
    /\ upstream' = [upstream EXCEPT ![r] = @ + 1]
    /\ UNCHANGED <<store, event, told, job>>

----------------------------------------------------------------------------
Init ==
    /\ upstream = [r \in Releases |-> IF r \in Old THEN 1 ELSE 0]
    /\ etag = None
    /\ initialized = FALSE
    /\ seen = [r \in Releases |-> 0]
    /\ outbox = [r \in Releases |-> NoRow]
    /\ claimed = {}
    /\ event = [h \in Hooks |-> None]
    /\ told = [r \in Releases |-> [v \in Versions |-> 0]]
    /\ job = [w \in Tasks |-> Rest]

\* One step of a task, whatever it is
Step(w) ==
    \/ Fetch(w) \/ SetEtag(w) \/ Refetch(w) \/ Restamp(w)
    \/ Select(w) \/ Baseline(w) \/ Diff(w) \/ Enqueue(w) \/ Catalogue(w)

Next ==
    \/ \E w \in Tasks : Start(w) \/ FetchFails(w) \/ Step(w) \/ Crash(w)
    \/ \E h \in Hooks : Receive(h) \/ PruneClaim(h)
    \/ \E h \in Hooks, r \in Releases : Post(h, r)
    \/ \E r \in Releases : \/ Publish(r) \/ Deliver(r) \/ Bury(r) \/ Requeue(r)
                           \/ PruneSeen(r) \/ PruneSent(r)

Spec == Init /\ [][Next]_vars

----------------------------------------------------------------------------
(* Properties.                                                             *)

\* The tables and the tasks keep their shape, and a task that enqueues or
\* catalogues has a release to do it for.
TypeOK ==
    /\ upstream \in Listings
    /\ etag \in Listings \cup {None}
    /\ initialized \in BOOLEAN
    /\ seen \in Listings
    /\ outbox \in [Releases -> [status : {"none", "queued", "sent", "dead"}, version : Versions]]
    /\ claimed \subseteq Keyed
    /\ event \in [Hooks -> Listings \cup {None}]
    /\ told \in [Releases -> [Versions -> 0 .. 2]]
    /\ job \in [Tasks -> [pc : {"idle", "fetch", "etag", "refetch", "restamp", "select",
                                "baseline", "diff", "enqueue", "reopen", "catalogue"},
                          cond : Listings \cup {None}, snap : Listings,
                          todo : SUBSET Releases]]
    /\ \A w \in Tasks : job[w].pc \in {"enqueue", "reopen", "catalogue"} <=> job[w].todo # {}

Quiet == \A w \in Tasks : job[w].pc = "idle"

\* The ETag is never ahead of the diff: when no task is at work and the next
\* conditional request would answer 304, every release listed upstream that
\* passes the filter is catalogued or in the outbox, so a 304 hides no release.
EtagHidesNothing ==
    Quiet /\ etag = upstream =>
        \A r \in Listed(upstream) : seen[r] > 0 \/ outbox[r].status # "none"

\* Silent baseline: a release upstream listed before the source was first
\* observed is not announced, unless it was edited since.
HistoryIsSilent ==
    \A r \in Old : told[r][1] = 0

\* No version is announced twice, although the loop, manual checks, webhooks
\* and their retries all look for it, tasks die between enqueue and catalogue,
\* and retention forgets what was seen.
NoRepeat ==
    \A r \in Releases, v \in Versions : told[r][v] < 2

\* Edits are announced: when no task is at work, nothing is queued or dead and
\* the next request would answer 304, the digests stored are upstream's.
UpdatesAnnounced ==
    Quiet /\ etag = upstream /\ (\A r \in Releases : outbox[r].status \in {"none", "sent"})
        => \A r \in Listed(upstream) : seen[r] = upstream[r]

\* Every release published after the source's baseline is announced (or its
\* notification is dead-lettered), also when the webhook that carried it was
\* lost after its delivery id was claimed.
Announced(r) == outbox[r].status = "dead" \/ \E v \in Versions : told[r][v] > 0

EverythingIsAnnounced ==
    \A r \in Accepted :
        [](initialized /\ upstream[r] = 0 => [](upstream[r] > 0 => <>Announced(r)))

----------------------------------------------------------------------------
(* Fairness: the watch loop comes round, its requests do not fail for      *)
(* ever, tasks run on, and the flush keeps delivering.  Nothing is assumed *)
(* of manual checks, forges, operators or retention.                       *)
Fairness ==
    /\ \A w \in Loops : WF_vars(Start(w)) /\ SF_vars(Fetch(w))
    /\ \A w \in Tasks \ Mortal : WF_vars(Step(w))
    /\ \A r \in Releases : SF_vars(Deliver(r))

FairSpec == Spec /\ Fairness
=============================================================================
