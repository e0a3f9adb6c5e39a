----------------------------- MODULE Catalogue -----------------------------
(***************************************************************************)
(* The catalogue of one source and what the dashboard reads from it: the   *)
(* seen_release rows with the publish date each may have, the "latest      *)
(* release" of source_state, and the polls and webhooks that write both    *)
(* (pipeline/poll.rs, store/postgres/mod.rs, api/observability.rs).  What  *)
(* is announced is in module Poll; here a queued release is catalogued,    *)
(* and catalogued again when it is sent.  Releases are numbers in the order*)
(* of their versions; 0 is no release, and no date.                        *)
(***************************************************************************)
EXTENDS Integers, FiniteSets

CONSTANTS
    Releases,   \* releases upstream may have, a set of positive numbers
    Versioned,  \* those whose tag parses as a version
    DateOf,     \* release -> its publish date, a positive number
    MaxSteps    \* bound on upstream changes, polls, webhooks and prunes

\* Two releases of which neither has a version differ in their dates: where they
\* do not, max_by takes the one the listing puts last, which is left out here.
ASSUME CatalogueAssumption ==
    /\ Releases \subseteq Nat \ {0} /\ IsFiniteSet(Releases) /\ 1 \in Releases
    /\ DateOf \in [Releases -> Nat \ {0}]
    /\ \A a, b \in Releases \ Versioned : a # b => DateOf[a] # DateOf[b]

VARIABLES
    listing,    \* release -> Absent, or its date in the upstream listing, or 0
    listed_as,  \* the listing the stored etag stands for, in a set; {}: no etag
    shown,      \* seen_release: release -> Absent, or published_at
    latest,     \* source_state.latest_release_tag
    initialized,
    tasks,      \* task -> [at, offer, todo]
    queued,     \* outbox rows to send: <<release, the date it was queued with>>
    causes,     \* what has happened so far that may mislead the dashboard
    steps

catalogueVars == <<listing, listed_as, shown, latest, initialized, tasks,
                   queued, causes, steps>>

Absent  == -1            \* not listed, not catalogued
Task    == {"poll", "hook"}
Resting == [at |-> "idle"]
None    == [r \in Releases |-> Absent]
Idle(t) == tasks[t].at = "idle"
AtRest  == \A t \in Task : Idle(t)

----------------------------------------------------------------------------
(* model.rs: the order of releases.  S is a function to dates or Absent.     *)

In(S) == {r \in Releases : S[r] # Absent}

\* Mutant: by date whenever both have one
Mut_compare_releases(a, b, S) ==
    IF S[a] > 0 /\ S[b] > 0 THEN S[a] < S[b] ELSE a < b

\* TRUE if a comes before b: a version beats none, then the date, then the tag
\* of two that have no date.
compare_releases(a, b, S) ==
    IF a \in Versioned \/ b \in Versioned
    THEN b \in Versioned /\ (a \in Versioned => a < b)
    ELSE S[a] < S[b] \/ (S[a] = S[b] /\ a < b)

pick_latest(S) ==
    IF In(S) = {} THEN 0
    ELSE CHOOSE r \in In(S) : \A q \in In(S) \ {r} : compare_releases(q, r, S)

----------------------------------------------------------------------------
(* The writers.                                                            *)

CatalogueInit ==
    /\ listing \in {None, [None EXCEPT ![1] = 0]}
    /\ listed_as = {}
    /\ shown \in {None, [None EXCEPT ![1] = 0]}
    /\ initialized = (In(shown) # {})
    /\ latest = 0
    /\ tasks = [t \in Task |-> Resting]
    /\ queued = {} /\ steps = 0
    /\ causes = IF In(shown) \subseteq In(listing) THEN {} ELSE {"withdrawn"}

Takes == steps < MaxSteps /\ steps' = steps + 1

\* Upstream publishes a release, dates one it listed, or withdraws one.
Upstream ==
    /\ Takes
    /\ \E r \in Releases :
          \/ listing[r] = Absent /\ \E d \in {0, DateOf[r]} :
                listing' = [listing EXCEPT ![r] = d] /\ UNCHANGED causes
          \/ listing[r] = 0 /\ listing' = [listing EXCEPT ![r] = DateOf[r]]
             /\ UNCHANGED causes
          \/ /\ listing[r] # Absent
             /\ listing' = [listing EXCEPT ![r] = Absent]
             /\ causes' = causes \cup {"withdrawn"}
    /\ UNCHANGED <<listed_as, shown, latest, initialized, tasks, queued>>

Overlap == IF AtRest THEN {} ELSE {"overlap"}

Offers(t, offer) ==
    tasks' = [tasks EXCEPT ![t] = [at |-> "latest", offer |-> offer, todo |-> {}]]

\* A poll that gets a listing: a changed one, or any when forced.  One that
\* fails only touches last_polled_at.
poll_source ==
    /\ Idle("poll") /\ Takes
    /\ listed_as' = {listing}
    /\ Offers("poll", listing)
    /\ causes' = causes \cup Overlap
    /\ UNCHANGED <<listing, shown, latest, initialized, queued>>

has_seen_missing_published_at == \E r \in In(shown) : shown[r] = 0

\* COALESCE: what is stored stays.
enrich_seen_metadata(offer) ==
    [r \in Releases |-> IF shown[r] = 0 /\ offer[r] # Absent THEN offer[r] ELSE shown[r]]

best_seen_identity == pick_latest([r \in Releases |-> IF shown[r] = Absent THEN Absent ELSE 0])

\* 304: fill in missing dates from a second fetch, and a missing latest tag.  The
\* fetch and its writes are one step here; module Poll takes them apart, with
\* what upstream publishes between the two fetches.
refresh_seen_metadata ==
    /\ Idle("poll") /\ Takes /\ listing \in listed_as
    /\ shown' = IF has_seen_missing_published_at THEN enrich_seen_metadata(listing) ELSE shown
    /\ latest' = IF latest = 0 THEN best_seen_identity ELSE latest
    /\ causes' = causes \cup Overlap
                 \cup (IF shown' # shown \/ latest' # latest THEN {"refresh"} ELSE {})
    /\ UNCHANGED <<listing, listed_as, initialized, tasks, queued>>

\* A webhook brings one release, with or without its date.
ingest_webhook ==
    /\ Idle("hook") /\ Takes
    /\ \E r \in In(listing) : \E d \in {0, DateOf[r]} :
          /\ Offers("hook", [None EXCEPT ![r] = d])
          /\ causes' = causes \cup Overlap \cup
                (IF \E q \in In(shown) \ {r} : compare_releases(r, q, [shown EXCEPT ![r] = d])
                 THEN {"older_hook"} ELSE {})
                \cup (IF d > listing[r] THEN {"hook_date"} ELSE {})
    /\ UNCHANGED <<listing, listed_as, shown, latest, initialized, queued>>

set_latest_release_tag(t) == pick_latest(tasks[t].offer)

\* deliver_new_releases names the latest first, even before it is catalogued.
SetLatest(t) ==
    /\ tasks[t].at = "latest"
    /\ latest' = IF In(tasks[t].offer) = {} THEN latest ELSE set_latest_release_tag(t)
    /\ tasks' = [tasks EXCEPT ![t].at = "enrich"]
    /\ UNCHANGED <<listing, listed_as, shown, initialized, queued, causes, steps>>

Enrich(t) ==
    /\ tasks[t].at = "enrich"
    /\ shown' = enrich_seen_metadata(tasks[t].offer)
    /\ tasks' = [tasks EXCEPT ![t].at = "select"]
    /\ UNCHANGED <<listing, listed_as, latest, initialized, queued, causes, steps>>

\* write_seen_row: a stored date stays, a missing one is filled.
write_seen_row(S, offer) ==
    [r \in Releases |-> IF r \in S /\ shown[r] \in {Absent, 0} THEN offer[r] ELSE shown[r]]

\* select_for_delivery and record_seen_batch: the first listing is baseline.
Select(t) ==
    /\ tasks[t].at = "select"
    /\ IF initialized
       THEN /\ LET todo == In(tasks[t].offer) \ In(shown) IN
               tasks' = [tasks EXCEPT ![t] =
                   IF todo = {} THEN Resting ELSE [@ EXCEPT !.at = "record", !.todo = todo]]
            /\ UNCHANGED <<shown, latest, initialized>>
       ELSE /\ shown' = write_seen_row(In(tasks[t].offer), tasks[t].offer)
            /\ initialized' = TRUE
            /\ latest' = IF In(tasks[t].offer) = {} THEN latest
                         ELSE pick_latest(tasks[t].offer)
            /\ tasks' = [tasks EXCEPT ![t] = Resting]
    /\ UNCHANGED <<listing, listed_as, queued, causes, steps>>

\* What is left of a task when it is through with one release.
Without(task, r) == IF task.todo = {r} THEN Resting ELSE [task EXCEPT !.todo = @ \ {r}]

record_seen(t, r) == write_seen_row({r}, tasks[t].offer)

\* One release at a time: its outbox row, then its catalogue row; one that was
\* sent before, whose row was pruned since, is passed over.
Record(t) ==
    /\ tasks[t].at = "record"
    /\ \E r \in tasks[t].todo :
          /\ \/ shown' = record_seen(t, r) /\ queued' = queued \cup {<<r, tasks[t].offer[r]>>}
             \/ "pruned" \in causes /\ UNCHANGED <<shown, queued>>
          /\ tasks' = [tasks EXCEPT ![t] = Without(@, r)]
    /\ UNCHANGED <<listing, listed_as, latest, initialized, causes, steps>>

\* An error of the store or the end of the process cuts the task short.
Cut(t) ==
    /\ ~Idle(t)
    /\ tasks' = [tasks EXCEPT ![t] = Resting]
    /\ causes' = causes \cup {"cut"}
    /\ \/ UNCHANGED queued
       \/ \E r \in tasks[t].todo : queued' = queued \cup {<<r, tasks[t].offer[r]>>}
    /\ UNCHANGED <<listing, listed_as, shown, latest, initialized, steps>>

\* A sent notification catalogues its release, in the same transaction.
complete_notification ==
    /\ \E q \in queued :
          /\ shown' = write_seen_row({q[1]}, [None EXCEPT ![q[1]] = q[2]])
          /\ queued' = queued \ {q}
    /\ UNCHANGED <<listing, listed_as, latest, initialized, tasks, causes, steps>>

prune ==
    /\ Takes
    /\ \E r \in In(shown) : shown' = [shown EXCEPT ![r] = Absent]
    /\ causes' = causes \cup {"pruned"}
    /\ UNCHANGED <<listing, listed_as, latest, initialized, tasks, queued>>

CatalogueNext ==
    \/ Upstream \/ poll_source \/ refresh_seen_metadata \/ ingest_webhook \/ complete_notification
    \/ prune
    \/ \E t \in Task : SetLatest(t) \/ Enrich(t) \/ Select(t) \/ Record(t) \/ Cut(t)

CatalogueSpec == CatalogueInit /\ [][CatalogueNext]_catalogueVars

----------------------------------------------------------------------------
(* The readers.                                                            *)

\* The row the sources page shows: the one the tag names, else by date.
latest_seen_by_source ==
    {r \in In(shown) : IF latest \in In(shown) THEN r = latest
                      ELSE \A q \in In(shown) : shown[q] <= shown[r]}

\* The first row of the detail page.
list_seen_releases == pick_latest(shown)

effective_latest_release_tag(first) == IF latest # 0 THEN latest ELSE first

\* What the two pages call the latest release, and whose date stands beside it.
source_details == {[tag |-> effective_latest_release_tag(r), row |-> r] :
                      r \in latest_seen_by_source}
source_detail  == [tag |-> effective_latest_release_tag(list_seen_releases),
                   row |-> list_seen_releases]

----------------------------------------------------------------------------
(* The tag on the sources page and the date beside it describe the same    *)
(* release (latest_seen_by_source): between polls the row of the stored    *)
(* tag exists, unless it was pruned or a task was cut between naming the   *)
(* release and recording it.                                               *)
DateBesideTag ==
    (AtRest /\ causes \cap {"pruned", "cut"} = {}) =>
        \A v \in source_details : v.row = v.tag \/ latest = 0

(* Both pages call the same release the latest, and it is the newest one   *)
(* of the catalogue (effective_latest_release_tag, set_latest_release_tag),*)
(* as long as listings are complete and come one at a time: no release was *)
(* withdrawn, pruned or half recorded, no webhook brought an older one or  *)
(* a date the listing lacks, and no two tasks overlapped or dates came in  *)
(* behind a 304.                                                           *)
LatestIsNewest ==
    (AtRest /\ causes = {} /\ latest # 0) =>
        source_detail.tag = source_detail.row

(* DateBesideTag and LatestIsNewest together: the two pages agree on what  *)
(* the latest release is and on when it was published.                     *)
PagesAgree == DateBesideTag /\ LatestIsNewest

(* api/observability.rs:646: the newest entry of the catalogue is what     *)
(* set_latest_release_tag chose for the stored value.  Here nothing was    *)
(* withdrawn, pruned or cut, and no two tasks overlapped.                  *)
StoredTagIsNewest ==
    (AtRest /\ causes \subseteq {"older_hook"} /\ latest # 0) =>
        latest = list_seen_releases
============================================================================
