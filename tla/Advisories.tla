----------------------------- MODULE Advisories -----------------------------
(***************************************************************************)
(* Advisory enrichment of one package (src/advisory/mod.rs, osv.rs): the   *)
(* lookups of the background sweep (src/scheduler.rs), of a source-detail  *)
(* page (src/api/observability.rs) and of a delivery                       *)
(* (src/pipeline/outbox.rs), the cache and breaker they share, and the two *)
(* tables their answers go to (src/store/postgres/advisory.rs).            *)
(*                                                                         *)
(* A version is a number: a larger one was first seen later.  An advisory  *)
(* is a model value; an answer is the set the database holds when asked.   *)
(***************************************************************************)
EXTENDS Integers, FiniteSets

CONSTANTS
    Versions,    \* numbers: seen_release, which a baseline poll fills in one batch
    Vulns,       \* advisories
    Answers,     \* the answers the database may give: sets of advisories
    Lookers,     \* "sweep", "page", "delivery"
    Batch,       \* sweep_batch (also stands for DETAIL_ADVISORY_BACKFILL)
    Threshold,   \* breaker_threshold
    CacheMax,    \* CACHE_MAX_ENTRIES
    MaxNews,     \* bound on upstream changes of an answer
    MaxFailures    \* bound on failed writes

ASSUME AdvisoriesAssumption ==
    /\ Versions \subseteq Nat /\ Batch \in Nat \ {0} /\ Threshold \in Nat \ {0}
    /\ Answers \subseteq SUBSET Vulns /\ Answers # {}
    /\ CacheMax \in Nat \ {0} /\ MaxNews \in Nat /\ MaxFailures \in Nat
    /\ Lookers \subseteq {"sweep", "page", "delivery"}

VARIABLES
    osv,      \* what the advisory database would answer, and whether it does
    cache,    \* LookupState.cache: none, fresh or stale, and the answer
    breaker,  \* LookupState.breaker: consecutive failures, open or not
    rows,     \* release_advisory
    checked,  \* advisory_check
    task,     \* what each caller is doing
    answers,  \* history: the verified answers per version
    failures,   \* history: failed writes
    damaged   \* history: versions whose findings were lost or blended

advisoriesVars == <<osv, cache, breaker, rows, checked, task, answers, failures, damaged>>

AtEase      == [pc |-> "idle", asking |-> {}, waiting |-> {}, got |-> {}, tx |-> "none",
             overlap |-> FALSE]
\* What every version is answered until news come: any answer would do.
FirstAnswer == CHOOSE a \in Answers : TRUE
NoEntry  == [state |-> "none", answer |-> {}]

AdvisoriesInit ==
    /\ osv \in [up : BOOLEAN, news : {0}, holds : {[v \in Versions |-> FirstAnswer]}]
    /\ cache = [v \in Versions |-> NoEntry]
    /\ breaker = [fails |-> 0, open |-> FALSE]
    /\ checked = {} /\ damaged = {} /\ failures = 0
    /\ rows = [v \in Versions |-> {}]
    /\ answers = [v \in Versions |-> {}]
    /\ task = [c \in Lookers |-> AtEase]

Sets(c, what) == task' = [task EXCEPT ![c] = what]

----------------------------------------------------------------------------
(* The world.                                                              *)

\* An advisory is published or withdrawn.
Publishes(v, a) ==
    /\ osv.news < MaxNews /\ a # osv.holds[v]
    /\ osv' = [osv EXCEPT !.news = @ + 1, !.holds[v] = a]
    /\ UNCHANGED <<cache, breaker, rows, checked, task, answers, failures, damaged>>

Outage ==
    /\ osv' = [osv EXCEPT !.up = ~@]
    /\ UNCHANGED <<cache, breaker, rows, checked, task, answers, failures, damaged>>

\* cache_ttl_secs pass.
CacheAges(v) ==
    /\ cache[v].state = "fresh"
    /\ cache' = [cache EXCEPT ![v].state = "stale"]
    /\ UNCHANGED <<osv, breaker, rows, checked, task, answers, failures, damaged>>

\* breaker_cooldown_secs pass.
BreakerCools ==
    /\ breaker.open
    /\ breaker' = [breaker EXCEPT !.open = FALSE]
    /\ UNCHANGED <<osv, cache, rows, checked, task, answers, failures, damaged>>

----------------------------------------------------------------------------
(* Which versions a caller looks up.                                       *)

Newest(vs, n) == {v \in vs : Cardinality({w \in vs : w > v}) < n}

\* Mutant: the newest versions, checked or not
Mut_unchecked_seen_versions(limit) == Newest(Versions, limit)

\* The anti-join with advisory_check, newest first, up to the limit.
unchecked_seen_versions(limit) == Newest(Versions \ checked, limit)

\* Seen, no findings stored, not checked; the next few.
backfill_advisories_for_detail(limit) ==
    Newest({v \in Versions : rows[v] = {}} \ checked, limit)

\* sweep_advisories_once and the page start a batch, a delivery its version.
StartLookup(c) ==
    /\ task[c].pc = "idle"
    /\ \E vs \in CASE c = "sweep" -> {unchecked_seen_versions(Batch)}
                   [] c = "page" -> {backfill_advisories_for_detail(Batch)}
                   [] c = "delivery" -> {{v} : v \in Versions} :
        /\ vs # {}
        /\ Sets(c, [AtEase EXCEPT !.pc = "look", !.asking = vs])
    /\ UNCHANGED <<osv, cache, breaker, rows, checked, answers, failures, damaged>>

----------------------------------------------------------------------------
(* AdvisoryLookup::lookup, concurrently for the versions of a batch.       *)

cached(v) == cache[v].state = "fresh"

\* A cache hit is verified; an open breaker skips the query, unverified.
Lookup(c, v) ==
    /\ v \in task[c].asking
    /\ LET rest == [task[c] EXCEPT !.asking = @ \ {v}] IN
       Sets(c, IF cached(v) THEN [rest EXCEPT !.got = @ \cup {[v |-> v, answer |-> cache[v].answer]}]
               ELSE IF breaker.open THEN rest
               ELSE [rest EXCEPT !.waiting = @ \cup {v}])
    /\ UNCHANGED <<osv, cache, breaker, rows, checked, answers, failures, damaged>>

Entries(ch) == {w \in Versions : ch[w].state # "none"}

\* At the ceiling stale entries are dropped, then, if all are fresh, all.
Room(ch) ==
    IF Cardinality(Entries(ch)) < CacheMax THEN ch
    ELSE LET kept == [w \in Versions |-> IF ch[w].state = "fresh" THEN ch[w] ELSE NoEntry] IN
         IF Cardinality(Entries(kept)) < CacheMax THEN kept ELSE [w \in Versions |-> NoEntry]

record_success(v, a) ==
    /\ breaker' = [fails |-> 0, open |-> FALSE]
    /\ cache' = [Room(cache) EXCEPT ![v] = [state |-> "fresh", answer |-> a]]

record_failure ==
    LET n == breaker.fails + 1 IN
    /\ breaker' = IF n >= Threshold THEN [fails |-> Threshold, open |-> TRUE]
                  ELSE [breaker EXCEPT !.fails = n]
    /\ UNCHANGED cache

\* osv::query answers with the advisories not withdrawn.
Reply(c, v) ==
    /\ v \in task[c].waiting /\ osv.up
    /\ record_success(v, osv.holds[v])
    /\ answers' = [answers EXCEPT ![v] = @ \cup {osv.holds[v]}]
    /\ Sets(c, [task[c] EXCEPT !.waiting = @ \ {v},
                               !.got = @ \cup {[v |-> v, answer |-> osv.holds[v]]}])
    /\ UNCHANGED <<osv, rows, checked, failures, damaged>>

\* The request's own timeout, a bad status or a bad body: unverified.
NoReply(c, v) ==
    /\ v \in task[c].waiting /\ ~osv.up
    /\ record_failure
    /\ Sets(c, [task[c] EXCEPT !.waiting = @ \ {v}])
    /\ UNCHANGED <<osv, rows, checked, answers, failures, damaged>>

\* join_all returned.
Gathered(c) ==
    /\ task[c].pc = "look" /\ task[c].asking = {} /\ task[c].waiting = {}
    /\ Sets(c, IF task[c].got = {} THEN AtEase ELSE [task[c] EXCEPT !.pc = "write"])
    /\ UNCHANGED <<osv, cache, breaker, rows, checked, answers, failures, damaged>>

----------------------------------------------------------------------------
(* persist_advisory_result, for one answer after the other.                *)

\* The answer being written: the oldest version first.
Leading(c) == CHOOSE g \in task[c].got : \A h \in task[c].got : g.v <= h.v

Writing(c, v) == task[c].pc = "write" /\ task[c].tx = "open" /\ Leading(c).v = v

\* record_advisories opens its transaction and deletes what it can see.
BeginFindings(c) ==
    /\ task[c].pc = "write" /\ task[c].tx = "none"
    /\ Sets(c, [task[c] EXCEPT !.tx = "open", !.overlap = FALSE])
    /\ UNCHANGED <<osv, cache, breaker, rows, checked, answers, failures, damaged>>

\* Mutant: a bare upsert, which deletes nothing
Mut_record_advisories(c) ==
    /\ task[c].pc = "write" /\ task[c].tx = "open"
    /\ LET v == Leading(c).v IN
       /\ rows' = [rows EXCEPT ![v] = @ \cup Leading(c).answer]
       /\ task' = [d \in Lookers |->
                     IF d = c THEN [task[c] EXCEPT !.tx = "marker"]
                     ELSE IF Writing(d, v) THEN [task[d] EXCEPT !.overlap = TRUE]
                     ELSE task[d]]
    /\ UNCHANGED <<osv, cache, breaker, checked, answers, failures, damaged>>

\* It inserts and commits.  READ COMMITTED: what another writer committed since
\* the DELETE was not visible to it, and stays.
record_advisories(c) ==
    /\ task[c].pc = "write" /\ task[c].tx = "open"
    /\ LET v == Leading(c).v
           a == Leading(c).answer
       IN /\ rows' = [rows EXCEPT ![v] = IF task[c].overlap THEN @ \cup a ELSE a]
          /\ damaged' = IF task[c].overlap THEN damaged \cup {v} ELSE damaged \ {v}
          /\ task' = [d \in Lookers |->
                        IF d = c THEN [task[c] EXCEPT !.tx = "marker"]
                        ELSE IF Writing(d, v) THEN [task[d] EXCEPT !.overlap = TRUE]
                        ELSE task[d]]
    /\ UNCHANGED <<osv, cache, breaker, checked, answers, failures>>

\* The write fails; it is logged and the marker is written all the same.
FindingsFail(c) ==
    /\ task[c].pc = "write" /\ task[c].tx = "open"
    /\ failures < MaxFailures /\ failures' = failures + 1
    /\ damaged' = damaged \cup {Leading(c).v}
    /\ Sets(c, [task[c] EXCEPT !.tx = "marker"])
    /\ UNCHANGED <<osv, cache, breaker, rows, checked, answers>>

NextAnswer(c) ==
    LET left == task[c].got \ {Leading(c)} IN
    Sets(c, IF left = {} THEN AtEase ELSE [task[c] EXCEPT !.got = left, !.tx = "none"])

record_advisory_check(c) ==
    /\ task[c].pc = "write" /\ task[c].tx = "marker"
    /\ checked' = checked \cup {Leading(c).v}
    /\ NextAnswer(c)
    /\ UNCHANGED <<osv, cache, breaker, rows, answers, failures, damaged>>

CheckFails(c) ==
    /\ task[c].pc = "write" /\ task[c].tx = "marker"
    /\ failures < MaxFailures /\ failures' = failures + 1
    /\ NextAnswer(c)
    /\ UNCHANGED <<osv, cache, breaker, rows, checked, answers, damaged>>

----------------------------------------------------------------------------
CallerStep(c) ==
    \/ \E v \in Versions : Lookup(c, v) \/ Reply(c, v) \/ NoReply(c, v)
    \/ Gathered(c) \/ BeginFindings(c) \/ record_advisories(c) \/ record_advisory_check(c)

AdvisoriesNext ==
    \/ \E v \in Versions :
        CacheAges(v) \/ \E a \in Answers : Publishes(v, a)
    \/ Outage \/ BreakerCools
    \/ \E c \in Lookers :
        StartLookup(c) \/ CallerStep(c) \/ FindingsFail(c) \/ CheckFails(c)

\* Tasks run, timers elapse and every query has a deadline; deliveries and page
\* loads come when they come, the sweep keeps its rounds.
AdvisoriesFair ==
    /\ WF_advisoriesVars(BreakerCools)
    /\ WF_advisoriesVars(StartLookup("sweep"))
    /\ \A c \in Lookers : WF_advisoriesVars(CallerStep(c))

AdvisoriesSpec == AdvisoriesInit /\ [][AdvisoriesNext]_advisoriesVars /\ AdvisoriesFair

----------------------------------------------------------------------------
(* Properties.                                                             *)

\* A version is retired from the sweep only when the database has really
\* answered for it: outages, timeouts and an open breaker never mark one clean.
CheckedWasAnswered == \A v \in checked : answers[v] # {}

\* What is stored for a version is one of the answers the database gave, never
\* a mixture with a withdrawn one, whoever wrote it and however lookups of the
\* sweep, the page and a delivery overlap (short of a lost or overlapped write).
FindingsAreAnAnswer ==
    \A v \in checked \ damaged : rows[v] \in answers[v]

\* CheckedWasAnswered and FindingsAreAnAnswer together: what the tables say of
\* a version is what the advisory database said of it.
FindingsAreAnswers == CheckedWasAnswered /\ FindingsAreAnAnswer

\* What persist_advisory_result's comment promises: a failed write costs no more
\* than a redundant lookup, so a checked version's findings are what was answered.
CheckedIsKnown == \A v \in checked : rows[v] \in answers[v]

\* Once the advisory database stays reachable, every version polls recorded is
\* checked by the sweep, whatever outages, breaker openings and failed writes
\* went before.
SweepCovers == \A v \in Versions : <>[](osv.up) => <>(v \in checked)

=============================================================================
