------------------------------- MODULE Outbox -------------------------------
(***************************************************************************)
(* The notification outbox of xrelease: the rows of notification_outbox,   *)
(* the per-sink ledger notification_sink_delivery, and the tasks that      *)
(* enqueue, claim and deliver (src/store/postgres/outbox.rs,               *)
(* src/pipeline/outbox.rs, the enqueue half of src/pipeline/poll.rs).      *)
(*                                                                         *)
(* Every statement or transaction the code sends to PostgreSQL is one      *)
(* step; a task may be interleaved, or die, between any two of them.  The  *)
(* clock is abstracted: locked_until is "free" (NULL or past), a "lease"   *)
(* taken by a claim, or a "backoff" written after an unsuccessful attempt. *)
(***************************************************************************)
EXTENDS Integers

CONSTANTS
    Rows,         \* (source_id, identity) pairs, the unique key of a row
    NoRow,        \* a task that works on no row
    Contents,     \* contents (digests) a release may have
    NoContent,    \* "no digest stored"
    Indices,      \* positions in the CompositeNotifier's list of sinks
    Targets,      \* the endpoints behind the sinks
    NoTarget,     \* no sink at this index matches the routing tag
    Notifiers,    \* the sink lists a config apply may install
    Flushers,     \* tasks that deliver claimed rows (background flush, manual check)
    Pollers,      \* tasks that enqueue and deliver inline (polls, webhooks)
    MaxAttempts,  \* OUTBOX_MAX_ATTEMPTS
    Races         \* "overrun": a task may outlive its lease;
                  \* "requeue": an operator may requeue a row a task still holds

ASSUME OutboxAssumption ==
    /\ NoRow \notin Rows
    /\ NoContent \notin Contents
    /\ NoTarget \notin Targets
    /\ Indices \subseteq Nat
    /\ Notifiers \subseteq [Indices -> Targets \cup {NoTarget}]
    /\ MaxAttempts \in Nat \ {0}
    /\ Races \subseteq {"overrun", "requeue"}

VARIABLES
    row,       \* notification_outbox
    ledger,    \* notification_sink_delivery
    seen,      \* seen_release.content_digest
    notifier,  \* the engine's current CompositeNotifier
    got,       \* history: the contents of each row each target has received
    told,      \* history: the sinks of each row that acknowledged its content to a
               \* task that has not died with the result unrecorded
    job        \* what each task is doing

vars == <<row, ledger, seen, notifier, got, told, job>>

Workers   == Flushers \cup Pollers
Retryable == {"pending", "failed"}

PCs == {"idle", "reopen", "catalogue", "claim", "open", "list", "check",
        "abandonAll", "failRow", "abandon", "sending", "record",
        "sync", "bury", "markFailed", "complete", "backoff"}

Row  == [status : {"none", "pending", "failed", "sent", "dead"},
         content : Contents \cup {NoContent}, attempts : Nat,
         lock : {"free", "lease", "backoff"}, due : BOOLEAN]

Sink == [status : {"absent", "pending", "failed", "sent", "dead"}, attempts : Nat]

Job  == [pc : PCs, row : Rows \cup {NoRow}, content : Contents \cup {NoContent},
         now : BOOLEAN, snap : [Indices -> Targets \cup {NoTarget}],
         todo : SUBSET Indices,
         res : [Indices -> {"none", "ok", "breaker", "error"}],
         verdict : {"none", "ok", "deferred", "failed"}]

NoSinks   == [i \in Indices |-> NoTarget]
NoResults == [i \in Indices |-> "none"]
NoLedger  == [i \in Indices |-> [status |-> "absent", attempts |-> 0]]
NoRecord  == [status |-> "none", content |-> NoContent, attempts |-> 0,
              lock |-> "free", due |-> TRUE]
Idle      == [pc |-> "idle", row |-> NoRow, content |-> NoContent, now |-> FALSE,
              snap |-> NoSinks, todo |-> {}, res |-> NoResults, verdict |-> "none"]

Matching(n) == {i \in Indices : n[i] # NoTarget}

----------------------------------------------------------------------------
(* Queries and updates of the store, as operators on rows of its tables.   *)

\* Mutant: the query forgets to leave out the sinks already sent
MutPendingSinks(r) == {i \in Indices : /\ ledger[r][i].status \in Retryable \cup {"sent"}
                                       /\ ledger[r][i].attempts < MaxAttempts}

\* list_pending_sink_indices
PendingSinks(r) == {i \in Indices : /\ ledger[r][i].status \in Retryable
                                    /\ ledger[r][i].attempts < MaxAttempts}

\* Mutant: a dead sink no longer counts as unsent
MutSinksComplete(r) == \A i \in Indices : ledger[r][i].status \notin Retryable

\* sinks_delivery_complete: no tracked sink, or every tracked sink sent
SinksComplete(r) == \A i \in Indices : ledger[r][i].status \in {"absent", "sent"}

\* Mutant: the claim ignores locked_until
MutClaimable(r) == row[r].status \in Retryable /\ row[r].due

\* The part of both claim queries that a row must pass
Claimable(r) == /\ row[r].status \in Retryable
                /\ row[r].lock = "free"
                /\ row[r].due

\* fail_notification and fail_sink_delivery: unconditional on the status
OneMoreFailure(q) ==
    [q EXCEPT !.attempts = @ + 1,
              !.status = IF q.attempts + 1 >= MaxAttempts THEN "dead" ELSE "failed"]

\* abandon_retryable_sinks
Abandoned(s) ==
    IF s.status \in Retryable
    THEN [status |-> "dead",
          attempts |-> IF s.attempts > MaxAttempts THEN s.attempts ELSE MaxAttempts]
    ELSE s

\* Mutant: a reopen keeps the sinks of the previous content as sent
MutResetSink(s) ==
    IF s.status \in {"absent", "sent"} THEN s ELSE [status |-> "pending", attempts |-> 0]

\* The reset of a sink row by a reopen, and by a requeue unless it is sent
ResetSink(s) == IF s.status = "absent" THEN s ELSE [status |-> "pending", attempts |-> 0]

\* A task works on a row from its enqueue or claim until its attempt returns
WorksOn(w, r) == job[w].pc # "idle" /\ job[w].row = r

\* The steps that run under the delivery lease
Delivering(w) == job[w].pc \notin {"idle", "reopen", "catalogue", "claim"}

\* The acknowledgements a task holds that the ledger does not have yet
Unrecorded(w) == {i \in job[w].todo : job[w].pc = "record" /\ job[w].res[i] = "ok"}

Becomes(w, j) == job' = [job EXCEPT ![w] = j]
Goto(w, pc)   == Becomes(w, [job[w] EXCEPT !.pc = pc])
Stop(w)       == Becomes(w, Idle)

----------------------------------------------------------------------------
(* Enqueue: deliver_new_releases, one release.                             *)

\* try_enqueue_notification up to its SELECT.  A row that is sent with this
\* very content, or dead, yields None and the release is skipped.
\* select_for_delivery chose the release from an index of seen read earlier, so
\* another poll may have recorded c by now: seen is no guard here.
Enqueue(w, r, c, due) ==
    /\ job[w].pc = "idle"
    /\ LET Begin(pc, now) == Becomes(w,
               [Idle EXCEPT !.pc = pc, !.row = r, !.content = c, !.now = now])
       IN  \/ /\ row[r].status = "none"
              /\ row' = [row EXCEPT ![r] = [NoRecord EXCEPT !.status = "pending",
                                                            !.content = c, !.due = due]]
              /\ Begin("catalogue", due)
           \/ /\ row[r].status \in Retryable
              /\ Begin("catalogue", FALSE)
              /\ UNCHANGED row
           \/ /\ row[r].status = "sent"
              /\ row[r].content # c
              /\ Begin("reopen", due)
              /\ UNCHANGED row
    /\ UNCHANGED <<ledger, seen, notifier, got, told>>

\* Mutant: the sink rows are left for a second transaction that never runs
MutReopen(w) ==
    LET r == job[w].row IN
    /\ job[w].pc = "reopen"
    /\ row[r].status = "sent"
    /\ row' = [row EXCEPT ![r] = [@ EXCEPT !.status = "pending", !.attempts = 0,
                                           !.content = job[w].content, !.due = job[w].now]]
    /\ told' = [told EXCEPT ![r] = {}]
    /\ Goto(w, "catalogue")
    /\ UNCHANGED <<ledger, seen, notifier, got>>

\* The reopening transaction of try_enqueue_notification: parent and sink rows
\* together, locked_until left as it is; None when the row is no longer sent.
Reopen(w) ==
    LET r == job[w].row IN
    /\ job[w].pc = "reopen"
    /\ IF row[r].status = "sent"
       THEN /\ row' = [row EXCEPT ![r] = [@ EXCEPT !.status = "pending",
                                                   !.content = job[w].content,
                                                   !.attempts = 0, !.due = job[w].now]]
            /\ ledger' = [ledger EXCEPT ![r] = [i \in Indices |-> ResetSink(@[i])]]
            /\ told' = [told EXCEPT ![r] = {}]
            /\ Goto(w, "catalogue")
       ELSE /\ Stop(w)
            /\ UNCHANGED <<row, ledger, told>>
    /\ UNCHANGED <<seen, notifier, got>>

\* record_seen; the poll goes on to deliver only what it created and is due
Catalogue(w) ==
    /\ job[w].pc = "catalogue"
    /\ seen' = [seen EXCEPT ![job[w].row] = job[w].content]
    /\ IF job[w].now THEN Goto(w, "claim") ELSE Stop(w)
    /\ UNCHANGED <<row, ledger, notifier, got, told>>

\* claim_outbox_row: no look at attempts, and the content sent is the poll's own
ClaimRow(w) ==
    LET r == job[w].row IN
    /\ job[w].pc = "claim"
    /\ IF Claimable(r)
       THEN /\ row' = [row EXCEPT ![r] = [@ EXCEPT !.lock = "lease"]]
            /\ Goto(w, "open")
       ELSE /\ Stop(w)
            /\ UNCHANGED row
    /\ UNCHANGED <<ledger, seen, notifier, got, told>>

\* claim_outbox_batch, for one row of the wave
ClaimBatch(w, r) ==
    /\ job[w].pc = "idle"
    /\ Claimable(r)
    /\ row[r].attempts < MaxAttempts
    /\ row' = [row EXCEPT ![r] = [@ EXCEPT !.lock = "lease"]]
    /\ Becomes(w, [Idle EXCEPT !.pc = "open", !.row = r, !.content = row[r].content])
    /\ UNCHANGED <<ledger, seen, notifier, got, told>>

----------------------------------------------------------------------------
(* deliver_to_pending_sinks, and the backoff of attempt_notification_delivery. *)

\* notifier_snapshot, matching_indices; then fail_notification when nothing
\* matches the routing tag, ensure_sink_deliveries otherwise
Open(w) ==
    LET r == job[w].row IN
    /\ job[w].pc = "open"
    /\ IF Matching(notifier) = {}
       THEN /\ row' = [row EXCEPT ![r] = OneMoreFailure(@)]
            /\ Becomes(w, [job[w] EXCEPT !.pc = "backoff", !.verdict = "failed"])
            /\ UNCHANGED ledger
       ELSE /\ ledger' = [ledger EXCEPT ![r] = [i \in Indices |->
                            IF i \in Matching(notifier) /\ @[i].status = "absent"
                            THEN [status |-> "pending", attempts |-> 0] ELSE @[i]]]
            /\ Becomes(w, [job[w] EXCEPT !.pc = "list", !.snap = notifier])
            /\ UNCHANGED row
    /\ UNCHANGED <<seen, notifier, got, told>>

\* list_pending_sink_indices and the choice it leads to
List(w) ==
    LET pending == PendingSinks(job[w].row)
        matching == Matching(job[w].snap)
    IN  /\ job[w].pc = "list"
        /\ Becomes(w, [job[w] EXCEPT
             !.pc = IF pending = {} THEN "check"
                    ELSE IF pending \cap matching = {} THEN "abandonAll"
                    ELSE IF pending \subseteq matching THEN "sending"
                    ELSE "abandon",
             !.todo = pending])
        /\ UNCHANGED <<row, ledger, seen, notifier, got, told>>

\* Config drift: every retryable sink row is for a sink that no longer matches
AbandonAll(w) ==
    /\ job[w].pc = "abandonAll"
    /\ ledger' = [ledger EXCEPT ![job[w].row] = [i \in Indices |-> Abandoned(@[i])]]
    /\ Becomes(w, [job[w] EXCEPT !.pc = "failRow", !.todo = {}, !.verdict = "failed"])
    /\ UNCHANGED <<row, seen, notifier, got, told>>

\* fail_notification on the drift path; the parent is synced afterwards
FailRow(w) ==
    /\ job[w].pc = "failRow"
    /\ row' = [row EXCEPT ![job[w].row] = OneMoreFailure(@)]
    /\ Goto(w, "sync")
    /\ UNCHANGED <<ledger, seen, notifier, got, told>>

\* Only the orphans are abandoned; the sinks that still match are tried
Abandon(w) ==
    LET matching == Matching(job[w].snap) IN
    /\ job[w].pc = "abandon"
    /\ ledger' = [ledger EXCEPT ![job[w].row] = [i \in Indices |->
                    IF i \in job[w].todo \ matching THEN Abandoned(@[i]) ELSE @[i]]]
    /\ Becomes(w, [job[w] EXCEPT !.pc = "sending", !.todo = @ \cap matching])
    /\ UNCHANGED <<row, seen, notifier, got, told>>

\* Mutant: a breaker skip is taken for a success
MutNotify(w, res) ==
    /\ job[w].pc = "sending"
    /\ \A i \in Indices : res[i] = "none" <=> i \notin job[w].todo
    /\ Becomes(w, [job[w] EXCEPT !.pc = "record", !.verdict = "ok",
                      !.res = [i \in Indices |-> IF res[i] = "breaker" THEN "ok" ELSE res[i]]])
    /\ got' = [got EXCEPT ![job[w].row] = [t \in Targets |->
                 IF \E i \in job[w].todo : res[i] = "ok" /\ job[w].snap[i] = t
                 THEN @[t] \cup {job[w].content} ELSE @[t]]]
    /\ told' = [told EXCEPT ![job[w].row] = @ \cup {i \in job[w].todo : res[i] = "ok"}]
    /\ UNCHANGED <<row, ledger, seen, notifier>>

\* notify_partial returns: each sink acknowledged, failed, or was skipped
\* because its circuit breaker is open
Notify(w, res) ==
    LET r == job[w].row
        acks == {i \in job[w].todo : res[i] = "ok"}
        reached == {job[w].snap[i] : i \in acks}
    IN  /\ job[w].pc = "sending"
        /\ \A i \in Indices : res[i] = "none" <=> i \notin job[w].todo
        /\ got' = [got EXCEPT ![r] = [t \in Targets |->
                     IF t \in reached THEN @[t] \cup {job[w].content} ELSE @[t]]]
        /\ told' = [told EXCEPT ![r] = @ \cup acks]
        /\ Becomes(w, [job[w] EXCEPT !.pc = "record", !.res = res, !.verdict = "ok"])
        /\ UNCHANGED <<row, ledger, seen, notifier>>

\* complete_sink_delivery, fail_sink_delivery or nothing, in index order
Record(w) ==
    LET r == job[w].row
        j == job[w]
    IN  /\ j.pc = "record"
        /\ \E i \in j.todo :
             /\ \A k \in j.todo : i <= k
             /\ ledger' = [ledger EXCEPT ![r] = [ledger[r] EXCEPT ![i] =
                  IF j.res[i] = "ok" THEN [ledger[r][i] EXCEPT !.status = "sent"]
                  ELSE IF j.res[i] = "error" THEN OneMoreFailure(ledger[r][i])
                  ELSE ledger[r][i]]]
             /\ Becomes(w, [j EXCEPT
                  !.pc = IF j.todo = {i} THEN "sync" ELSE "record",
                  !.todo = @ \ {i},
                  !.res = IF j.todo = {i} THEN NoResults ELSE @,
                  !.verdict = IF j.res[i] = "error" THEN "failed"
                              ELSE IF j.res[i] = "breaker" /\ @ = "ok" THEN "deferred"
                              ELSE @])
        /\ UNCHANGED <<row, seen, notifier, got, told>>

\* Where deliver_to_pending_sinks goes once the parent is synced
AfterSync(w) == IF job[w].verdict = "ok" THEN "check" ELSE "backoff"

\* Mutant: one dead sink is enough to bury the parent
MutSync(w) ==
    /\ job[w].pc = "sync"
    /\ Goto(w, IF SinksComplete(job[w].row) THEN AfterSync(w)
               ELSE IF \E i \in Indices : ledger[job[w].row][i].status = "dead" THEN "bury"
               ELSE "markFailed")
    /\ UNCHANGED <<row, ledger, seen, notifier, got, told>>

\* The SELECT of sync_outbox_sink_status
Sync(w) ==
    LET s == ledger[job[w].row] IN
    /\ job[w].pc = "sync"
    /\ Goto(w, IF SinksComplete(job[w].row) THEN AfterSync(w)
               ELSE IF \E i \in Indices : s[i].status \in Retryable THEN "markFailed"
               ELSE "bury")
    /\ UNCHANGED <<row, ledger, seen, notifier, got, told>>

\* Its UPDATE when no retryable sink is left
Bury(w) ==
    /\ job[w].pc = "bury"
    /\ row' = [row EXCEPT ![job[w].row] = [@ EXCEPT !.status = "dead"]]
    /\ Goto(w, AfterSync(w))
    /\ UNCHANGED <<ledger, seen, notifier, got, told>>

\* Its UPDATE when some sink can still be retried
MarkFailed(w) ==
    /\ job[w].pc = "markFailed"
    /\ row' = [row EXCEPT ![job[w].row] =
                 IF @.status \in Retryable THEN [@ EXCEPT !.status = "failed"] ELSE @]
    /\ Goto(w, AfterSync(w))
    /\ UNCHANGED <<ledger, seen, notifier, got, told>>

\* sinks_delivery_complete: before any send when no sink is pending (then the
\* parent is synced to dead), or at the end of a round with no failure
Check(w) ==
    /\ job[w].pc = "check"
    /\ IF SinksComplete(job[w].row)
       THEN Goto(w, "complete")
       ELSE Becomes(w, [job[w] EXCEPT
              !.pc = IF job[w].verdict = "none" THEN "sync" ELSE "backoff",
              !.verdict = "failed"])
    /\ UNCHANGED <<row, ledger, seen, notifier, got, told>>

\* complete_notification: parent to sent and the seen upsert, one transaction
Complete(w) ==
    LET r == job[w].row IN
    /\ job[w].pc = "complete"
    /\ IF row[r].status \in Retryable
       THEN /\ row' = [row EXCEPT ![r] = [@ EXCEPT !.status = "sent"]]
            /\ seen' = [seen EXCEPT ![r] = job[w].content]
            /\ Stop(w)
       ELSE /\ Becomes(w, [job[w] EXCEPT !.pc = "backoff", !.verdict = "failed"])
            /\ UNCHANGED <<row, seen>>
    /\ UNCHANGED <<ledger, notifier, got, told>>

\* apply_attempt_backoff: apply_delivery_backoff, or defer_delivery when the
\* only obstacle was an open breaker; by id, whoever holds the row now
Backoff(w) ==
    LET q == row[job[w].row]
        n == IF job[w].verdict = "deferred" THEN q.attempts ELSE q.attempts + 1
    IN
    /\ job[w].pc = "backoff"
    /\ row' = [row EXCEPT ![job[w].row] = [q EXCEPT !.lock = "backoff", !.attempts = n]]
    /\ Stop(w)
    /\ UNCHANGED <<ledger, seen, notifier, got, told>>

\* The task ends with its lease still set: the process is killed, the task is
\* aborted at shutdown, or the store returns an error; what it heard is forgotten
Crash(w) ==
    /\ job[w].pc # "idle"
    /\ Stop(w)
    /\ told' = [r \in Rows |-> IF WorksOn(w, r) THEN told[r] \ Unrecorded(w) ELSE told[r]]
    /\ UNCHANGED <<row, ledger, seen, notifier, got>>

----------------------------------------------------------------------------
(* The clock, the background sweep, the operator and the configuration.    *)

\* locked_until passes.  Without the "overrun" race a lease outlives the task
\* that took it (OUTBOX_LEASE_SECS exceeds the longest attempt).
Expire(r) ==
    /\ \/ row[r].lock = "backoff"
       \/ /\ row[r].lock = "lease"
          /\ "overrun" \in Races \/ ~\E w \in Workers : WorksOn(w, r)
    /\ row' = [row EXCEPT ![r] = [@ EXCEPT !.lock = "free"]]
    /\ UNCHANGED <<ledger, seen, notifier, got, told, job>>

\* deliver_after passes
BecomeDue(r) ==
    /\ ~row[r].due
    /\ row' = [row EXCEPT ![r] = [@ EXCEPT !.due = TRUE]]
    /\ UNCHANGED <<ledger, seen, notifier, got, told, job>>

\* Mutant: the sweep does not look at the status
MutExhaustedAny(r) == row[r].status # "dead" /\ row[r].attempts >= MaxAttempts

\* Mutant: off by one, the row at the cap is neither claimed nor swept
MutExhaustedLate(r) == row[r].status \in Retryable /\ row[r].attempts > MaxAttempts

\* finalize_exhausted_outbox, at startup and after every flush
Exhausted(r) == row[r].status \in Retryable /\ row[r].attempts >= MaxAttempts

Finalize ==
    /\ \E r \in Rows : Exhausted(r)
    /\ row' = [r \in Rows |-> IF Exhausted(r) THEN [row[r] EXCEPT !.status = "dead"]
                              ELSE row[r]]
    /\ UNCHANGED <<ledger, seen, notifier, got, told, job>>

\* Mutant: the budget is given back by subtraction instead of being reset
MutRequeue ==
    LET dead == {r \in Rows : row[r].status = "dead"} IN
    /\ dead # {}
    /\ row' = [r \in Rows |-> IF r \in dead
                 THEN [row[r] EXCEPT !.status = "pending", !.attempts = @ - MaxAttempts]
                 ELSE row[r]]
    /\ UNCHANGED <<ledger, seen, notifier, got, told, job>>

\* requeue_dead_outbox: every dead row and its unsent sink rows
Requeue ==
    LET dead == {r \in Rows : row[r].status = "dead"} IN
    /\ dead # {}
    /\ "requeue" \in Races \/ \A r \in dead, w \in Workers : ~WorksOn(w, r)
    /\ row' = [r \in Rows |-> IF r \in dead
                 THEN [row[r] EXCEPT !.status = "pending", !.attempts = 0, !.lock = "free"]
                 ELSE row[r]]
    /\ ledger' = [r \in Rows |-> IF r \in dead
                    THEN [i \in Indices |-> IF ledger[r][i].status = "sent"
                                            THEN ledger[r][i] ELSE ResetSink(ledger[r][i])]
                    ELSE ledger[r]]
    /\ UNCHANGED <<seen, notifier, got, told, job>>

\* prune: a sent row past retention and its sink rows.  Retention is days, so
\* no task is still at work on the row.
Prune(r) ==
    /\ row[r].status = "sent"
    /\ \A w \in Workers : ~WorksOn(w, r)
    /\ row' = [row EXCEPT ![r] = NoRecord]
    /\ ledger' = [ledger EXCEPT ![r] = NoLedger]
    /\ told' = [told EXCEPT ![r] = {}]
    /\ UNCHANGED <<seen, notifier, got, job>>

\* apply_runtime_config swaps the composite notifier
SwapNotifier(n) ==
    /\ n # notifier
    /\ notifier' = n
    /\ UNCHANGED <<row, ledger, seen, got, told, job>>

----------------------------------------------------------------------------
Init ==
    /\ row = [r \in Rows |-> NoRecord]
    /\ ledger = [r \in Rows |-> NoLedger]
    /\ seen = [r \in Rows |-> NoContent]
    /\ notifier \in Notifiers
    /\ got = [r \in Rows |-> [t \in Targets |-> {}]]
    /\ told = [r \in Rows |-> {}]
    /\ job = [w \in Workers |-> Idle]

\* The results notify_partial may return
Results == [Indices -> {"none", "ok", "breaker", "error"}]

\* One step of a delivery attempt
Step(w) ==
    \/ Reopen(w) \/ Catalogue(w) \/ ClaimRow(w)
    \/ Open(w) \/ List(w) \/ AbandonAll(w) \/ FailRow(w) \/ Abandon(w)
    \/ \E res \in Results : Notify(w, res)
    \/ Record(w) \/ Sync(w) \/ Bury(w) \/ MarkFailed(w)
    \/ Check(w) \/ Complete(w) \/ Backoff(w)

Next ==
    \/ \E w \in Pollers, r \in Rows, c \in Contents, due \in BOOLEAN : Enqueue(w, r, c, due)
    \/ \E w \in Flushers, r \in Rows : ClaimBatch(w, r)
    \/ \E w \in Workers : Step(w)
    \/ \E w \in Workers : Crash(w)
    \/ \E r \in Rows : Expire(r) \/ BecomeDue(r) \/ Prune(r)
    \/ Finalize \/ Requeue
    \/ \E n \in Notifiers : SwapNotifier(n)

Spec == Init /\ [][Next]_vars
----------------------------------------------------------------------------
(* Properties.                                                             *)

\* Every variable keeps its shape: rows, sink rows and jobs as the store's
\* tables and the delivery code declare them, and a task at work has a row.
TypeOK ==
    /\ row \in [Rows -> Row]
    /\ ledger \in [Rows -> [Indices -> Sink]]
    /\ seen \in [Rows -> Contents \cup {NoContent}]
    /\ notifier \in Notifiers
    /\ got \in [Rows -> [Targets -> SUBSET (Contents \cup {NoContent})]]
    /\ told \in [Rows -> SUBSET Indices]
    /\ job \in [Workers -> Job]
    /\ \A w \in Workers : job[w].pc # "idle" => job[w].row \in Rows

\* The lease: two tasks are never both inside a delivery attempt of one row
\* (claim_outbox_batch and claim_outbox_row against expiry, backoff, requeue).
ExclusiveDelivery ==
    \A v, w \in Workers :
        v # w /\ Delivering(v) /\ Delivering(w) => job[v].row # job[w].row

\* Delivery is at least once, and the one window for a repeat is between a sink's
\* acknowledgement and complete_sink_delivery: a sink that acknowledged this content
\* is called again only if the attempt it answered died before recording that.  No
\* failure of another sink, drift, sweep, requeue or later claim repeats the call.
RepeatsOnlyUnrecorded ==
    \A w \in Workers : job[w].pc = "sending" => job[w].todo \cap told[job[w].row] = {}

\* What the ledger calls sent, the sink at that index has received, and in the
\* content the row now holds: reopening, requeueing, routing drift, crashes and
\* retries never leave a stale "sent" behind.
LedgerTruthful ==
    \A r \in Rows, i \in Indices :
        ledger[r][i].status = "sent" /\ notifier[i] # NoTarget
            => row[r].content \in got[r][notifier[i]]

\* A parent is sent only when its ledger is settled: no sink row is stranded
\* pending, failed or dead under a parent no claim will ever return.
SentIsSettled ==
    \A r \in Rows : row[r].status = "sent" =>
        \A i \in Indices : ledger[r][i].status \notin {"pending", "failed", "dead"}

\* A row is dead only when no sink can be retried or its own budget is used up.
DeadIsExhausted ==
    \A r \in Rows : row[r].status = "dead" =>
        \/ row[r].attempts >= MaxAttempts
        \/ \A i \in Indices : ledger[r][i].status \notin Retryable

\* Late bookkeeping never takes a delivered notification back: a sent row stays
\* sent until new content reopens it or retention deletes it.
SentStaysSent ==
    [][\A r \in Rows : row[r].status = "sent" => row'[r].status \in {"sent", "pending", "none"}]_vars

\* No sink is skipped: a sink that matches under every configuration, at whatever
\* index, has received the content of a row that is sent.
NobodySkipped ==
    \A r \in Rows, t \in Targets :
        row[r].status = "sent" /\ (\A n \in Notifiers : \E i \in Indices : n[i] = t)
            => row[r].content \in got[r][t]

\* No double send: two tasks never have a call of the same notification to the
\* same sink in flight at once.
NoDoubleSend ==
    \A v, w \in Workers :
        v # w /\ job[v].pc = "sending" /\ job[w].pc = "sending" /\ job[v].row = job[w].row
            => job[v].todo \cap job[w].todo = {}

\* Every content recorded as seen was announced: once the tasks are done with a
\* sent row, seen_release holds the content that was delivered, not a newer one
\* that no later poll would pick up again.
SeenWasAnnounced ==
    \A r \in Rows : row[r].status = "sent" /\ (\A w \in Workers : ~WorksOn(w, r))
        => seen[r] = row[r].content

\* A queued row leaves the queue, delivered or dead-lettered, if tasks stop
\* being killed at some point.
Settles ==
    <>[][\A w \in Workers : ~Crash(w)]_vars =>
        \A r \in Rows : (row[r].status \in Retryable) ~> (row[r].status \in {"sent", "dead"})

\* The outbox keeps the promise of Delivery: what is queued, acknowledged, sent,
\* dead, renewed or forgotten there is so here, whatever is lost on the way.
D == INSTANCE Delivery WITH
        phase   <- [r \in Rows |-> IF row[r].status \in Retryable THEN "queued"
                                  ELSE row[r].status],
        content <- [r \in Rows |-> row[r].content],
        acked   <- [r \in Rows |-> {i \in Indices : ledger[r][i].status = "sent"}]

DeliveryPromise == D!Spec

----------------------------------------------------------------------------
(* Fairness: tasks run on, the flush loop and the sweep come round every   *)
(* minute, time passes, and a breaker lets calls through after its         *)
(* cooldown.  Nothing is assumed of polls, operators or config applies.    *)
Fairness ==
    /\ \A w \in Workers :
        /\ WF_vars(Step(w))
        /\ SF_vars(\E res \in [Indices -> {"none", "ok", "error"}] : Notify(w, res))
    /\ \A w \in Flushers, r \in Rows : SF_vars(ClaimBatch(w, r))
    /\ \A r \in Rows : SF_vars(Expire(r)) /\ WF_vars(BecomeDue(r))
    /\ WF_vars(Finalize)

FairSpec == Spec /\ Fairness
=============================================================================
