------------------------------- MODULE Digest -------------------------------
(***************************************************************************)
(* The outbox flush: waves of claimed rows, the digest groups of           *)
(* cron-deferred rows, the concurrent fan-out to the sinks and the sinks'  *)
(* circuit breakers (src/pipeline/outbox.rs, src/notify/mod.rs,            *)
(* src/breaker.rs).  The single row, statement by statement, is Outbox.    *)
(*                                                                         *)
(* The rows are those of one team tag; a row's number is its age.  Time is *)
(* what is left of a cooldown, a lease or a backoff.  A lease outlives the *)
(* unit that works under it.                                               *)
(***************************************************************************)
EXTENDS Naturals, FiniteSets

CONSTANTS
    DRows,        \* rows of notification_outbox, by created_at
    Moment,       \* each row's deliver_after, or "now"
    DSinks,       \* positions in the notifier's list of sinks
    Flushes,      \* tasks that call flush_notification_outbox
    Concurrency,  \* outbox_flush_concurrency
    FlushLimit,   \* the limit a flush is called with
    DMaxAttempts, \* OUTBOX_MAX_ATTEMPTS
    Threshold,    \* BreakerConfig.failure_threshold
    Cooldown,     \* BreakerConfig.cooldown
    MaxHeard,     \* bound on the history of acknowledgements
    Scenarios     \* the sinks that match at first, the flush tasks at work, and
                  \* what else may happen, once each
                  \* (a bound): "store", a statement fails; "swap", a config
                  \* apply; "test", an operator probes a sink

ASSUME DigestAssumption ==
    /\ DRows \subseteq Nat /\ IsFiniteSet(DRows)
    /\ {Concurrency, FlushLimit, DMaxAttempts, Threshold, Cooldown, MaxHeard} \subseteq Nat \ {0}
    /\ Scenarios \subseteq [sinks : SUBSET DSinks, flushes : SUBSET Flushes,
                            upsets : SUBSET {"store", "swap", "test"}]

VARIABLES
    due,      \* moments that have passed
    drow,     \* notification_outbox
    dsink,    \* notification_sink_delivery
    flush,    \* each flush task
    units,    \* the delivery units of the waves in flight
    route,    \* the sinks of the live notifier that match the tag
    breakers, \* their circuit breakers
    opened,   \* CompositeNotifier.newly_opened
    heard,    \* history: messages naming the row the sink acknowledged (up to MaxHeard)
    upsets,   \* the upsets still to come
    charged   \* history: failed calls made for the row (up to DMaxAttempts)

digestVars == <<due, drow, dsink, flush, units, route, breakers, opened, heard, charged, upsets>>

Claims  == {"pending", "failed"}
Closed  == [failures |-> 0, open |-> FALSE, left |-> 0]
NotBusy == [pc |-> "idle", claimed |-> 0, short |-> FALSE]
Absent  == [NotBusy EXCEPT !.pc = "off"]
LowerOf(a, b) == IF a < b THEN a ELSE b

DigestInit ==
    /\ due = {"now"}
    /\ drow = [r \in DRows |-> [status |-> "pending", attempts |-> 0, lock |-> "free"]]
    /\ dsink = [r \in DRows |-> [s \in DSinks |-> [status |-> "absent", attempts |-> 0]]]
    /\ units = {}
    /\ \E sc \in Scenarios : 
         /\ route = sc.sinks
         /\ upsets = sc.upsets
         /\ flush = [f \in Flushes |-> IF f \in sc.flushes THEN NotBusy ELSE Absent]
    /\ breakers = [s \in DSinks |-> Closed]
    /\ opened = {}
    /\ heard = [r \in DRows |-> [s \in DSinks |-> 0]]
    /\ charged = [r \in DRows |-> [s \in DSinks |-> 0]]

Upset(k) == k \in upsets /\ upsets' = upsets \ {k}

----------------------------------------------------------------------------
(* The circuit breaker.                                                    *)

\* Breaker::allows: closed, or the cooldown has passed.
Allows(b) == b.open => b.left = 0

\* Mutant: a re-opening after a failed trial call counts as already open
MutNewlyOpens(b, ok) == ~ok /\ b.failures + 1 >= Threshold /\ ~b.open

\* The value Breaker::record returns.
NewlyOpens(b, ok) == ~ok /\ b.failures + 1 >= Threshold /\ (b.open => b.left = 0)

\* Breaker::record; the streak saturates where it no longer matters.
Recorded(b, ok) ==
    IF ok THEN Closed
    ELSE LET n == LowerOf(b.failures + 1, Threshold) IN
         IF n >= Threshold THEN [failures |-> n, open |-> TRUE, left |-> Cooldown]
         ELSE [b EXCEPT !.failures = n]

\* record_breaker_outcome
RecordOutcome(s, ok) ==
    /\ breakers' = [breakers EXCEPT ![s] = Recorded(@, ok)]
    /\ opened' = IF NewlyOpens(breakers[s], ok) THEN opened \cup {s} ELSE opened

Tick(s) ==
    /\ breakers[s].left > 0
    /\ breakers' = [breakers EXCEPT ![s].left = @ - 1]
    /\ UNCHANGED <<due, drow, dsink, flush, units, route, opened, heard, charged, upsets>>

\* test_at: past the tag filter and the breaker, but its outcome is recorded.
test_at(s, ok) ==
    /\ Upset("test")
    /\ RecordOutcome(s, ok)
    /\ UNCHANGED <<due, drow, dsink, flush, units, route, heard, charged>>

----------------------------------------------------------------------------
(* Waves.                                                                  *)

PassMoment(m) ==
    /\ m \notin due
    /\ due' = due \cup {m}
    /\ UNCHANGED <<drow, dsink, flush, units, route, breakers, opened, heard, charged, upsets>>

FlushBegins(f) ==
    /\ flush[f].pc = "idle"
    /\ flush' = [flush EXCEPT ![f].pc = "claim"]
    /\ UNCHANGED <<due, drow, dsink, units, route, breakers, opened, heard, charged, upsets>>

DueRows == {r \in DRows : /\ drow[r].status \in Claims /\ Moment[r] \in due
                          /\ drow[r].attempts < DMaxAttempts /\ drow[r].lock = "free"}

WaveLimit(f) == LowerOf(Concurrency, FlushLimit - flush[f].claimed)

Oldest(n) == {r \in DueRows : Cardinality({q \in DueRows : q < r}) < n}

\* Deferred rows of one moment (and tag) are one digest, every other row is single.
partition_for_digest(wave) ==
    {{q \in wave : q = r \/ (Moment[q] = Moment[r] /\ Moment[r] # "now")} : r \in wave}

NoCalls  == [s \in DSinks |-> "none"]
NoneOwed == [r \in DRows |-> {}]
Unit(f, group) ==
    [flush |-> f, rows |-> group, pc |-> "open", fresh |-> TRUE, pending |-> NoneOwed,
     call |-> NoCalls, todo |-> group, verdict |-> [r \in DRows |-> "failed"]]

claim_outbox_batch(f) ==
    LET wave == Oldest(WaveLimit(f)) IN
    /\ flush[f].pc = "claim"
    /\ drow' = [r \in DRows |-> IF r \in wave THEN [drow[r] EXCEPT !.lock = "lease"]
                                ELSE drow[r]]
    /\ units' = units \cup {Unit(f, g) : g \in partition_for_digest(wave)}
    /\ flush' = [flush EXCEPT ![f] =
                   [pc |-> IF wave = {} THEN "sweep" ELSE "deliver",
                    claimed |-> @.claimed + Cardinality(wave),
                    short |-> Cardinality(wave) < WaveLimit(f)]]
    /\ UNCHANGED <<due, dsink, route, breakers, opened, heard, charged, upsets>>

\* join_all over the units; a short wave, or the limit, ends the flush.
WaveEnds(f) ==
    /\ flush[f].pc = "deliver"
    /\ \A u \in units : u.flush # f
    /\ flush' = [flush EXCEPT ![f].pc =
                   IF flush[f].short \/ flush[f].claimed >= FlushLimit THEN "sweep" ELSE "claim"]
    /\ UNCHANGED <<due, drow, dsink, units, route, breakers, opened, heard, charged, upsets>>

\* finalize_exhausted_outbox, after every flush.
reconcile_exhausted_outbox(f) ==
    /\ flush[f].pc = "sweep"
    /\ drow' = [r \in DRows |->
                  IF drow[r].status \in Claims /\ drow[r].attempts >= DMaxAttempts
                  THEN [drow[r] EXCEPT !.status = "dead"] ELSE drow[r]]
    /\ flush' = [flush EXCEPT ![f] = NotBusy]
    /\ UNCHANGED <<due, dsink, units, route, breakers, opened, heard, charged, upsets>>

----------------------------------------------------------------------------
(* One delivery unit: deliver_digest_to_pending_sinks, or, for one row,    *)
(* deliver_to_pending_sinks.                                               *)

Replace(u, v) == units' = (units \ {u}) \cup {v}

Failed(q) == [q EXCEPT !.attempts = @ + 1,
                       !.status = IF q.attempts + 1 >= DMaxAttempts THEN "dead" ELSE "failed"]

Unsent(l)  == {s \in DSinks : l[s].status \in Claims}
AllSent(l) == \A s \in DSinks : l[s].status \in {"absent", "sent"}

\* sync_outbox_sink_status, then complete_notification when every sink is sent.
Synced(q, l) ==
    IF AllSent(l) THEN (IF q.status \in Claims THEN [q EXCEPT !.status = "sent"] ELSE q)
    ELSE IF Unsent(l) = {} THEN [q EXCEPT !.status = "dead"]
    ELSE IF q.status \in Claims THEN [q EXCEPT !.status = "failed"] ELSE q

Completed(q, l) == AllSent(l) /\ q.status \in Claims

\* ensure_sink_deliveries, then abandon_retryable_sinks for the orphans
Ensured(l) == [s \in DSinks |->
    IF s \in route /\ l[s].status = "absent" THEN [status |-> "pending", attempts |-> 0]
    ELSE IF s \notin route /\ l[s].status \in Claims
         THEN [status |-> "dead", attempts |-> DMaxAttempts]
    ELSE l[s]]

\* Nothing matches the tag: every row of the unit fails.
NoMatch(u) ==
    /\ u.pc = "open" /\ route = {}
    /\ drow' = [r \in DRows |-> IF r \in u.rows THEN Failed(drow[r]) ELSE drow[r]]
    /\ Replace(u, [u EXCEPT !.pc = "backoff"])
    /\ UNCHANGED <<due, dsink, flush, route, breakers, opened, heard, charged, upsets>>

\* The ledger and what each row still owes, read before the send.
Prepare(u) ==
    LET ledger == [r \in DRows |-> IF r \in u.rows THEN Ensured(dsink[r]) ELSE dsink[r]]
        owed   == [r \in DRows |-> IF r \in u.rows THEN Unsent(ledger[r]) ELSE {}]
        union  == UNION {owed[r] : r \in u.rows}
        drifted(r) == Cardinality(u.rows) = 1 /\ Unsent(dsink[r]) # {} /\ owed[r] = {}
    IN
    /\ u.pc = "open" /\ route # {}
    /\ dsink' = ledger
    /\ IF union = {}
       THEN /\ drow' = [r \in DRows |->
                 IF r \notin u.rows THEN drow[r]
                 ELSE Synced(IF drifted(r) THEN Failed(drow[r]) ELSE drow[r], ledger[r])]
            /\ Replace(u, [u EXCEPT !.pc = "backoff", !.verdict = [r \in DRows |->
                 IF r \in u.rows /\ Completed(drow[r], ledger[r]) THEN "delivered" ELSE "failed"]])
       ELSE /\ Replace(u, [u EXCEPT !.pc = "send", !.pending = owed,
                 !.call = [s \in DSinks |-> IF s \in union THEN "todo" ELSE "none"]])
            /\ UNCHANGED drow
    /\ UNCHANGED <<due, flush, route, breakers, opened, heard, charged, upsets>>

\* Mutant: an open breaker parks the call until it closes
MutDial(u, s) ==
    /\ u.pc = "send" /\ u.call[s] = "todo"
    /\ u.fresh => Allows(breakers[s])
    /\ Replace(u, [u EXCEPT !.call[s] = "dialling"])
    /\ UNCHANGED <<due, drow, dsink, flush, route, breakers, opened, heard, charged, upsets>>

\* notify_partial, one of its concurrent futures: decide, release the lock,
\* call.  A unit that took its snapshot before a swap looks at breakers of its
\* own, whose state may be either.
Dial(u, s) ==
    /\ u.pc = "send" /\ u.call[s] = "todo"
    /\ \E c \in {"dialling", "breaker"} :
         /\ u.fresh => (c = "dialling" <=> Allows(breakers[s]))
         /\ Replace(u, [u EXCEPT !.call[s] = c])
    /\ UNCHANGED <<due, drow, dsink, flush, route, breakers, opened, heard, charged, upsets>>

\* The call returns: the message names every row of the unit.
Outcome(u, s, ok) ==
    /\ u.pc = "send" /\ u.call[s] = "dialling"
    /\ Replace(u, [u EXCEPT !.call[s] = IF ok THEN "ok" ELSE "error"])
    /\ IF u.fresh THEN RecordOutcome(s, ok) ELSE UNCHANGED <<breakers, opened>>
    /\ heard' = [r \in DRows |-> IF ok /\ r \in u.rows
                   THEN [heard[r] EXCEPT ![s] = LowerOf(@ + 1, MaxHeard)] ELSE heard[r]]
    /\ charged' = [r \in DRows |-> IF ~ok /\ s \in u.pending[r]
                     THEN [charged[r] EXCEPT ![s] = LowerOf(@ + 1, DMaxAttempts)]
                     ELSE charged[r]]
    /\ UNCHANGED <<due, drow, dsink, flush, route, upsets>>

\* join_all returned; emit_breaker_alerts drains the labels.
SendReturns(u) ==
    /\ u.pc = "send"
    /\ \A s \in DSinks : u.call[s] \notin {"todo", "dialling"}
    /\ Replace(u, [u EXCEPT !.pc = "apply"])
    /\ opened' = IF u.fresh THEN {} ELSE opened
    /\ UNCHANGED <<due, drow, dsink, flush, route, breakers, heard, charged, upsets>>

\* The results that concern a row: those of the sinks it had pending.
Owes(u, r) == u.pending[r]

\* Mutant: a breaker skip counts as delivered
MutSettled(l, c) == IF c = "error" THEN Failed(l) ELSE [l EXCEPT !.status = "sent"]

\* complete_sink_delivery, fail_sink_delivery, or nothing for a breaker skip
Settled(l, c) == CASE c = "ok" -> [l EXCEPT !.status = "sent"]
                   [] c = "error" -> Failed(l)
                   [] OTHER -> l

\* The shared results reach one row's own ledger, and its parent is synced.
Apply(u, r) ==
    LET ledger == [s \in DSinks |->
                     IF s \in Owes(u, r) THEN Settled(dsink[r][s], u.call[s]) ELSE dsink[r][s]]
        hit(c) == \E s \in Owes(u, r) : u.call[s] = c
    IN
    /\ u.pc = "apply" /\ r \in u.todo /\ \A q \in u.todo : r <= q
    /\ dsink' = [dsink EXCEPT ![r] = ledger]
    /\ drow' = [drow EXCEPT ![r] = Synced(@, ledger)]
    /\ Replace(u, [u EXCEPT !.todo = @ \ {r}, !.pc = IF u.todo = {r} THEN "backoff" ELSE @,
         !.verdict[r] = IF Completed(drow[r], ledger) THEN "delivered"
                        ELSE IF hit("breaker") /\ ~hit("error") THEN "deferred" ELSE "failed"])
    /\ UNCHANGED <<due, flush, route, breakers, opened, heard, charged, upsets>>

\* apply_attempt_backoff for every row of the unit that was not delivered.
UnitEnds(u) ==
    /\ u.pc = "backoff"
    /\ drow' = [r \in DRows |->
         IF r \notin u.rows \/ u.verdict[r] = "delivered" THEN drow[r]
         ELSE [drow[r] EXCEPT !.lock = "backoff",
                 !.attempts = IF u.verdict[r] = "deferred" THEN @ ELSE @ + 1]]
    /\ units' = units \ {u}
    /\ UNCHANGED <<due, dsink, flush, route, breakers, opened, heard, charged, upsets>>

\* A store error leaves the unit: no backoff, the leases run out.
StoreFails(u) ==
    /\ Upset("store")
    /\ u.pc \in {"open", "apply"}
    /\ units' = units \ {u}
    /\ UNCHANGED <<due, drow, dsink, flush, route, breakers, opened, heard, charged>>

LockExpires(r) ==
    /\ \/ drow[r].lock = "backoff"
       \/ drow[r].lock = "lease" /\ \A u \in units : r \notin u.rows
    /\ drow' = [drow EXCEPT ![r].lock = "free"]
    /\ UNCHANGED <<due, dsink, flush, units, route, breakers, opened, heard, charged, upsets>>

\* A config apply installs a new notifier, with new breakers.
SwapSinks(sinks) ==
    /\ Upset("swap")
    /\ sinks # route
    /\ route' = sinks
    /\ breakers' = [s \in DSinks |-> Closed]
    /\ opened' = {}
    /\ units' = {[u EXCEPT !.fresh = (u.pc = "open")] : u \in units}
    /\ UNCHANGED <<due, drow, dsink, flush, heard, charged>>

UnitStep(u) ==
    \/ NoMatch(u) \/ Prepare(u) \/ SendReturns(u) \/ UnitEnds(u)
    \/ \E s \in DSinks : Dial(u, s) \/ (\E ok \in BOOLEAN : Outcome(u, s, ok))
    \/ \E r \in DRows : Apply(u, r)

FlushStep(f) == \/ claim_outbox_batch(f) \/ WaveEnds(f) \/ reconcile_exhausted_outbox(f)
                \/ \E u \in units : u.flush = f /\ UnitStep(u)

DigestNext ==
    \/ \E f \in Flushes : FlushBegins(f) \/ FlushStep(f)
    \/ \E u \in units : StoreFails(u)
    \/ \E r \in DRows : PassMoment(Moment[r]) \/ LockExpires(r)
    \/ \E s \in DSinks : Tick(s) \/ (\E ok \in BOOLEAN : test_at(s, ok))
    \/ \E sinks \in SUBSET DSinks : SwapSinks(sinks)

\* Every call has a timeout and every ready task runs.
DigestFairness == \A f \in Flushes : WF_digestVars(FlushStep(f))

DigestSpec == DigestInit /\ [][DigestNext]_digestVars /\ DigestFairness

----------------------------------------------------------------------------
(* Properties.                                                             *)

\* A row is sent only when each of its sinks acknowledged a message that names
\* it: one send is applied to several rows, none of them gets another's credit.
SentIsHeard ==
    \A r \in DRows, s \in DSinks :
        drow[r].status = "sent" /\ dsink[r][s].status # "absent" => heard[r][s] > 0

\* A sink's retry budget is spent on real failures of calls made for that very
\* row: neither a breaker skip nor a neighbour's failure costs an attempt.
FairCharge ==
    \A r \in DRows, s \in DSinks :
        dsink[r][s].status # "dead" => dsink[r][s].attempts <= charged[r][s]

\* No two units, of whatever flush, ever hold the same row, and the rows a
\* flush holds are no more than one wave.
OneUnitPerRow ==
    /\ \A u, v \in units : u # v => u.rows \cap v.rows = {}
    /\ \A f \in Flushes :
         Cardinality(UNION {u.rows : u \in {v \in units : v.flush = f}}) <= Concurrency

\* Rows that share a wave or a message stay separate rows: none is in two
\* units, is sent on another's acknowledgement or pays for another's failure
\* (partition_for_digest, deliver_digest_to_pending_sinks).
RowsStayApart == SentIsHeard /\ FairCharge /\ OneUnitPerRow

\* An outcome that stops further calls to a sink always leaves an alert to be
\* drained, and nothing else does.
OpeningIsAlerted ==
    [][\A s \in DSinks :
         /\ Allows(breakers[s]) /\ ~Allows(breakers'[s]) => s \in opened'
         /\ s \in opened' \ opened => Allows(breakers[s]) /\ ~Allows(breakers'[s])]_digestVars

\* Every flush comes to an end, whatever the breakers do.
FlushTerminates ==
    \A f \in Flushes : flush[f].pc \notin {"off", "idle"} ~> flush[f].pc = "idle"

\* A sink that acknowledged a row is not sent that row again.
NoDigestRepeat == \A r \in DRows, s \in DSinks : heard[r][s] <= 1

=============================================================================
