---------------------------- MODULE OutboxProofs ----------------------------
(***************************************************************************)
(* Theorems about the outbox for any number of rows, contents, sinks,      *)
(* configurations and tasks: type correctness, then the delivery           *)
(* guarantees.                                                             *)
(***************************************************************************)
EXTENDS Outbox, TLAPS

----------------------------------------------------------------------------
(* Records: the types of rows, sink rows and jobs stay folded in the proofs *)
(* below, which cite these lemmas for what an update does to each field.    *)

\* The constant records are of the declared types.
LEMMA ConstantTypes ==
    /\ NoRecord \in Row
    /\ NoLedger \in [Indices -> Sink]
    /\ Idle \in Job
  BY OutboxAssumption DEF NoRecord, NoLedger, Idle, NoSinks, NoResults, Row, Sink, Job, PCs

\* The update of a row by fail_notification.
LEMMA RowFailure ==
    ASSUME NEW q \in Row
    PROVE  LET p == OneMoreFailure(q)
           IN  /\ p \in Row /\ p.status \in {"failed", "dead"}
               /\ p.content = q.content /\ p.lock = q.lock
               /\ p.status = "dead" => p.attempts >= MaxAttempts
  <1>1. q.attempts + 1 \in Nat
    BY DEF Row
  <1> QED
    BY <1>1, OutboxAssumption DEF OneMoreFailure, Row

\* The updates of a sink row.
LEMMA SinkFields ==
    ASSUME NEW s \in Sink
    PROVE  /\ s.status \in {"absent", "pending", "failed", "sent", "dead"}
           /\ s.attempts \in Nat
           /\ [s EXCEPT !.status = "sent"] \in Sink /\ [s EXCEPT !.status = "sent"].status = "sent"
           /\ OneMoreFailure(s) \in Sink /\ OneMoreFailure(s).status \in {"failed", "dead"}
           /\ Abandoned(s) \in Sink
           /\ Abandoned(s).status = IF s.status \in Retryable THEN "dead" ELSE s.status
           /\ ResetSink(s) \in Sink
           /\ ResetSink(s).status = IF s.status = "absent" THEN "absent" ELSE "pending"
           /\ [status |-> "pending", attempts |-> 0] \in Sink
  <1>1. s.attempts + 1 \in Nat
    BY DEF Sink
  <1>2. OneMoreFailure(s) \in Sink /\ OneMoreFailure(s).status \in {"failed", "dead"}
    BY <1>1 DEF OneMoreFailure, Sink
  <1>3. Abandoned(s) \in Sink /\ ResetSink(s) \in Sink
    BY OutboxAssumption DEF Abandoned, ResetSink, Sink, Retryable
  <1> QED
    BY <1>2, <1>3 DEF Abandoned, ResetSink, Sink, Retryable

\* What a step keeps of a job it only moves on: the row, the content it sends and
\* whether it is to be delivered at once.
SameWork(j, k) == j.row = k.row /\ j.content = k.content /\ j.now = k.now

\* Fields of a job, and what its updates keep.
LEMMA JobFields ==
    ASSUME NEW j \in Job
    PROVE  /\ j.pc \in PCs
           /\ j.row \in Rows \cup {NoRow}
           /\ j.content \in Contents \cup {NoContent}
           /\ j.now \in BOOLEAN
           /\ j.snap \in [Indices -> Targets \cup {NoTarget}]
           /\ j.todo \in SUBSET Indices
           /\ j.res \in Results
           /\ j.verdict \in {"none", "ok", "deferred", "failed"}
  BY DEF Job, Results

\* A job that only moves on.
LEMMA JobGoto ==
    ASSUME NEW j \in Job, NEW p \in PCs
    PROVE  LET k == [j EXCEPT !.pc = p]
           IN  /\ k \in Job /\ k.pc = p /\ SameWork(j, k)
               /\ k.snap = j.snap /\ k.todo = j.todo /\ k.res = j.res /\ k.verdict = j.verdict
  BY DEF Job, SameWork

----------------------------------------------------------------------------
(* Type correctness.                                                       *)

\* A task's job after a step: typed, with a row unless it stopped.
LEMMA BecomesType ==
    ASSUME TypeOK, NEW w \in Workers, NEW j \in Job, Becomes(w, j),
           j.pc # "idle" => j.row \in Rows
    PROVE  /\ job' \in [Workers -> Job]
           /\ \A v \in Workers : job'[v].pc # "idle" => job'[v].row \in Rows
           /\ job'[w] = j
           /\ \A v \in Workers \ {w} : job'[v] = job[v]
  BY DEF TypeOK, Becomes

\* The same for the two commonest moves.
LEMMA MoveTypes ==
    ASSUME TypeOK, NEW w \in Workers, NEW p \in PCs, job[w].pc # "idle",
           Goto(w, p) \/ Stop(w)
    PROVE  /\ job' \in [Workers -> Job]
           /\ \A v \in Workers : job'[v].pc # "idle" => job'[v].row \in Rows
           /\ \A v \in Workers \ {w} : job'[v] = job[v]
           /\ Goto(w, p) => job'[w] = [job[w] EXCEPT !.pc = p]
           /\ Stop(w) => job'[w] = Idle
  <1>1. job[w] \in Job /\ job[w].row \in Rows
    BY DEF TypeOK
  <1>2. Idle \in Job /\ Idle.pc = "idle"
    BY ConstantTypes DEF Idle
  <1>3. [job[w] EXCEPT !.pc = p] \in Job /\ [job[w] EXCEPT !.pc = p].row = job[w].row
    BY <1>1, JobGoto DEF SameWork
  <1> QED
    BY <1>1, <1>2, <1>3, BecomesType DEF Goto, Stop

\* A write to one row, to the sink rows of one row or to one entry of seen.
LEMMA WriteTypes ==
    ASSUME TypeOK, NEW r \in Rows
    PROVE  /\ \A q \in Row : [row EXCEPT ![r] = q] \in [Rows -> Row]
           /\ \A s \in [Indices -> Sink] : [ledger EXCEPT ![r] = s] \in [Rows -> [Indices -> Sink]]
           /\ \A c \in Contents \cup {NoContent} :
                [seen EXCEPT ![r] = c] \in [Rows -> Contents \cup {NoContent}]
  BY DEF TypeOK

\* The history of the acknowledgements a task still lives to record.
ToldEffect(w) ==
    LET r == job[w].row IN
    /\ told' \in [Rows -> SUBSET Indices]
    /\ \A x \in Rows \ {r} : told'[x] = told[x]
    /\ \/ told'[r] = {}
       \/ told' = told /\ ~Crash(w)
       \/ \E res \in Results : /\ Notify(w, res)
                               /\ told'[r] = told[r] \cup {i \in job[w].todo : res[i] = "ok"}
       \/ Crash(w) /\ told'[r] = told[r] \ Unrecorded(w)

\* Every step of a task has one of these effects on it.
LEMMA StepTold ==
    ASSUME TypeOK, NEW w \in Workers, Step(w) \/ Crash(w)
    PROVE  ToldEffect(w)
  <1>pc. job[w].pc # "idle"
    BY DEF Step, Crash, Reopen, Catalogue, ClaimRow, Open, List, AbandonAll, FailRow, Abandon,
           Notify, Record, Sync, Bury, MarkFailed, Check, Complete, Backoff
  <1>w. job[w].row \in Rows /\ job[w].todo \subseteq Indices /\ told \in [Rows -> SUBSET Indices]
    BY <1>pc DEF TypeOK, Job
  <1>1. CASE told' = [told EXCEPT ![job[w].row] = {}]
    BY <1>1, <1>w DEF ToldEffect
  <1>2. CASE \E res \in Results : Notify(w, res)
    <2>0. PICK res \in Results : Notify(w, res)
      BY <1>2
    <2> DEFINE acks == {i \in job[w].todo : res[i] = "ok"}
    <2>1. told' = [told EXCEPT ![job[w].row] = told[job[w].row] \cup acks]
      BY <2>0 DEF Notify
    <2>2. acks \subseteq Indices
      BY <1>w
    <2>3. told'[job[w].row] = told[job[w].row] \cup acks
      BY <2>1, <1>w
    <2> QED BY <2>0, <2>1, <2>2, <2>3, <1>w DEF ToldEffect
  <1>3. CASE Crash(w)
    <2>1. told' = [r \in Rows |-> IF r = job[w].row THEN told[r] \ Unrecorded(w) ELSE told[r]]
      BY <1>3, <1>pc DEF Crash, WorksOn
    <2> QED BY <2>1, <1>3, <1>w DEF ToldEffect
  <1>4. CASE Reopen(w)
    <2>1. told' = [told EXCEPT ![job[w].row] = {}] \/ (told' = told /\ job[w].pc = "reopen")
      BY <1>4 DEF Reopen
    <2>2. CASE told' = told
      <3>1. CASE Crash(w)
        BY <3>1, <1>3
      <3>2. CASE ~Crash(w)
        BY <2>2, <3>2, <1>w DEF ToldEffect
      <3> QED BY <3>1, <3>2
    <2> QED BY <2>1, <2>2, <1>1
  <1>5. CASE told' = told /\ ~Crash(w)
    BY <1>5, <1>w DEF ToldEffect
  <1> QED
    BY <1>2, <1>3, <1>4, <1>5
    DEF Step, Catalogue, ClaimRow, Open, List, AbandonAll, FailRow, Abandon,
        Record, Sync, Bury, MarkFailed, Check, Complete, Backoff

\* Every step of a task preserves the types.
LEMMA StepTypes ==
    ASSUME TypeOK, NEW w \in Workers, Step(w) \/ Crash(w)
    PROVE  TypeOK'
  <1> DEFINE r == job[w].row
             T == /\ job' \in [Workers -> Job]
                  /\ \A v \in Workers : job'[v].pc # "idle" => job'[v].row \in Rows
  <1>pc. job[w].pc # "idle"
    BY DEF Step, Crash, Reopen, Catalogue, ClaimRow, Open, List, AbandonAll, FailRow, Abandon,
           Notify, Record, Sync, Bury, MarkFailed, Check, Complete, Backoff
  <1>w. job[w] \in Job /\ r \in Rows /\ row[r] \in Row /\ ledger[r] \in [Indices -> Sink]
    BY <1>pc DEF TypeOK
  <1>s. SUFFICES /\ row' \in [Rows -> Row]
                 /\ ledger' \in [Rows -> [Indices -> Sink]]
                 /\ seen' \in [Rows -> Contents \cup {NoContent}]
                 /\ notifier' \in Notifiers
                 /\ got' \in [Rows -> [Targets -> SUBSET (Contents \cup {NoContent})]]
                 /\ T
    BY StepTold DEF TypeOK, ToldEffect
  <1> HIDE DEF r
  <1>p. PCs = {"idle", "reopen", "catalogue", "claim", "open", "list", "check",
               "abandonAll", "failRow", "abandon", "sending", "record",
               "sync", "bury", "markFailed", "complete", "backoff"}
    BY DEF PCs
  <1>1. CASE Reopen(w)
    <2>1. T
      BY <1>1, <1>pc, <1>p, MoveTypes DEF Reopen
    <2>2. [row[r] EXCEPT !.status = "pending", !.content = job[w].content,
                         !.attempts = 0, !.due = job[w].now] \in Row
      BY <1>w, JobFields DEF Row
    <2>3. [i \in Indices |-> ResetSink(ledger[r][i])] \in [Indices -> Sink]
      BY <1>w, SinkFields
    <2>4. row' \in [Rows -> Row] /\ ledger' \in [Rows -> [Indices -> Sink]]
      <3>1. \/ /\ row' = [row EXCEPT ![r] = [row[r] EXCEPT !.status = "pending",
                             !.content = job[w].content, !.attempts = 0, !.due = job[w].now]]
               /\ ledger' = [ledger EXCEPT ![r] = [i \in Indices |-> ResetSink(ledger[r][i])]]
            \/ UNCHANGED <<row, ledger>>
        BY <1>1, Zenon DEF Reopen, r
      <3>2. CASE UNCHANGED <<row, ledger>>
        BY <3>2 DEF TypeOK
      <3> QED BY <3>1, <3>2, <2>2, <2>3, <1>w, WriteTypes
    <2> QED BY <1>1, <2>1, <2>4 DEF Reopen, TypeOK
  <1>2. CASE Catalogue(w)
    <2>1. T
      BY <1>2, <1>pc, <1>p, MoveTypes DEF Catalogue
    <2> QED BY <1>2, <2>1, <1>w, JobFields DEF Catalogue, TypeOK, r
  <1>3. CASE ClaimRow(w)
    <2>1. T
      BY <1>3, <1>pc, <1>p, MoveTypes DEF ClaimRow
    <2>2. row' \in [Rows -> Row]
      <3>1. row' = [row EXCEPT ![r] = [row[r] EXCEPT !.lock = "lease"]] \/ row' = row
        BY <1>3, Zenon DEF ClaimRow, r
      <3>2. [row[r] EXCEPT !.lock = "lease"] \in Row
        BY <1>w DEF Row
      <3>3. row \in [Rows -> Row]
        BY DEF TypeOK
      <3> QED BY <3>1, <3>2, <3>3, <1>w, WriteTypes
    <2> QED BY <1>3, <2>1, <2>2 DEF ClaimRow, TypeOK
  <1>4. CASE Open(w)
    <2>0. notifier \in [Indices -> Targets \cup {NoTarget}]
      BY OutboxAssumption DEF TypeOK
    <2>1. T
      <3>1. [job[w] EXCEPT !.pc = "backoff", !.verdict = "failed"] \in Job
            /\ [job[w] EXCEPT !.pc = "backoff", !.verdict = "failed"].row = r
        BY <1>w DEF Job, PCs, r
      <3>2. [job[w] EXCEPT !.pc = "list", !.snap = notifier] \in Job
            /\ [job[w] EXCEPT !.pc = "list", !.snap = notifier].row = r
        BY <1>w, <2>0 DEF Job, PCs, r
      <3> QED BY <1>4, <3>1, <3>2, <1>w, BecomesType DEF Open
    <2>2. OneMoreFailure(row[r]) \in Row
      BY <1>w, RowFailure
    <2>3. [i \in Indices |-> IF i \in Matching(notifier) /\ ledger[r][i].status = "absent"
              THEN [status |-> "pending", attempts |-> 0] ELSE ledger[r][i]] \in [Indices -> Sink]
      BY <1>w, SinkFields
    <2>4. row' \in [Rows -> Row] /\ ledger' \in [Rows -> [Indices -> Sink]]
      <3>1. \/ row' = [row EXCEPT ![r] = OneMoreFailure(row[r])] /\ UNCHANGED ledger
            \/ /\ ledger' = [ledger EXCEPT ![r] = [i \in Indices |->
                     IF i \in Matching(notifier) /\ ledger[r][i].status = "absent"
                     THEN [status |-> "pending", attempts |-> 0] ELSE ledger[r][i]]]
               /\ UNCHANGED row
        BY <1>4, Zenon DEF Open, r
      <3>2. row \in [Rows -> Row] /\ ledger \in [Rows -> [Indices -> Sink]]
        BY DEF TypeOK
      <3> QED BY <3>1, <3>2, <2>2, <2>3, <1>w, WriteTypes
    <2> QED BY <1>4, <2>1, <2>4 DEF Open, TypeOK
  <1>5. CASE List(w)
    <2>1. T
      <3> DEFINE pending == PendingSinks(job[w].row)
                 p == IF pending = {} THEN "check"
                      ELSE IF pending \cap Matching(job[w].snap) = {} THEN "abandonAll"
                      ELSE IF pending \subseteq Matching(job[w].snap) THEN "sending"
                      ELSE "abandon"
                 k == [job[w] EXCEPT !.pc = p, !.todo = pending]
      <3>1. p \in PCs /\ pending \in SUBSET Indices
        BY <1>p DEF PendingSinks
      <3>2. Becomes(w, k)
        BY <1>5 DEF List
      <3> HIDE DEF p, pending
      <3>3. k \in Job /\ k.row = r
        BY <1>w, <3>1 DEF Job, r
      <3> QED BY <3>2, <3>3, <1>w, BecomesType
    <2> QED BY <1>5, <2>1 DEF List, TypeOK
  <1>6. CASE AbandonAll(w)
    <2>1. T
      <3>1. [job[w] EXCEPT !.pc = "failRow", !.todo = {}, !.verdict = "failed"] \in Job
            /\ [job[w] EXCEPT !.pc = "failRow", !.todo = {}, !.verdict = "failed"].row = r
        BY <1>w DEF Job, PCs, r
      <3> QED BY <1>6, <3>1, <1>w, BecomesType DEF AbandonAll
    <2>2. [i \in Indices |-> Abandoned(ledger[r][i])] \in [Indices -> Sink]
      BY <1>w, SinkFields
    <2> QED BY <1>6, <2>1, <2>2, <1>w DEF AbandonAll, TypeOK, r
  <1>7. CASE FailRow(w)
    <2>1. T
      BY <1>7, <1>pc, <1>p, MoveTypes DEF FailRow
    <2> QED BY <1>7, <2>1, <1>w, RowFailure DEF FailRow, TypeOK, r
  <1>8. CASE Abandon(w)
    <2>1. T
      <3>1. job[w].todo \cap Matching(job[w].snap) \in SUBSET Indices
        BY <1>w, JobFields
      <3>2. [job[w] EXCEPT !.pc = "sending", !.todo = @ \cap Matching(job[w].snap)] \in Job
            /\ [job[w] EXCEPT !.pc = "sending", !.todo = @ \cap Matching(job[w].snap)].row = r
        BY <1>w, <3>1 DEF Job, PCs, r
      <3> QED BY <1>8, <3>2, <1>w, BecomesType DEF Abandon
    <2>2. \A i \in Indices : (IF i \in job[w].todo \ Matching(job[w].snap)
                             THEN Abandoned(ledger[r][i]) ELSE ledger[r][i]) \in Sink
      BY <1>w, SinkFields
    <2> QED BY <1>8, <2>1, <2>2, <1>w DEF Abandon, TypeOK, r
  <1>9. CASE \E res \in Results : Notify(w, res)
    <2>0. PICK res \in Results : Notify(w, res)
      BY <1>9
    <2>1. T
      <3>1. [job[w] EXCEPT !.pc = "record", !.res = res, !.verdict = "ok"] \in Job
            /\ [job[w] EXCEPT !.pc = "record", !.res = res, !.verdict = "ok"].row = r
        BY <1>w DEF Job, PCs, Results, r
      <3> QED BY <2>0, <3>1, <1>w, BecomesType DEF Notify
    <2>2. job[w].content \in Contents \cup {NoContent}
      BY <1>w, JobFields
    <2>3. got' \in [Rows -> [Targets -> SUBSET (Contents \cup {NoContent})]]
      BY <2>0, <2>2, <1>w DEF Notify, TypeOK, r
    <2> QED BY <2>0, <2>1, <2>3 DEF Notify, TypeOK
  <1>10. CASE Record(w)
    <2>0. PICK i \in job[w].todo :
            /\ ledger' = [ledger EXCEPT ![r] = [ledger[r] EXCEPT ![i] =
                  IF job[w].res[i] = "ok" THEN [ledger[r][i] EXCEPT !.status = "sent"]
                  ELSE IF job[w].res[i] = "error" THEN OneMoreFailure(ledger[r][i])
                  ELSE ledger[r][i]]]
            /\ Becomes(w, [job[w] EXCEPT
                  !.pc = IF job[w].todo = {i} THEN "sync" ELSE "record",
                  !.todo = @ \ {i},
                  !.res = IF job[w].todo = {i} THEN NoResults ELSE @,
                  !.verdict = IF job[w].res[i] = "error" THEN "failed"
                              ELSE IF job[w].res[i] = "breaker" /\ @ = "ok" THEN "deferred"
                              ELSE @])
      BY <1>10 DEF Record, r
    <2>1. T
      <3> DEFINE p == IF job[w].todo = {i} THEN "sync" ELSE "record"
                 t == job[w].todo \ {i}
                 q == IF job[w].todo = {i} THEN NoResults ELSE job[w].res
                 v == IF job[w].res[i] = "error" THEN "failed"
                      ELSE IF job[w].res[i] = "breaker" /\ job[w].verdict = "ok" THEN "deferred"
                      ELSE job[w].verdict
                 k == [job[w] EXCEPT !.pc = p, !.todo = t, !.res = q, !.verdict = v]
      <3>1. /\ p \in PCs /\ t \in SUBSET Indices /\ q \in Results
            /\ v \in {"none", "ok", "deferred", "failed"}
        BY <1>w, <1>p, JobFields DEF NoResults, Results
      <3>2. Becomes(w, k)
        BY <2>0
      <3> HIDE DEF p, t, q, v
      <3>3. k \in Job /\ k.row = r
        BY <1>w, <3>1 DEF Job, Results, r
      <3> QED BY <3>2, <3>3, <1>w, BecomesType
    <2>2. ledger[r][i] \in Sink
      BY <1>w, JobFields
    <2>3. ledger' \in [Rows -> [Indices -> Sink]]
      <3> DEFINE s == IF job[w].res[i] = "ok" THEN [ledger[r][i] EXCEPT !.status = "sent"]
                      ELSE IF job[w].res[i] = "error" THEN OneMoreFailure(ledger[r][i])
                      ELSE ledger[r][i]
      <3>1. s \in Sink
        BY <2>2, SinkFields
      <3>2. ledger' = [ledger EXCEPT ![r] = [ledger[r] EXCEPT ![i] = s]]
        BY <2>0
      <3> HIDE DEF s
      <3>3. [ledger[r] EXCEPT ![i] = s] \in [Indices -> Sink]
        BY <3>1, <1>w
      <3> QED BY <3>2, <3>3, <1>w, WriteTypes
    <2> QED BY <1>10, <2>1, <2>3 DEF Record, TypeOK
  <1>11. CASE Sync(w) \/ Bury(w) \/ MarkFailed(w)
    <2>0. AfterSync(w) \in PCs
      BY <1>p DEF AfterSync
    <2>1. T
      BY <1>11, <1>pc, <1>p, <2>0, MoveTypes DEF Sync, Bury, MarkFailed
    <2>2. row' \in [Rows -> Row]
      <3> DEFINE d == [row[r] EXCEPT !.status = "dead"]
                 q == IF row[r].status \in Retryable THEN [row[r] EXCEPT !.status = "failed"]
                                                     ELSE row[r]
      <3>1. row' = row \/ row' = [row EXCEPT ![r] = d] \/ row' = [row EXCEPT ![r] = q]
        BY <1>11, Zenon DEF Sync, Bury, MarkFailed, r
      <3>2. d \in Row /\ q \in Row
        BY <1>w DEF Row
      <3>3. row \in [Rows -> Row]
        BY DEF TypeOK
      <3> HIDE DEF d, q
      <3> QED BY <3>1, <3>2, <3>3
    <2> QED BY <1>11, <2>1, <2>2 DEF Sync, Bury, MarkFailed, TypeOK
  <1>12. CASE Check(w)
    <2>1. T
      <3> DEFINE p == IF job[w].verdict = "none" THEN "sync" ELSE "backoff"
      <3>1. p \in PCs
        BY <1>p
      <3>2. Goto(w, "complete") \/ Becomes(w, [job[w] EXCEPT !.pc = p, !.verdict = "failed"])
        BY <1>12 DEF Check
      <3> HIDE DEF p
      <3>3. [job[w] EXCEPT !.pc = p, !.verdict = "failed"] \in Job
            /\ [job[w] EXCEPT !.pc = p, !.verdict = "failed"].row = r
        BY <1>w, <3>1 DEF Job, r
      <3> QED BY <3>2, <3>3, <1>w, <1>pc, <1>p, MoveTypes, BecomesType
    <2> QED BY <1>12, <2>1 DEF Check, TypeOK
  <1>13. CASE Complete(w)
    <2>1. T
      <3>1. [job[w] EXCEPT !.pc = "backoff", !.verdict = "failed"] \in Job
            /\ [job[w] EXCEPT !.pc = "backoff", !.verdict = "failed"].row = r
        BY <1>w DEF Job, PCs, r
      <3> QED BY <1>13, <3>1, <1>w, <1>pc, <1>p, MoveTypes, BecomesType DEF Complete
    <2>2. row' \in [Rows -> Row] /\ seen' \in [Rows -> Contents \cup {NoContent}]
      <3>1. \/ /\ row' = [row EXCEPT ![r] = [row[r] EXCEPT !.status = "sent"]]
               /\ seen' = [seen EXCEPT ![r] = job[w].content]
            \/ UNCHANGED <<row, seen>>
        BY <1>13, Zenon DEF Complete, r
      <3>2. [row[r] EXCEPT !.status = "sent"] \in Row /\ job[w].content \in Contents \cup {NoContent}
        BY <1>w DEF Row, Job
      <3>3. CASE UNCHANGED <<row, seen>>
        BY <3>3 DEF TypeOK
      <3>4. [row EXCEPT ![r] = [row[r] EXCEPT !.status = "sent"]] \in [Rows -> Row]
        BY <3>2, <1>w, WriteTypes
      <3>5. [seen EXCEPT ![r] = job[w].content] \in [Rows -> Contents \cup {NoContent}]
        BY <3>2, <1>w, WriteTypes
      <3> QED BY <3>1, <3>3, <3>4, <3>5
    <2> QED BY <1>13, <2>1, <2>2 DEF Complete, TypeOK
  <1>14. CASE Backoff(w)
    <2>1. T
      BY <1>14, <1>pc, <1>p, MoveTypes DEF Backoff
    <2>2. row[r].attempts + 1 \in Nat /\ row[r].attempts \in Nat
      BY <1>w DEF Row
    <2>3. row' \in [Rows -> Row]
      <3> DEFINE n == IF job[w].verdict = "deferred" THEN row[r].attempts ELSE row[r].attempts + 1
      <3>1. row' = [row EXCEPT ![r] = [row[r] EXCEPT !.lock = "backoff", !.attempts = n]]
        BY <1>14, Zenon DEF Backoff, r
      <3>2. n \in Nat
        BY <2>2
      <3> HIDE DEF n
      <3>3. [row[r] EXCEPT !.lock = "backoff", !.attempts = n] \in Row
        BY <3>2, <1>w DEF Row
      <3> QED BY <3>1, <3>3, <1>w, WriteTypes
    <2> QED BY <1>14, <2>1, <2>3 DEF Backoff, TypeOK
  <1>15. CASE Crash(w)
    <2>1. T
      BY <1>15, <1>pc, <1>p, MoveTypes DEF Crash
    <2> QED BY <1>15, <2>1 DEF Crash, TypeOK
  <1> QED
    BY <1>1, <1>2, <1>3, <1>4, <1>5, <1>6, <1>7, <1>8, <1>9, <1>10, <1>11, <1>12,
       <1>13, <1>14, <1>15 DEF Step

\* The steps that belong to no attempt preserve the types: enqueueing, claiming,
\* time, the sweep, the operator and the configuration.
LEMMA OtherTypes ==
    ASSUME TypeOK,
           \/ \E w \in Pollers, r \in Rows, c \in Contents, due \in BOOLEAN : Enqueue(w, r, c, due)
           \/ \E w \in Flushers, r \in Rows : ClaimBatch(w, r)
           \/ \E r \in Rows : Expire(r) \/ BecomeDue(r) \/ Prune(r)
           \/ Finalize \/ Requeue
           \/ \E n \in Notifiers : SwapNotifier(n)
    PROVE  TypeOK'
  <1>0. /\ \A r \in Rows : row[r] \in Row /\ ledger[r] \in [Indices -> Sink]
        /\ Pollers \subseteq Workers /\ Flushers \subseteq Workers
    BY DEF TypeOK, Workers
  <1>1. CASE \E w \in Pollers, r \in Rows, c \in Contents, due \in BOOLEAN : Enqueue(w, r, c, due)
    <2>0. PICK w \in Pollers, r \in Rows, c \in Contents, due \in BOOLEAN : Enqueue(w, r, c, due)
      BY <1>1
    <2> DEFINE New(pc, now) == [Idle EXCEPT !.pc = pc, !.row = r, !.content = c, !.now = now]
    <2>1. \A pc \in PCs, now \in BOOLEAN : New(pc, now) \in Job /\ New(pc, now).row = r
      BY ConstantTypes DEF Job
    <2>2. \E pc \in PCs, now \in BOOLEAN : Becomes(w, New(pc, now))
      BY <2>0 DEF Enqueue, PCs
    <2> HIDE DEF New
    <2>3. /\ job' \in [Workers -> Job]
          /\ \A v \in Workers : job'[v].pc # "idle" => job'[v].row \in Rows
      BY <2>1, <2>2, <1>0, BecomesType
    <2>4. [NoRecord EXCEPT !.status = "pending", !.content = c, !.due = due] \in Row
      BY ConstantTypes DEF Row
    <2>5. row' \in [Rows -> Row]
      <3>1. \/ row' = [row EXCEPT ![r] = [NoRecord EXCEPT !.status = "pending",
                                                         !.content = c, !.due = due]]
            \/ row' = row
        BY <2>0 DEF Enqueue
      <3>2. row \in [Rows -> Row]
        BY DEF TypeOK
      <3> QED BY <3>1, <3>2, <2>4, WriteTypes
    <2> QED BY <2>0, <2>3, <2>5 DEF Enqueue, TypeOK
  <1>2. CASE \E w \in Flushers, r \in Rows : ClaimBatch(w, r)
    <2>0. PICK w \in Flushers, r \in Rows : ClaimBatch(w, r)
      BY <1>2
    <2>1. [row[r] EXCEPT !.lock = "lease"] \in Row /\ row[r].content \in Contents \cup {NoContent}
      BY <1>0 DEF Row
    <2> DEFINE j == [Idle EXCEPT !.pc = "open", !.row = r, !.content = row[r].content]
    <2>2. j \in Job /\ j.row = r
      BY <2>1, ConstantTypes DEF Job, PCs
    <2>3. Becomes(w, j)
      BY <2>0 DEF ClaimBatch
    <2> HIDE DEF j
    <2>4. /\ job' \in [Workers -> Job]
          /\ \A v \in Workers : job'[v].pc # "idle" => job'[v].row \in Rows
      BY <2>2, <2>3, <1>0, BecomesType
    <2>5. row' \in [Rows -> Row]
      BY <2>0, <2>1, WriteTypes DEF ClaimBatch
    <2> QED BY <2>0, <2>4, <2>5 DEF ClaimBatch, TypeOK
  <1>3. CASE \E r \in Rows : Expire(r) \/ BecomeDue(r) \/ Prune(r)
    <2>0. PICK r \in Rows : Expire(r) \/ BecomeDue(r) \/ Prune(r)
      BY <1>3
    <2>1. [row[r] EXCEPT !.lock = "free"] \in Row /\ [row[r] EXCEPT !.due = TRUE] \in Row
      BY <1>0 DEF Row
    <2>2. row' \in [Rows -> Row]
      <3>1. \/ row' = [row EXCEPT ![r] = [row[r] EXCEPT !.lock = "free"]]
            \/ row' = [row EXCEPT ![r] = [row[r] EXCEPT !.due = TRUE]]
            \/ row' = [row EXCEPT ![r] = NoRecord]
        BY <2>0, Zenon DEF Expire, BecomeDue, Prune
      <3>2. NoRecord \in Row
        BY ConstantTypes
      <3>3. \A q \in Row : [row EXCEPT ![r] = q] \in [Rows -> Row]
        BY WriteTypes
      <3> QED BY <3>1, <3>2, <3>3, <2>1
    <2>3. ledger' \in [Rows -> [Indices -> Sink]]
      <3>1. ledger \in [Rows -> [Indices -> Sink]]
        BY DEF TypeOK
      <3> QED BY <2>0, <3>1, ConstantTypes, WriteTypes DEF Expire, BecomeDue, Prune
    <2>4. told' \in [Rows -> SUBSET Indices]
      BY <2>0 DEF Expire, BecomeDue, Prune, TypeOK
    <2> QED BY <2>0, <2>2, <2>3, <2>4 DEF Expire, BecomeDue, Prune, TypeOK
  <1>4. CASE Finalize
    <2>1. \A r \in Rows : [row[r] EXCEPT !.status = "dead"] \in Row
      BY <1>0 DEF Row
    <2>2. row' \in [Rows -> Row]
      BY <1>4, <1>0, <2>1 DEF Finalize
    <2> QED BY <1>4, <2>2 DEF Finalize, TypeOK
  <1>5. CASE Requeue
    <2>1. \A r \in Rows :
            [row[r] EXCEPT !.status = "pending", !.attempts = 0, !.lock = "free"] \in Row
      BY <1>0 DEF Row
    <2>2. row' \in [Rows -> Row]
      BY <1>5, <1>0, <2>1 DEF Requeue
    <2>3. \A r \in Rows : [i \in Indices |-> IF ledger[r][i].status = "sent"
                               THEN ledger[r][i] ELSE ResetSink(ledger[r][i])] \in [Indices -> Sink]
      <3> TAKE r \in Rows
      <3>1. \A i \in Indices : ledger[r][i] \in Sink
        BY <1>0
      <3>2. \A i \in Indices : ResetSink(ledger[r][i]) \in Sink
        BY <3>1, SinkFields
      <3> QED BY <3>1, <3>2
    <2>4. ledger' \in [Rows -> [Indices -> Sink]]
      BY <1>5, <1>0, <2>3 DEF Requeue
    <2> QED BY <1>5, <2>2, <2>4 DEF Requeue, TypeOK
  <1>6. CASE \E n \in Notifiers : SwapNotifier(n)
    BY <1>6 DEF SwapNotifier, TypeOK
  <1> QED
    BY <1>1, <1>2, <1>3, <1>4, <1>5, <1>6

\* The initial states and stuttering.
LEMMA InitTypes == Init => TypeOK
  BY ConstantTypes DEF Init, TypeOK, Idle

\* Every step of the specification preserves the types.
LEMMA NextTypes == TypeOK /\ [Next]_vars => TypeOK'
  <1> SUFFICES ASSUME TypeOK, [Next]_vars PROVE TypeOK'
    OBVIOUS
  <1>1. CASE \E w \in Workers : Step(w) \/ Crash(w)
    BY <1>1, StepTypes
  <1>2. CASE UNCHANGED vars
    BY <1>2 DEF vars, TypeOK
  <1> QED
    BY <1>1, <1>2, OtherTypes DEF Next

\* Type correctness: whatever the tasks, the clock, the operator and the
\* configuration do, the tables and the jobs keep their declared shapes.
THEOREM TypeCorrect == Spec => []TypeOK
  BY InitTypes, NextTypes, PTL DEF Spec

----------------------------------------------------------------------------
(* The inductive invariant behind the delivery guarantees.  It holds when  *)
(* leases outlive attempts and no dead row is requeued under a task that   *)
(* still holds it (Races = {}).  That the ledger is truthful needs one     *)
(* thing more: a config apply keeps a sink at its index (StableIndices).   *)

\* The sink at an index is the same under every configuration that has one there.
StableIndices ==
    \A n, m \in Notifiers, i \in Indices :
        n[i] # NoTarget /\ m[i] # NoTarget => n[i] = m[i]

\* A task inside an attempt holds the lease of a row that exists and is not yet
\* sent, and sends the content the row holds.
HoldsLease(w) ==
    LET q == row[job[w].row]
    IN  q.lock = "lease" /\ q.status \notin {"none", "sent"} /\ q.content = job[w].content

\* The steps between a poll's enqueue of a row and its claim
Queued(w) == job[w].pc = "claim" \/ (job[w].pc = "catalogue" /\ job[w].now)

\* A poll about to claim the row it enqueued will send the row's content, or
\* will find a lease nobody works under: the row was delivered before it came.
MayClaim(w) ==
    LET q == row[job[w].row]
    IN  /\ q.status # "none"
        /\ \/ q.content = job[w].content /\ q.status # "sent"
           \/ /\ q.lock = "lease"
              /\ \A v \in Workers : Delivering(v) => job[v].row # job[w].row

\* What the later steps of an attempt know about the sinks they handle.
KnowsSinks(w) ==
    LET j == job[w]
    IN  /\ j.pc \in {"list", "abandonAll", "abandon", "sending", "record"} => j.snap \in Notifiers
        /\ j.pc \in {"sending", "record"} => j.todo \subseteq Matching(j.snap)
        /\ j.pc \in {"abandon", "sending", "record"} =>
             \A i \in j.todo : ledger[j.row][i].status \in Retryable
        /\ j.pc = "record" =>
             \A i \in j.todo : j.res[i] = "ok" => j.content \in got[j.row][j.snap[i]]
        /\ j.pc = "complete" => SinksComplete(j.row)

\* Every acknowledgement is backed by a receipt of the row's content.
Receipts(r) ==
    \A i \in Indices : ledger[r][i].status = "sent" =>
        \A n \in Notifiers : n[i] # NoTarget => row[r].content \in got[r][n[i]]

\* What the tables promise: no ledger without a row, a settled ledger under a sent
\* row, and a receipt behind every acknowledgement.
Ledgers(r) ==
    /\ row[r].status = "none" => \A i \in Indices : ledger[r][i].status = "absent"
    /\ row[r].status = "sent" => SinksComplete(r)
    /\ StableIndices => Receipts(r)

IInv ==
    /\ TypeOK
    /\ ExclusiveDelivery
    /\ \A w \in Workers : Delivering(w) => HoldsLease(w) /\ KnowsSinks(w)
    /\ \A w \in Workers : Queued(w) => MayClaim(w)
    /\ \A r \in Rows : Ledgers(r)

----------------------------------------------------------------------------
(* The effect of a task's step, without its detail.                        *)

\* Only the task's own job and its own row are touched, and receipts only grow.
Frame(w) ==
    LET r == job[w].row
    IN  /\ r \in Rows
        /\ \A v \in Workers \ {w} : job'[v] = job[v]
        /\ job'[w].pc # "idle" => SameWork(job[w], job'[w])
        /\ \A x \in Rows \ {r} : row'[x] = row[x] /\ ledger'[x] = ledger[x]
        /\ \A x \in Rows, t \in Targets : got[x][t] \subseteq got'[x][t]

Before == {"reopen", "catalogue", "claim"}

\* A reopen, a claim, another step before the lease, or a step under it.
RowEffect(w) ==
    LET r == job[w].row
        q == row[r]
        p == row'[r]
    IN  \/ /\ job[w].pc = "reopen" /\ job'[w].pc = "catalogue"
           /\ q.status = "sent" /\ p.status = "pending"
           /\ p.content = job[w].content /\ p.lock = q.lock
           /\ \A i \in Indices : ledger'[r][i].status # "sent"
        \/ /\ job[w].pc = "claim" /\ job'[w].pc = "open"
           /\ q.lock = "free" /\ q.status \in Retryable
           /\ p.lock = "lease" /\ p.status = q.status /\ p.content = q.content
           /\ ledger'[r] = ledger[r]
        \/ /\ job[w].pc \in Before
           /\ job'[w].pc = "idle" \/ (Queued(w) /\ job'[w].pc = "claim")
           /\ p = q /\ ledger'[r] = ledger[r]
        \/ /\ Delivering(w)
           /\ p.content = q.content
           /\ q.status # "none" => p.status # "none"
           /\ \/ /\ job'[w].pc \notin {"idle"} \cup Before
                 /\ p.lock = q.lock
                 /\ p.status = "sent" => q.status = "sent"
              \/ /\ job'[w].pc = "idle"
                 /\ \/ p.status = q.status
                    \/ /\ p.status = "sent" /\ p.lock = q.lock
                       /\ job[w].pc = "complete" /\ ledger'[r] = ledger[r]

\* A write to one entry of a table, pointwise.
LEMMA Pointwise ==
    ASSUME TypeOK, NEW r \in Rows
    PROVE  /\ \A q : /\ [row EXCEPT ![r] = q][r] = q
                     /\ \A x \in Rows \ {r} : [row EXCEPT ![r] = q][x] = row[x]
           /\ \A s : /\ [ledger EXCEPT ![r] = s][r] = s
                     /\ \A x \in Rows \ {r} : [ledger EXCEPT ![r] = s][x] = ledger[x]
  BY DEF TypeOK

\* The same for a task's job.
LEMMA JobPointwise ==
    ASSUME TypeOK, NEW w \in Workers, NEW j, Becomes(w, j)
    PROVE  job'[w] = j /\ \A v \in Workers \ {w} : job'[v] = job[v]
  BY DEF TypeOK, Becomes

\* A step under the lease that goes on: how the row may change.
LEMMA UnderLease ==
    ASSUME TypeOK, NEW w \in Workers, job[w].row \in Rows, Delivering(w),
           NEW j, Becomes(w, j), j.pc \notin {"idle"} \cup Before, SameWork(job[w], j),
           NEW q, row' = [row EXCEPT ![job[w].row] = q],
           q.content = row[job[w].row].content, q.lock = row[job[w].row].lock,
           q.status \in {"failed", "dead"} \/ q.status = row[job[w].row].status,
           \A x \in Rows \ {job[w].row} : ledger'[x] = ledger[x],
           \A x \in Rows, t \in Targets : got[x][t] \subseteq got'[x][t]
    PROVE  Frame(w) /\ RowEffect(w)
  <1>1. job'[w] = j /\ \A v \in Workers \ {w} : job'[v] = job[v]
    BY JobPointwise
  <1>2. row'[job[w].row] = q /\ \A x \in Rows \ {job[w].row} : row'[x] = row[x]
    BY Pointwise
  <1>3. Frame(w)
    BY <1>1, <1>2 DEF Frame
  <1>4. RowEffect(w)
    BY <1>1, <1>2 DEF RowEffect
  <1> QED BY <1>3, <1>4

\* The same when the row is left alone.
LEMMA UnderLeaseQuiet ==
    ASSUME TypeOK, NEW w \in Workers, job[w].row \in Rows, Delivering(w),
           NEW j, Becomes(w, j), j.pc \notin {"idle"} \cup Before, SameWork(job[w], j),
           row' = row,
           \A x \in Rows \ {job[w].row} : ledger'[x] = ledger[x],
           \A x \in Rows, t \in Targets : got[x][t] \subseteq got'[x][t]
    PROVE  Frame(w) /\ RowEffect(w)
  <1>1. job'[w] = j /\ \A v \in Workers \ {w} : job'[v] = job[v]
    BY JobPointwise
  <1>3. Frame(w)
    BY <1>1 DEF Frame
  <1>4. RowEffect(w)
    BY <1>1 DEF RowEffect
  <1> QED BY <1>3, <1>4

\* Every step of a task has one of these effects.
LEMMA StepEffect ==
    ASSUME TypeOK, NEW w \in Workers, Step(w) \/ Crash(w)
    PROVE  Frame(w) /\ RowEffect(w)
  <1> DEFINE r == job[w].row
             Quiet == row' = row /\ ledger' = ledger
             SameGot == got' = got
  <1>pc. job[w].pc # "idle"
    BY DEF Step, Crash, Reopen, Catalogue, ClaimRow, Open, List, AbandonAll, FailRow, Abandon,
           Notify, Record, Sync, Bury, MarkFailed, Check, Complete, Backoff
  <1>w. job[w] \in Job /\ r \in Rows /\ row[r] \in Row /\ ledger[r] \in [Indices -> Sink]
    BY <1>pc DEF TypeOK
  <1>i. Idle.pc = "idle"
    BY DEF Idle
  <1>1. CASE Reopen(w)
    <2>1. CASE row[r].status = "sent"
      <3>1. /\ job[w].pc = "reopen"
            /\ row' = [row EXCEPT ![r] = [row[r] EXCEPT !.status = "pending",
                             !.content = job[w].content, !.attempts = 0, !.due = job[w].now]]
            /\ ledger' = [ledger EXCEPT ![r] = [i \in Indices |-> ResetSink(ledger[r][i])]]
            /\ Becomes(w, [job[w] EXCEPT !.pc = "catalogue"]) /\ got' = got
        BY <1>1, <2>1, Zenon DEF Reopen, Goto
      <3>2. /\ job'[w].pc = "catalogue" /\ SameWork(job[w], job'[w])
            /\ \A v \in Workers \ {w} : job'[v] = job[v]
        BY <3>1, <1>w, JobPointwise DEF SameWork, Job
      <3>3. /\ row'[r] = [row[r] EXCEPT !.status = "pending",
                             !.content = job[w].content, !.attempts = 0, !.due = job[w].now]
            /\ \A x \in Rows \ {r} : row'[x] = row[x] /\ ledger'[x] = ledger[x]
        <4> DEFINE q == [row[r] EXCEPT !.status = "pending",
                             !.content = job[w].content, !.attempts = 0, !.due = job[w].now]
                   s == [i \in Indices |-> ResetSink(ledger[r][i])]
        <4>1. row' = [row EXCEPT ![r] = q] /\ ledger' = [ledger EXCEPT ![r] = s]
          BY <3>1
        <4> HIDE DEF q, s
        <4>2. row \in [Rows -> Row] /\ ledger \in [Rows -> [Indices -> Sink]] /\ r \in Rows
          BY <1>w DEF TypeOK
        <4>3. row'[r] = q /\ \A x \in Rows \ {r} : row'[x] = row[x] /\ ledger'[x] = ledger[x]
          BY <4>1, <4>2
        <4> QED BY <4>3 DEF q
      <3>5. \A i \in Indices : ledger'[r][i].status # "sent"
        <4> DEFINE s == [i \in Indices |-> ResetSink(ledger[r][i])]
        <4>1. ledger' = [ledger EXCEPT ![r] = s]
          BY <3>1
        <4>2. \A i \in Indices : ResetSink(ledger[r][i]).status # "sent"
          BY <1>w, SinkFields
        <4>3. \A i \in Indices : s[i].status # "sent"
          BY <4>2
        <4> HIDE DEF s
        <4>4. ledger'[r] = s
          BY <4>1, <1>w, Pointwise
        <4> QED BY <4>3, <4>4
      <3>4. row'[r].status = "pending" /\ row'[r].content = job[w].content
            /\ row'[r].lock = row[r].lock
        BY <3>3, <1>w DEF Row
      <3> QED BY <3>1, <3>2, <3>3, <3>4, <3>5, <2>1, <1>w DEF Frame, RowEffect
    <2>2. CASE row[r].status # "sent"
      <3>1. job[w].pc = "reopen" /\ Quiet /\ SameGot /\ Becomes(w, Idle)
        BY <1>1, <2>2 DEF Reopen, Stop
      <3> QED BY <3>1, <1>w, <1>i, JobPointwise DEF Frame, RowEffect, Before
    <2> QED BY <2>1, <2>2
  <1>2. CASE Catalogue(w)
    <2>1. job[w].pc = "catalogue" /\ Quiet /\ SameGot
      BY <1>2 DEF Catalogue
    <2>2. \/ job[w].now /\ Becomes(w, [job[w] EXCEPT !.pc = "claim"])
          \/ Becomes(w, Idle)
      BY <1>2 DEF Catalogue, Goto, Stop
    <2>3. /\ job'[w].pc = "idle" \/ (job[w].now /\ job'[w].pc = "claim" /\ SameWork(job[w], job'[w]))
          /\ \A v \in Workers \ {w} : job'[v] = job[v]
      BY <2>2, <1>w, <1>i, JobPointwise DEF SameWork, Job
    <2> QED BY <2>1, <2>3, <1>w DEF Frame, RowEffect, Before, Queued
  <1>3. CASE ClaimRow(w)
    <2>1. CASE Claimable(r)
      <3>1. /\ job[w].pc = "claim"
            /\ row' = [row EXCEPT ![r] = [row[r] EXCEPT !.lock = "lease"]]
            /\ ledger' = ledger /\ SameGot
            /\ Becomes(w, [job[w] EXCEPT !.pc = "open"])
        BY <1>3, <2>1 DEF ClaimRow, Goto
      <3>2. /\ job'[w].pc = "open" /\ SameWork(job[w], job'[w])
            /\ \A v \in Workers \ {w} : job'[v] = job[v]
        BY <3>1, <1>w, JobPointwise DEF SameWork, Job
      <3>3. /\ row'[r] = [row[r] EXCEPT !.lock = "lease"]
            /\ \A x \in Rows \ {r} : row'[x] = row[x]
        BY <3>1, <1>w, Pointwise
      <3>4. row'[r].lock = "lease" /\ row'[r].status = row[r].status
            /\ row'[r].content = row[r].content
        BY <3>3, <1>w DEF Row
      <3> QED BY <3>1, <3>2, <3>3, <3>4, <2>1, <1>w DEF Frame, RowEffect, Claimable
    <2>2. CASE ~Claimable(r)
      <3>1. job[w].pc = "claim" /\ Quiet /\ SameGot /\ Becomes(w, Idle)
        BY <1>3, <2>2 DEF ClaimRow, Stop
      <3> QED BY <3>1, <1>w, <1>i, JobPointwise DEF Frame, RowEffect, Before
    <2> QED BY <2>1, <2>2
  <1>4. CASE Open(w)
    <2>1. Delivering(w) /\ got' = got
      BY <1>4 DEF Open, Delivering
    <2>2. CASE Matching(notifier) = {}
      <3>1. /\ Becomes(w, [job[w] EXCEPT !.pc = "backoff", !.verdict = "failed"])
            /\ row' = [row EXCEPT ![r] = OneMoreFailure(row[r])] /\ ledger' = ledger
        BY <1>4, <2>2 DEF Open
      <3> DEFINE j == [job[w] EXCEPT !.pc = "backoff", !.verdict = "failed"]
                 q == OneMoreFailure(row[r])
      <3>2. j.pc = "backoff" /\ SameWork(job[w], j)
        BY <1>w DEF Job, SameWork
      <3>3. q.content = row[r].content /\ q.lock = row[r].lock /\ q.status \in {"failed", "dead"}
        BY <1>w, RowFailure
      <3> HIDE DEF j, q
      <3>4. Becomes(w, j) /\ row' = [row EXCEPT ![r] = q]
        BY <3>1 DEF j, q
      <3> QED BY <3>1, <3>2, <3>3, <3>4, <2>1, <1>w, UnderLease DEF Before
    <2>3. CASE Matching(notifier) # {}
      <3> DEFINE j == [job[w] EXCEPT !.pc = "list", !.snap = notifier]
      <3>1. Becomes(w, j) /\ row' = row
        BY <1>4, <2>3 DEF Open
      <3>2. j.pc = "list" /\ SameWork(job[w], j)
        BY <1>w DEF Job, SameWork
      <3>3. \A x \in Rows \ {r} : ledger'[x] = ledger[x]
        BY <1>4, <2>3, <1>w DEF Open, TypeOK
      <3> HIDE DEF j
      <3> QED BY <3>1, <3>2, <3>3, <2>1, <1>w, UnderLeaseQuiet DEF Before
    <2> QED BY <2>2, <2>3
  <1>5. CASE List(w)
    <2> DEFINE p == IF PendingSinks(r) = {} THEN "check"
                    ELSE IF PendingSinks(r) \cap Matching(job[w].snap) = {} THEN "abandonAll"
                    ELSE IF PendingSinks(r) \subseteq Matching(job[w].snap) THEN "sending"
                    ELSE "abandon"
               j == [job[w] EXCEPT !.pc = p, !.todo = PendingSinks(r)]
    <2>1. Delivering(w) /\ got' = got /\ row' = row /\ ledger' = ledger /\ Becomes(w, j)
      BY <1>5 DEF List, Delivering
    <2>2. p \notin {"idle"} \cup Before
      BY DEF Before
    <2> HIDE DEF p
    <2>3. j.pc = p /\ SameWork(job[w], j)
      BY <1>w DEF Job, SameWork
    <2> HIDE DEF j
    <2> QED BY <2>1, <2>2, <2>3, <1>w, UnderLeaseQuiet
  <1>6. CASE AbandonAll(w)
    <2> DEFINE j == [job[w] EXCEPT !.pc = "failRow", !.todo = {}, !.verdict = "failed"]
    <2>1. Delivering(w) /\ got' = got /\ row' = row /\ Becomes(w, j)
      BY <1>6 DEF AbandonAll, Delivering
    <2>2. j.pc = "failRow" /\ SameWork(job[w], j)
      BY <1>w DEF Job, SameWork
    <2>3. \A x \in Rows \ {r} : ledger'[x] = ledger[x]
      BY <1>6, <1>w DEF AbandonAll, TypeOK
    <2> HIDE DEF j
    <2> QED BY <2>1, <2>2, <2>3, <1>w, UnderLeaseQuiet DEF Before
  <1>7. CASE FailRow(w)
    <2> DEFINE j == [job[w] EXCEPT !.pc = "sync"]
               q == OneMoreFailure(row[r])
    <2>1. /\ Delivering(w) /\ got' = got /\ ledger' = ledger
          /\ row' = [row EXCEPT ![r] = q] /\ Becomes(w, j)
      BY <1>7 DEF FailRow, Delivering, Goto
    <2>2. j.pc = "sync" /\ SameWork(job[w], j)
      BY <1>w DEF Job, SameWork
    <2>3. q.content = row[r].content /\ q.lock = row[r].lock /\ q.status \in {"failed", "dead"}
      BY <1>w, RowFailure
    <2> HIDE DEF j, q
    <2> QED BY <2>1, <2>2, <2>3, <1>w, UnderLease DEF Before
  <1>8. CASE Abandon(w)
    <2> DEFINE j == [job[w] EXCEPT !.pc = "sending", !.todo = job[w].todo \cap Matching(job[w].snap)]
    <2>1. Delivering(w) /\ got' = got /\ row' = row /\ Becomes(w, j)
      BY <1>8 DEF Abandon, Delivering
    <2>2. j.pc = "sending" /\ SameWork(job[w], j)
      BY <1>w DEF Job, SameWork
    <2>3. \A x \in Rows \ {r} : ledger'[x] = ledger[x]
      BY <1>8, <1>w DEF Abandon, TypeOK
    <2> HIDE DEF j
    <2> QED BY <2>1, <2>2, <2>3, <1>w, UnderLeaseQuiet DEF Before
  <1>9. CASE \E res \in Results : Notify(w, res)
    <2>0. PICK res \in Results : Notify(w, res)
      BY <1>9
    <2> DEFINE j == [job[w] EXCEPT !.pc = "record", !.res = res, !.verdict = "ok"]
    <2>1. Delivering(w) /\ row' = row /\ ledger' = ledger /\ Becomes(w, j)
      BY <2>0 DEF Notify, Delivering
    <2>2. j.pc = "record" /\ SameWork(job[w], j)
      BY <1>w DEF Job, SameWork
    <2>3. \A x \in Rows, t \in Targets : got[x][t] \subseteq got'[x][t]
      BY <2>0, <1>w DEF Notify, TypeOK
    <2> HIDE DEF j
    <2> QED BY <2>1, <2>2, <2>3, <1>w, UnderLeaseQuiet DEF Before
  <1>10. CASE Record(w)
    <2>0. PICK i \in job[w].todo :
            /\ ledger' = [ledger EXCEPT ![r] = [ledger[r] EXCEPT ![i] =
                  IF job[w].res[i] = "ok" THEN [ledger[r][i] EXCEPT !.status = "sent"]
                  ELSE IF job[w].res[i] = "error" THEN OneMoreFailure(ledger[r][i])
                  ELSE ledger[r][i]]]
            /\ Becomes(w, [job[w] EXCEPT
                  !.pc = IF job[w].todo = {i} THEN "sync" ELSE "record",
                  !.todo = @ \ {i},
                  !.res = IF job[w].todo = {i} THEN NoResults ELSE @,
                  !.verdict = IF job[w].res[i] = "error" THEN "failed"
                              ELSE IF job[w].res[i] = "breaker" /\ @ = "ok" THEN "deferred"
                              ELSE @])
      BY <1>10 DEF Record
    <2> DEFINE p == IF job[w].todo = {i} THEN "sync" ELSE "record"
               q == IF job[w].todo = {i} THEN NoResults ELSE job[w].res
               v == IF job[w].res[i] = "error" THEN "failed"
                    ELSE IF job[w].res[i] = "breaker" /\ job[w].verdict = "ok" THEN "deferred"
                    ELSE job[w].verdict
               j == [job[w] EXCEPT !.pc = p, !.todo = job[w].todo \ {i}, !.res = q, !.verdict = v]
    <2>1. Delivering(w) /\ row' = row /\ got' = got
      BY <1>10 DEF Record, Delivering
    <2>2. Becomes(w, j)
      BY <2>0
    <2>3. p \notin {"idle"} \cup Before
      BY DEF Before
    <2> HIDE DEF p, q, v
    <2>4. j.pc = p /\ SameWork(job[w], j)
      BY <1>w DEF Job, SameWork
    <2>5. \A x \in Rows \ {r} : ledger'[x] = ledger[x]
      BY <2>0, <1>w DEF TypeOK
    <2> HIDE DEF j
    <2> QED BY <2>1, <2>2, <2>3, <2>4, <2>5, <1>w, UnderLeaseQuiet
  <1>11. CASE Sync(w) \/ Bury(w) \/ MarkFailed(w)
    <2>0. PICK p : /\ Goto(w, p)
                   /\ p \in {"markFailed", "bury", "check", "backoff"}
      BY <1>11 DEF Sync, Bury, MarkFailed, AfterSync
    <2> DEFINE j == [job[w] EXCEPT !.pc = p]
    <2>1. Delivering(w) /\ got' = got /\ ledger' = ledger /\ Becomes(w, j)
      BY <1>11, <2>0 DEF Sync, Bury, MarkFailed, Delivering, Goto
    <2>2. j.pc = p /\ SameWork(job[w], j)
      BY <1>w DEF Job, SameWork
    <2> HIDE DEF j
    <2>3. CASE row' = row
      BY <2>0, <2>1, <2>2, <2>3, <1>w, UnderLeaseQuiet DEF Before
    <2>4. CASE \E x \in {"dead", "failed"} : row' = [row EXCEPT ![r] = [row[r] EXCEPT !.status = x]]
      <3>1. PICK x \in {"dead", "failed"} : row' = [row EXCEPT ![r] = [row[r] EXCEPT !.status = x]]
        BY <2>4
      <3> DEFINE q == [row[r] EXCEPT !.status = x]
      <3>2. q.status = x /\ q.content = row[r].content /\ q.lock = row[r].lock
        BY <1>w DEF Row
      <3>3. row' = [row EXCEPT ![r] = q]
        BY <3>1
      <3> HIDE DEF q
      <3> QED BY <2>0, <2>1, <2>2, <3>2, <3>3, <1>w, UnderLease DEF Before
    <2>5. row' = row \/ \E x \in {"dead", "failed"} :
                            row' = [row EXCEPT ![r] = [row[r] EXCEPT !.status = x]]
      <3>1. CASE Sync(w) \/ Bury(w)
        BY <3>1 DEF Sync, Bury
      <3>2. CASE MarkFailed(w) /\ row[r].status \in Retryable
        BY <3>2 DEF MarkFailed
      <3>3. CASE MarkFailed(w) /\ row[r].status \notin Retryable
        <4>1. row' = [row EXCEPT ![r] = row[r]]
          BY <3>3 DEF MarkFailed
        <4>2. row \in [Rows -> Row]
          BY DEF TypeOK
        <4> QED BY <4>1, <4>2
      <3> QED BY <3>1, <3>2, <3>3, <1>11
    <2> QED BY <2>3, <2>4, <2>5
  <1>12. CASE Check(w)
    <2>1. Delivering(w) /\ got' = got /\ row' = row /\ ledger' = ledger
      BY <1>12 DEF Check, Delivering
    <2>2. PICK j : /\ Becomes(w, j)
                   /\ j.pc \notin {"idle"} \cup Before
                   /\ SameWork(job[w], j)
      <3> DEFINE p == IF job[w].verdict = "none" THEN "sync" ELSE "backoff"
                 k == [job[w] EXCEPT !.pc = "complete"]
                 l == [job[w] EXCEPT !.pc = p, !.verdict = "failed"]
      <3>1. Becomes(w, k) \/ Becomes(w, l)
        BY <1>12 DEF Check, Goto
      <3>2. p \notin {"idle"} \cup Before
        BY DEF Before
      <3> HIDE DEF p
      <3>3. k.pc \notin {"idle"} \cup Before /\ SameWork(job[w], k)
        BY <1>w DEF Job, SameWork, Before
      <3>4. l.pc \notin {"idle"} \cup Before /\ SameWork(job[w], l)
        BY <1>w, <3>2 DEF Job, SameWork
      <3> HIDE DEF k, l
      <3> QED BY <3>1, <3>3, <3>4
    <2> QED BY <2>1, <2>2, <1>w, UnderLeaseQuiet
  <1>13. CASE Complete(w)
    <2>1. Delivering(w) /\ job[w].pc = "complete" /\ got' = got /\ ledger' = ledger
      BY <1>13 DEF Complete, Delivering
    <2>2. CASE row[r].status \in Retryable
      <3> DEFINE q == [row[r] EXCEPT !.status = "sent"]
      <3>1. row' = [row EXCEPT ![r] = q] /\ Becomes(w, Idle)
        BY <1>13, <2>2 DEF Complete, Stop
      <3>2. q.status = "sent" /\ q.content = row[r].content /\ q.lock = row[r].lock
        BY <1>w DEF Row
      <3> HIDE DEF q
      <3>3. row'[r] = q /\ \A x \in Rows \ {r} : row'[x] = row[x]
        BY <3>1, <1>w, Pointwise
      <3>4. job'[w].pc = "idle" /\ \A v \in Workers \ {w} : job'[v] = job[v]
        BY <3>1, <1>i, JobPointwise
      <3> QED BY <2>1, <3>2, <3>3, <3>4, <1>w DEF Frame, RowEffect
    <2>3. CASE row[r].status \notin Retryable
      <3> DEFINE j == [job[w] EXCEPT !.pc = "backoff", !.verdict = "failed"]
      <3>1. row' = row /\ Becomes(w, j)
        BY <1>13, <2>3 DEF Complete
      <3>2. j.pc = "backoff" /\ SameWork(job[w], j)
        BY <1>w DEF Job, SameWork
      <3> HIDE DEF j
      <3> QED BY <2>1, <3>1, <3>2, <1>w, UnderLeaseQuiet DEF Before
    <2> QED BY <2>2, <2>3
  <1>14. CASE Backoff(w)
    <2> DEFINE n == IF job[w].verdict = "deferred" THEN row[r].attempts ELSE row[r].attempts + 1
               q == [row[r] EXCEPT !.lock = "backoff", !.attempts = n]
    <2>1. Delivering(w) /\ got' = got /\ ledger' = ledger /\ Becomes(w, Idle)
      BY <1>14 DEF Backoff, Delivering, Stop
    <2>2. row' = [row EXCEPT ![r] = q]
      BY <1>14 DEF Backoff
    <2> HIDE DEF n
    <2>3. q.status = row[r].status /\ q.content = row[r].content
      BY <1>w DEF Row
    <2> HIDE DEF q
    <2>4. row'[r] = q /\ \A x \in Rows \ {r} : row'[x] = row[x]
      BY <2>2, <1>w, Pointwise
    <2>5. job'[w].pc = "idle" /\ \A v \in Workers \ {w} : job'[v] = job[v]
      BY <2>1, <1>i, JobPointwise
    <2> QED BY <2>1, <2>3, <2>4, <2>5, <1>w DEF Frame, RowEffect
  <1>15. CASE Crash(w)
    <2>1. Quiet /\ SameGot /\ Becomes(w, Idle)
      BY <1>15 DEF Crash, Stop
    <2>2. job'[w].pc = "idle" /\ \A v \in Workers \ {w} : job'[v] = job[v]
      BY <2>1, <1>i, JobPointwise
    <2> QED BY <2>1, <2>2, <1>w, <1>pc DEF Frame, RowEffect, Delivering, Before
  <1> QED
    BY <1>1, <1>2, <1>3, <1>4, <1>5, <1>6, <1>7, <1>8, <1>9, <1>10, <1>11, <1>12,
       <1>13, <1>14, <1>15 DEF Step

----------------------------------------------------------------------------
(* The lease.                                                              *)

\* A step of one task leaves every task that delivers holding its lease, alone,
\* and every queued poll as MayClaim says.
LEMMA StepLease ==
    ASSUME IInv, NEW w \in Workers, Frame(w), RowEffect(w)
    PROVE  /\ ExclusiveDelivery'
           /\ \A v \in Workers : Delivering(v)' => HoldsLease(v)'
           /\ \A v \in Workers : Queued(v)' => MayClaim(v)'
  <1> DEFINE r == job[w].row
  <1>f. /\ r \in Rows
        /\ \A v \in Workers \ {w} : job'[v] = job[v]
        /\ job'[w].pc # "idle" => /\ job'[w].row = r /\ job'[w].content = job[w].content
                                  /\ job'[w].now = job[w].now
        /\ \A x \in Rows \ {r} : row'[x] = row[x]
    BY DEF Frame, SameWork
  <1>t. \A v \in Workers : /\ job[v].pc # "idle" => job[v].row \in Rows
    BY DEF IInv, TypeOK
  <1>l. /\ \A v \in Workers : Delivering(v) => HoldsLease(v)
        /\ \A v \in Workers : Queued(v) => MayClaim(v)
        /\ ExclusiveDelivery
    BY DEF IInv
  <1>d. ASSUME Delivering(w)', ~Delivering(w)
        PROVE  row[r].lock = "free"
    <2>1. job'[w].pc \notin {"idle", "catalogue", "claim"}
      BY <1>d DEF Delivering
    <2> QED BY <1>d, <2>1 DEF RowEffect
  <1>1. \A v \in Workers \ {w} : Delivering(v)' => Delivering(v) /\ HoldsLease(v)
    BY <1>f, <1>l DEF Delivering
  <1>2. \A v \in Workers \ {w} : Delivering(v)' /\ Delivering(w)' => job'[v].row # job'[w].row
    <2> SUFFICES ASSUME NEW v \in Workers \ {w}, Delivering(v)', Delivering(w)', job[v].row = r
                 PROVE  FALSE
      BY <1>f DEF Delivering
    <2>1. Delivering(v) /\ row[r].lock = "lease"
      BY <1>1 DEF HoldsLease
    <2>2. Delivering(w)
      BY <2>1, <1>d
    <2> QED BY <2>1, <2>2, <1>l DEF ExclusiveDelivery
  <1>3. ExclusiveDelivery'
    <2> SUFFICES ASSUME NEW u \in Workers, NEW v \in Workers, u # v,
                        Delivering(u)', Delivering(v)'
                 PROVE  job'[u].row # job'[v].row
      BY DEF ExclusiveDelivery
    <2>1. CASE u # w /\ v # w
      BY <2>1, <1>1, <1>f, <1>l DEF ExclusiveDelivery
    <2> QED BY <2>1, <1>2
  <1>4. \A v \in Workers \ {w} : Delivering(v) => HoldsLease(v)'
    <2> SUFFICES ASSUME NEW v \in Workers \ {w}, Delivering(v) PROVE HoldsLease(v)'
      OBVIOUS
    <2>1. HoldsLease(v) /\ job'[v] = job[v] /\ job[v].row \in Rows
      BY <1>l, <1>f, <1>t DEF Delivering
    <2>2. CASE job[v].row # r
      BY <2>1, <2>2, <1>f DEF HoldsLease
    <2>3. CASE job[v].row = r
      <3>1. ~Delivering(w)
        BY <2>3, <1>l DEF ExclusiveDelivery
      <3>2. row[r].lock = "lease" /\ row[r].status # "sent"
        BY <2>1, <2>3 DEF HoldsLease
      <3>3. row'[r] = row[r]
        BY <3>1, <3>2 DEF RowEffect
      <3> QED BY <2>1, <2>3, <3>3 DEF HoldsLease
    <2> QED BY <2>2, <2>3
  <1>5. Delivering(w)' => HoldsLease(w)'
    <2> SUFFICES ASSUME Delivering(w)' PROVE HoldsLease(w)'
      OBVIOUS
    <2>0. job'[w].row = r /\ job'[w].content = job[w].content
      BY <1>f DEF Delivering
    <2>1. CASE Delivering(w)
      <3>1. HoldsLease(w)
        BY <2>1, <1>l
      <3>2. /\ row'[r].content = row[r].content /\ row'[r].lock = row[r].lock
            /\ row'[r].status # "none" /\ row'[r].status # "sent"
        BY <2>1, <3>1 DEF RowEffect, Delivering, Before, HoldsLease
      <3> QED BY <2>0, <3>1, <3>2 DEF HoldsLease
    <2>2. CASE ~Delivering(w)
      <3>1. /\ job[w].pc = "claim" /\ row[r].lock = "free" /\ row[r].status \in Retryable
            /\ row'[r].lock = "lease" /\ row'[r].status = row[r].status
            /\ row'[r].content = row[r].content
        BY <2>2 DEF RowEffect, Delivering, Before
      <3>2. row[r].content = job[w].content
        BY <3>1, <1>l DEF Queued, MayClaim
      <3> QED BY <2>0, <3>1, <3>2 DEF HoldsLease, Retryable
    <2> QED BY <2>1, <2>2
  <1>6. \A v \in Workers \ {w} : Queued(v)' => MayClaim(v)'
    <2> SUFFICES ASSUME NEW v \in Workers \ {w}, Queued(v)' PROVE MayClaim(v)'
      OBVIOUS
    <2>1. job'[v] = job[v] /\ Queued(v) /\ MayClaim(v) /\ job[v].row \in Rows
      BY <1>f, <1>l, <1>t DEF Queued
    <2>2. CASE job[v].row # r
      <3>1. row'[job[v].row] = row[job[v].row]
        BY <2>1, <2>2, <1>f
      <3>2. \A u \in Workers : Delivering(u)' /\ job'[u].row = job[v].row
                               => Delivering(u) /\ job[u].row = job[v].row
        BY <2>2, <1>f, <1>1 DEF Delivering
      <3> QED BY <2>1, <3>1, <3>2 DEF MayClaim
    <2>3. CASE job[v].row = r
      <3>1. CASE row[r].content = job[v].content /\ row[r].status # "sent"
        <4>1. CASE row'[r].status # "sent"
          <5>1. row'[r].content = row[r].content /\ row'[r].status # "none"
            BY <3>1, <2>1, <2>3 DEF RowEffect, MayClaim
          <5> QED BY <2>1, <2>3, <3>1, <4>1, <5>1 DEF MayClaim
        <4>2. CASE row'[r].status = "sent"
          <5>1. /\ Delivering(w) /\ job'[w].pc = "idle"
                /\ row'[r].lock = row[r].lock
            BY <3>1, <4>2 DEF RowEffect, Retryable
          <5>2. row[r].lock = "lease"
            BY <5>1, <1>l DEF HoldsLease
          <5>3. \A u \in Workers : Delivering(u)' => job'[u].row # r
            BY <5>1, <1>1, <1>f, <1>l DEF ExclusiveDelivery, Delivering
          <5> QED BY <2>1, <2>3, <4>2, <5>1, <5>2, <5>3 DEF MayClaim
        <4> QED BY <4>1, <4>2
      <3>2. CASE /\ row[r].lock = "lease"
                 /\ \A u \in Workers : Delivering(u) => job[u].row # r
        <4>1. ~Delivering(w)
          BY <3>2
        <4>2. row'[r].lock = "lease" /\ row'[r].status # "none" /\ ~Delivering(w)'
          BY <4>1, <3>2, <2>1, <2>3 DEF RowEffect, MayClaim, Delivering, Before
        <4>3. \A u \in Workers : Delivering(u)' => job'[u].row # r
          BY <4>2, <3>2, <1>1, <1>f
        <4> QED BY <2>1, <2>3, <4>2, <4>3 DEF MayClaim
      <3> QED BY <3>1, <3>2, <2>1, <2>3 DEF MayClaim
    <2> QED BY <2>2, <2>3
  <1>7. Queued(w)' => MayClaim(w)'
    <2> SUFFICES ASSUME Queued(w)' PROVE MayClaim(w)'
      OBVIOUS
    <2>0. job'[w].row = r /\ job'[w].content = job[w].content
      BY <1>f DEF Queued
    <2>1. CASE job[w].pc = "reopen"
      BY <2>0, <2>1 DEF RowEffect, MayClaim, Queued, Delivering, Before
    <2>2. CASE job[w].pc # "reopen"
      <3>1. Queued(w) /\ row'[r] = row[r] /\ ~Delivering(w) /\ ~Delivering(w)'
        BY <2>2 DEF RowEffect, Queued, Delivering, Before
      <3>2. \A u \in Workers : Delivering(u)' => Delivering(u) /\ job'[u].row = job[u].row
        BY <3>1, <1>1, <1>f
      <3> QED BY <2>0, <3>1, <3>2, <1>l DEF MayClaim
    <2> QED BY <2>1, <2>2
  <1> QED BY <1>1, <1>3, <1>4, <1>5, <1>6, <1>7

----------------------------------------------------------------------------
(* The ledger.                                                             *)

\* An acknowledgement in a row's ledger is old or is the one Record writes.
Acknowledged(w) ==
    LET r == job[w].row
        j == job[w]
    IN  \A i \in Indices : ledger'[r][i].status = "sent" =>
             \/ ledger[r][i].status = "sent"
             \/ j.pc = "record" /\ i \in j.todo /\ j.res[i] = "ok"

\* Every step of a task acknowledges that way.
LEMMA StepAcknowledged ==
    ASSUME TypeOK, NEW w \in Workers, Step(w) \/ Crash(w)
    PROVE  Acknowledged(w)
  <1> DEFINE r == job[w].row
  <1>e. r \in Rows
    BY StepEffect DEF Frame
  <1>w. ledger[r] \in [Indices -> Sink] /\ job[w] \in Job
    BY <1>e DEF TypeOK
  <1>s. \A i \in Indices : ledger[r][i] \in Sink
    BY <1>w
  <1>k. \A i \in Indices : /\ ResetSink(ledger[r][i]).status # "sent"
                           /\ Abandoned(ledger[r][i]).status = "sent" => ledger[r][i].status = "sent"
    <2> SUFFICES ASSUME NEW i \in Indices
                 PROVE  /\ ResetSink(ledger[r][i]).status # "sent"
                        /\ Abandoned(ledger[r][i]).status = "sent" => ledger[r][i].status = "sent"
      OBVIOUS
    <2> QED BY <1>s DEF ResetSink, Abandoned, Retryable
  <1>1. CASE Reopen(w) /\ row[r].status = "sent"
    <2>1. ledger' = [ledger EXCEPT ![r] = [i \in Indices |-> ResetSink(ledger[r][i])]]
      BY <1>1 DEF Reopen
    <2>2. ledger'[r] = [i \in Indices |-> ResetSink(ledger[r][i])]
      BY <2>1, <1>e, Pointwise
    <2> QED BY <2>2, <1>k DEF Acknowledged
  <1>2. CASE ledger' = ledger
    BY <1>2 DEF Acknowledged
  <1>3. CASE Open(w) /\ ledger' # ledger
    <2> DEFINE s == [i \in Indices |->
                       IF i \in Matching(notifier) /\ ledger[r][i].status = "absent"
                       THEN [status |-> "pending", attempts |-> 0] ELSE ledger[r][i]]
    <2>1. ledger' = [ledger EXCEPT ![r] = s]
      BY <1>3 DEF Open
    <2>2. \A i \in Indices : s[i].status = "sent" => ledger[r][i].status = "sent"
      OBVIOUS
    <2> HIDE DEF s
    <2>3. ledger'[r] = s
      BY <2>1, <1>e, Pointwise
    <2> QED BY <2>2, <2>3 DEF Acknowledged
  <1>4. CASE AbandonAll(w)
    <2>1. ledger' = [ledger EXCEPT ![r] = [i \in Indices |-> Abandoned(ledger[r][i])]]
      BY <1>4 DEF AbandonAll
    <2>2. ledger'[r] = [i \in Indices |-> Abandoned(ledger[r][i])]
      BY <2>1, <1>e, Pointwise
    <2> QED BY <2>2, <1>k DEF Acknowledged
  <1>5. CASE Abandon(w)
    <2> DEFINE s == [i \in Indices |-> IF i \in job[w].todo \ Matching(job[w].snap)
                                       THEN Abandoned(ledger[r][i]) ELSE ledger[r][i]]
    <2>1. ledger' = [ledger EXCEPT ![r] = s]
      BY <1>5 DEF Abandon
    <2>2. \A i \in Indices : s[i].status = "sent" => ledger[r][i].status = "sent"
      BY <1>k
    <2> HIDE DEF s
    <2>3. ledger'[r] = s
      BY <2>1, <1>e, Pointwise
    <2> QED BY <2>2, <2>3 DEF Acknowledged
  <1>6. CASE Record(w)
    <2>0. PICK i \in job[w].todo :
            ledger' = [ledger EXCEPT ![r] = [ledger[r] EXCEPT ![i] =
                  IF job[w].res[i] = "ok" THEN [ledger[r][i] EXCEPT !.status = "sent"]
                  ELSE IF job[w].res[i] = "error" THEN OneMoreFailure(ledger[r][i])
                  ELSE ledger[r][i]]]
      BY <1>6 DEF Record
    <2> DEFINE s == IF job[w].res[i] = "ok" THEN [ledger[r][i] EXCEPT !.status = "sent"]
                    ELSE IF job[w].res[i] = "error" THEN OneMoreFailure(ledger[r][i])
                    ELSE ledger[r][i]
    <2>1. ledger' = [ledger EXCEPT ![r] = [ledger[r] EXCEPT ![i] = s]]
      BY <2>0
    <2>2. i \in Indices /\ ledger[r][i] \in Sink
      BY <1>w, JobFields
    <2>6. OneMoreFailure(ledger[r][i]).status # "sent"
      BY <2>2, SinkFields
    <2>3. s.status = "sent" => ledger[r][i].status = "sent" \/ job[w].res[i] = "ok"
      BY <2>6
    <2> HIDE DEF s
    <2>4. ledger'[r] = [ledger[r] EXCEPT ![i] = s]
      BY <2>1, <1>e, Pointwise
    <2>5. job[w].pc = "record"
      BY <1>6 DEF Record
    <2> QED BY <2>2, <2>3, <2>4, <2>5, <1>w DEF Acknowledged
  <1> QED
    BY <1>1, <1>2, <1>3, <1>4, <1>5, <1>6
    DEF Step, Crash, Reopen, Catalogue, ClaimRow, Open, List, FailRow, Notify,
        Sync, Bury, MarkFailed, Check, Complete, Backoff

\* What the configuration says of an index, as the steps below use it.
LEMMA NotifierTypes ==
    ASSUME NEW n \in Notifiers, NEW i \in Indices
    PROVE  n[i] # NoTarget => n[i] \in Targets
  BY OutboxAssumption

\* A step of a task keeps every ledger truthful and settled.
LEMMA StepLedgers ==
    ASSUME IInv, NEW w \in Workers, Frame(w), RowEffect(w), Acknowledged(w)
    PROVE  \A x \in Rows : Ledgers(x)'
  <1>r. PICK r \in Rows : r = job[w].row
    BY DEF Frame
  <1>g. \A x \in Rows, t \in Targets : got[x][t] \subseteq got'[x][t]
    BY DEF Frame
  <1>1. ASSUME NEW x \in Rows, x # r PROVE Ledgers(x)'
    <2>1. row'[x] = row[x] /\ ledger'[x] = ledger[x] /\ Ledgers(x)
      BY <1>1, <1>r DEF Frame, IInv
    <2>2. StableIndices => Receipts(x)'
      BY <2>1, <1>g, NotifierTypes DEF Ledgers, Receipts
    <2> QED BY <2>1, <2>2 DEF Ledgers, SinksComplete
  <1>2. Ledgers(r)
    BY DEF IInv
  <1>h. Delivering(w) => HoldsLease(w) /\ KnowsSinks(w)
    BY DEF IInv
  <1>3. row'[r].status = "none" => \A i \in Indices : ledger'[r][i].status = "absent"
    BY <1>r, <1>2, <1>h DEF RowEffect, HoldsLease, Retryable, Ledgers
  <1>4. row'[r].status = "sent" => SinksComplete(r)'
    <2> SUFFICES ASSUME row'[r].status = "sent" PROVE SinksComplete(r)'
      OBVIOUS
    <2>1. CASE Delivering(w)
      <3>1. job[w].pc = "complete" /\ ledger'[r] = ledger[r]
        BY <1>r, <2>1, <1>h DEF RowEffect, HoldsLease, Delivering, Before
      <3> QED BY <3>1, <2>1, <1>h, <1>r DEF KnowsSinks, SinksComplete
    <2>2. CASE ~Delivering(w)
      <3>1. row[r].status = "sent" /\ ledger'[r] = ledger[r]
        BY <1>r, <2>2 DEF RowEffect, Retryable
      <3> QED BY <3>1, <1>2 DEF Ledgers, SinksComplete
    <2> QED BY <2>1, <2>2
  <1>5. ASSUME StableIndices, NEW i \in Indices, ledger'[r][i].status = "sent",
               NEW n \in Notifiers, n[i] # NoTarget
        PROVE  row'[r].content \in got'[r][n[i]]
    <2>1. row'[r].content = row[r].content
      BY <1>r, <1>5 DEF RowEffect
    <2>2. n[i] \in Targets
      BY <1>5, NotifierTypes
    <2>3. CASE ledger[r][i].status = "sent"
      BY <2>1, <2>2, <2>3, <1>2, <1>5, <1>g DEF Ledgers, Receipts
    <2>4. CASE job[w].pc = "record" /\ i \in job[w].todo /\ job[w].res[i] = "ok"
      <3>1. HoldsLease(w) /\ KnowsSinks(w)
        BY <2>4, <1>h DEF Delivering
      <3>2. /\ job[w].snap \in Notifiers /\ job[w].snap[i] # NoTarget
            /\ job[w].content \in got[r][job[w].snap[i]]
        BY <1>r, <2>4, <3>1 DEF KnowsSinks, Matching
      <3>3. job[w].snap[i] = n[i]
        BY <3>2, <1>5 DEF StableIndices
      <3> QED BY <2>1, <2>2, <3>1, <3>2, <3>3, <1>r, <1>g DEF HoldsLease
    <2> QED BY <1>r, <2>3, <2>4, <1>5 DEF Acknowledged
  <1>6. Ledgers(r)'
    <2>1. StableIndices => Receipts(r)'
      BY <1>5 DEF Receipts
    <2> QED BY <1>3, <1>4, <2>1 DEF Ledgers
  <1> QED BY <1>1, <1>6

\* What the other tasks know of their sinks survives a step of one.
LEMMA StepOthersKnow ==
    ASSUME IInv, NEW w \in Workers, Frame(w), RowEffect(w),
           NEW v \in Workers \ {w}, Delivering(v)'
    PROVE  KnowsSinks(v)'
  <1>1. job'[v] = job[v] /\ Delivering(v) /\ job[v] \in Job /\ job[v].row \in Rows
    BY DEF Frame, IInv, TypeOK, Delivering
  <1>2. HoldsLease(v) /\ KnowsSinks(v)
    BY <1>1 DEF IInv
  <1>3. ledger'[job[v].row] = ledger[job[v].row]
    <2>1. CASE job[v].row # job[w].row
      BY <2>1, <1>1 DEF Frame
    <2>2. CASE job[v].row = job[w].row
      <3>1. ~Delivering(w)
        BY <2>2, <1>1 DEF IInv, ExclusiveDelivery
      <3> QED BY <3>1, <2>2, <1>2 DEF RowEffect, HoldsLease
    <2> QED BY <2>1, <2>2
  <1>4. ASSUME job[v].pc = "record", NEW i \in job[v].todo, job[v].res[i] = "ok"
        PROVE  job[v].content \in got'[job[v].row][job[v].snap[i]]
    <2>1. /\ i \in Indices /\ job[v].snap \in Notifiers /\ job[v].snap[i] # NoTarget
          /\ job[v].content \in got[job[v].row][job[v].snap[i]]
      BY <1>1, <1>2, <1>4 DEF KnowsSinks, Matching
    <2>2. job[v].snap[i] \in Targets
      BY <2>1, NotifierTypes
    <2> QED BY <2>1, <2>2, <1>1 DEF Frame
  <1> QED
    BY <1>1, <1>2, <1>3, <1>4 DEF KnowsSinks, SinksComplete

\* At these steps a task relies on nothing it knew.
LEMMA KnowsNothing ==
    ASSUME NEW w \in Workers,
           job'[w].pc \notin {"list", "abandonAll", "abandon", "sending", "record", "complete"}
    PROVE  KnowsSinks(w)'
  BY DEF KnowsSinks

\* What a task knows of its sinks after its own step.
LEMMA StepKnows ==
    ASSUME IInv, NEW w \in Workers, Step(w) \/ Crash(w), Delivering(w)'
    PROVE  KnowsSinks(w)'
  <1>t. TypeOK
    BY DEF IInv
  <1>f. Frame(w) /\ RowEffect(w)
    BY <1>t, StepEffect
  <1>r. PICK r \in Rows : r = job[w].row
    BY <1>f DEF Frame
  <1>w. job[w] \in Job /\ job[w].row = r /\ ledger[r] \in [Indices -> Sink]
    BY <1>t, <1>r DEF TypeOK
  <1>k. Delivering(w) => KnowsSinks(w)
    BY DEF IInv
  <1>p. job'[w].pc \notin {"idle", "reopen", "catalogue", "claim"}
    BY DEF Delivering
  <1>1. CASE Reopen(w) \/ Catalogue(w) \/ Crash(w)
    <2>1. \E j \in {[job[w] EXCEPT !.pc = "catalogue"], [job[w] EXCEPT !.pc = "claim"], Idle} :
             Becomes(w, j)
      BY <1>1 DEF Reopen, Catalogue, Crash, Goto, Stop
    <2>2. job'[w].pc \in {"catalogue", "claim", "idle"}
      BY <2>1, <1>w, <1>t, JobPointwise DEF Job, Idle
    <2> QED BY <2>2, <1>p
  <1>2. CASE ClaimRow(w)
    <2>1. job[w].pc = "claim" /\ ~Delivering(w)
      BY <1>2 DEF ClaimRow, Delivering
    <2>2. job'[w].pc = "open"
      BY <2>1, <1>f, <1>p DEF RowEffect
    <2> QED BY <2>2, KnowsNothing
  <1>3. CASE Open(w)
    <2>1. CASE Matching(notifier) = {}
      <3> DEFINE j == [job[w] EXCEPT !.pc = "backoff", !.verdict = "failed"]
      <3>1. Becomes(w, j)
        BY <1>3, <2>1 DEF Open
      <3>2. j.pc = "backoff"
        BY <1>w DEF Job
      <3> HIDE DEF j
      <3>3. job'[w] = j
        BY <3>1, <1>t, JobPointwise
      <3> QED BY <3>2, <3>3, KnowsNothing
    <2>2. CASE Matching(notifier) # {}
      <3> DEFINE j == [job[w] EXCEPT !.pc = "list", !.snap = notifier]
      <3>1. Becomes(w, j)
        BY <1>3, <2>2 DEF Open
      <3>2. j.pc = "list" /\ j.snap = notifier
        BY <1>w DEF Job
      <3> HIDE DEF j
      <3>3. job'[w] = j
        BY <3>1, <1>t, JobPointwise
      <3> QED BY <3>2, <3>3, <1>t DEF KnowsSinks, TypeOK
    <2> QED BY <2>1, <2>2
  <1>4. CASE List(w)
    <2> DEFINE P == PendingSinks(job[w].row)
               M == Matching(job[w].snap)
               p == IF P = {} THEN "check"
                    ELSE IF P \cap M = {} THEN "abandonAll"
                    ELSE IF P \subseteq M THEN "sending"
                    ELSE "abandon"
               j == [job[w] EXCEPT !.pc = p, !.todo = P]
    <2>1. job[w].pc = "list" /\ Becomes(w, j) /\ ledger' = ledger
      BY <1>4 DEF List
    <2>2. /\ p \in {"check", "abandonAll", "sending", "abandon"}
          /\ p = "sending" => P \subseteq M
      OBVIOUS
    <2>3. \A i \in P : ledger[r][i].status \in Retryable
      BY <1>w DEF PendingSinks
    <2> HIDE DEF p, P
    <2>4. j.pc = p /\ j.todo = P /\ j.snap = job[w].snap /\ j.row = r
      BY <1>w DEF Job
    <2> HIDE DEF j
    <2>5. job'[w] = j
      BY <2>1, <1>t, JobPointwise
    <2>6. job[w].snap \in Notifiers
      BY <2>1, <1>k DEF Delivering, KnowsSinks
    <2> QED BY <2>1, <2>2, <2>3, <2>4, <2>5, <2>6 DEF KnowsSinks
  <1>5. CASE AbandonAll(w) \/ FailRow(w)
    <2> DEFINE j == [job[w] EXCEPT !.pc = "failRow", !.todo = {}, !.verdict = "failed"]
               k == [job[w] EXCEPT !.pc = "sync"]
    <2>1. Becomes(w, j) \/ Becomes(w, k)
      BY <1>5 DEF AbandonAll, FailRow, Goto
    <2>2. j.pc = "failRow" /\ k.pc = "sync"
      BY <1>w DEF Job
    <2> HIDE DEF j, k
    <2>3. job'[w] = j \/ job'[w] = k
      BY <2>1, <1>t, JobPointwise
    <2> QED BY <2>2, <2>3, KnowsNothing
  <1>6. CASE Abandon(w)
    <2> DEFINE M == Matching(job[w].snap)
               j == [job[w] EXCEPT !.pc = "sending", !.todo = job[w].todo \cap M]
               s == [i \in Indices |-> IF i \in job[w].todo \ M
                                       THEN Abandoned(ledger[r][i]) ELSE ledger[r][i]]
    <2>1. job[w].pc = "abandon" /\ Becomes(w, j) /\ ledger' = [ledger EXCEPT ![r] = s]
      BY <1>6, <1>w DEF Abandon
    <2>2. KnowsSinks(w)
      BY <2>1, <1>k DEF Delivering
    <2>3. /\ j.pc = "sending" /\ j.todo = job[w].todo \cap M
          /\ j.snap = job[w].snap /\ j.row = r
      BY <1>w DEF Job
    <2>4. \A i \in job[w].todo \cap M : s[i].status \in Retryable
      BY <2>1, <2>2, <1>w DEF KnowsSinks, Job
    <2> HIDE DEF j, s
    <2>5. job'[w] = j /\ ledger'[r] = s
      BY <2>1, <1>t, JobPointwise, Pointwise
    <2> QED BY <2>1, <2>2, <2>3, <2>4, <2>5 DEF KnowsSinks
  <1>7. CASE \E res \in Results : Notify(w, res)
    <2>0. PICK res \in Results : Notify(w, res)
      BY <1>7
    <2> DEFINE j == [job[w] EXCEPT !.pc = "record", !.res = res, !.verdict = "ok"]
    <2>1. job[w].pc = "sending" /\ Becomes(w, j) /\ ledger' = ledger
      BY <2>0 DEF Notify
    <2>2. KnowsSinks(w)
      BY <2>1, <1>k DEF Delivering
    <2>3. /\ j.pc = "record" /\ j.res = res /\ j.content = job[w].content
          /\ j.todo = job[w].todo /\ j.snap = job[w].snap /\ j.row = r
      BY <1>w DEF Job
    <2> HIDE DEF j
    <2>4. job'[w] = j
      BY <2>1, <1>t, JobPointwise
    <2>5. ASSUME NEW i \in job[w].todo, res[i] = "ok"
          PROVE  job[w].content \in got'[r][job[w].snap[i]]
      <3>1. i \in Indices /\ job[w].snap \in Notifiers /\ job[w].snap[i] # NoTarget
        BY <2>1, <2>2, <2>5, <1>w DEF KnowsSinks, Matching, Job
      <3>2. job[w].snap[i] \in Targets
        BY <3>1, NotifierTypes
      <3>3. got \in [Rows -> [Targets -> SUBSET (Contents \cup {NoContent})]]
        BY <1>t DEF TypeOK
      <3> QED BY <2>0, <2>5, <3>2, <3>3, <1>w DEF Notify
    <2> QED BY <2>1, <2>2, <2>3, <2>4, <2>5, <1>w DEF KnowsSinks
  <1>8. CASE Record(w)
    <2>0. PICK i \in job[w].todo :
            /\ \E s : ledger' = [ledger EXCEPT ![r] = [ledger[r] EXCEPT ![i] = s]]
            /\ Becomes(w, [job[w] EXCEPT
                  !.pc = IF job[w].todo = {i} THEN "sync" ELSE "record",
                  !.todo = @ \ {i},
                  !.res = IF job[w].todo = {i} THEN NoResults ELSE @,
                  !.verdict = IF job[w].res[i] = "error" THEN "failed"
                              ELSE IF job[w].res[i] = "breaker" /\ @ = "ok" THEN "deferred"
                              ELSE @])
      BY <1>8, <1>r DEF Record
    <2> DEFINE p == IF job[w].todo = {i} THEN "sync" ELSE "record"
               q == IF job[w].todo = {i} THEN NoResults ELSE job[w].res
               v == IF job[w].res[i] = "error" THEN "failed"
                    ELSE IF job[w].res[i] = "breaker" /\ job[w].verdict = "ok" THEN "deferred"
                    ELSE job[w].verdict
               j == [job[w] EXCEPT !.pc = p, !.todo = job[w].todo \ {i}, !.res = q, !.verdict = v]
    <2>1. job[w].pc = "record" /\ got' = got
      BY <1>8 DEF Record
    <2>2. Becomes(w, j)
      BY <2>0
    <2>3. p = "sync" \/ (p = "record" /\ q = job[w].res)
      OBVIOUS
    <2> HIDE DEF p, q, v
    <2>4. /\ j.pc = p /\ j.todo = job[w].todo \ {i} /\ j.res = q
          /\ j.snap = job[w].snap /\ j.row = r /\ j.content = job[w].content
      BY <1>w DEF Job
    <2> HIDE DEF j
    <2>5. job'[w] = j
      BY <2>2, <1>t, JobPointwise
    <2>6. KnowsSinks(w)
      BY <2>1, <1>k DEF Delivering
    <2>7. ASSUME NEW k \in job[w].todo \ {i} PROVE ledger'[r][k] = ledger[r][k]
      <3>1. PICK s : ledger' = [ledger EXCEPT ![r] = [ledger[r] EXCEPT ![i] = s]]
        BY <2>0
      <3>2. ledger'[r] = [ledger[r] EXCEPT ![i] = s]
        BY <3>1, <1>t, Pointwise
      <3> QED BY <3>2, <1>w DEF Job
    <2> QED BY <2>1, <2>3, <2>4, <2>5, <2>6, <2>7, <1>w DEF KnowsSinks
  <1>9. CASE Sync(w) \/ Bury(w) \/ MarkFailed(w)
    <2>1. PICK p \in {"markFailed", "bury", "check", "backoff"} :
             Becomes(w, [job[w] EXCEPT !.pc = p])
      BY <1>9 DEF Sync, Bury, MarkFailed, AfterSync, Goto
    <2>2. job'[w].pc = p
      BY <2>1, <1>w, <1>t, JobPointwise DEF Job
    <2> QED BY <2>2, KnowsNothing
  <1>10. CASE Check(w)
    <2>1. CASE SinksComplete(job[w].row)
      <3>1. Becomes(w, [job[w] EXCEPT !.pc = "complete"]) /\ ledger' = ledger
        BY <1>10, <2>1 DEF Check, Goto
      <3>2. job'[w].pc = "complete" /\ job'[w].row = r
        BY <3>1, <1>w, <1>t, JobPointwise DEF Job
      <3> QED BY <2>1, <3>1, <3>2, <1>w DEF KnowsSinks, SinksComplete
    <2>2. CASE ~SinksComplete(job[w].row)
      <3>1. PICK p \in {"sync", "backoff"} :
               Becomes(w, [job[w] EXCEPT !.pc = p, !.verdict = "failed"])
        BY <1>10, <2>2 DEF Check
      <3> DEFINE j == [job[w] EXCEPT !.pc = p, !.verdict = "failed"]
      <3>2. j.pc = p
        BY <1>w DEF Job
      <3> HIDE DEF j
      <3>3. job'[w] = j
        BY <3>1, <1>t, JobPointwise DEF j
      <3> QED BY <3>2, <3>3, KnowsNothing
    <2> QED BY <2>1, <2>2
  <1>11. CASE Complete(w) \/ Backoff(w)
    <2> DEFINE j == [job[w] EXCEPT !.pc = "backoff", !.verdict = "failed"]
    <2>1. Becomes(w, j) \/ Becomes(w, Idle)
      BY <1>11 DEF Complete, Backoff, Stop
    <2>2. j.pc = "backoff" /\ Idle.pc = "idle"
      BY <1>w DEF Job, Idle
    <2> HIDE DEF j
    <2>3. job'[w] = j \/ job'[w] = Idle
      BY <2>1, <1>t, JobPointwise
    <2> QED BY <2>2, <2>3, KnowsNothing
  <1> QED
    BY <1>1, <1>2, <1>3, <1>4, <1>5, <1>6, <1>7, <1>8, <1>9, <1>10, <1>11 DEF Step

----------------------------------------------------------------------------
(* The steps that belong to no attempt.                                    *)

\* A row the clock, the sweep, the operator or retention may leave: it keeps its
\* content, ledger and lease and at most dies, or nobody works on it.
RowKept(x) ==
    \/ /\ ledger'[x] = ledger[x]
       /\ row'[x].content = row[x].content
       /\ row[x].lock = "lease" => row'[x].lock = "lease"
       /\ \/ row'[x].status = row[x].status
          \/ row[x].status \in Retryable /\ row'[x].status = "dead"
    \/ /\ \A v \in Workers : ~WorksOn(v, x)
       /\ Ledgers(x)'

\* Such steps preserve the invariant.
LEMMA KeptKeeps ==
    ASSUME IInv, TypeOK', job' = job, got' = got, \A x \in Rows : RowKept(x)
    PROVE  IInv'
  <1>1. \A v \in Workers : job[v].pc # "idle" => job[v].row \in Rows /\ WorksOn(v, job[v].row)
    BY DEF IInv, TypeOK, WorksOn
  <1>2. ExclusiveDelivery'
    BY DEF IInv, ExclusiveDelivery, Delivering
  <1>3. ASSUME NEW v \in Workers, Delivering(v)'
        PROVE  HoldsLease(v)' /\ KnowsSinks(v)'
    <2>1. Delivering(v) /\ HoldsLease(v) /\ KnowsSinks(v)
      BY <1>3 DEF IInv, Delivering
    <2>2. job[v].row \in Rows /\ WorksOn(v, job[v].row)
      BY <2>1, <1>1 DEF Delivering
    <2>3. /\ ledger'[job[v].row] = ledger[job[v].row]
          /\ row'[job[v].row].content = row[job[v].row].content
          /\ row'[job[v].row].lock = "lease"
          /\ row'[job[v].row].status \notin {"none", "sent"}
      BY <2>1, <2>2 DEF RowKept, HoldsLease
    <2>4. HoldsLease(v)'
      BY <2>1, <2>3 DEF HoldsLease
    <2>5. KnowsSinks(v)'
      BY <2>1, <2>3 DEF KnowsSinks, SinksComplete
    <2> QED BY <2>4, <2>5
  <1>4. ASSUME NEW v \in Workers, Queued(v)'
        PROVE  MayClaim(v)'
    <2>1. Queued(v) /\ MayClaim(v)
      BY <1>4 DEF IInv, Queued
    <2>2. job[v].row \in Rows /\ WorksOn(v, job[v].row)
      BY <2>1, <1>1 DEF Queued
    <2>3. /\ row'[job[v].row].content = row[job[v].row].content
          /\ row[job[v].row].lock = "lease" => row'[job[v].row].lock = "lease"
          /\ \/ row'[job[v].row].status = row[job[v].row].status
             \/ row'[job[v].row].status = "dead"
      BY <2>2 DEF RowKept
    <2> QED BY <2>1, <2>3 DEF MayClaim, Delivering
  <1>5. ASSUME NEW x \in Rows PROVE Ledgers(x)'
    <2>1. Ledgers(x)
      BY DEF IInv
    <2> QED BY <2>1 DEF RowKept, Ledgers, Receipts, SinksComplete
  <1> QED BY <1>2, <1>3, <1>4, <1>5 DEF IInv

\* A poll enqueues a release: a new row has no ledger and nobody works on it.
LEMMA EnqueueKeeps ==
    ASSUME IInv, TypeOK', NEW w \in Pollers, NEW r \in Rows, NEW c \in Contents,
           NEW due \in BOOLEAN, Enqueue(w, r, c, due)
    PROVE  IInv'
  <1> DEFINE a == [Idle EXCEPT !.pc = "catalogue", !.row = r, !.content = c, !.now = due]
             b == [Idle EXCEPT !.pc = "catalogue", !.row = r, !.content = c, !.now = FALSE]
             d == [Idle EXCEPT !.pc = "reopen", !.row = r, !.content = c, !.now = due]
             q == [NoRecord EXCEPT !.status = "pending", !.content = c, !.due = due]
  <1>t. TypeOK /\ w \in Workers
    BY DEF IInv, Workers
  <1>1. /\ ledger' = ledger /\ got' = got
        /\ \/ row[r].status = "none" /\ Becomes(w, a) /\ row' = [row EXCEPT ![r] = q]
           \/ row' = row /\ Becomes(w, b)
           \/ row' = row /\ Becomes(w, d)
    BY DEF Enqueue
  <1>2. /\ a.pc = "catalogue" /\ a.row = r /\ a.content = c
        /\ b.pc = "catalogue" /\ b.row = r /\ b.content = c /\ b.now = FALSE
        /\ d.pc = "reopen" /\ d.row = r /\ d.content = c
    BY DEF Idle
  <1>3. q.status = "pending" /\ q.content = c
    BY DEF NoRecord
  <1> HIDE DEF a, b, d, q
  <1>4. \A v \in Workers \ {w} : job'[v] = job[v]
    BY <1>1, <1>t, JobPointwise
  <1>5. job'[w].pc \in {"catalogue", "reopen"} /\ job'[w].row = r /\ job'[w].content = c
    <2>1. job'[w] = a \/ job'[w] = b \/ job'[w] = d
      BY <1>1, <1>t, JobPointwise
    <2> QED BY <2>1, <1>2
  <1>6. \A v \in Workers : Delivering(v)' => v # w /\ Delivering(v) /\ job'[v] = job[v]
    BY <1>4, <1>5 DEF Delivering
  <1>7. \A v \in Workers \ {w} : Queued(v)' => Queued(v)
    BY <1>4 DEF Queued
  <1>r. \A v \in Workers : job[v].pc # "idle" => job[v].row \in Rows
    BY <1>t DEF TypeOK
  <1>8. /\ \A x \in Rows : x # r => row'[x] = row[x]
        /\ row' = row \/ (row[r].status = "none" /\ row'[r] = q)
    <2>1. CASE row' = row
      BY <2>1
    <2>2. CASE row[r].status = "none" /\ row' = [row EXCEPT ![r] = q]
      BY <2>2, <1>t, Pointwise
    <2> QED BY <2>1, <2>2, <1>1
  <1>9. /\ \A v \in Workers : Delivering(v) => row'[job[v].row] = row[job[v].row]
        /\ \A v \in Workers : Queued(v) => row'[job[v].row] = row[job[v].row]
    <2>1. CASE row[r].status = "none"
      <3>1. \A v \in Workers : Delivering(v) \/ Queued(v) => job[v].row # r /\ job[v].row \in Rows
        BY <2>1, <1>r DEF IInv, HoldsLease, MayClaim, Delivering, Queued
      <3> QED BY <3>1, <1>8
    <2>2. CASE row[r].status # "none"
      BY <1>1, <2>2
    <2> QED BY <2>1, <2>2
  <1>10. ExclusiveDelivery'
    BY <1>6 DEF IInv, ExclusiveDelivery
  <1>11. ASSUME NEW v \in Workers, Delivering(v)'
         PROVE  HoldsLease(v)' /\ KnowsSinks(v)'
    <2>1. Delivering(v) /\ HoldsLease(v) /\ KnowsSinks(v) /\ job'[v] = job[v]
          /\ row'[job[v].row] = row[job[v].row]
      BY <1>11, <1>6, <1>9 DEF IInv
    <2> QED BY <2>1, <1>1 DEF HoldsLease, KnowsSinks, SinksComplete
  <1>12. ASSUME NEW v \in Workers \ {w}, Queued(v)'
         PROVE  MayClaim(v)'
    <2>1. MayClaim(v) /\ job'[v] = job[v] /\ row'[job[v].row] = row[job[v].row]
      BY <1>12, <1>4, <1>7, <1>9 DEF IInv
    <2> QED BY <2>1, <1>6 DEF MayClaim
  <1>13. Queued(w)' => MayClaim(w)'
    <2> SUFFICES ASSUME Queued(w)' PROVE MayClaim(w)'
      OBVIOUS
    <2>1. job'[w].now /\ job'[w].pc = "catalogue"
      BY <1>5 DEF Queued
    <2>2. job'[w] # b /\ job'[w] # d
      BY <2>1, <1>2
    <2>3. row' = [row EXCEPT ![r] = q]
      BY <2>2, <1>1, <1>t, JobPointwise
    <2>4. row'[r] = q
      BY <2>3, <1>t, Pointwise
    <2> QED BY <2>4, <1>3, <1>5 DEF MayClaim
  <1>14. ASSUME NEW x \in Rows PROVE Ledgers(x)'
    <2>1. Ledgers(x)
      BY DEF IInv
    <2>2. CASE row'[x] = row[x]
      BY <2>1, <2>2, <1>1 DEF Ledgers, Receipts, SinksComplete
    <2>3. CASE row'[x] # row[x]
      <3>1. x = r /\ row[r].status = "none" /\ row'[r] = q
        BY <2>3, <1>8
      <3> QED BY <3>1, <2>1, <1>1, <1>3 DEF Ledgers, Receipts
    <2> QED BY <2>2, <2>3
  <1> QED BY <1>10, <1>11, <1>12, <1>13, <1>14 DEF IInv

\* A flush claims a row nobody delivers, with the content the row holds.
LEMMA ClaimBatchKeeps ==
    ASSUME IInv, TypeOK', NEW w \in Flushers, NEW r \in Rows, ClaimBatch(w, r)
    PROVE  IInv'
  <1> DEFINE j == [Idle EXCEPT !.pc = "open", !.row = r, !.content = row[r].content]
             q == [row[r] EXCEPT !.lock = "lease"]
  <1>t. TypeOK /\ w \in Workers /\ row[r] \in Row
    BY DEF IInv, Workers, TypeOK
  <1>1. /\ ledger' = ledger /\ got' = got /\ Becomes(w, j) /\ row' = [row EXCEPT ![r] = q]
        /\ row[r].lock = "free" /\ row[r].status \in Retryable
    BY DEF ClaimBatch, Claimable
  <1>2. j.pc = "open" /\ j.row = r /\ j.content = row[r].content
    BY DEF Idle
  <1>3. q.lock = "lease" /\ q.status = row[r].status /\ q.content = row[r].content
    BY <1>t DEF Row
  <1> HIDE DEF j, q
  <1>4. job'[w] = j /\ \A v \in Workers \ {w} : job'[v] = job[v]
    BY <1>1, <1>t, JobPointwise
  <1>5. row'[r] = q /\ \A x \in Rows : x # r => row'[x] = row[x]
    BY <1>1, <1>t, Pointwise
  <1>r. \A v \in Workers : job[v].pc # "idle" => job[v].row \in Rows
    BY <1>t DEF TypeOK
  <1>6. \A v \in Workers \ {w} : Delivering(v)' =>
            /\ Delivering(v) /\ HoldsLease(v) /\ KnowsSinks(v)
            /\ job[v].row \in Rows /\ job[v].row # r
    BY <1>1, <1>4, <1>r DEF IInv, Delivering, HoldsLease
  <1>7. ExclusiveDelivery'
    <2> SUFFICES ASSUME NEW u \in Workers, NEW v \in Workers, u # v,
                        Delivering(u)', Delivering(v)'
                 PROVE  job'[u].row # job'[v].row
      BY DEF ExclusiveDelivery
    <2>1. CASE u # w /\ v # w
      BY <2>1, <1>6, <1>4 DEF IInv, ExclusiveDelivery
    <2> QED BY <2>1, <1>6, <1>4, <1>2
  <1>8. ASSUME NEW v \in Workers, Delivering(v)'
        PROVE  HoldsLease(v)' /\ KnowsSinks(v)'
    <2>1. CASE v = w
      BY <2>1, <1>1, <1>2, <1>3, <1>4, <1>5, KnowsNothing DEF HoldsLease, Retryable
    <2>2. CASE v # w
      BY <2>2, <1>8, <1>1, <1>4, <1>5, <1>6 DEF HoldsLease, KnowsSinks, SinksComplete
    <2> QED BY <2>1, <2>2
  <1>9. ASSUME NEW v \in Workers, Queued(v)'
        PROVE  MayClaim(v)'
    <2>1. /\ v # w /\ job'[v] = job[v] /\ Queued(v) /\ MayClaim(v) /\ job[v].row \in Rows
      BY <1>9, <1>2, <1>4, <1>r DEF IInv, Queued
    <2>2. CASE job[v].row = r
      BY <2>1, <2>2, <1>1, <1>3, <1>5 DEF MayClaim
    <2>3. CASE job[v].row # r
      <3>1. \A u \in Workers : Delivering(u)' /\ job'[u].row = job[v].row
                               => Delivering(u) /\ job[u].row = job[v].row
        BY <2>3, <1>2, <1>4, <1>6
      <3> QED BY <2>1, <2>3, <3>1, <1>5 DEF MayClaim
    <2> QED BY <2>2, <2>3
  <1>10. ASSUME NEW x \in Rows PROVE Ledgers(x)'
    <2>1. Ledgers(x) /\ row'[x].status = row[x].status /\ row'[x].content = row[x].content
      BY <1>3, <1>5 DEF IInv
    <2> QED BY <2>1, <1>1 DEF Ledgers, Receipts, SinksComplete
  <1> QED BY <1>7, <1>8, <1>9, <1>10 DEF IInv

\* Time, the sweep, the operator, retention and the configuration leave every row
\* as RowKept says, when leases outlive attempts and requeues wait for them.
LEMMA OthersKept ==
    ASSUME IInv, Races = {},
           \/ \E r \in Rows : Expire(r) \/ BecomeDue(r) \/ Prune(r)
           \/ Finalize \/ Requeue
           \/ \E n \in Notifiers : SwapNotifier(n)
    PROVE  job' = job /\ got' = got /\ \A x \in Rows : RowKept(x)
  <1>t. TypeOK /\ \A x \in Rows : Ledgers(x) /\ row[x] \in Row /\ \A i \in Indices : ledger[x][i] \in Sink
    BY DEF IInv, TypeOK
  <1>1. ASSUME NEW r \in Rows, Expire(r) PROVE job' = job /\ got' = got /\ \A x \in Rows : RowKept(x)
    <2> DEFINE q == [row[r] EXCEPT !.lock = "free"]
    <2>1. /\ job' = job /\ got' = got /\ ledger' = ledger /\ row' = [row EXCEPT ![r] = q]
          /\ \/ row[r].lock = "backoff"
             \/ \A v \in Workers : ~WorksOn(v, r)
      BY <1>1 DEF Expire
    <2>2. q.status = row[r].status /\ q.content = row[r].content
      BY <1>t DEF Row
    <2> HIDE DEF q
    <2>3. row'[r] = q /\ \A x \in Rows \ {r} : row'[x] = row[x]
      BY <2>1, <1>t, Pointwise
    <2>4. Ledgers(r)'
      BY <2>1, <2>2, <2>3, <1>t DEF Ledgers, Receipts, SinksComplete
    <2>5. \A x \in Rows \ {r} : RowKept(x)
      BY <2>1, <2>3 DEF RowKept
    <2>6. RowKept(r)
      BY <2>1, <2>2, <2>3, <2>4 DEF RowKept
    <2> QED BY <2>1, <2>5, <2>6
  <1>2. ASSUME NEW r \in Rows, BecomeDue(r) PROVE job' = job /\ got' = got /\ \A x \in Rows : RowKept(x)
    <2> DEFINE q == [row[r] EXCEPT !.due = TRUE]
    <2>1. job' = job /\ got' = got /\ ledger' = ledger /\ row' = [row EXCEPT ![r] = q]
      BY <1>2 DEF BecomeDue
    <2>2. q.status = row[r].status /\ q.content = row[r].content /\ q.lock = row[r].lock
      BY <1>t DEF Row
    <2> HIDE DEF q
    <2>3. row'[r] = q /\ \A x \in Rows \ {r} : row'[x] = row[x]
      BY <2>1, <1>t, Pointwise
    <2> QED BY <2>1, <2>2, <2>3 DEF RowKept
  <1>3. ASSUME NEW r \in Rows, Prune(r) PROVE job' = job /\ got' = got /\ \A x \in Rows : RowKept(x)
    <2>1. /\ job' = job /\ got' = got /\ \A v \in Workers : ~WorksOn(v, r)
          /\ row'[r] = NoRecord /\ ledger'[r] = NoLedger
          /\ \A x \in Rows \ {r} : row'[x] = row[x] /\ ledger'[x] = ledger[x]
      <3>1. row' = [row EXCEPT ![r] = NoRecord] /\ ledger' = [ledger EXCEPT ![r] = NoLedger]
        BY <1>3 DEF Prune
      <3>2. row'[r] = NoRecord /\ \A x \in Rows \ {r} : row'[x] = row[x]
        BY <3>1, <1>t DEF TypeOK
      <3>3. ledger'[r] = NoLedger /\ \A x \in Rows \ {r} : ledger'[x] = ledger[x]
        BY <3>1, <1>t DEF TypeOK
      <3> QED BY <1>3, <3>2, <3>3 DEF Prune
    <2>2. Ledgers(r)'
      BY <2>1 DEF Ledgers, Receipts, NoRecord, NoLedger
    <2> QED BY <2>1, <2>2 DEF RowKept
  <1>4. CASE Finalize
    <2>1. /\ job' = job /\ got' = got /\ ledger' = ledger
          /\ \A x \in Rows : row'[x] = IF Exhausted(x) THEN [row[x] EXCEPT !.status = "dead"] ELSE row[x]
      BY <1>4 DEF Finalize
    <2>2. \A x \in Rows : /\ [row[x] EXCEPT !.status = "dead"].status = "dead"
                          /\ [row[x] EXCEPT !.status = "dead"].lock = row[x].lock
                          /\ [row[x] EXCEPT !.status = "dead"].content = row[x].content
      BY <1>t DEF Row
    <2>3. ASSUME NEW x \in Rows PROVE RowKept(x)
      <3>1. CASE Exhausted(x)
        BY <2>1, <2>2, <3>1 DEF RowKept, Exhausted
      <3>2. CASE ~Exhausted(x)
        BY <2>1, <3>2 DEF RowKept
      <3> QED BY <3>1, <3>2
    <2> QED BY <2>1, <2>3
  <1>5. CASE Requeue
    <2>1. job' = job /\ got' = got
      BY <1>5 DEF Requeue
    <2>2. ASSUME NEW x \in Rows PROVE RowKept(x)
      <3>1. CASE row[x].status # "dead"
        BY <3>1, <1>5 DEF Requeue, RowKept
      <3>2. CASE row[x].status = "dead"
        <4> DEFINE q == [row[x] EXCEPT !.status = "pending", !.attempts = 0, !.lock = "free"]
        <4>1. /\ row'[x] = q
              /\ ledger'[x] = [i \in Indices |-> IF ledger[x][i].status = "sent"
                                 THEN ledger[x][i] ELSE ResetSink(ledger[x][i])]
              /\ \A v \in Workers : ~WorksOn(v, x)
          BY <3>2, <1>5 DEF Requeue
        <4>2. q.status = "pending" /\ q.content = row[x].content
          BY <1>t DEF Row
        <4> HIDE DEF q
        <4>3. \A i \in Indices : ledger'[x][i].status = "sent" => ledger[x][i].status = "sent"
          <5>1. \A i \in Indices : ResetSink(ledger[x][i]).status # "sent"
            <6> SUFFICES ASSUME NEW i \in Indices PROVE ResetSink(ledger[x][i]).status # "sent"
              OBVIOUS
            <6> QED BY <1>t DEF ResetSink
          <5> QED BY <4>1, <5>1
        <4>4. Ledgers(x)'
          BY <2>1, <4>1, <4>2, <4>3, <1>t DEF Ledgers, Receipts
        <4> QED BY <4>1, <4>4 DEF RowKept
      <3> QED BY <3>1, <3>2
    <2> QED BY <2>1, <2>2
  <1>6. CASE \E n \in Notifiers : SwapNotifier(n)
    BY <1>6 DEF SwapNotifier, RowKept
  <1> QED BY <1>1, <1>2, <1>3, <1>4, <1>5, <1>6

----------------------------------------------------------------------------
(* The theorems.                                                           *)

\* The invariant holds initially.
LEMMA InitInvariant == Init => IInv
  <1> SUFFICES ASSUME Init PROVE IInv
    OBVIOUS
  <1>1. TypeOK
    BY InitTypes
  <1>2. \A w \in Workers : job[w].pc = "idle"
    BY DEF Init, Idle
  <1>3. \A r \in Rows : row[r].status = "none" /\ \A i \in Indices : ledger[r][i].status = "absent"
    BY DEF Init, NoRecord, NoLedger
  <1> QED
    BY <1>1, <1>2, <1>3 DEF IInv, ExclusiveDelivery, Delivering, Queued, Ledgers, Receipts, SinksComplete

\* The invariant is inductive.
LEMMA NextInvariant ==
    ASSUME Races = {}, IInv, [Next]_vars
    PROVE  IInv'
  <1>t. TypeOK /\ TypeOK'
    BY NextTypes DEF IInv
  <1>1. ASSUME NEW w \in Workers, Step(w) \/ Crash(w) PROVE IInv'
    <2>1. Frame(w) /\ RowEffect(w) /\ Acknowledged(w)
      BY <1>1, <1>t, StepEffect, StepAcknowledged
    <2>2. /\ ExclusiveDelivery'
          /\ \A v \in Workers : Delivering(v)' => HoldsLease(v)'
          /\ \A v \in Workers : Queued(v)' => MayClaim(v)'
      BY <2>1, StepLease
    <2>3. \A v \in Workers : Delivering(v)' => KnowsSinks(v)'
      BY <1>1, <2>1, StepOthersKnow, StepKnows
    <2>4. \A r \in Rows : Ledgers(r)'
      BY <2>1, StepLedgers
    <2> QED BY <1>t, <2>2, <2>3, <2>4 DEF IInv
  <1>2. ASSUME NEW w \in Pollers, NEW r \in Rows, NEW c \in Contents, NEW due \in BOOLEAN,
               Enqueue(w, r, c, due)
        PROVE  IInv'
    BY <1>2, <1>t, EnqueueKeeps
  <1>3. ASSUME NEW w \in Flushers, NEW r \in Rows, ClaimBatch(w, r) PROVE IInv'
    BY <1>3, <1>t, ClaimBatchKeeps
  <1>4. CASE \/ \E r \in Rows : Expire(r) \/ BecomeDue(r) \/ Prune(r)
             \/ Finalize \/ Requeue
             \/ \E n \in Notifiers : SwapNotifier(n)
    BY <1>4, <1>t, OthersKept, KeptKeeps
  <1>5. CASE UNCHANGED vars
    <2>1. job' = job /\ got' = got /\ \A x \in Rows : RowKept(x)
      BY <1>5 DEF vars, RowKept
    <2> QED BY <2>1, <1>t, KeptKeeps
  <1> QED
    BY <1>1, <1>2, <1>3, <1>4, <1>5 DEF Next

\* What the invariant is for.
LEMMA InvariantImplies ==
    ASSUME IInv
    PROVE  /\ ExclusiveDelivery
           /\ SentIsSettled
           /\ StableIndices => LedgerTruthful
  <1>1. ExclusiveDelivery
    BY DEF IInv
  <1>2. StableIndices => LedgerTruthful
    BY DEF IInv, TypeOK, LedgerTruthful, Ledgers, Receipts
  <1>3. SentIsSettled
    BY DEF IInv, SentIsSettled, Ledgers, Receipts, SinksComplete
  <1> QED BY <1>1, <1>2, <1>3

\* The invariant holds throughout every behaviour.
THEOREM Invariance ==
    ASSUME Races = {}
    PROVE  Spec => []IInv
  <1>1. Init => IInv
    BY InitInvariant
  <1>2. IInv /\ [Next]_vars => IInv'
    BY NextInvariant
  <1> QED BY <1>1, <1>2, PTL DEF Spec

\* The lease of claim_outbox_row and claim_outbox_batch excludes a second delivery
\* of the row, against crashes, expiries, backoffs, requeues and hot swaps.
THEOREM LeaseIsExclusive ==
    ASSUME Races = {}
    PROVE  Spec => []ExclusiveDelivery
  BY Invariance, InvariantImplies, PTL

\* A sink row marked sent by complete_sink_delivery is backed by a receipt of the
\* content the parent holds, through reopens, requeues and routing drift.
THEOREM LedgerIsTruthful ==
    ASSUME Races = {}, StableIndices
    PROVE  Spec => []LedgerTruthful
  BY Invariance, InvariantImplies, PTL

\* complete_notification never strands an undelivered sink under a sent parent.
THEOREM SentIsFinal ==
    ASSUME Races = {}
    PROVE  Spec => []SentIsSettled
  BY Invariance, InvariantImplies, PTL

----------------------------------------------------------------------------
(* At least once, and no oftener than crashes explain.                     *)

\* An acknowledgement that was heard is in the ledger, or a task holds it and is
\* about to record it.
Backed(r) ==
    \A i \in told[r] : \/ ledger[r][i].status = "sent"
                       \/ \E v \in Workers : WorksOn(v, r) /\ i \in Unrecorded(v)

\* A task's step takes no acknowledgement out of the ledger of its row, except the
\* reopening, which wipes the history too.
LEMMA StepKeepsAcks ==
    ASSUME IInv, NEW w \in Workers, Step(w) \/ Crash(w), NEW i \in Indices,
           ledger[job[w].row][i].status = "sent"
    PROVE  told'[job[w].row] = {} \/ ledger'[job[w].row][i].status = "sent"
  <1>t. TypeOK
    BY DEF IInv
  <1>r. PICK r \in Rows : r = job[w].row
    BY <1>t, StepEffect DEF Frame
  <1>w. ledger[r] \in [Indices -> Sink] /\ ledger[r][i].status = "sent"
    BY <1>t, <1>r DEF TypeOK
  <1>k. Abandoned(ledger[r][i]) = ledger[r][i]
    BY <1>w DEF Abandoned, Retryable
  <1>1. CASE Reopen(w) /\ ledger' # ledger
    <2>1. told' = [told EXCEPT ![r] = {}]
      BY <1>1, <1>r DEF Reopen
    <2> QED BY <2>1, <1>t, <1>r DEF TypeOK
  <1>2. CASE ledger' = ledger
    BY <1>2, <1>r, <1>w
  <1>3. CASE Open(w) /\ ledger' # ledger
    <2> DEFINE s == [k \in Indices |->
                       IF k \in Matching(notifier) /\ ledger[r][k].status = "absent"
                       THEN [status |-> "pending", attempts |-> 0] ELSE ledger[r][k]]
    <2>1. ledger' = [ledger EXCEPT ![r] = s]
      BY <1>3, <1>r DEF Open
    <2>2. s[i].status = "sent"
      BY <1>w
    <2> HIDE DEF s
    <2> QED BY <2>1, <2>2, <1>t, <1>r, Pointwise
  <1>4. CASE AbandonAll(w)
    <2> DEFINE s == [k \in Indices |-> Abandoned(ledger[r][k])]
    <2>1. ledger' = [ledger EXCEPT ![r] = s]
      BY <1>4, <1>r DEF AbandonAll
    <2>2. s[i].status = "sent"
      BY <1>w, <1>k
    <2> HIDE DEF s
    <2> QED BY <2>1, <2>2, <1>t, <1>r, Pointwise
  <1>5. CASE Abandon(w)
    <2> DEFINE s == [k \in Indices |-> IF k \in job[w].todo \ Matching(job[w].snap)
                                       THEN Abandoned(ledger[r][k]) ELSE ledger[r][k]]
    <2>1. ledger' = [ledger EXCEPT ![r] = s]
      BY <1>5, <1>r DEF Abandon
    <2>2. s[i].status = "sent"
      BY <1>w, <1>k
    <2> HIDE DEF s
    <2> QED BY <2>1, <2>2, <1>t, <1>r, Pointwise
  <1>6. CASE Record(w)
    <2>0. PICK k \in job[w].todo :
            ledger' = [ledger EXCEPT ![r] = [ledger[r] EXCEPT ![k] =
                  IF job[w].res[k] = "ok" THEN [ledger[r][k] EXCEPT !.status = "sent"]
                  ELSE IF job[w].res[k] = "error" THEN OneMoreFailure(ledger[r][k])
                  ELSE ledger[r][k]]]
      BY <1>6, <1>r DEF Record
    <2> DEFINE s == IF job[w].res[k] = "ok" THEN [ledger[r][k] EXCEPT !.status = "sent"]
                    ELSE IF job[w].res[k] = "error" THEN OneMoreFailure(ledger[r][k])
                    ELSE ledger[r][k]
    <2>1. ledger' = [ledger EXCEPT ![r] = [ledger[r] EXCEPT ![k] = s]]
      BY <2>0
    <2> HIDE DEF s
    <2>2. ledger[r][k].status \in Retryable
      <3>1. job[w].pc = "record" /\ Delivering(w)
        BY <1>6 DEF Record, Delivering
      <3> QED BY <3>1, <1>r DEF IInv, KnowsSinks
    <2>3. k # i
      BY <2>2, <1>w DEF Retryable
    <2>4. ledger'[r] = [ledger[r] EXCEPT ![k] = s]
      BY <2>1, <1>t, <1>r, Pointwise
    <2> QED BY <2>3, <2>4, <1>w, <1>r
  <1> QED
    BY <1>1, <1>2, <1>3, <1>4, <1>5, <1>6
    DEF Step, Crash, Reopen, Catalogue, ClaimRow, Open, List, FailRow, Notify,
        Sync, Bury, MarkFailed, Check, Complete, Backoff

\* What a task has heard stays with it until its Record, or dies with it.
LEMMA StepKeepsHeard ==
    ASSUME IInv, NEW w \in Workers, Step(w) \/ Crash(w), ~Crash(w),
           NEW i \in Unrecorded(w)
    PROVE  \/ ledger'[job[w].row][i].status = "sent"
           \/ i \in Unrecorded(w)' /\ job'[w].pc = "record" /\ job'[w].row = job[w].row
  <1>t. TypeOK
    BY DEF IInv
  <1>r. PICK r \in Rows : r = job[w].row
    BY <1>t, StepEffect DEF Frame
  <1>w. /\ job[w] \in Job /\ job[w].pc = "record" /\ job[w].res[i] = "ok" /\ i \in job[w].todo
        /\ i \in Indices /\ ledger[r] \in [Indices -> Sink]
    BY <1>t, <1>r DEF TypeOK, Unrecorded, Job
  <1>1. Record(w)
    BY <1>w DEF Step, Reopen, Catalogue, ClaimRow, Open, List, AbandonAll, FailRow, Abandon,
                Notify, Sync, Bury, MarkFailed, Check, Complete, Backoff
  <1>2. PICK k \in job[w].todo :
          /\ ledger' = [ledger EXCEPT ![r] = [ledger[r] EXCEPT ![k] =
                  IF job[w].res[k] = "ok" THEN [ledger[r][k] EXCEPT !.status = "sent"]
                  ELSE IF job[w].res[k] = "error" THEN OneMoreFailure(ledger[r][k])
                  ELSE ledger[r][k]]]
          /\ Becomes(w, [job[w] EXCEPT
                  !.pc = IF job[w].todo = {k} THEN "sync" ELSE "record",
                  !.todo = @ \ {k},
                  !.res = IF job[w].todo = {k} THEN NoResults ELSE @,
                  !.verdict = IF job[w].res[k] = "error" THEN "failed"
                              ELSE IF job[w].res[k] = "breaker" /\ @ = "ok" THEN "deferred"
                              ELSE @])
    BY <1>1, <1>r DEF Record
  <1>3. CASE k = i
    <2> DEFINE s == [ledger[r][i] EXCEPT !.status = "sent"]
    <2>1. ledger' = [ledger EXCEPT ![r] = [ledger[r] EXCEPT ![i] = s]]
      BY <1>2, <1>3, <1>w
    <2>2. s.status = "sent"
      BY <1>w DEF Sink
    <2> HIDE DEF s
    <2>3. ledger'[r] = [ledger[r] EXCEPT ![i] = s]
      BY <2>1, <1>t, Pointwise
    <2> QED BY <2>2, <2>3, <1>w, <1>r
  <1>4. CASE k # i
    <2> DEFINE v == IF job[w].res[k] = "error" THEN "failed"
                    ELSE IF job[w].res[k] = "breaker" /\ job[w].verdict = "ok" THEN "deferred"
                    ELSE job[w].verdict
               j == [job[w] EXCEPT !.pc = "record", !.todo = job[w].todo \ {k},
                                   !.res = job[w].res, !.verdict = v]
    <2>1. job[w].todo # {k}
      BY <1>4, <1>w
    <2>2. Becomes(w, j)
      BY <1>2, <2>1
    <2> HIDE DEF v
    <2>3. /\ j.pc = "record" /\ i \in j.todo /\ j.res[i] = "ok" /\ j.row = r
      BY <1>w, <1>r, <1>4 DEF Job
    <2> HIDE DEF j
    <2>4. job'[w] = j
      BY <2>2, <1>t, JobPointwise
    <2> QED BY <2>3, <2>4, <1>r DEF Unrecorded
  <1> QED BY <1>3, <1>4

\* A task's step keeps every heard acknowledgement backed.
LEMMA StepBacked ==
    ASSUME IInv, NEW w \in Workers, Step(w) \/ Crash(w), \A x \in Rows : Backed(x),
           NEW x \in Rows, NEW i \in told'[x]
    PROVE  \/ ledger'[x][i].status = "sent"
           \/ \E v \in Workers : WorksOn(v, x)' /\ i \in Unrecorded(v)'
  <1>t. TypeOK
    BY DEF IInv
  <1>f. Frame(w) /\ RowEffect(w) /\ ToldEffect(w)
    BY <1>t, StepEffect, StepTold
  <1>i. i \in Indices /\ \A v \in Workers \ {w} : job'[v] = job[v]
    BY <1>f DEF Frame, ToldEffect
  <1>o. ASSUME NEW v \in Workers \ {w}, WorksOn(v, x), i \in Unrecorded(v)
        PROVE  WorksOn(v, x)' /\ i \in Unrecorded(v)'
    BY <1>o, <1>i DEF WorksOn, Unrecorded
  <1>1. CASE x # job[w].row
    <2>1. told'[x] = told[x] /\ ledger'[x] = ledger[x]
      BY <1>1, <1>f DEF Frame, ToldEffect
    <2>2. CASE ledger[x][i].status = "sent"
      BY <2>1, <2>2
    <2>3. CASE \E v \in Workers : WorksOn(v, x) /\ i \in Unrecorded(v)
      <3>1. PICK v \in Workers : WorksOn(v, x) /\ i \in Unrecorded(v)
        BY <2>3
      <3>2. v # w
        BY <3>1, <1>1 DEF WorksOn
      <3> QED BY <3>1, <3>2, <1>o
    <2> QED BY <2>1, <2>2, <2>3 DEF Backed
  <1>2. CASE x = job[w].row
    <2>1. told'[x] # {}
      OBVIOUS
    <2>2. CASE i \in told[x]
      <3>1. CASE ledger[x][i].status = "sent"
        BY <3>1, <2>1, <1>2, <1>i, StepKeepsAcks
      <3>2. CASE \E v \in Workers : WorksOn(v, x) /\ i \in Unrecorded(v)
        <4>1. PICK v \in Workers : WorksOn(v, x) /\ i \in Unrecorded(v)
          BY <3>2
        <4>2. CASE v # w
          BY <4>1, <4>2, <1>o
        <4>3. CASE v = w
          <5>1. ~Crash(w)
            <6> SUFFICES ASSUME Crash(w) PROVE FALSE
              OBVIOUS
            <6>1. job[w].pc = "record"
              BY <4>1, <4>3 DEF Unrecorded
            <6>2. \A res \in Results : ~Notify(w, res)
              BY <6>1 DEF Notify
            <6>3. told'[x] = told[x] \ Unrecorded(w)
              BY <6>2, <1>2, <1>f, <2>1 DEF ToldEffect
            <6> QED BY <6>3, <4>1, <4>3
          <5>2. \/ ledger'[x][i].status = "sent"
                \/ i \in Unrecorded(w)' /\ job'[w].pc = "record" /\ job'[w].row = x
            BY <5>1, <4>1, <4>3, <1>2, StepKeepsHeard
          <5> QED BY <5>2 DEF WorksOn
        <4> QED BY <4>2, <4>3
      <3> QED BY <3>1, <3>2, <2>2 DEF Backed
    <2>3. CASE i \notin told[x]
      <3>1. PICK res \in Results : /\ Notify(w, res)
                                   /\ told'[x] = told[x] \cup {k \in job[w].todo : res[k] = "ok"}
        BY <2>1, <2>3, <1>2, <1>f DEF ToldEffect
      <3>2. i \in job[w].todo /\ res[i] = "ok"
        BY <3>1, <2>3
      <3> DEFINE j == [job[w] EXCEPT !.pc = "record", !.res = res, !.verdict = "ok"]
      <3>3. Becomes(w, j)
        BY <3>1 DEF Notify
      <3>4. j.pc = "record" /\ j.res = res /\ j.todo = job[w].todo /\ j.row = x
        BY <1>t, <1>2 DEF TypeOK, Job
      <3> HIDE DEF j
      <3>5. job'[w] = j
        BY <3>3, <1>t, JobPointwise
      <3>6. WorksOn(w, x)' /\ i \in Unrecorded(w)'
        BY <3>2, <3>4, <3>5 DEF WorksOn, Unrecorded
      <3> QED BY <3>6
    <2> QED BY <2>2, <2>3
  <1> QED BY <1>1, <1>2

\* So does a task that starts: it is idle, and touches neither ledger nor history.
LEMMA StartBacked ==
    ASSUME IInv, NEW w \in Workers, job[w].pc = "idle", NEW j, Becomes(w, j),
           ledger' = ledger, told' = told, \A x \in Rows : Backed(x)
    PROVE  \A x \in Rows : Backed(x)'
  <1> SUFFICES ASSUME NEW x \in Rows, NEW i \in told[x]
               PROVE  \/ ledger[x][i].status = "sent"
                      \/ \E v \in Workers : WorksOn(v, x)' /\ i \in Unrecorded(v)'
    BY DEF Backed
  <1>1. CASE ledger[x][i].status = "sent"
    BY <1>1
  <1>2. CASE \E v \in Workers : WorksOn(v, x) /\ i \in Unrecorded(v)
    <2>1. PICK v \in Workers : WorksOn(v, x) /\ i \in Unrecorded(v)
      BY <1>2
    <2>2. v # w
      BY <2>1 DEF WorksOn
    <2>3. job'[v] = job[v]
      BY <2>2, JobPointwise DEF IInv
    <2> QED BY <2>1, <2>3 DEF WorksOn, Unrecorded
  <1> QED BY <1>1, <1>2 DEF Backed

\* And the clock, the sweep, the operator, retention and the configuration.
LEMMA OthersBacked ==
    ASSUME IInv, \A x \in Rows : Backed(x),
           \/ \E r \in Rows : Expire(r) \/ BecomeDue(r) \/ Prune(r)
           \/ Finalize \/ Requeue
           \/ \E n \in Notifiers : SwapNotifier(n)
           \/ UNCHANGED vars
    PROVE  \A x \in Rows : Backed(x)'
  <1>t. TypeOK
    BY DEF IInv
  <1>1. CASE ledger' = ledger /\ told' = told /\ job' = job
    BY <1>1 DEF Backed, WorksOn, Unrecorded
  <1>2. CASE \E r \in Rows : Prune(r)
    <2>1. PICK r \in Rows : Prune(r)
      BY <1>2
    <2>2. /\ job' = job /\ told'[r] = {}
          /\ \A x \in Rows \ {r} : told'[x] = told[x] /\ ledger'[x] = ledger[x]
      BY <2>1, <1>t DEF Prune, TypeOK
    <2> QED BY <2>2 DEF Backed, WorksOn, Unrecorded
  <1>3. CASE Requeue
    <2>1. job' = job /\ told' = told
      BY <1>3 DEF Requeue
    <2>2. ASSUME NEW x \in Rows, NEW i \in Indices, ledger[x][i].status = "sent"
          PROVE  ledger'[x][i].status = "sent"
      BY <1>3, <2>2 DEF Requeue
    <2>3. \A x \in Rows : told[x] \subseteq Indices
      BY <1>t DEF TypeOK
    <2> QED BY <2>1, <2>2, <2>3 DEF Backed, WorksOn, Unrecorded
  <1> QED BY <1>1, <1>2, <1>3 DEF Expire, BecomeDue, Finalize, SwapNotifier, vars

\* Heard acknowledgements stay backed.
LEMMA NextBacked ==
    ASSUME Races = {}, IInv, \A x \in Rows : Backed(x), [Next]_vars
    PROVE  \A x \in Rows : Backed(x)'
  <1>1. CASE \E w \in Workers : Step(w) \/ Crash(w)
    BY <1>1, StepBacked DEF Backed
  <1>2. CASE \E w \in Pollers, r \in Rows, c \in Contents, due \in BOOLEAN : Enqueue(w, r, c, due)
    <2>1. PICK w \in Pollers : \E r \in Rows, c \in Contents, due \in BOOLEAN : Enqueue(w, r, c, due)
      BY <1>2
    <2>2. /\ job[w].pc = "idle" /\ ledger' = ledger /\ told' = told
          /\ \E j : Becomes(w, j)
      BY <2>1 DEF Enqueue
    <2> QED BY <2>2, StartBacked DEF Workers
  <1>3. CASE \E w \in Flushers, r \in Rows : ClaimBatch(w, r)
    <2>1. PICK w \in Flushers : \E r \in Rows : ClaimBatch(w, r)
      BY <1>3
    <2>2. /\ job[w].pc = "idle" /\ ledger' = ledger /\ told' = told
          /\ \E j : Becomes(w, j)
      BY <2>1 DEF ClaimBatch
    <2> QED BY <2>2, StartBacked DEF Workers
  <1> QED BY <1>1, <1>2, <1>3, OthersBacked DEF Next

\* deliver_to_pending_sinks calls a sink again that has acknowledged only when the
\* attempt it answered died before complete_sink_delivery, whoever retries.
THEOREM RetriesAreSafe ==
    ASSUME Races = {}
    PROVE  Spec => []RepeatsOnlyUnrecorded
  <1>1. Init => \A x \in Rows : Backed(x)
    BY DEF Init, Backed
  <1>2. IInv /\ (\A x \in Rows : Backed(x)) /\ [Next]_vars => (\A x \in Rows : Backed(x))'
    BY NextBacked
  <1>3. ASSUME IInv, \A x \in Rows : Backed(x) PROVE RepeatsOnlyUnrecorded
    <2> SUFFICES ASSUME NEW w \in Workers, job[w].pc = "sending",
                        NEW i \in job[w].todo, i \in told[job[w].row]
                 PROVE  FALSE
      BY DEF RepeatsOnlyUnrecorded
    <2>1. Delivering(w) /\ job[w].row \in Rows /\ KnowsSinks(w)
      BY <1>3 DEF IInv, Delivering, TypeOK
    <2>2. ledger[job[w].row][i].status # "sent"
      BY <2>1 DEF KnowsSinks, Retryable
    <2>3. PICK v \in Workers : WorksOn(v, job[w].row) /\ i \in Unrecorded(v)
      BY <1>3, <2>1, <2>2 DEF Backed
    <2>4. job[v].pc = "record" /\ Delivering(v) /\ v # w /\ job[v].row = job[w].row
      BY <2>3 DEF Unrecorded, Delivering, WorksOn
    <2> QED BY <1>3, <2>1, <2>4 DEF IInv, ExclusiveDelivery
  <1> QED BY <1>1, <1>2, <1>3, Invariance, PTL DEF Spec

----------------------------------------------------------------------------
(* Nobody is skipped.                                                      *)

\* A sink that every configuration has, at whatever index.
Everywhere(t) == \A n \in Notifiers : \E i \in Indices : n[i] = t

\* The row has a ledger entry at an index where some configuration has the sink.
Tracked(r, t) ==
    \E i \in Indices : ledger[r][i].status # "absent" /\ \E n \in Notifiers : n[i] = t

\* The steps of an attempt after ensure_sink_deliveries
Opened(w) == job[w].pc \notin {"idle", "reopen", "catalogue", "claim", "open", "backoff"}

\* ensure_sink_deliveries comes before anything else, under whatever configuration:
\* a row that is sent, or worked on from then on, is tracked for such a sink.
EveryoneTracked ==
    \A t \in Targets : Everywhere(t) =>
        /\ \A r \in Rows : row[r].status = "sent" => Tracked(r, t)
        /\ \A w \in Workers : Opened(w) => Tracked(job[w].row, t)

\* A step of a task loses track of no sink.
LEMMA StepTracks ==
    ASSUME TypeOK, NEW w \in Workers, Step(w) \/ Crash(w), NEW x \in Rows,
           NEW i \in Indices, ledger[x][i].status # "absent"
    PROVE  ledger'[x][i].status # "absent"
  <1> DEFINE r == job[w].row
  <1>f. Frame(w)
    BY StepEffect
  <1>w. /\ r \in Rows /\ ledger[r] \in [Indices -> Sink] /\ \A k \in Indices : ledger[r][k] \in Sink
        /\ job[w] \in Job
    BY <1>f DEF Frame, TypeOK
  <1>1. CASE x # r
    BY <1>1, <1>f DEF Frame
  <1>2. CASE x = r
    <2> HIDE DEF r
    <2>s. ledger[r][i] \in Sink /\ ledger[r][i].status # "absent"
      BY <1>2, <1>w
    <2>1. CASE ledger' = ledger
      BY <2>1
    <2>p. \A q : ledger' = [ledger EXCEPT ![r] = q] => ledger'[r] = q
      BY <1>w DEF TypeOK
    <2>2. CASE Reopen(w) /\ ledger' # ledger
      <3> DEFINE s == [k \in Indices |-> ResetSink(ledger[r][k])]
      <3>1. ledger' = [ledger EXCEPT ![r] = s]
        BY <2>2, Zenon DEF Reopen, r
      <3>2. ResetSink(ledger[r][i]).status # "absent"
        BY <2>s, SinkFields
      <3>3. s[i].status # "absent"
        BY <3>2, <2>s
      <3> HIDE DEF s
      <3>4. ledger'[r] = s
        BY <3>1, <2>p
      <3> QED BY <3>3, <3>4, <1>2
    <2>3. CASE Open(w) /\ ledger' # ledger
      <3> DEFINE s == [k \in Indices |-> IF k \in Matching(notifier) /\ ledger[r][k].status = "absent"
                                      THEN [status |-> "pending", attempts |-> 0] ELSE ledger[r][k]]
      <3>1. ledger' = [ledger EXCEPT ![r] = s]
        BY <2>3, Zenon DEF Open, r
      <3>3. s[i].status # "absent"
        BY <2>s
      <3> HIDE DEF s
      <3>4. ledger'[r] = s
        BY <3>1, <2>p
      <3> QED BY <3>3, <3>4, <1>2
    <2>4. CASE AbandonAll(w)
      <3> DEFINE s == [k \in Indices |-> Abandoned(ledger[r][k])]
      <3>1. ledger' = [ledger EXCEPT ![r] = s]
        BY <2>4, Zenon DEF AbandonAll, r
      <3>2. Abandoned(ledger[r][i]).status # "absent"
        BY <2>s, SinkFields
      <3>3. s[i].status # "absent"
        BY <3>2, <2>s
      <3> HIDE DEF s
      <3>4. ledger'[r] = s
        BY <3>1, <2>p
      <3> QED BY <3>3, <3>4, <1>2
    <2>5. CASE Abandon(w)
      <3> DEFINE s == [k \in Indices |-> IF k \in job[w].todo \ Matching(job[w].snap)
                                      THEN Abandoned(ledger[r][k]) ELSE ledger[r][k]]
      <3>1. ledger' = [ledger EXCEPT ![r] = s]
        BY <2>5, Zenon DEF Abandon, r
      <3>2. Abandoned(ledger[r][i]).status # "absent"
        BY <2>s, SinkFields
      <3>3. s[i].status # "absent"
        BY <3>2, <2>s
      <3> HIDE DEF s
      <3>4. ledger'[r] = s
        BY <3>1, <2>p
      <3> QED BY <3>3, <3>4, <1>2
    <2>6. CASE Record(w)
      <3>1. PICK k \in job[w].todo :
              ledger' = [ledger EXCEPT ![r] = [ledger[r] EXCEPT ![k] =
                  IF job[w].res[k] = "ok" THEN [ledger[r][k] EXCEPT !.status = "sent"]
                  ELSE IF job[w].res[k] = "error" THEN OneMoreFailure(ledger[r][k])
                  ELSE ledger[r][k]]]
        BY <2>6 DEF Record, r
      <3> DEFINE s == IF job[w].res[k] = "ok" THEN [ledger[r][k] EXCEPT !.status = "sent"]
                      ELSE IF job[w].res[k] = "error" THEN OneMoreFailure(ledger[r][k])
                      ELSE ledger[r][k]
      <3>2. k \in Indices
        BY <1>w, JobFields
      <3>3. ledger[r][k].status # "absent" => s.status # "absent"
        BY <3>2, <1>w, SinkFields
      <3> HIDE DEF s
      <3>4. ledger'[r] = [ledger[r] EXCEPT ![k] = s]
        BY <3>1, <1>w, Pointwise DEF s
      <3> QED BY <3>3, <3>4, <2>s, <1>w, <1>2
    <2> QED
      BY <2>1, <2>2, <2>3, <2>4, <2>5, <2>6 DEF Step, Crash, Catalogue, ClaimRow, List, FailRow,
         Notify, Sync, Bury, MarkFailed, Check, Complete, Backoff
  <1> QED BY <1>1, <1>2

\* ensure_sink_deliveries tracks every sink of the snapshot.
LEMMA OpenTracks ==
    ASSUME TypeOK, NEW w \in Workers, Open(w), Matching(notifier) # {},
           NEW t \in Targets, Everywhere(t)
    PROVE  Tracked(job[w].row, t)'
  <1> DEFINE r == job[w].row
  <1>1. PICK i \in Indices : notifier[i] = t
    BY DEF TypeOK, Everywhere
  <1>2. i \in Matching(notifier) /\ notifier \in Notifiers
    BY <1>1, OutboxAssumption DEF Matching, TypeOK
  <1>3. r \in Rows /\ job[w] \in Job
    BY DEF Open, TypeOK
  <1> DEFINE j == [job[w] EXCEPT !.pc = "list", !.snap = notifier]
             s == [k \in Indices |-> IF k \in Matching(notifier) /\ ledger[r][k].status = "absent"
                                     THEN [status |-> "pending", attempts |-> 0] ELSE ledger[r][k]]
  <1>4. ledger' = [ledger EXCEPT ![r] = s] /\ Becomes(w, j) /\ notifier' = notifier
    BY Zenon DEF Open
  <1>5. s[i].status # "absent"
    BY <1>2
  <1>6. j.row = r
    BY <1>3 DEF Job
  <1> HIDE DEF j, s
  <1>7. job'[w] = j
    BY <1>4, JobPointwise
  <1>8. ledger'[r] = s
    BY <1>3, <1>4, Pointwise
  <1> QED BY <1>1, <1>2, <1>5, <1>6, <1>7, <1>8 DEF Tracked

\* A task gets there by opening, and stays with its row.
LEMMA StepOpens ==
    ASSUME TypeOK, NEW w \in Workers, Step(w) \/ Crash(w), Opened(w)'
    PROVE  /\ job'[w].row = job[w].row
           /\ Opened(w) \/ (Open(w) /\ Matching(notifier) # {})
  <1>1. Frame(w) /\ RowEffect(w)
    BY StepEffect
  <1>2. job'[w].row = job[w].row /\ job'[w].pc \notin {"idle", "open", "backoff"} \cup Before
    BY <1>1 DEF Opened, Frame, SameWork, Before
  <1>3. Delivering(w)
    BY <1>1, <1>2 DEF RowEffect, Before
  <1>4. CASE job[w].pc = "open"
    <2>1. Open(w) \/ Crash(w)
      BY <1>4 DEF Step, Reopen, Catalogue, ClaimRow, List, AbandonAll, FailRow, Abandon,
         Notify, Record, Sync, Bury, MarkFailed, Check, Complete, Backoff
    <2>2. ~Crash(w)
      BY <1>2, JobPointwise DEF Crash, Stop, Idle
    <2>3. CASE Matching(notifier) = {}
      <3> DEFINE j == [job[w] EXCEPT !.pc = "backoff", !.verdict = "failed"]
      <3>1. Becomes(w, j)
        BY <2>1, <2>2, <2>3 DEF Open
      <3>2. j.pc = "backoff"
        BY DEF TypeOK, Job
      <3> QED BY <3>1, <3>2, <1>2, JobPointwise
    <2> QED BY <1>2, <2>1, <2>2, <2>3
  <1>5. CASE job[w].pc = "backoff"
    <2>1. Backoff(w) \/ Crash(w)
      BY <1>5 DEF Step, Reopen, Catalogue, ClaimRow, Open, List, AbandonAll, FailRow, Abandon,
         Notify, Record, Sync, Bury, MarkFailed, Check, Complete
    <2>2. job'[w].pc = "idle"
      BY <2>1, JobPointwise DEF Backoff, Crash, Stop, Idle
    <2> QED BY <1>2, <2>2
  <1> QED BY <1>2, <1>3, <1>4, <1>5 DEF Opened, Delivering

\* EveryoneTracked is inductive beside the invariant of the guarantees.
LEMMA NextTracks ==
    ASSUME Races = {}, IInv, EveryoneTracked, [Next]_vars
    PROVE  EveryoneTracked'
  <1>t. TypeOK /\ \A r \in Rows : Ledgers(r)
    BY DEF IInv
  <1> SUFFICES ASSUME NEW t \in Targets, Everywhere(t)
               PROVE  /\ \A r \in Rows : (row[r].status = "sent")' => Tracked(r, t)'
                      /\ \A w \in Workers : Opened(w)' => Tracked(job[w].row, t)'
    BY DEF EveryoneTracked, Everywhere
  <1>r. \A w \in Workers : Opened(w) => job[w].row \in Rows /\ WorksOn(w, job[w].row)
    BY <1>t DEF TypeOK, Opened, WorksOn
  <1>e. /\ \A r \in Rows : row[r].status = "sent" => Tracked(r, t)
        /\ \A w \in Workers : Opened(w) => Tracked(job[w].row, t)
    BY DEF EveryoneTracked
  <1>1. ASSUME NEW w \in Workers, Step(w) \/ Crash(w)
        PROVE  /\ \A r \in Rows : (row[r].status = "sent")' => Tracked(r, t)'
               /\ \A v \in Workers : Opened(v)' => Tracked(job[v].row, t)'
    <2>f. Frame(w) /\ RowEffect(w)
      BY <1>1, <1>t, StepEffect
    <2>g. \A r \in Rows : Tracked(r, t) => Tracked(r, t)'
      BY <1>1, <1>t, StepTracks DEF Tracked
    <2>1. ASSUME NEW v \in Workers, Opened(v)' PROVE Tracked(job[v].row, t)'
      <3>1. CASE v # w
        <4>1. job'[v] = job[v] /\ Opened(v)
          BY <2>1, <3>1, <2>f DEF Frame, Opened
        <4> QED BY <4>1, <2>g, <1>e, <1>r DEF Tracked
      <3>2. CASE v = w
        <4>1. job'[w].row = job[w].row /\ (Opened(w) \/ (Open(w) /\ Matching(notifier) # {}))
          BY <1>1, <1>t, <2>1, <3>2, StepOpens
        <4>2. CASE Opened(w)
          <5>1. Tracked(job[w].row, t) /\ job[w].row \in Rows
            BY <4>2, <1>e, <1>r
          <5> QED BY <5>1, <4>1, <3>2, <2>g DEF Tracked
        <4>3. CASE Open(w) /\ Matching(notifier) # {}
          BY <4>3, <3>2, <1>t, OpenTracks
        <4> QED BY <4>1, <4>2, <4>3
      <3> QED BY <3>1, <3>2
    <2>2. ASSUME NEW r \in Rows, (row[r].status = "sent")' PROVE Tracked(r, t)'
      <3>1. row[r].status = "sent" \/ (job[w].row = r /\ job[w].pc = "complete")
        BY <2>2, <2>f DEF Frame, RowEffect, Retryable
      <3>2. job[w].row = r /\ job[w].pc = "complete" => Tracked(r, t)
        BY <1>e DEF Opened
      <3> QED BY <3>1, <3>2, <1>e, <2>g
    <2> QED BY <2>1, <2>2
  <1>2. ASSUME NEW w \in Pollers, NEW r \in Rows, NEW c \in Contents, NEW due \in BOOLEAN,
               Enqueue(w, r, c, due)
        PROVE  /\ \A x \in Rows : (row[x].status = "sent")' => Tracked(x, t)'
               /\ \A v \in Workers : Opened(v)' => Tracked(job[v].row, t)'
    <2> DEFINE New(pc, now) == [Idle EXCEPT !.pc = pc, !.row = r, !.content = c, !.now = now]
               q == [NoRecord EXCEPT !.status = "pending", !.content = c, !.due = due]
    <2>1. /\ ledger' = ledger /\ w \in Workers
          /\ \E pc \in {"catalogue", "reopen"}, now \in BOOLEAN : Becomes(w, New(pc, now))
          /\ row' = row \/ row' = [row EXCEPT ![r] = q]
      BY <1>2 DEF Enqueue, Workers
    <2>2. \A pc \in {"catalogue", "reopen"}, now \in BOOLEAN : New(pc, now).pc = pc
      BY DEF Idle
    <2>3. q.status = "pending"
      BY DEF NoRecord
    <2> HIDE DEF New, q
    <2>4. \A v \in Workers : Opened(v)' => job'[v] = job[v] /\ Opened(v)
      BY <2>1, <2>2, <1>t, JobPointwise DEF Opened
    <2>5. \A x \in Rows : row'[x].status = "sent" => row[x].status = "sent"
      BY <2>1, <2>3, <1>t, Pointwise
    <2> QED BY <2>1, <2>4, <2>5, <1>e DEF Tracked
  <1>3. ASSUME NEW w \in Flushers, NEW r \in Rows, ClaimBatch(w, r)
        PROVE  /\ \A x \in Rows : (row[x].status = "sent")' => Tracked(x, t)'
               /\ \A v \in Workers : Opened(v)' => Tracked(job[v].row, t)'
    <2> DEFINE j == [Idle EXCEPT !.pc = "open", !.row = r, !.content = row[r].content]
               q == [row[r] EXCEPT !.lock = "lease"]
    <2>1. /\ ledger' = ledger /\ w \in Workers /\ Becomes(w, j) /\ row' = [row EXCEPT ![r] = q]
      BY <1>3 DEF ClaimBatch, Workers
    <2>2. j.pc = "open" /\ q.status = row[r].status
      BY <1>t DEF Idle, TypeOK, Row
    <2> HIDE DEF j, q
    <2>4. \A v \in Workers : Opened(v)' => job'[v] = job[v] /\ Opened(v)
      BY <2>1, <2>2, <1>t, JobPointwise DEF Opened
    <2>5. \A x \in Rows : row'[x].status = "sent" => row[x].status = "sent"
      BY <2>1, <2>2, <1>t, Pointwise
    <2> QED BY <2>1, <2>4, <2>5, <1>e DEF Tracked
  <1>4. ASSUME job' = job, \A x \in Rows : RowKept(x),
               \A x \in Rows : row'[x].status = "sent" =>
                                 row[x].status = "sent" /\ ledger'[x] = ledger[x]
        PROVE  /\ \A x \in Rows : (row[x].status = "sent")' => Tracked(x, t)'
               /\ \A v \in Workers : Opened(v)' => Tracked(job[v].row, t)'
    <2>1. ASSUME NEW v \in Workers, Opened(v)' PROVE Tracked(job[v].row, t)'
      <3>1. Opened(v) /\ job[v].row \in Rows /\ WorksOn(v, job[v].row)
        BY <1>4, <2>1, <1>r DEF Opened
      <3>2. ledger'[job[v].row] = ledger[job[v].row]
        BY <1>4, <3>1 DEF RowKept
      <3> QED BY <3>1, <3>2, <1>4, <1>e DEF Tracked
    <2> QED BY <2>1, <1>4, <1>e DEF Tracked
  <1>5. CASE \/ \E r \in Rows : Expire(r) \/ BecomeDue(r) \/ Prune(r)
             \/ Finalize \/ Requeue
             \/ \E n \in Notifiers : SwapNotifier(n)
    <2>1. job' = job /\ \A x \in Rows : RowKept(x)
      BY <1>5, OthersKept
    <2>2. ASSUME NEW x \in Rows, row'[x].status = "sent"
          PROVE  row[x].status = "sent" /\ ledger'[x] = ledger[x]
      <3>0. /\ row \in [Rows -> Row] /\ row[x] \in Row
        BY <1>t DEF TypeOK
      <3>1. ASSUME NEW r \in Rows, Expire(r) \/ BecomeDue(r) PROVE row'[x].status = row[x].status /\ ledger' = ledger
        BY <3>0, <3>1 DEF Expire, BecomeDue, Row
      <3>2. ASSUME NEW r \in Rows, Prune(r) PROVE x # r /\ row'[x] = row[x] /\ ledger'[x] = ledger[x]
        <4>1. row' = [row EXCEPT ![r] = NoRecord] /\ ledger' = [ledger EXCEPT ![r] = NoLedger]
          BY <3>2 DEF Prune
        <4>2. NoRecord.status = "none"
          BY DEF NoRecord
        <4> QED BY <4>1, <4>2, <2>2, <1>t, Pointwise
      <3>3. CASE Finalize
        BY <3>0, <3>3, <2>2 DEF Finalize, Row
      <3>4. CASE Requeue
        BY <3>0, <3>4, <2>2 DEF Requeue, Row
      <3>5. CASE \E n \in Notifiers : SwapNotifier(n)
        BY <3>5, <2>2 DEF SwapNotifier
      <3> QED BY <1>5, <2>2, <3>1, <3>2, <3>3, <3>4, <3>5
    <2> QED BY <1>4, <2>1, <2>2
  <1>6. CASE UNCHANGED vars
    BY <1>6, <1>4 DEF vars, RowKept
  <1> QED
    BY <1>1, <1>2, <1>3, <1>5, <1>6 DEF Next

\* What complete_notification reports as sent has reached every sink that no config
\* apply takes away, wherever it moves, as long as nobody takes another's index.
THEOREM NobodyIsSkipped ==
    ASSUME Races = {}, StableIndices
    PROVE  Spec => []NobodySkipped
  <1>1. Init => EveryoneTracked
    BY DEF Init, EveryoneTracked, Opened, Idle, NoRecord
  <1>2. IInv /\ EveryoneTracked /\ [Next]_vars => EveryoneTracked'
    BY NextTracks
  <1>3. IInv /\ EveryoneTracked => NobodySkipped
    <2> SUFFICES ASSUME IInv, EveryoneTracked, NEW r \in Rows, NEW t \in Targets,
                        row[r].status = "sent", Everywhere(t)
                 PROVE  row[r].content \in got[r][t]
      BY DEF NobodySkipped, Everywhere
    <2>1. PICK i \in Indices, n \in Notifiers : ledger[r][i].status # "absent" /\ n[i] = t
      BY DEF EveryoneTracked, Tracked
    <2>2. SinksComplete(r) /\ Receipts(r)
      BY DEF IInv, Ledgers
    <2>3. ledger[r][i].status = "sent"
      BY <2>1, <2>2 DEF SinksComplete
    <2> QED BY <2>1, <2>2, <2>3, OutboxAssumption DEF Receipts
  <1> QED BY <1>1, <1>2, <1>3, Invariance, PTL DEF Spec
=============================================================================
