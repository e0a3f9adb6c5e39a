---------------------------- MODULE OutboxPromise ----------------------------
(***************************************************************************)
(* The outbox keeps the promise of Delivery, proved for any number of      *)
(* rows, contents, sinks, configurations and tasks: every step of the      *)
(* store and of the delivery code is one step of that specification or     *)
(* changes nothing it can see.                                             *)
(***************************************************************************)
EXTENDS OutboxProofs

(* The invariant of OutboxProofs says too little of dead rows and of the   *)
(* moment a parent is settled; it is strengthened here, again for leases   *)
(* that outlive attempts (Races = {}).                                     *)

\* The steps that leave the ledger alone once deliver_to_pending_sinks is done
\* with the sinks: a row may be buried under them with attempts to spare.
Closing == {"sync", "bury", "markFailed", "check", "complete", "backoff"}

Spent(q) == q.attempts >= MaxAttempts

\* What a task inside an attempt knows besides KnowsSinks: after
\* ensure_sink_deliveries some sink is tracked, the sinks whose results are still
\* to be recorded are unsent, Bury runs when nothing is left to retry, and until
\* its last steps only the exhausted sweep can have buried its row.
KnowsLedger(w) ==
    LET j == job[w]
        s == ledger[j.row]
        q == row[j.row]
    IN  /\ j.pc \notin {"open", "backoff"} => \E i \in Indices : s[i].status # "absent"
        /\ j.pc = "record" => \A i \in j.todo : s[i].status \in Retryable
        /\ j.pc = "bury" => \A i \in Indices : s[i].status \notin Retryable
        /\ j.pc \notin Closing /\ q.status = "dead" => Spent(q)

\* A dead row has used up its budget or has nothing left to retry.
DeadFact(r) ==
    row[r].status = "dead" => \/ Spent(row[r])
                              \/ \A i \in Indices : ledger[r][i].status \notin Retryable

PInv ==
    /\ IInv
    /\ \A w \in Workers : Delivering(w) => KnowsLedger(w)
    /\ \A w \in Workers : job[w].pc = "reopen" => job[w].content \in Contents
    /\ \A r \in Rows : DeadFact(r)

----------------------------------------------------------------------------
(* The refinement mapping, row by row: each lemma gives a step of Delivery *)
(* from what a step of the outbox does to one row.                         *)

Phase(q) == IF q.status \in Retryable THEN "queued" ELSE q.status
Acked(s) == {i \in Indices : s[i].status = "sent"}

\* What Delivery sees of a row stays as it is.
Unseen(x) == /\ Phase(row'[x]) = Phase(row[x])
             /\ row'[x].content = row[x].content
             /\ Acked(ledger'[x]) = Acked(ledger[x])

\* Nothing that Delivery sees changes.
LEMMA StutterStep ==
    ASSUME \A x \in Rows : Unseen(x)
    PROVE  UNCHANGED D!vars
  BY DEF D!vars, Unseen, Phase, Acked

\* The mapping at one row that changes.
LEMMA OneChange ==
    ASSUME NEW r \in Rows, \A x \in Rows \ {r} : Unseen(x)
    PROVE  /\ [x \in Rows |-> Phase(row'[x])] =
                [[x \in Rows |-> Phase(row[x])] EXCEPT ![r] = Phase(row'[r])]
           /\ [x \in Rows |-> row'[x].content] =
                [[x \in Rows |-> row[x].content] EXCEPT ![r] = row'[r].content]
           /\ [x \in Rows |-> Acked(ledger'[x])] =
                [[x \in Rows |-> Acked(ledger[x])] EXCEPT ![r] = Acked(ledger'[r])]
  <1>1. \A x \in Rows \ {r} : /\ Phase(row'[x]) = Phase(row[x])
                              /\ row'[x].content = row[x].content
                              /\ Acked(ledger'[x]) = Acked(ledger[x])
    BY DEF Unseen
  <1>2. [x \in Rows |-> Phase(row'[x])] =
                [[x \in Rows |-> Phase(row[x])] EXCEPT ![r] = Phase(row'[r])]
    BY <1>1
  <1>3. [x \in Rows |-> row'[x].content] =
                [[x \in Rows |-> row[x].content] EXCEPT ![r] = row'[r].content]
    BY <1>1
  <1>4. [x \in Rows |-> Acked(ledger'[x])] =
                [[x \in Rows |-> Acked(ledger[x])] EXCEPT ![r] = Acked(ledger'[r])]
    BY <1>1
  <1> QED BY <1>2, <1>3, <1>4

\* try_enqueue_notification inserts a row.
LEMMA PutStep ==
    ASSUME NEW r \in Rows, NEW c \in Contents, \A x \in Rows \ {r} : Unseen(x),
           Phase(row[r]) = "none", Phase(row'[r]) = "queued", row'[r].content = c,
           Acked(ledger'[r]) = Acked(ledger[r])
    PROVE  D!Put(r, c)
  <1>1. \A x \in Rows : Acked(ledger'[x]) = Acked(ledger[x])
    BY DEF Unseen
  <1>2. [x \in Rows |-> Acked(ledger'[x])] = [x \in Rows |-> Acked(ledger[x])]
    BY <1>1
  <1> QED BY <1>2, OneChange DEF D!Put, Phase, Acked

\* try_enqueue_notification reopens a sent row with new content.
LEMMA RenewStep ==
    ASSUME NEW r \in Rows, NEW c \in Contents, \A x \in Rows \ {r} : Unseen(x),
           Phase(row[r]) = "sent", Phase(row'[r]) = "queued", row'[r].content = c,
           Acked(ledger'[r]) = {}
    PROVE  D!Renew(r, c)
  BY OneChange DEF D!Renew, Phase, Acked

\* complete_sink_delivery.
LEMMA AckStep ==
    ASSUME NEW r \in Rows, NEW i \in Indices, \A x \in Rows \ {r} : Unseen(x),
           Phase(row[r]) \in {"queued", "dead"}, Phase(row'[r]) = Phase(row[r]),
           row'[r].content = row[r].content,
           Acked(ledger'[r]) = Acked(ledger[r]) \cup {i}
    PROVE  D!Ack(r, i)
  <1>1. \A x \in Rows : Phase(row'[x]) = Phase(row[x]) /\ row'[x].content = row[x].content
    BY DEF Unseen
  <1>2. /\ [x \in Rows |-> Phase(row'[x])] = [x \in Rows |-> Phase(row[x])]
        /\ [x \in Rows |-> row'[x].content] = [x \in Rows |-> row[x].content]
    BY <1>1
  <1>3. [x \in Rows |-> Acked(ledger'[x])] =
             [[x \in Rows |-> Acked(ledger[x])] EXCEPT ![r] = @ \cup {i}]
    BY OneChange
  <1>4. Phase(row[r]) \in {"queued", "dead"}
    OBVIOUS
  <1> QED BY <1>2, <1>3, <1>4 DEF D!Ack, Phase, Acked

\* complete_notification.
LEMMA SettleStep ==
    ASSUME NEW r \in Rows, \A x \in Rows \ {r} : Unseen(x),
           Phase(row[r]) = "queued", Phase(row'[r]) = "sent", Acked(ledger[r]) # {},
           row'[r].content = row[r].content, Acked(ledger'[r]) = Acked(ledger[r])
    PROVE  D!Settle(r)
  <1>1. \A x \in Rows : row'[x].content = row[x].content /\ Acked(ledger'[x]) = Acked(ledger[x])
    BY DEF Unseen
  <1>2. /\ [x \in Rows |-> Acked(ledger'[x])] = [x \in Rows |-> Acked(ledger[x])]
        /\ [x \in Rows |-> row'[x].content] = [x \in Rows |-> row[x].content]
    BY <1>1
  <1> QED BY <1>2, OneChange DEF D!Settle, Phase, Acked

\* A batch of rows dead-lettered, by a sync or by the exhausted sweep.
LEMMA BuryStep ==
    ASSUME NEW R \in SUBSET Rows, \A x \in Rows \ R : Unseen(x),
           \A x \in R : /\ Phase(row[x]) = "queued" /\ Phase(row'[x]) = "dead"
                        /\ row'[x].content = row[x].content
                        /\ Acked(ledger'[x]) = Acked(ledger[x])
    PROVE  D!Bury(R)
  BY DEF D!Bury, Unseen, Phase, Acked

\* requeue_dead_outbox.
LEMMA ReviveStep ==
    ASSUME NEW R \in SUBSET Rows, \A x \in Rows \ R : Unseen(x),
           \A x \in R : /\ Phase(row[x]) = "dead" /\ Phase(row'[x]) = "queued"
                        /\ row'[x].content = row[x].content
                        /\ Acked(ledger'[x]) = Acked(ledger[x])
    PROVE  D!Revive(R)
  BY DEF D!Revive, Unseen, Phase, Acked

\* prune.
LEMMA ForgetStep ==
    ASSUME NEW r \in Rows, \A x \in Rows \ {r} : Unseen(x),
           Phase(row[r]) = "sent", Phase(row'[r]) = "none",
           row'[r].content = NoContent, Acked(ledger'[r]) = {}
    PROVE  D!Forget(r)
  BY OneChange DEF D!Forget, Phase, Acked

\* What a step of a task may do to its row, as Delivery sees it.
Move(r) ==
    \/ Unseen(r)
    \/ /\ Phase(row[r]) = "queued" /\ Phase(row'[r]) = "dead"
       /\ row'[r].content = row[r].content /\ Acked(ledger'[r]) = Acked(ledger[r])
    \/ /\ Phase(row[r]) = "queued" /\ Phase(row'[r]) = "sent" /\ Acked(ledger[r]) # {}
       /\ row'[r].content = row[r].content /\ Acked(ledger'[r]) = Acked(ledger[r])
    \/ /\ Phase(row[r]) \in {"queued", "dead"} /\ Phase(row'[r]) = Phase(row[r])
       /\ row'[r].content = row[r].content
       /\ \E i \in Indices : Acked(ledger'[r]) = Acked(ledger[r]) \cup {i}
    \/ /\ Phase(row[r]) = "sent" /\ Phase(row'[r]) = "queued"
       /\ Acked(ledger'[r]) = {}
       /\ \E c \in Contents : row'[r].content = c

\* Each of them is a step of Delivery, or none.
LEMMA MoveMaps ==
    ASSUME NEW r \in Rows, Move(r), \A x \in Rows \ {r} : Unseen(x)
    PROVE  D!Next \/ UNCHANGED D!vars
  <1>1. CASE Unseen(r)
    BY <1>1, StutterStep
  <1>2. CASE /\ Phase(row[r]) = "queued" /\ Phase(row'[r]) = "dead"
             /\ row'[r].content = row[r].content /\ Acked(ledger'[r]) = Acked(ledger[r])
    <2>1. {r} \in SUBSET Rows
      OBVIOUS
    <2>2. D!Bury({r})
      BY <1>2, <2>1, BuryStep
    <2> QED BY <2>1, <2>2 DEF D!Next
  <1>3. CASE /\ Phase(row[r]) = "queued" /\ Phase(row'[r]) = "sent" /\ Acked(ledger[r]) # {}
             /\ row'[r].content = row[r].content /\ Acked(ledger'[r]) = Acked(ledger[r])
    <2>1. D!Settle(r)
      BY <1>3, SettleStep
    <2> QED BY <2>1 DEF D!Next
  <1>4. CASE /\ Phase(row[r]) \in {"queued", "dead"} /\ Phase(row'[r]) = Phase(row[r])
             /\ row'[r].content = row[r].content
             /\ \E i \in Indices : Acked(ledger'[r]) = Acked(ledger[r]) \cup {i}
    <2>1. PICK i \in Indices : Acked(ledger'[r]) = Acked(ledger[r]) \cup {i}
      BY <1>4
    <2>2. D!Ack(r, i)
      BY <1>4, <2>1, AckStep
    <2> QED BY <2>2 DEF D!Next
  <1>5. CASE /\ Phase(row[r]) = "sent" /\ Phase(row'[r]) = "queued"
             /\ Acked(ledger'[r]) = {}
             /\ \E c \in Contents : row'[r].content = c
    <2>0. PICK c \in Contents : row'[r].content = c
      BY <1>5
    <2>1. D!Renew(r, c)
      BY <1>5, <2>0, RenewStep
    <2> QED BY <1>5, <2>1 DEF D!Next
  <1> QED
    BY <1>1, <1>2, <1>3, <1>4, <1>5 DEF Move

----------------------------------------------------------------------------
(* One step of an attempt.                                                 *)

\* fail_notification and fail_sink_delivery count, and bury at the cap.
LEMMA FailureCounts ==
    ASSUME NEW q \in Row
    PROVE  LET p == OneMoreFailure(q)
           IN  /\ p.attempts = q.attempts + 1 /\ p.content = q.content
               /\ p.status \in {"failed", "dead"}
               /\ p.status = "dead" => Spent(p)
               /\ Spent(q) => p.status = "dead"
  <1>1. q.attempts \in Nat
    BY DEF Row
  <1> QED
    BY <1>1, OutboxAssumption DEF OneMoreFailure, Row, Spent

\* A step that touches neither the row nor the ledger.
LEMMA Untouched ==
    ASSUME NEW r \in Rows, DeadFact(r), row'[r] = row[r], ledger'[r] = ledger[r]
    PROVE  DeadFact(r)' /\ Move(r)
  BY DEF DeadFact, Spent, Move, Unseen

\* A step of fail_notification, on a row that was buried only if it was spent.
LEMMA FailedRow ==
    ASSUME NEW r \in Rows, row[r] \in Row, row[r].status \notin {"none", "sent"},
           row[r].status = "dead" => Spent(row[r]),
           row'[r] = OneMoreFailure(row[r]), ledger'[r] = ledger[r]
    PROVE  DeadFact(r)' /\ Move(r)
  <1> DEFINE q == OneMoreFailure(row[r])
  <1>1. /\ q.content = row[r].content
        /\ q.status \in {"failed", "dead"}
        /\ q.status = "dead" => Spent(q)
        /\ Spent(row[r]) => q.status = "dead"
    BY FailureCounts
  <1>2. row[r].status \in Retryable \cup {"dead"}
    BY DEF Row, Retryable
  <1>3. row'[r] = q
    OBVIOUS
  <1> HIDE DEF q
  <1>4. DeadFact(r)'
    BY <1>1, <1>3 DEF DeadFact, Spent
  <1>5. Move(r)
    BY <1>1, <1>2, <1>3 DEF Move, Unseen, Phase, Retryable
  <1> QED BY <1>4, <1>5

\* A write to the ledger that acknowledges nothing and takes nothing back, before
\* the attempt closes.
LEMMA LedgerWrite ==
    ASSUME NEW r \in Rows, row'[r] = row[r], row[r].status = "dead" => Spent(row[r]),
           \A i \in Indices : ledger'[r][i].status = "sent" <=> ledger[r][i].status = "sent"
    PROVE  DeadFact(r)' /\ Move(r)
  <1>1. Acked(ledger'[r]) = Acked(ledger[r])
    BY DEF Acked
  <1> QED BY <1>1 DEF DeadFact, Spent, Move, Unseen

\* abandon_retryable_sinks acknowledges nothing and loses track of nothing.
LEMMA AbandonedSink ==
    ASSUME NEW s \in Sink
    PROVE  /\ Abandoned(s).status = "sent" <=> s.status = "sent"
           /\ s.status # "absent" => Abandoned(s).status # "absent"
  BY SinkFields DEF Retryable

\* Every step of a task keeps what it knows of its ledger and what a dead row means,
\* and does to its row one of the moves Delivery allows.
LEMMA StepMoves ==
    ASSUME PInv, NEW w \in Workers, Step(w) \/ Crash(w), NEW r \in Rows, r = job[w].row
    PROVE  (Delivering(w)' => KnowsLedger(w)') /\ DeadFact(r)' /\ Move(r)
  <1>t. TypeOK /\ DeadFact(r)
    BY DEF PInv, IInv
  <1>f. Frame(w) /\ RowEffect(w)
    BY <1>t, StepEffect
  <1>w. /\ job[w] \in Job /\ job[w].row = r /\ row[r] \in Row /\ ledger[r] \in [Indices -> Sink]
        /\ \A i \in Indices : ledger[r][i] \in Sink
    BY <1>t DEF TypeOK
  <1>k. Delivering(w) => HoldsLease(w) /\ KnowsSinks(w) /\ KnowsLedger(w)
    BY DEF PInv, IInv
  <1>p. Delivering(w)' => job'[w].pc \notin {"idle", "reopen", "catalogue", "claim"}
    BY DEF Delivering
  <1>c. Delivering(w)' => job'[w].row = r
    BY <1>f DEF Frame, SameWork, Delivering
  <1>s. Delivering(w) => row[r].status \notin {"none", "sent"}
    BY <1>k DEF HoldsLease
  <1>1. CASE Reopen(w)
    <2>1. job[w].pc = "reopen" /\ job[w].content \in Contents
      BY <1>1 DEF Reopen, PInv
    <2>2. CASE row[r].status = "sent"
      <3>1. \A i \in Indices : ledger'[r][i].status # "sent"
        <4>1. ledger' = [ledger EXCEPT ![r] = [i \in Indices |-> ResetSink(ledger[r][i])]]
          BY <1>1, <2>2 DEF Reopen
        <4>2. ledger'[r] = [i \in Indices |-> ResetSink(ledger[r][i])]
          BY <4>1, <1>t, Pointwise
        <4>3. \A i \in Indices : ResetSink(ledger[r][i]).status # "sent"
          BY <1>w, SinkFields
        <4> QED BY <4>2, <4>3
      <3> DEFINE q == [row[r] EXCEPT !.status = "pending", !.content = job[w].content,
                                     !.attempts = 0, !.due = job[w].now]
      <3>2. row' = [row EXCEPT ![r] = q] /\ Goto(w, "catalogue")
        BY <1>1, <2>2, Zenon DEF Reopen
      <3>3. q.status = "pending" /\ q.content = job[w].content
        BY <1>w DEF Row
      <3> HIDE DEF q
      <3>4. row'[r] = q
        BY <3>2, <1>t, Pointwise
      <3>5. job'[w].pc = "catalogue"
        BY <3>2, <1>w, <1>t, JobPointwise DEF Goto, Job
      <3>6. Acked(ledger'[r]) = {}
        BY <3>1 DEF Acked
      <3>7. Move(r)
        BY <2>1, <2>2, <3>3, <3>4, <3>6 DEF Move, Phase, Retryable
      <3>8. DeadFact(r)'
        BY <3>3, <3>4 DEF DeadFact
      <3> QED BY <3>5, <3>7, <3>8, <1>p
    <2>3. CASE row[r].status # "sent"
      <3>1. row' = row /\ ledger' = ledger /\ Becomes(w, Idle)
        BY <1>1, <2>3 DEF Reopen, Stop
      <3>2. job'[w].pc = "idle"
        BY <3>1, <1>t, JobPointwise DEF Idle
      <3> QED BY <3>1, <3>2, <1>p, <1>t, Untouched
    <2> QED BY <2>2, <2>3
  <1>2. CASE Catalogue(w) \/ Crash(w)
    <2>1. /\ row' = row /\ ledger' = ledger
          /\ \E j \in {[job[w] EXCEPT !.pc = "claim"], Idle} : Becomes(w, j)
      BY <1>2 DEF Catalogue, Crash, Goto, Stop
    <2>2. job'[w].pc \in {"claim", "idle"}
      BY <2>1, <1>w, <1>t, JobPointwise DEF Job, Idle
    <2> QED BY <2>1, <2>2, <1>p, <1>t, Untouched
  <1>3. CASE ClaimRow(w)
    <2>1. job[w].pc = "claim" /\ ledger' = ledger
      BY <1>3 DEF ClaimRow
    <2>2. CASE Claimable(r)
      <3> DEFINE q == [row[r] EXCEPT !.lock = "lease"]
      <3>1. row' = [row EXCEPT ![r] = q] /\ Goto(w, "open") /\ row[r].status \in Retryable
        BY <1>3, <2>2 DEF ClaimRow, Claimable
      <3>2. q.status = row[r].status /\ q.content = row[r].content
        BY <1>w DEF Row
      <3> HIDE DEF q
      <3>3. row'[r] = q
        BY <3>1, <1>t, Pointwise
      <3>4. job'[w].pc = "open" /\ job'[w].row = r
        BY <3>1, <1>w, <1>t, JobPointwise DEF Goto, Job
      <3>5. KnowsLedger(w)'
        BY <3>1, <3>2, <3>3, <3>4 DEF KnowsLedger, Retryable
      <3>6. DeadFact(r)' /\ Move(r)
        BY <2>1, <3>1, <3>2, <3>3 DEF DeadFact, Retryable, Move, Unseen, Phase
      <3> QED BY <3>5, <3>6
    <2>3. CASE ~Claimable(r)
      <3>1. row' = row /\ Becomes(w, Idle)
        BY <1>3, <2>3 DEF ClaimRow, Stop
      <3>2. job'[w].pc = "idle"
        BY <3>1, <1>t, JobPointwise DEF Idle
      <3> QED BY <2>1, <3>1, <3>2, <1>p, <1>t, Untouched
    <2> QED BY <2>2, <2>3
  <1>4. CASE Open(w)
    <2>1. /\ job[w].pc = "open" /\ row[r].status \notin {"none", "sent"}
          /\ row[r].status = "dead" => Spent(row[r])
      BY <1>4, <1>k, <1>s DEF Open, Delivering, KnowsLedger, Closing
    <2>2. CASE Matching(notifier) = {}
      <3> DEFINE j == [job[w] EXCEPT !.pc = "backoff", !.verdict = "failed"]
      <3>1. /\ Becomes(w, j) /\ ledger' = ledger
            /\ row' = [row EXCEPT ![r] = OneMoreFailure(row[r])]
        BY <1>4, <2>2 DEF Open
      <3>2. j.pc = "backoff"
        BY <1>w DEF Job
      <3> HIDE DEF j
      <3>3. job'[w].pc = "backoff" /\ row'[r] = OneMoreFailure(row[r])
        BY <3>1, <3>2, <1>t, JobPointwise, Pointwise
      <3>4. DeadFact(r)' /\ Move(r)
        BY <2>1, <3>1, <3>3, <1>w, FailedRow
      <3> QED BY <3>3, <3>4 DEF KnowsLedger, Closing
    <2>3. CASE Matching(notifier) # {}
      <3> DEFINE j == [job[w] EXCEPT !.pc = "list", !.snap = notifier]
                 s == [i \in Indices |->
                        IF i \in Matching(notifier) /\ ledger[r][i].status = "absent"
                        THEN [status |-> "pending", attempts |-> 0] ELSE ledger[r][i]]
      <3>1. Becomes(w, j) /\ ledger' = [ledger EXCEPT ![r] = s] /\ row' = row
        BY <1>4, <2>3 DEF Open
      <3>2. j.pc = "list" /\ j.row = r
        BY <1>w DEF Job
      <3>3. \A i \in Indices : /\ s[i].status = "sent" <=> ledger[r][i].status = "sent"
                               /\ i \in Matching(notifier) => s[i].status # "absent"
        OBVIOUS
      <3> HIDE DEF j, s
      <3>4. job'[w] = j /\ ledger'[r] = s
        BY <3>1, <1>t, JobPointwise, Pointwise
      <3>5. \E i \in Indices : s[i].status # "absent"
        <4>1. PICK i : i \in Matching(notifier)
          BY <2>3
        <4> QED BY <4>1, <3>3 DEF Matching
      <3>6. KnowsLedger(w)'
        BY <2>1, <3>1, <3>2, <3>4, <3>5 DEF KnowsLedger, Spent
      <3>7. \A i \in Indices : ledger'[r][i].status = "sent" <=> ledger[r][i].status = "sent"
        BY <3>3, <3>4
      <3> QED BY <2>1, <3>1, <3>6, <3>7, LedgerWrite
    <2> QED BY <2>2, <2>3
  <1>5. CASE List(w)
    <2> DEFINE P == PendingSinks(job[w].row)
               M == Matching(job[w].snap)
               p == IF P = {} THEN "check"
                    ELSE IF P \cap M = {} THEN "abandonAll"
                    ELSE IF P \subseteq M THEN "sending"
                    ELSE "abandon"
               j == [job[w] EXCEPT !.pc = p, !.todo = P]
    <2>1. job[w].pc = "list" /\ Becomes(w, j) /\ ledger' = ledger /\ row' = row
      BY <1>5 DEF List
    <2>2. p \in {"check", "abandonAll", "sending", "abandon"}
      OBVIOUS
    <2> HIDE DEF p, P
    <2>3. j.pc = p /\ j.row = r
      BY <1>w DEF Job
    <2> HIDE DEF j
    <2>4. job'[w] = j
      BY <2>1, <1>t, JobPointwise
    <2>5. KnowsLedger(w)
      BY <2>1, <1>k DEF Delivering
    <2>6. KnowsLedger(w)'
      BY <2>1, <2>2, <2>3, <2>4, <2>5, <1>w DEF KnowsLedger, Closing, Spent
    <2> QED BY <2>1, <2>6, <1>t, Untouched
  <1>6. CASE AbandonAll(w)
    <2> DEFINE j == [job[w] EXCEPT !.pc = "failRow", !.todo = {}, !.verdict = "failed"]
               s == [i \in Indices |-> Abandoned(ledger[r][i])]
    <2>1. job[w].pc = "abandonAll" /\ Becomes(w, j) /\ ledger' = [ledger EXCEPT ![r] = s] /\ row' = row
      BY <1>6 DEF AbandonAll
    <2>2. j.pc = "failRow" /\ j.row = r
      BY <1>w DEF Job
    <2>3. \A i \in Indices : /\ s[i].status = "sent" <=> ledger[r][i].status = "sent"
                             /\ ledger[r][i].status # "absent" => s[i].status # "absent"
      BY <1>w, AbandonedSink
    <2> HIDE DEF j, s
    <2>4. job'[w] = j /\ ledger'[r] = s
      BY <2>1, <1>t, JobPointwise, Pointwise
    <2>5. KnowsLedger(w) /\ (row[r].status = "dead" => Spent(row[r]))
      BY <2>1, <1>k, <1>w DEF Delivering, KnowsLedger, Closing
    <2>6. KnowsLedger(w)'
      <3>1. \E i \in Indices : ledger[r][i].status # "absent"
        BY <2>1, <2>5, <1>w DEF KnowsLedger
      <3>2. \E i \in Indices : s[i].status # "absent"
        BY <2>3, <3>1
      <3> QED BY <2>1, <2>2, <2>4, <2>5, <3>2 DEF KnowsLedger, Spent
    <2>7. \A i \in Indices : ledger'[r][i].status = "sent" <=> ledger[r][i].status = "sent"
      BY <2>3, <2>4
    <2> QED BY <2>1, <2>5, <2>6, <2>7, LedgerWrite
  <1>7. CASE FailRow(w)
    <2> DEFINE j == [job[w] EXCEPT !.pc = "sync"]
    <2>1. /\ job[w].pc = "failRow" /\ Becomes(w, j) /\ ledger' = ledger
          /\ row' = [row EXCEPT ![r] = OneMoreFailure(row[r])]
      BY <1>7 DEF FailRow, Goto
    <2>2. j.pc = "sync" /\ j.row = r
      BY <1>w DEF Job
    <2> HIDE DEF j
    <2>3. job'[w] = j /\ row'[r] = OneMoreFailure(row[r])
      BY <2>1, <1>t, JobPointwise, Pointwise
    <2>4. KnowsLedger(w) /\ (row[r].status = "dead" => Spent(row[r]))
      BY <2>1, <1>k, <1>w DEF Delivering, KnowsLedger, Closing
    <2>5. DeadFact(r)' /\ Move(r)
      BY <2>1, <2>3, <2>4, <1>w, <1>s, FailedRow DEF Delivering
    <2>6. KnowsLedger(w)'
      BY <2>1, <2>2, <2>3, <2>4, <1>w DEF KnowsLedger, Closing
    <2> QED BY <2>5, <2>6
  <1>8. CASE Abandon(w)
    <2> DEFINE M == Matching(job[w].snap)
               j == [job[w] EXCEPT !.pc = "sending", !.todo = job[w].todo \cap M]
               s == [i \in Indices |-> IF i \in job[w].todo \ M
                                       THEN Abandoned(ledger[r][i]) ELSE ledger[r][i]]
    <2>1. job[w].pc = "abandon" /\ Becomes(w, j) /\ ledger' = [ledger EXCEPT ![r] = s] /\ row' = row
      BY <1>8, <1>w DEF Abandon
    <2>2. j.pc = "sending" /\ j.row = r
      BY <1>w DEF Job
    <2>3. \A i \in Indices : /\ s[i].status = "sent" <=> ledger[r][i].status = "sent"
                             /\ ledger[r][i].status # "absent" => s[i].status # "absent"
      BY <1>w, AbandonedSink
    <2> HIDE DEF j, s
    <2>4. job'[w] = j /\ ledger'[r] = s
      BY <2>1, <1>t, JobPointwise, Pointwise
    <2>5. KnowsLedger(w) /\ (row[r].status = "dead" => Spent(row[r]))
      BY <2>1, <1>k, <1>w DEF Delivering, KnowsLedger, Closing
    <2>6. KnowsLedger(w)'
      <3>1. \E i \in Indices : ledger[r][i].status # "absent"
        BY <2>1, <2>5, <1>w DEF KnowsLedger
      <3>2. \E i \in Indices : s[i].status # "absent"
        BY <2>3, <3>1
      <3> QED BY <2>1, <2>2, <2>4, <2>5, <3>2 DEF KnowsLedger, Spent
    <2>7. \A i \in Indices : ledger'[r][i].status = "sent" <=> ledger[r][i].status = "sent"
      BY <2>3, <2>4
    <2> QED BY <2>1, <2>5, <2>6, <2>7, LedgerWrite
  <1>9. CASE \E res \in Results : Notify(w, res)
    <2>0. PICK res \in Results : Notify(w, res)
      BY <1>9
    <2> DEFINE j == [job[w] EXCEPT !.pc = "record", !.res = res, !.verdict = "ok"]
    <2>1. job[w].pc = "sending" /\ Becomes(w, j) /\ ledger' = ledger /\ row' = row
      BY <2>0 DEF Notify
    <2>2. j.pc = "record" /\ j.row = r /\ j.todo = job[w].todo
      BY <1>w DEF Job
    <2> HIDE DEF j
    <2>3. job'[w] = j
      BY <2>1, <1>t, JobPointwise
    <2>4. KnowsLedger(w) /\ KnowsSinks(w)
      BY <2>1, <1>k DEF Delivering
    <2>5. KnowsLedger(w)'
      BY <2>1, <2>2, <2>3, <2>4, <1>w DEF KnowsLedger, KnowsSinks, Closing, Spent
    <2> QED BY <2>1, <2>5, <1>t, Untouched
  <1>10. CASE Record(w)
    <2>0. PICK i \in job[w].todo :
            /\ ledger' = [ledger EXCEPT ![r] = [ledger[r] EXCEPT ![i] =
                  IF job[w].res[i] = "ok" THEN [ledger[r][i] EXCEPT !.status = "sent"]
                  ELSE IF job[w].res[i] = "error" THEN OneMoreFailure(ledger[r][i])
                  ELSE ledger[r][i]]]
            /\ Becomes(w, [job[w] EXCEPT
                  !.pc = IF job[w].todo = {i} THEN "sync" ELSE "record",
                  !.todo = @ \ {i},
                  !.res = IF job[w].todo = {i} THEN NoResults ELSE @,
                  !.verdict = IF job[w].res[i] = "error" THEN "failed"
                              ELSE IF job[w].res[i] = "breaker" /\ @ = "ok" THEN "deferred"
                              ELSE @])
      BY <1>10 DEF Record
    <2> DEFINE p == IF job[w].todo = {i} THEN "sync" ELSE "record"
               q == IF job[w].todo = {i} THEN NoResults ELSE job[w].res
               v == IF job[w].res[i] = "error" THEN "failed"
                    ELSE IF job[w].res[i] = "breaker" /\ job[w].verdict = "ok" THEN "deferred"
                    ELSE job[w].verdict
               j == [job[w] EXCEPT !.pc = p, !.todo = job[w].todo \ {i}, !.res = q, !.verdict = v]
               x == IF job[w].res[i] = "ok" THEN [ledger[r][i] EXCEPT !.status = "sent"]
                    ELSE IF job[w].res[i] = "error" THEN OneMoreFailure(ledger[r][i])
                    ELSE ledger[r][i]
               s == [ledger[r] EXCEPT ![i] = x]
    <2>1. job[w].pc = "record" /\ row' = row
      BY <1>10 DEF Record
    <2>2. Becomes(w, j) /\ ledger' = [ledger EXCEPT ![r] = s]
      BY <2>0
    <2>3. p \in {"sync", "record"}
      OBVIOUS
    <2>4. i \in Indices /\ ledger[r][i] \in Sink
      BY <1>w DEF Job
    <2>5. KnowsLedger(w) /\ HoldsLease(w) /\ (row[r].status = "dead" => Spent(row[r]))
      BY <2>1, <1>k, <1>w DEF Delivering, KnowsLedger, Closing
    <2>6. ledger[r][i].status \in Retryable
      BY <2>1, <2>5, <1>w DEF KnowsLedger
    <2>7. x.status \in {"sent", "failed", "dead"} \/ x.status = ledger[r][i].status
      BY <2>4, SinkFields
    <2> HIDE DEF p, q, v, x
    <2>8. j.pc = p /\ j.row = r /\ j.todo = job[w].todo \ {i}
      BY <1>w DEF Job
    <2> HIDE DEF j
    <2>9. /\ s[i] = x /\ \A k \in Indices \ {i} : s[k] = ledger[r][k]
      BY <2>4, <1>w
    <2> HIDE DEF s
    <2>10. job'[w] = j /\ ledger'[r] = s
      BY <2>2, <1>t, JobPointwise, Pointwise
    <2>11. \A k \in Indices : ledger[r][k].status # "absent" => s[k].status # "absent"
      BY <2>6, <2>7, <2>9 DEF Retryable
    <2>12. \A k \in job[w].todo \ {i} : s[k].status \in Retryable
      BY <2>1, <2>5, <2>9, <1>w DEF KnowsLedger, Job
    <2>13. KnowsLedger(w)'
      BY <2>1, <2>3, <2>5, <2>8, <2>10, <2>11, <2>12, <1>w DEF KnowsLedger, Spent
    <2>14. CASE x.status = "sent"
      <3>1. Acked(s) = Acked(ledger[r]) \cup {i}
        BY <2>4, <2>9, <2>14 DEF Acked
      <3>2. row[r].status \in Retryable \cup {"dead"}
        BY <1>w, <1>s, <2>1 DEF Row, Retryable, Delivering
      <3>3. Move(r)
        BY <2>1, <2>4, <2>10, <3>1, <3>2 DEF Move, Phase, Retryable
      <3> QED BY <3>3, <2>1, <2>5, <2>13 DEF DeadFact, Spent
    <2>15. CASE x.status # "sent"
      <3>1. \A k \in Indices : s[k].status = "sent" <=> ledger[r][k].status = "sent"
        BY <2>6, <2>9, <2>15 DEF Retryable
      <3> QED BY <2>1, <2>5, <2>10, <2>13, <3>1, LedgerWrite
    <2> QED BY <2>14, <2>15
  <1>11. CASE Sync(w)
    <2>1. /\ job[w].pc = "sync" /\ row' = row /\ ledger' = ledger
          /\ \E p \in {"markFailed", "bury", "check", "backoff"} :
               /\ Becomes(w, [job[w] EXCEPT !.pc = p])
               /\ p = "bury" => \A i \in Indices : ledger[r][i].status \notin Retryable
      BY <1>11, <1>w DEF Sync, AfterSync, Goto
    <2>2. PICK p \in {"markFailed", "bury", "check", "backoff"} :
               /\ Becomes(w, [job[w] EXCEPT !.pc = p])
               /\ p = "bury" => \A i \in Indices : ledger[r][i].status \notin Retryable
      BY <2>1
    <2>3. job'[w].pc = p /\ job'[w].row = r
      BY <2>2, <1>w, <1>t, JobPointwise DEF Job
    <2>4. KnowsLedger(w)
      BY <2>1, <1>k DEF Delivering
    <2>5. KnowsLedger(w)'
      BY <2>1, <2>2, <2>3, <2>4, <1>w DEF KnowsLedger, Closing
    <2> QED BY <2>1, <2>5, <1>t, Untouched
  <1>12. CASE Bury(w)
    <2> DEFINE q == [row[r] EXCEPT !.status = "dead"]
    <2>1. /\ job[w].pc = "bury" /\ ledger' = ledger /\ row' = [row EXCEPT ![r] = q]
          /\ \E p \in {"check", "backoff"} : Becomes(w, [job[w] EXCEPT !.pc = p])
      BY <1>12 DEF Bury, AfterSync, Goto
    <2>2. job'[w].pc \in {"check", "backoff"} /\ job'[w].row = r
      BY <2>1, <1>w, <1>t, JobPointwise DEF Job
    <2>3. q.status = "dead" /\ q.content = row[r].content
      BY <1>w DEF Row
    <2> HIDE DEF q
    <2>4. row'[r] = q
      BY <2>1, <1>t, Pointwise
    <2>5. KnowsLedger(w) /\ row[r].status \in Retryable \cup {"dead"}
      BY <2>1, <1>k, <1>s, <1>w DEF Delivering, Row, Retryable
    <2>6. KnowsLedger(w)'
      BY <2>1, <2>2, <2>5, <1>w DEF KnowsLedger, Closing
    <2>7. DeadFact(r)'
      BY <2>1, <2>5, <1>w DEF KnowsLedger, DeadFact
    <2>8. Move(r)
      BY <2>1, <2>3, <2>4, <2>5 DEF Move, Unseen, Phase, Retryable
    <2> QED BY <2>6, <2>7, <2>8
  <1>13. CASE MarkFailed(w)
    <2> DEFINE q == IF row[r].status \in Retryable THEN [row[r] EXCEPT !.status = "failed"] ELSE row[r]
    <2>1. /\ job[w].pc = "markFailed" /\ ledger' = ledger /\ row' = [row EXCEPT ![r] = q]
          /\ \E p \in {"check", "backoff"} : Becomes(w, [job[w] EXCEPT !.pc = p])
      BY <1>13 DEF MarkFailed, AfterSync, Goto
    <2>2. job'[w].pc \in {"check", "backoff"} /\ job'[w].row = r
      BY <2>1, <1>w, <1>t, JobPointwise DEF Job
    <2>3. /\ Phase(q) = Phase(row[r]) /\ q.content = row[r].content
          /\ q.status = "dead" => q = row[r]
      BY <1>w DEF Row, Phase, Retryable
    <2> HIDE DEF q
    <2>4. row'[r] = q
      BY <2>1, <1>t, Pointwise
    <2>5. KnowsLedger(w)
      BY <2>1, <1>k DEF Delivering
    <2>6. KnowsLedger(w)'
      BY <2>1, <2>2, <2>5, <1>w DEF KnowsLedger, Closing
    <2>7. DeadFact(r)'
      BY <2>1, <2>3, <2>4, <1>t DEF DeadFact
    <2>8. Move(r)
      BY <2>1, <2>3, <2>4 DEF Move, Unseen
    <2> QED BY <2>6, <2>7, <2>8

  <1>14. CASE Check(w)
    <2>1. /\ job[w].pc = "check" /\ row' = row /\ ledger' = ledger
      BY <1>14 DEF Check
    <2>2. PICK j : /\ Becomes(w, j) /\ j.pc \in {"complete", "sync", "backoff"} /\ j.row = r
      <3> DEFINE p == IF job[w].verdict = "none" THEN "sync" ELSE "backoff"
                 k == [job[w] EXCEPT !.pc = "complete"]
                 l == [job[w] EXCEPT !.pc = p, !.verdict = "failed"]
      <3>1. Becomes(w, k) \/ Becomes(w, l)
        BY <1>14 DEF Check, Goto
      <3>2. p \in {"sync", "backoff"}
        OBVIOUS
      <3> HIDE DEF p
      <3>3. k.pc = "complete" /\ k.row = r /\ l.pc = p /\ l.row = r
        BY <1>w DEF Job
      <3> HIDE DEF k, l
      <3> QED BY <3>1, <3>2, <3>3
    <2>3. job'[w] = j
      BY <2>2, <1>t, JobPointwise
    <2>4. KnowsLedger(w)
      BY <2>1, <1>k DEF Delivering
    <2>5. KnowsLedger(w)'
      BY <2>1, <2>2, <2>3, <2>4, <1>w DEF KnowsLedger, Closing
    <2> QED BY <2>1, <2>5, <1>t, Untouched
  <1>15. CASE Complete(w)
    <2>1. job[w].pc = "complete" /\ ledger' = ledger
      BY <1>15 DEF Complete
    <2>2. KnowsLedger(w) /\ KnowsSinks(w)
      BY <2>1, <1>k DEF Delivering
    <2>3. CASE row[r].status \in Retryable
      <3> DEFINE q == [row[r] EXCEPT !.status = "sent"]
      <3>1. row' = [row EXCEPT ![r] = q] /\ Becomes(w, Idle)
        BY <1>15, <2>3 DEF Complete, Stop
      <3>2. q.status = "sent" /\ q.content = row[r].content
        BY <1>w DEF Row
      <3> HIDE DEF q
      <3>3. row'[r] = q /\ job'[w].pc = "idle"
        BY <3>1, <1>t, JobPointwise, Pointwise DEF Idle
      <3>4. Acked(ledger[r]) # {}
        <4>1. PICK i \in Indices : ledger[r][i].status # "absent"
          BY <2>1, <2>2, <1>w DEF KnowsLedger
        <4>2. ledger[r][i].status = "sent"
          BY <2>1, <2>2, <4>1, <1>w DEF KnowsSinks, SinksComplete
        <4> QED BY <4>2 DEF Acked
      <3>5. Move(r)
        BY <2>1, <2>3, <3>2, <3>3, <3>4 DEF Move, Phase, Retryable
      <3> QED BY <3>2, <3>3, <3>5, <1>p DEF DeadFact
    <2>4. CASE row[r].status \notin Retryable
      <3> DEFINE j == [job[w] EXCEPT !.pc = "backoff", !.verdict = "failed"]
      <3>1. row' = row /\ Becomes(w, j)
        BY <1>15, <2>4 DEF Complete
      <3>2. j.pc = "backoff"
        BY <1>w DEF Job
      <3> HIDE DEF j
      <3>3. job'[w] = j
        BY <3>1, <1>t, JobPointwise
      <3>4. KnowsLedger(w)'
        BY <3>2, <3>3 DEF KnowsLedger, Closing
      <3> QED BY <2>1, <3>1, <3>4, <1>t, Untouched
    <2> QED BY <2>3, <2>4
  <1>16. CASE Backoff(w)
    <2> DEFINE n == IF job[w].verdict = "deferred" THEN row[r].attempts ELSE row[r].attempts + 1
               q == [row[r] EXCEPT !.lock = "backoff", !.attempts = n]
    <2>1. Becomes(w, Idle) /\ ledger' = ledger /\ row' = [row EXCEPT ![r] = q]
      BY <1>16 DEF Backoff, Stop
    <2>2. n \in Nat /\ n >= row[r].attempts /\ row[r].attempts \in Nat
      BY <1>w DEF Row
    <2> HIDE DEF n
    <2>3. q.status = row[r].status /\ q.content = row[r].content /\ q.attempts = n
      BY <1>w DEF Row
    <2> HIDE DEF q
    <2>4. row'[r] = q /\ job'[w].pc = "idle"
      BY <2>1, <1>t, JobPointwise, Pointwise DEF Idle
    <2>5. DeadFact(r)'
      BY <2>1, <2>2, <2>3, <2>4, <1>t, OutboxAssumption DEF DeadFact, Spent
    <2>6. Move(r)
      BY <2>1, <2>3, <2>4 DEF Move, Unseen, Phase
    <2> QED BY <2>4, <2>5, <2>6, <1>p
  <1> QED BY <1>1, <1>2, <1>3, <1>4, <1>5, <1>6, <1>7, <1>8, <1>9, <1>10, <1>11, <1>12, <1>13,
             <1>14, <1>15, <1>16 DEF Step

\* What the other tasks know of their ledgers survives a step of one.
LEMMA OthersKnowLedger ==
    ASSUME PInv, NEW w \in Workers, Frame(w), RowEffect(w),
           NEW v \in Workers \ {w}, Delivering(v)'
    PROVE  KnowsLedger(v)'
  <1>1. job'[v] = job[v] /\ Delivering(v) /\ job[v].row \in Rows
    BY DEF Frame, PInv, IInv, TypeOK, Delivering
  <1>2. HoldsLease(v) /\ KnowsLedger(v)
    BY <1>1 DEF PInv, IInv
  <1>3. ledger'[job[v].row] = ledger[job[v].row] /\ row'[job[v].row] = row[job[v].row]
    <2>1. CASE job[v].row # job[w].row
      BY <2>1, <1>1 DEF Frame
    <2>2. CASE job[v].row = job[w].row
      <3>1. ~Delivering(w)
        BY <2>2, <1>1 DEF PInv, IInv, ExclusiveDelivery
      <3> QED BY <3>1, <2>2, <1>2 DEF RowEffect, HoldsLease
    <2> QED BY <2>1, <2>2
  <1> QED
    BY <1>1, <1>2, <1>3 DEF KnowsLedger, Spent

\* A step of a task keeps the invariant and is a step of Delivery or none.
LEMMA StepPromise ==
    ASSUME PInv, IInv', NEW w \in Workers, Step(w) \/ Crash(w)
    PROVE  PInv' /\ (D!Next \/ UNCHANGED D!vars)
  <1>t. TypeOK
    BY DEF PInv, IInv
  <1>f. Frame(w) /\ RowEffect(w)
    BY <1>t, StepEffect
  <1>r. PICK r \in Rows : r = job[w].row
    BY <1>f DEF Frame
  <1>1. (Delivering(w)' => KnowsLedger(w)') /\ DeadFact(r)' /\ Move(r)
    BY <1>r, StepMoves
  <1>2. \A x \in Rows \ {r} : row'[x] = row[x] /\ ledger'[x] = ledger[x]
    BY <1>f, <1>r DEF Frame
  <1>3. \A x \in Rows \ {r} : Unseen(x)
    BY <1>2 DEF Unseen
  <1>4. \A v \in Workers : Delivering(v)' => KnowsLedger(v)'
    BY <1>1, <1>f, OthersKnowLedger
  <1>5. \A v \in Workers : job'[v].pc = "reopen" => job'[v].content \in Contents
    <2>1. \A v \in Workers \ {w} : job'[v] = job[v]
      BY <1>f DEF Frame
    <2>2. job'[w].pc # "reopen"
      BY <1>f DEF RowEffect, Before
    <2> QED BY <2>1, <2>2 DEF PInv
  <1>6. \A x \in Rows : DeadFact(x)'
    <2>1. \A x \in Rows \ {r} : DeadFact(x)'
      BY <1>2 DEF PInv, DeadFact, Spent
    <2> QED BY <1>1, <2>1
  <1>7. PInv'
    BY <1>4, <1>5, <1>6 DEF PInv
  <1> QED BY <1>1, <1>3, <1>7, MoveMaps

----------------------------------------------------------------------------
(* The steps that belong to no attempt.                                    *)

\* A row that such a step may leave behind: what a task inside an attempt of it
\* knows still holds.
LedgerKept(x) ==
    \/ /\ ledger'[x] = ledger[x]
       /\ row'[x].status = "dead" => row[x].status = "dead" \/ Spent(row'[x])
       /\ row'[x].attempts = row[x].attempts
    \/ /\ \A v \in Workers : ~WorksOn(v, x)
       /\ row'[x].status # "dead"

\* Such a step preserves the invariant.
LEMMA KeptPromise ==
    ASSUME PInv, IInv', job' = job, \A x \in Rows : LedgerKept(x)
    PROVE  PInv'
  <1>1. ASSUME NEW v \in Workers, Delivering(v)'
        PROVE  KnowsLedger(v)'
    <2>1. Delivering(v) /\ KnowsLedger(v) /\ job[v].row \in Rows /\ WorksOn(v, job[v].row)
      BY <1>1 DEF PInv, IInv, TypeOK, Delivering, WorksOn
    <2>2. /\ ledger'[job[v].row] = ledger[job[v].row]
          /\ row'[job[v].row].status = "dead" =>
                row[job[v].row].status = "dead" \/ Spent(row'[job[v].row])
          /\ row'[job[v].row].attempts = row[job[v].row].attempts
      BY <2>1 DEF LedgerKept
    <2> QED BY <2>1, <2>2 DEF KnowsLedger, Spent
  <1>2. \A x \in Rows : DeadFact(x)'
    BY DEF PInv, DeadFact, LedgerKept, Spent
  <1> QED BY <1>1, <1>2 DEF PInv

\* An enqueue or a batch claim starts a task and leaves the ledger alone; the rows
\* of the tasks inside an attempt stay as they are.
LEMMA StartPromise ==
    ASSUME PInv, IInv', NEW w \in Workers, NEW j, Becomes(w, j),
           j.pc \in {"catalogue", "open"} \/ (j.pc = "reopen" /\ j.content \in Contents),
           ledger' = ledger,
           j.pc = "open" => j.row \in Rows /\ row'[j.row].status \in Retryable,
           \A x \in Rows : /\ row'[x].status = "dead" => row[x].status = "dead"
                           /\ row'[x].attempts = row[x].attempts \/ row'[x].status # "dead"
    PROVE  PInv'
  <1>1. job'[w] = j /\ \A v \in Workers \ {w} : job'[v] = job[v]
    BY JobPointwise DEF PInv, IInv
  <1>2. ASSUME NEW v \in Workers, Delivering(v)'
        PROVE  KnowsLedger(v)'
    <2>1. CASE v = w
      BY <2>1, <1>1, <1>2 DEF KnowsLedger, Delivering, Closing, Retryable
    <2>2. CASE v # w
      <3>1. job'[v] = job[v] /\ Delivering(v) /\ KnowsLedger(v) /\ job[v].row \in Rows
        BY <2>2, <1>1, <1>2 DEF PInv, IInv, TypeOK, Delivering
      <3> QED BY <3>1 DEF KnowsLedger, Spent
    <2> QED BY <2>1, <2>2
  <1>3. \A x \in Rows : DeadFact(x)'
    BY DEF PInv, DeadFact, Spent
  <1>4. \A v \in Workers : job'[v].pc = "reopen" => job'[v].content \in Contents
    BY <1>1 DEF PInv
  <1> QED BY <1>2, <1>3, <1>4 DEF PInv

\* try_enqueue_notification: Put, or nothing Delivery sees.
LEMMA EnqueuePromise ==
    ASSUME PInv, IInv', NEW w \in Pollers, NEW r \in Rows, NEW c \in Contents,
           NEW due \in BOOLEAN, Enqueue(w, r, c, due)
    PROVE  PInv' /\ (D!Next \/ UNCHANGED D!vars)
  <1> DEFINE j(pc, now) == [Idle EXCEPT !.pc = pc, !.row = r, !.content = c, !.now = now]
             q == [NoRecord EXCEPT !.status = "pending", !.content = c, !.due = due]
  <1>t. TypeOK /\ w \in Workers
    BY DEF PInv, IInv, Workers
  <1>1. PICK pc \in {"catalogue", "reopen"}, now \in BOOLEAN : Becomes(w, j(pc, now))
    BY DEF Enqueue
  <1>2. j(pc, now).pc = pc /\ j(pc, now).content = c
    BY DEF Idle
  <1>3. q.status = "pending" /\ q.content = c
    BY DEF NoRecord
  <1>4. ledger' = ledger /\ (row' = row \/ (row[r].status = "none" /\ row' = [row EXCEPT ![r] = q]))
    BY DEF Enqueue
  <1> HIDE DEF j, q
  <1>5. CASE row' = row
    <2>1. PInv'
      BY <1>1, <1>2, <1>4, <1>5, <1>t, StartPromise
    <2>2. \A x \in Rows : Unseen(x)
      BY <1>4, <1>5 DEF Unseen
    <2> QED BY <2>1, <2>2, StutterStep
  <1>6. CASE row[r].status = "none" /\ row' = [row EXCEPT ![r] = q]
    <2>1. row'[r] = q /\ \A x \in Rows \ {r} : row'[x] = row[x]
      BY <1>6, <1>t, Pointwise
    <2>2. PInv'
      <3>1. \A x \in Rows : /\ row'[x].status = "dead" => row[x].status = "dead"
                            /\ row'[x].attempts = row[x].attempts \/ row'[x].status # "dead"
        BY <2>1, <1>3
      <3> QED BY <1>1, <1>2, <1>4, <1>t, <3>1, StartPromise
    <2>3. \A x \in Rows \ {r} : Unseen(x)
      BY <2>1, <1>4 DEF Unseen
    <2>4. D!Put(r, c)
      <3>1. Phase(row[r]) = "none" /\ Phase(row'[r]) = "queued"
        BY <1>3, <1>6, <2>1 DEF Phase, Retryable
      <3> QED BY <1>3, <1>4, <2>1, <2>3, <3>1, PutStep
    <2> QED BY <2>2, <2>4 DEF D!Next
  <1> QED BY <1>4, <1>5, <1>6

\* claim_outbox_batch: nothing Delivery sees.
LEMMA ClaimPromise ==
    ASSUME PInv, IInv', NEW w \in Flushers, NEW r \in Rows, ClaimBatch(w, r)
    PROVE  PInv' /\ (D!Next \/ UNCHANGED D!vars)
  <1> DEFINE j == [Idle EXCEPT !.pc = "open", !.row = r, !.content = row[r].content]
             q == [row[r] EXCEPT !.lock = "lease"]
  <1>t. TypeOK /\ w \in Workers /\ row[r] \in Row
    BY DEF PInv, IInv, TypeOK, Workers
  <1>1. /\ ledger' = ledger /\ Becomes(w, j) /\ row' = [row EXCEPT ![r] = q]
        /\ row[r].status \in Retryable
    BY DEF ClaimBatch, Claimable
  <1>2. j.pc = "open" /\ j.row = r
    BY DEF Idle
  <1>3. q.status = row[r].status /\ q.content = row[r].content /\ q.attempts = row[r].attempts
    BY <1>t DEF Row
  <1> HIDE DEF j, q
  <1>4. row'[r] = q /\ \A x \in Rows \ {r} : row'[x] = row[x]
    BY <1>1, <1>t, Pointwise
  <1>5. \A x \in Rows : row'[x].status = row[x].status /\ row'[x].attempts = row[x].attempts
    BY <1>3, <1>4
  <1>6. PInv'
    BY <1>1, <1>2, <1>t, <1>5, StartPromise
  <1>7. \A x \in Rows : Unseen(x)
    BY <1>1, <1>3, <1>4 DEF Unseen, Phase
  <1> QED BY <1>6, <1>7, StutterStep

\* Time, the sweep, the operator, retention and the configuration: Bury, Revive,
\* Forget, or nothing Delivery sees.
LEMMA OtherPromise ==
    ASSUME PInv, IInv', Races = {},
           \/ \E r \in Rows : Expire(r) \/ BecomeDue(r) \/ Prune(r)
           \/ Finalize \/ Requeue
           \/ \E n \in Notifiers : SwapNotifier(n)
    PROVE  PInv' /\ (D!Next \/ UNCHANGED D!vars)
  <1>t. /\ TypeOK
        /\ \A x \in Rows : /\ row[x] \in Row
                           /\ \A i \in Indices : ledger[x][i] \in Sink
    BY DEF PInv, IInv, TypeOK
  <1>1. ASSUME NEW r \in Rows, Expire(r) \/ BecomeDue(r)
        PROVE  PInv' /\ (D!Next \/ UNCHANGED D!vars)
    <2>1. PICK q : /\ row' = [row EXCEPT ![r] = q] /\ ledger' = ledger /\ job' = job
                   /\ q.status = row[r].status /\ q.content = row[r].content
                   /\ q.attempts = row[r].attempts
      <3> DEFINE a == [row[r] EXCEPT !.lock = "free"]
                 b == [row[r] EXCEPT !.due = TRUE]
      <3>1. /\ row' = [row EXCEPT ![r] = a] \/ row' = [row EXCEPT ![r] = b]
            /\ ledger' = ledger /\ job' = job
        BY <1>1 DEF Expire, BecomeDue
      <3>2. /\ a.status = row[r].status /\ a.content = row[r].content /\ a.attempts = row[r].attempts
            /\ b.status = row[r].status /\ b.content = row[r].content /\ b.attempts = row[r].attempts
        BY <1>t DEF Row
      <3> HIDE DEF a, b
      <3> QED BY <3>1, <3>2
    <2>2. row'[r] = q /\ \A x \in Rows \ {r} : row'[x] = row[x]
      BY <2>1, <1>t, Pointwise
    <2>3. \A x \in Rows : LedgerKept(x) /\ Unseen(x)
      BY <2>1, <2>2 DEF LedgerKept, Unseen, Phase
    <2> QED BY <2>1, <2>3, KeptPromise, StutterStep
  <1>2. ASSUME NEW r \in Rows, Prune(r)
        PROVE  PInv' /\ (D!Next \/ UNCHANGED D!vars)
    <2>1. /\ job' = job /\ \A v \in Workers : ~WorksOn(v, r)
          /\ row[r].status = "sent"
          /\ row' = [row EXCEPT ![r] = NoRecord] /\ ledger' = [ledger EXCEPT ![r] = NoLedger]
      BY <1>2 DEF Prune
    <2>2. /\ row'[r] = NoRecord /\ ledger'[r] = NoLedger
          /\ \A x \in Rows \ {r} : row'[x] = row[x] /\ ledger'[x] = ledger[x]
      BY <2>1, <1>t DEF TypeOK
    <2>3. \A x \in Rows : LedgerKept(x)
      BY <2>1, <2>2 DEF LedgerKept, NoRecord
    <2>4. D!Forget(r)
      <3>1. \A x \in Rows \ {r} : Unseen(x)
        BY <2>2 DEF Unseen
      <3>2. /\ Phase(row[r]) = "sent" /\ Phase(row'[r]) = "none"
            /\ row'[r].content = NoContent /\ Acked(ledger'[r]) = {}
        BY <2>1, <2>2 DEF Phase, Retryable, NoRecord, NoLedger, Acked
      <3> QED BY <3>1, <3>2, ForgetStep
    <2> QED BY <2>1, <2>3, <2>4, KeptPromise DEF D!Next
  <1>3. CASE Finalize
    <2>1. /\ job' = job /\ ledger' = ledger
          /\ \A x \in Rows : row'[x] = IF Exhausted(x) THEN [row[x] EXCEPT !.status = "dead"] ELSE row[x]
      BY <1>3 DEF Finalize
    <2>2. \A x \in Rows : /\ [row[x] EXCEPT !.status = "dead"].status = "dead"
                          /\ [row[x] EXCEPT !.status = "dead"].attempts = row[x].attempts
                          /\ [row[x] EXCEPT !.status = "dead"].content = row[x].content
      BY <1>t DEF Row
    <2>3. ASSUME NEW x \in Rows
          PROVE  /\ LedgerKept(x)
                 /\ ~Exhausted(x) => Unseen(x)
                 /\ Exhausted(x) => /\ Phase(row[x]) = "queued" /\ Phase(row'[x]) = "dead"
                                    /\ row'[x].content = row[x].content
                                    /\ Acked(ledger'[x]) = Acked(ledger[x])
      <3>1. CASE Exhausted(x)
        BY <2>1, <2>2, <3>1 DEF LedgerKept, Exhausted, Spent, Phase, Retryable
      <3>2. CASE ~Exhausted(x)
        BY <2>1, <3>2 DEF LedgerKept, Unseen
      <3> QED BY <3>1, <3>2
    <2>4. PICK R \in SUBSET Rows : \A x \in Rows : x \in R <=> Exhausted(x)
      <3>1. {x \in Rows : Exhausted(x)} \in SUBSET Rows
        OBVIOUS
      <3> QED BY <3>1
    <2>5. D!Bury(R)
      BY <2>3, <2>4, BuryStep
    <2> QED BY <2>1, <2>3, <2>4, <2>5, KeptPromise DEF D!Next
  <1>4. CASE Requeue
    <2>1. PICK R \in SUBSET Rows : \A x \in Rows : x \in R <=> row[x].status = "dead"
      <3>1. {x \in Rows : row[x].status = "dead"} \in SUBSET Rows
        OBVIOUS
      <3> QED BY <3>1
    <2>2. /\ job' = job
          /\ \A x \in Rows \ R : row'[x] = row[x] /\ ledger'[x] = ledger[x]
          /\ \A x \in R :
               /\ row'[x] = [row[x] EXCEPT !.status = "pending", !.attempts = 0, !.lock = "free"]
               /\ ledger'[x] = [i \in Indices |-> IF ledger[x][i].status = "sent"
                                  THEN ledger[x][i] ELSE ResetSink(ledger[x][i])]
               /\ \A v \in Workers : ~WorksOn(v, x)
      BY <2>1, <1>4 DEF Requeue
    <2>3. ASSUME NEW x \in R
          PROVE  /\ LedgerKept(x)
                 /\ Phase(row[x]) = "dead" /\ Phase(row'[x]) = "queued"
                 /\ row'[x].content = row[x].content
                 /\ Acked(ledger'[x]) = Acked(ledger[x])
      <3> DEFINE q == [row[x] EXCEPT !.status = "pending", !.attempts = 0, !.lock = "free"]
                 s == [i \in Indices |-> IF ledger[x][i].status = "sent"
                                  THEN ledger[x][i] ELSE ResetSink(ledger[x][i])]
      <3>1. x \in Rows /\ row[x].status = "dead" /\ row'[x] = q /\ ledger'[x] = s
        BY <2>1, <2>2
      <3>2. q.status = "pending" /\ q.content = row[x].content
        BY <3>1, <1>t DEF Row
      <3>3. \A i \in Indices : ResetSink(ledger[x][i]).status # "sent"
        BY <3>1, <1>t, SinkFields
      <3>4. \A i \in Indices : s[i].status = "sent" <=> ledger[x][i].status = "sent"
        BY <3>3
      <3> HIDE DEF q, s
      <3>5. Acked(ledger'[x]) = Acked(ledger[x])
        BY <3>1, <3>4 DEF Acked
      <3> QED BY <2>2, <3>1, <3>2, <3>5 DEF LedgerKept, Phase, Retryable
    <2>4. \A x \in Rows \ R : LedgerKept(x) /\ Unseen(x)
      BY <2>2 DEF LedgerKept, Unseen
    <2>5. D!Revive(R)
      BY <2>1, <2>3, <2>4, ReviveStep
    <2>6. \A x \in Rows : LedgerKept(x)
      BY <2>3, <2>4
    <2> QED BY <2>1, <2>2, <2>5, <2>6, KeptPromise DEF D!Next
  <1>5. CASE \E n \in Notifiers : SwapNotifier(n)
    <2>1. job' = job /\ \A x \in Rows : LedgerKept(x) /\ Unseen(x)
      BY <1>5 DEF SwapNotifier, LedgerKept, Unseen
    <2> QED BY <2>1, KeptPromise, StutterStep
  <1> QED BY <1>1, <1>2, <1>3, <1>4, <1>5

----------------------------------------------------------------------------
(* The theorems.                                                           *)

\* The strengthened invariant holds initially, and the mapping of the initial
\* state is Delivery's.
LEMMA InitPromise == Init => PInv /\ D!Init
  <1> SUFFICES ASSUME Init PROVE PInv /\ D!Init
    OBVIOUS
  <1>1. IInv
    BY InitInvariant
  <1>2. \A w \in Workers : job[w].pc = "idle"
    BY DEF Init, Idle
  <1>3. \A r \in Rows : /\ row[r].status = "none" /\ row[r].content = NoContent
                        /\ \A i \in Indices : ledger[r][i].status = "absent"
    BY DEF Init, NoRecord, NoLedger
  <1>4. PInv
    BY <1>1, <1>2, <1>3 DEF PInv, Delivering, DeadFact
  <1>5. \A r \in Rows : Phase(row[r]) = "none" /\ Acked(ledger[r]) = {}
    BY <1>3 DEF Phase, Acked, Retryable
  <1>6. /\ [r \in Rows |-> Phase(row[r])] = [r \in Rows |-> "none"]
        /\ [r \in Rows |-> row[r].content] = [r \in Rows |-> NoContent]
        /\ [r \in Rows |-> Acked(ledger[r])] = [r \in Rows |-> {}]
    BY <1>3, <1>5
  <1> QED BY <1>4, <1>6 DEF D!Init, Phase, Acked

\* It is inductive, and every step is a step of Delivery or a stutter.
LEMMA NextPromise ==
    ASSUME Races = {}, PInv, [Next]_vars
    PROVE  PInv' /\ [D!Next]_D!vars
  <1>t. IInv'
    BY NextInvariant DEF PInv
  <1>1. ASSUME NEW w \in Workers, Step(w) \/ Crash(w)
        PROVE  PInv' /\ (D!Next \/ UNCHANGED D!vars)
    BY <1>1, <1>t, StepPromise
  <1>2. ASSUME NEW w \in Pollers, NEW r \in Rows, NEW c \in Contents, NEW due \in BOOLEAN,
               Enqueue(w, r, c, due)
        PROVE  PInv' /\ (D!Next \/ UNCHANGED D!vars)
    BY <1>2, <1>t, EnqueuePromise
  <1>3. ASSUME NEW w \in Flushers, NEW r \in Rows, ClaimBatch(w, r)
        PROVE  PInv' /\ (D!Next \/ UNCHANGED D!vars)
    BY <1>3, <1>t, ClaimPromise
  <1>4. CASE \/ \E r \in Rows : Expire(r) \/ BecomeDue(r) \/ Prune(r)
             \/ Finalize \/ Requeue
             \/ \E n \in Notifiers : SwapNotifier(n)
    BY <1>4, <1>t, OtherPromise
  <1>5. CASE UNCHANGED vars
    <2>1. job' = job /\ \A x \in Rows : LedgerKept(x) /\ Unseen(x)
      BY <1>5 DEF vars, LedgerKept, Unseen
    <2> QED BY <2>1, <1>t, KeptPromise, StutterStep
  <1> QED
    BY <1>1, <1>2, <1>3, <1>4, <1>5 DEF Next

\* A step of a task leaves a sent row sent, unless it reopens it; retention alone
\* forgets it, and no sweep, claim or late bookkeeping touches it.
LEMMA NextKeepsSent ==
    ASSUME Races = {}, PInv, [Next]_vars, NEW r \in Rows, row[r].status = "sent"
    PROVE  row'[r].status \in {"sent", "pending", "none"}
  <1>t. TypeOK
    BY DEF PInv, IInv
  <1>1. CASE \E w \in Workers : Step(w) \/ Crash(w)
    <2>1. PICK w \in Workers : Step(w) \/ Crash(w)
      BY <1>1
    <2>2. Frame(w) /\ RowEffect(w)
      BY <2>1, <1>t, StepEffect
    <2>3. CASE r # job[w].row
      BY <2>2, <2>3 DEF Frame
    <2>4. CASE r = job[w].row
      <3>1. ~Delivering(w)
        BY <2>4 DEF PInv, IInv, HoldsLease
      <3> QED BY <2>2, <2>4, <3>1 DEF RowEffect
    <2> QED BY <2>3, <2>4
  <1>2. CASE \E w \in Pollers, x \in Rows, c \in Contents, due \in BOOLEAN : Enqueue(w, x, c, due)
    <2>1. PICK w \in Pollers, x \in Rows, c \in Contents, due \in BOOLEAN : Enqueue(w, x, c, due)
      BY <1>2
    <2>2. row' = row \/ (row[x].status = "none" /\ \E q : row' = [row EXCEPT ![x] = q])
      BY <2>1 DEF Enqueue
    <2> QED BY <2>2, <1>t, Pointwise
  <1>3. CASE \E w \in Flushers, x \in Rows : ClaimBatch(w, x)
    <2>1. PICK x \in Rows : row[x].status \in Retryable /\ \E q : row' = [row EXCEPT ![x] = q]
      BY <1>3 DEF ClaimBatch, Claimable
    <2> QED BY <2>1, <1>t, Pointwise DEF Retryable
  <1>4. CASE \E x \in Rows : Expire(x) \/ BecomeDue(x)
    <2>1. PICK x \in Rows : \/ row' = [row EXCEPT ![x] = [row[x] EXCEPT !.lock = "free"]]
                            \/ row' = [row EXCEPT ![x] = [row[x] EXCEPT !.due = TRUE]]
      BY <1>4 DEF Expire, BecomeDue
    <2>2. /\ [row[x] EXCEPT !.lock = "free"].status = row[x].status
          /\ [row[x] EXCEPT !.due = TRUE].status = row[x].status
      BY <1>t DEF TypeOK, Row
    <2> QED BY <2>1, <2>2, <1>t DEF TypeOK
  <1>5. CASE \E x \in Rows : Prune(x)
    <2>1. PICK x \in Rows : row' = [row EXCEPT ![x] = NoRecord]
      BY <1>5 DEF Prune
    <2>2. NoRecord.status = "none"
      BY DEF NoRecord
    <2> QED BY <2>1, <2>2, <1>t DEF TypeOK
  <1>6. CASE Finalize \/ Requeue
    BY <1>6 DEF Finalize, Requeue, Exhausted, Retryable
  <1>7. CASE UNCHANGED vars \/ \E n \in Notifiers : SwapNotifier(n)
    BY <1>7 DEF vars, SwapNotifier
  <1> QED
    BY <1>1, <1>2, <1>3, <1>4, <1>5, <1>6, <1>7 DEF Next

\* The strengthened invariant holds throughout every behaviour.
THEOREM PromiseInvariance ==
    ASSUME Races = {}
    PROVE  Spec => []PInv
  <1>1. Init => PInv
    BY InitPromise
  <1>2. PInv /\ [Next]_vars => PInv'
    BY NextPromise
  <1> QED BY <1>1, <1>2, PTL DEF Spec

\* Neither sync_outbox_sink_status, nor fail_notification, nor the exhausted sweep
\* gives up on a row that has attempts left and a sink to retry.
THEOREM DeadRowsAreExhausted ==
    ASSUME Races = {}
    PROVE  Spec => []DeadIsExhausted
  <1>1. PInv => DeadIsExhausted
    BY DEF PInv, DeadFact, DeadIsExhausted, Spent
  <1> QED BY <1>1, PromiseInvariance, PTL

\* No late bookkeeping of sync_outbox_sink_status, fail_notification or the sweep
\* takes a delivered notification back.
THEOREM SentRowsStay ==
    ASSUME Races = {}
    PROVE  Spec => SentStaysSent
  <1>1. ASSUME PInv, [Next]_vars
        PROVE  [\A r \in Rows : row[r].status = "sent"
                  => row'[r].status \in {"sent", "pending", "none"}]_vars
    BY <1>1, NextKeepsSent
  <1> QED BY <1>1, PromiseInvariance, PTL DEF Spec, SentStaysSent

\* The outbox, its leases, retries, crashes, sweeps and hot swaps, implements
\* Delivery: acknowledgements are kept until new content renews the notification,
\* nothing unsettled is called sent, and nothing queued changes its content.
THEOREM KeepsDeliveryPromise ==
    ASSUME Races = {}
    PROVE  Spec => DeliveryPromise
  <1>1. Init => D!Init
    BY InitPromise
  <1>2. ASSUME PInv, [Next]_vars PROVE [D!Next]_D!vars
    BY <1>2, NextPromise
  <1> QED BY <1>1, <1>2, PromiseInvariance, PTL DEF Spec, DeliveryPromise, D!Spec
=============================================================================
