----------------------------- MODULE PollProofs -----------------------------
(***************************************************************************)
(* Theorems about the poll pipeline for any number of releases, edits,     *)
(* watch loops, manual checks and webhooks.                                *)
(***************************************************************************)
EXTENDS Poll, WellFoundedInduction, TLAPS

----------------------------------------------------------------------------
(* Types.                                                                  *)

PCs == {"idle", "fetch", "etag", "refetch", "restamp", "select", "baseline",
        "diff", "enqueue", "reopen", "catalogue"}

Job == [pc : PCs, cond : Listings \cup {None}, snap : Listings, todo : SUBSET Releases]

Working == {"enqueue", "reopen", "catalogue"}
Nothing == [r \in Releases |-> 0]

\* What a step makes of the job of the task that takes it, and of no other.
Moves(w, pc, snap, todo) ==
    /\ job' \in [Tasks -> Job]
    /\ job'[w].pc = pc /\ job'[w].snap = snap /\ job'[w].todo = todo
    /\ \A v \in Tasks \ {w} : job'[v] = job[v]

\* Listings, with the empty one among them.
LEMMA ListingTypes ==
    /\ Nothing \in Listings
    /\ \A l \in Listings, r \in Releases : l[r] \in Versions /\ l[r] \in Nat
    /\ Rest \in Job
  <1>1. 0 \in Versions /\ \A v \in Versions : v \in Nat
    BY PollAssumption DEF Versions
  <1> QED
    BY <1>1 DEF Nothing, Listings, Rest, Job, PCs

\* The order of the releases is well founded, so a loop has an oldest release.
Below == {s \in Nat \X Nat : s[1] < s[2]}

\* A non-empty set of releases has an oldest one.
LEMMA OneIsOldest ==
    ASSUME NEW T \in SUBSET Nat, T # {}
    PROVE  \E r \in T : \A q \in T : r <= q
  <1>1. IsWellFoundedOn(Below, Nat)
    BY NatLessThanWellFounded DEF OpToRel, Below
  <1>2. T \subseteq Nat
    OBVIOUS
  <1>3. \E r \in T : \A q \in T : ~ (<<q, r>> \in Below)
    BY <1>1, <1>2, WFMin
  <1>4. \A r \in T, q \in T : <<q, r>> \notin Below => r <= q
    <2> TAKE r \in T, q \in T
    <2>1. r \in Nat /\ q \in Nat /\ (<<q, r>> \notin Below => ~(q < r))
      BY DEF Below
    <2> QED BY <2>1
  <1> QED BY <1>3, <1>4

\* The release at the head of the oldest-first loop is one of the loop.
LEMMA OldestIsOne ==
    ASSUME TypeOK, NEW w \in Tasks, job[w].pc \in Working
    PROVE  /\ Oldest(w) \in job[w].todo /\ Oldest(w) \in Releases
           /\ \A q \in job[w].todo : Oldest(w) <= q
  <1>1. job[w].todo \in SUBSET Nat /\ job[w].todo # {} /\ job[w].todo \subseteq Releases
    BY PollAssumption DEF TypeOK, Working
  <1>2. \E r \in job[w].todo : \A q \in job[w].todo : r <= q
    BY <1>1, OneIsOldest
  <1>3. Oldest(w) \in job[w].todo /\ \A q \in job[w].todo : Oldest(w) <= q
    BY <1>2 DEF Oldest
  <1> QED BY <1>1, <1>3

\* A task that moves to a job of the declared type.
LEMMA BecomesMoves ==
    ASSUME TypeOK, NEW w \in Tasks, NEW j \in Job, Becomes(w, j)
    PROVE  Moves(w, j.pc, j.snap, j.todo)
  <1>1. job \in [Tasks -> Job]
    BY DEF TypeOK, Job, PCs
  <1> QED BY <1>1 DEF Becomes, Moves

\* The moves of a job, as the actions write them.
LEMMA JobMoves ==
    ASSUME TypeOK, NEW w \in Tasks
    PROVE  /\ Stop(w) => Moves(w, "idle", Nothing, {})
           /\ \A p \in PCs : Goto(w, p) => Moves(w, p, job[w].snap, job[w].todo)
           /\ \A p \in PCs, l \in Listings :
                Becomes(w, [job[w] EXCEPT !.pc = p, !.snap = l]) => Moves(w, p, l, job[w].todo)
           /\ \A p \in PCs, t \in SUBSET Releases :
                Becomes(w, [job[w] EXCEPT !.pc = p, !.todo = t]) => Moves(w, p, job[w].snap, t)
           /\ \A l \in Listings :
                Becomes(w, [Rest EXCEPT !.pc = "select", !.snap = l]) => Moves(w, "select", l, {})
  <1>j. job[w] \in Job
    BY DEF TypeOK, Job, PCs
  <1>r. Rest \in Job /\ Rest.pc = "idle" /\ Rest.snap = Nothing /\ Rest.todo = {}
    BY ListingTypes DEF Rest, Nothing
  <1>1. Stop(w) => Moves(w, "idle", Nothing, {})
    BY <1>r, BecomesMoves DEF Stop
  <1>2. \A p \in PCs : Goto(w, p) => Moves(w, p, job[w].snap, job[w].todo)
    <2> SUFFICES ASSUME NEW p \in PCs, Goto(w, p) PROVE Moves(w, p, job[w].snap, job[w].todo)
      OBVIOUS
    <2> DEFINE k == [job[w] EXCEPT !.pc = p]
    <2>1. k \in Job /\ k.pc = p /\ k.snap = job[w].snap /\ k.todo = job[w].todo
      BY <1>j DEF Job
    <2>2. Becomes(w, k)
      BY DEF Goto
    <2> HIDE DEF k
    <2> QED BY <2>1, <2>2, BecomesMoves
  <1>3. ASSUME NEW p \in PCs, NEW l \in Listings, Becomes(w, [job[w] EXCEPT !.pc = p, !.snap = l])
        PROVE  Moves(w, p, l, job[w].todo)
    <2> DEFINE k == [job[w] EXCEPT !.pc = p, !.snap = l]
    <2>1. k \in Job /\ k.pc = p /\ k.snap = l /\ k.todo = job[w].todo
      BY <1>j DEF Job
    <2>2. Becomes(w, k)
      BY <1>3
    <2> HIDE DEF k
    <2> QED BY <2>1, <2>2, BecomesMoves
  <1>4. ASSUME NEW p \in PCs, NEW t \in SUBSET Releases,
               Becomes(w, [job[w] EXCEPT !.pc = p, !.todo = t])
        PROVE  Moves(w, p, job[w].snap, t)
    <2> DEFINE k == [job[w] EXCEPT !.pc = p, !.todo = t]
    <2>1. k \in Job /\ k.pc = p /\ k.snap = job[w].snap /\ k.todo = t
      BY <1>j DEF Job
    <2>2. Becomes(w, k)
      BY <1>4
    <2> HIDE DEF k
    <2> QED BY <2>1, <2>2, BecomesMoves
  <1>5. ASSUME NEW l \in Listings, Becomes(w, [Rest EXCEPT !.pc = "select", !.snap = l])
        PROVE  Moves(w, "select", l, {})
    <2> DEFINE k == [Rest EXCEPT !.pc = "select", !.snap = l]
    <2>1. k \in Job /\ k.pc = "select" /\ k.snap = l /\ k.todo = {}
      BY <1>r DEF Job, PCs
    <2>2. Becomes(w, k)
      BY <1>5
    <2> HIDE DEF k
    <2> QED BY <2>1, <2>2, BecomesMoves
  <1> QED BY <1>1, <1>2, <1>3, <1>4, <1>5

\* The loop over the releases goes on with the others, or ends.
LEMMA NextOneMoves ==
    ASSUME TypeOK, NEW w \in Tasks, job[w].pc \in Working, NextOne(w)
    PROVE  \/ job[w].todo = {Oldest(w)} /\ Moves(w, "idle", Nothing, {})
           \/ /\ job[w].todo \ {Oldest(w)} # {}
              /\ Moves(w, "enqueue", job[w].snap, job[w].todo \ {Oldest(w)})
  <1>1. job[w].todo \ {Oldest(w)} \in SUBSET Releases /\ "enqueue" \in PCs
    BY DEF TypeOK, PCs
  <1>2. Oldest(w) \in job[w].todo
    BY OldestIsOne
  <1>3. CASE job[w].todo \ {Oldest(w)} = {}
    BY <1>2, <1>3, JobMoves DEF NextOne
  <1>4. CASE job[w].todo \ {Oldest(w)} # {}
    <2>1. Becomes(w, [job[w] EXCEPT !.pc = "enqueue", !.todo = job[w].todo \ {Oldest(w)}])
      BY <1>4 DEF NextOne
    <2> QED BY <1>1, <1>4, <2>1, JobMoves
  <1> QED BY <1>3, <1>4

\* What each step makes of its task.
LEMMA Effects ==
    ASSUME TypeOK, NEW w \in Tasks
    PROVE  /\ Start(w) => Moves(w, "fetch", Nothing, {})
           /\ Fetch(w) => \/ Moves(w, "idle", Nothing, {})
                          \/ /\ \E r \in Undated : seen[r] > 0
                             /\ Moves(w, "refetch", job[w].snap, {})
                          \/ Moves(w, "etag", upstream, {})
           /\ FetchFails(w) \/ Restamp(w) \/ Baseline(w) \/ Crash(w) => Moves(w, "idle", Nothing, {})
           /\ SetEtag(w) => Moves(w, "select", job[w].snap, {})
           /\ Refetch(w) => Moves(w, "restamp", upstream, {})
           /\ Select(w) => Moves(w, IF initialized THEN "diff" ELSE "baseline", job[w].snap, {})
           /\ Diff(w) => \/ Novel(job[w].snap) = {} /\ Moves(w, "idle", Nothing, {})
                         \/ /\ Novel(job[w].snap) # {}
                            /\ Moves(w, "enqueue", job[w].snap, Novel(job[w].snap))
  <1> USE DEF PCs
  <1>0. job[w].pc \notin Working => job[w].todo = {}
    BY DEF TypeOK, Working
  <1>l. upstream \in Listings /\ job[w].snap \in Listings
    BY DEF TypeOK
  <1>1. Start(w) => Moves(w, "fetch", Nothing, {})
    <2> HAVE Start(w)
    <2> DEFINE j == [Rest EXCEPT !.pc = "fetch", !.cond = IF w \in Loops THEN etag ELSE None]
    <2>1. j \in Job /\ j.pc = "fetch" /\ j.snap = Nothing /\ j.todo = {}
      BY ListingTypes DEF Job, Rest, Nothing, TypeOK
    <2>2. Becomes(w, j)
      BY DEF Start
    <2> HIDE DEF j
    <2> QED BY <2>1, <2>2, BecomesMoves
  <1>2. Fetch(w) => \/ Moves(w, "idle", Nothing, {})
                    \/ (\E r \in Undated : seen[r] > 0) /\ Moves(w, "refetch", job[w].snap, {})
                    \/ Moves(w, "etag", upstream, {})
    <2> HAVE Fetch(w)
    <2>1. job[w].todo = {}
      BY <1>0 DEF Fetch, Working
    <2>2. \/ Stop(w)
          \/ (\E r \in Undated : seen[r] > 0) /\ Goto(w, "refetch")
          \/ Becomes(w, [job[w] EXCEPT !.pc = "etag", !.snap = upstream])
      BY DEF Fetch
    <2> QED BY <2>1, <2>2, <1>l, JobMoves
  <1>3. FetchFails(w) \/ Restamp(w) \/ Baseline(w) \/ Crash(w) => Moves(w, "idle", Nothing, {})
    BY JobMoves DEF FetchFails, Restamp, Baseline, Crash
  <1>4. SetEtag(w) => Moves(w, "select", job[w].snap, {})
    BY <1>0, JobMoves DEF SetEtag, Working
  <1>5. Refetch(w) => Moves(w, "restamp", upstream, {})
    <2> HAVE Refetch(w)
    <2>1. job[w].todo = {}
      BY <1>0 DEF Refetch, Working
    <2>2. Becomes(w, [job[w] EXCEPT !.pc = "restamp", !.snap = upstream])
      BY DEF Refetch
    <2> QED BY <2>1, <2>2, <1>l, JobMoves
  <1>6. Select(w) => Moves(w, IF initialized THEN "diff" ELSE "baseline", job[w].snap, {})
    <2> HAVE Select(w)
    <2>1. job[w].todo = {}
      BY <1>0 DEF Select, Working
    <2>2. initialized => Goto(w, "diff")
      BY DEF Select
    <2>3. ~initialized => Goto(w, "baseline")
      BY DEF Select
    <2>4. initialized => Moves(w, "diff", job[w].snap, {})
      BY <2>1, <2>2, JobMoves
    <2>5. ~initialized => Moves(w, "baseline", job[w].snap, {})
      BY <2>1, <2>3, JobMoves
    <2> QED BY <2>4, <2>5
  <1>7. Diff(w) => \/ Novel(job[w].snap) = {} /\ Moves(w, "idle", Nothing, {})
                   \/ /\ Novel(job[w].snap) # {}
                      /\ Moves(w, "enqueue", job[w].snap, Novel(job[w].snap))
    <2> HAVE Diff(w)
    <2>1. Novel(job[w].snap) \in SUBSET Releases
      BY PollAssumption DEF Novel, Listed
    <2>2. \/ Novel(job[w].snap) = {} /\ Stop(w)
          \/ /\ Novel(job[w].snap) # {}
             /\ Becomes(w, [job[w] EXCEPT !.pc = "enqueue", !.todo = Novel(job[w].snap)])
      BY DEF Diff
    <2> QED BY <2>1, <2>2, JobMoves
  <1> QED BY <1>1, <1>2, <1>3, <1>4, <1>5, <1>6, <1>7

\* The same for the steps of the loop over the releases, and for a webhook.
LEMMA LoopEffects ==
    ASSUME TypeOK, NEW w \in Tasks
    PROVE  /\ Enqueue(w) \/ Catalogue(w) =>
                \/ /\ job[w].todo # {}
                   /\ \/ Moves(w, "catalogue", job[w].snap, job[w].todo)
                      \/ Moves(w, "reopen", job[w].snap, job[w].todo)
                \/ job[w].todo = {Oldest(w)} /\ Moves(w, "idle", Nothing, {})
                \/ /\ job[w].todo \ {Oldest(w)} # {}
                   /\ Moves(w, "enqueue", job[w].snap, job[w].todo \ {Oldest(w)})
           /\ Enqueue(w) \/ Catalogue(w) =>
                job[w].pc \in Working /\ Oldest(w) \in job[w].todo /\ Oldest(w) \in Releases
           /\ w \in Hooks /\ Receive(w) => Moves(w, "select", event[w], {})
  <1>1. Enqueue(w) \/ Catalogue(w) => job[w].pc \in Working
    BY DEF Enqueue, Look, Reopen, Catalogue, Working
  <1>2. job[w].pc \in Working => job[w].todo # {}
    BY DEF TypeOK, Working
  <1>3. Enqueue(w) \/ Catalogue(w) =>
            \/ /\ job[w].todo # {}
               /\ \/ Moves(w, "catalogue", job[w].snap, job[w].todo)
                  \/ Moves(w, "reopen", job[w].snap, job[w].todo)
            \/ job[w].todo = {Oldest(w)} /\ Moves(w, "idle", Nothing, {})
            \/ /\ job[w].todo \ {Oldest(w)} # {}
               /\ Moves(w, "enqueue", job[w].snap, job[w].todo \ {Oldest(w)})
    <2> HAVE Enqueue(w) \/ Catalogue(w)
    <2>1. Goto(w, "catalogue") \/ Goto(w, "reopen") \/ NextOne(w)
      BY DEF Enqueue, Look, Reopen, Catalogue
    <2>2. Goto(w, "catalogue") => Moves(w, "catalogue", job[w].snap, job[w].todo)
      BY JobMoves DEF PCs
    <2>3. Goto(w, "reopen") => Moves(w, "reopen", job[w].snap, job[w].todo)
      BY JobMoves DEF PCs
    <2> QED BY <1>1, <1>2, <2>1, <2>2, <2>3, NextOneMoves
  <1>4. w \in Hooks /\ Receive(w) => Moves(w, "select", event[w], {})
    <2> HAVE w \in Hooks /\ Receive(w)
    <2>1. event[w] \in Listings
      BY DEF TypeOK, Receive
    <2>2. Becomes(w, [Rest EXCEPT !.pc = "select", !.snap = event[w]])
      BY DEF Receive
    <2> QED BY <2>1, <2>2, JobMoves
  <1> QED BY <1>1, <1>3, <1>4, OldestIsOne

----------------------------------------------------------------------------
(* The type invariant, in two parts: the tables and the tasks.             *)

Row == [status : {"none", "queued", "sent", "dead"}, version : Versions]

Tables == /\ upstream \in Listings
          /\ etag \in Listings \cup {None}
          /\ initialized \in BOOLEAN
          /\ seen \in Listings
          /\ outbox \in [Releases -> Row]
          /\ claimed \subseteq Keyed
          /\ event \in [Hooks -> Listings \cup {None}]
          /\ told \in [Releases -> [Versions -> 0 .. 2]]

Jobs == /\ job \in [Tasks -> Job]
        /\ \A w \in Tasks : job[w].pc \in Working <=> job[w].todo # {}

\* The type invariant speaks of the tables and of the tasks.
LEMMA TypeParts == (TypeOK <=> Tables /\ Jobs) /\ (TypeOK' <=> Tables' /\ Jobs')
  BY DEF TypeOK, Tables, Jobs, Row, Job, PCs, Working

\* A step that moves one task keeps the shape of all.
LEMMA JobsStay ==
    ASSUME TypeOK, NEW w \in Tasks,
           job' \in [Tasks -> Job],
           \A v \in Tasks \ {w} : job'[v] = job[v],
           job'[w].pc \in Working <=> job'[w].todo # {}
    PROVE  Jobs'
  BY TypeParts DEF Jobs

\* A step of a task keeps the types of the tasks.
LEMMA TaskKeepsJobs ==
    ASSUME TypeOK, NEW w \in Tasks, Start(w) \/ FetchFails(w) \/ Step(w) \/ Crash(w)
    PROVE  Jobs'
  <1>2. CASE Start(w)
    BY <1>2, Effects, JobsStay DEF Moves, Working
  <1>3. CASE FetchFails(w) \/ Restamp(w) \/ Baseline(w) \/ Crash(w)
    BY <1>3, Effects, JobsStay DEF Moves, Working
  <1>4. CASE Fetch(w)
    BY <1>4, Effects, JobsStay DEF Moves, Working
  <1>5. CASE SetEtag(w) \/ Refetch(w) \/ Select(w)
    BY <1>5, Effects, JobsStay DEF Moves, Working
  <1>6. CASE Diff(w)
    BY <1>6, Effects, JobsStay DEF Moves, Working
  <1>7. CASE Enqueue(w) \/ Catalogue(w)
    BY <1>7, LoopEffects, JobsStay DEF Moves, Working
  <1> QED BY <1>2, <1>3, <1>4, <1>5, <1>6, <1>7 DEF Step

\* Only a task's own steps move it.
LEMMA OthersKeepJobs ==
    ASSUME TypeOK, job' = job
    PROVE  Jobs'
  BY TypeParts DEF Jobs

\* A step of a task keeps the types of the tables.
LEMMA TaskKeepsTables ==
    ASSUME TypeOK, NEW w \in Tasks, Start(w) \/ FetchFails(w) \/ Step(w) \/ Crash(w)
    PROVE  Tables'
  <1>t. Tables /\ job \in [Tasks -> Job]
    BY TypeParts DEF Jobs
  <1>j. job[w].snap \in Listings
    BY <1>t DEF Job
  <1>1. CASE Start(w) \/ FetchFails(w) \/ Crash(w)
    BY <1>1, <1>t DEF Start, FetchFails, Crash, store, Tables
  <1>2. CASE Fetch(w) \/ Refetch(w) \/ Select(w) \/ Diff(w)
    BY <1>2, <1>t DEF Fetch, Refetch, Select, Diff, store, Tables
  <1>3. CASE SetEtag(w) \/ Restamp(w)
    BY <1>3, <1>t, <1>j DEF SetEtag, Restamp, Tables
  <1>4. CASE Baseline(w)
    <2>1. seen' \in Listings
      BY <1>4, <1>t, <1>j DEF Baseline, Listings, Tables
    <2> QED BY <1>4, <1>t, <2>1 DEF Baseline, Tables
  <1>5. CASE Enqueue(w)
    <2>1. Oldest(w) \in Releases /\ job[w].snap[Oldest(w)] \in Versions
      BY <1>5, <1>j, LoopEffects DEF Listings
    <2>2. outbox' \in [Releases -> Row]
      BY <1>5, <1>t, <2>1 DEF Enqueue, Look, Reopen, Tables, Row
    <2> QED BY <1>5, <1>t, <2>2 DEF Enqueue, Look, Reopen, Tables
  <1>6. CASE Catalogue(w)
    <2>1. Oldest(w) \in Releases /\ job[w].snap[Oldest(w)] \in Versions
      BY <1>6, <1>j, LoopEffects DEF Listings
    <2>2. seen' \in Listings
      BY <1>6, <1>t, <2>1 DEF Catalogue, Tables, Listings
    <2> QED BY <1>6, <1>t, <2>2 DEF Catalogue, Tables
  <1> QED BY <1>1, <1>2, <1>3, <1>4, <1>5, <1>6 DEF Step

\* The steps that are not a task's own, a webhook's arrival among them.
OnRelease(r) == \/ Publish(r) \/ Deliver(r) \/ Bury(r) \/ Requeue(r)
                \/ PruneSeen(r) \/ PruneSent(r)

World == \/ \E h \in Hooks : Receive(h) \/ PruneClaim(h)
         \/ \E h \in Hooks, r \in Releases : Post(h, r)
         \/ \E r \in Releases : OnRelease(r)

\* A step of the outbox, of retention, of a forge or of upstream keeps the
\* types of the tables.
LEMMA WorldKeepsTables ==
    ASSUME TypeOK, World
    PROVE  Tables'
  <1>t. Tables
    BY TypeParts
  <1>z. 0 \in Versions /\ Versions \subseteq Nat /\ \A v \in Versions : v < MaxVersion => v + 1 \in Versions
    BY PollAssumption DEF Versions
  <1>1. ASSUME NEW h \in Hooks, Receive(h) PROVE Tables'
    BY <1>1, <1>t DEF Receive, Tables
  <1>2. ASSUME NEW h \in Hooks, PruneClaim(h) PROVE Tables'
    BY <1>2, <1>t DEF PruneClaim, Tables
  <1>3. ASSUME NEW h \in Hooks, NEW r \in Releases, Post(h, r) PROVE Tables'
    <2>1. [q \in Releases |-> IF q = r THEN upstream[r] ELSE 0] \in Listings
      BY <1>t, <1>z DEF Tables, Listings
    <2>2. event' \in [Hooks -> Listings \cup {None}]
      BY <1>3, <1>t, <2>1 DEF Post, Tables
    <2> QED BY <1>3, <1>t, <2>2 DEF Post, store, Tables
  <1>4. ASSUME NEW r \in Releases, Publish(r) PROVE Tables'
    <2>1. upstream' \in Listings
      BY <1>4, <1>t, <1>z DEF Publish, Tables, Listings
    <2> QED BY <1>4, <1>t, <2>1 DEF Publish, store, Tables
  <1>5. ASSUME NEW r \in Releases, Deliver(r) PROVE Tables'
    <2>1. outbox[r].version \in Versions
      BY <1>t DEF Tables, Row
    <2>2. outbox' \in [Releases -> Row]
      BY <1>5, <1>t DEF Deliver, Tables, Row
    <2>3. seen' \in Listings
      BY <1>5, <1>t, <2>1 DEF Deliver, Tables, Listings
    <2>4. told' \in [Releases -> [Versions -> 0 .. 2]]
      <3>1. told[r] \in [Versions -> 0 .. 2]
        BY <1>t DEF Tables
      <3>2. \A n \in 0 .. 2 : (IF n = 2 THEN 2 ELSE n + 1) \in 0 .. 2
        OBVIOUS
      <3>3. [told[r] EXCEPT ![outbox[r].version] = IF @ = 2 THEN 2 ELSE @ + 1]
                \in [Versions -> 0 .. 2]
        BY <2>1, <3>1, <3>2
      <3> QED BY <1>5, <1>t, <3>3 DEF Deliver, Tables
    <2> QED BY <1>5, <1>t, <2>2, <2>3, <2>4 DEF Deliver, Tables
  <1>6. ASSUME NEW r \in Releases, Bury(r) \/ Requeue(r) PROVE Tables'
    <2>1. outbox' \in [Releases -> Row]
      BY <1>6, <1>t DEF Bury, Requeue, Tables, Row
    <2> QED BY <1>6, <1>t, <2>1 DEF Bury, Requeue, Tables
  <1>7. ASSUME NEW r \in Releases, PruneSeen(r) PROVE Tables'
    BY <1>7, <1>t, <1>z DEF PruneSeen, Tables, Listings
  <1>8. ASSUME NEW r \in Releases, PruneSent(r) PROVE Tables'
    <2>1. outbox' \in [Releases -> Row]
      BY <1>8, <1>t, <1>z DEF PruneSent, Tables, Row, NoRow
    <2> QED BY <1>8, <1>t, <2>1 DEF PruneSent, Tables
  <1> QED BY <1>1, <1>2, <1>3, <1>4, <1>5, <1>6, <1>7, <1>8 DEF World, OnRelease

\* The tasks and the tables keep their shape.
LEMMA StepTypes ==
    ASSUME TypeOK, [Next]_vars
    PROVE  TypeOK'
  <1>1. CASE \E w \in Tasks : Start(w) \/ FetchFails(w) \/ Step(w) \/ Crash(w)
    BY <1>1, TaskKeepsTables, TaskKeepsJobs, TypeParts
  <1>2. CASE World
    <2>1. CASE \E h \in Hooks : Receive(h)
      <3>1. PICK h \in Hooks : Receive(h)
        BY <2>1
      <3>2. h \in Tasks /\ Moves(h, "select", event[h], {})
        BY <3>1, LoopEffects DEF Tasks
      <3>3. Jobs'
        BY <3>2, JobsStay DEF Moves, Working
      <3> QED BY <1>2, <3>3, WorldKeepsTables, TypeParts
    <2>2. CASE job' = job
      BY <1>2, <2>2, OthersKeepJobs, WorldKeepsTables, TypeParts
    <2> QED
      BY <1>2, <2>1, <2>2 DEF World, OnRelease, PruneClaim, Post, Publish, Deliver, Bury,
         Requeue, PruneSeen, PruneSent
  <1>3. CASE UNCHANGED vars
    BY <1>3 DEF vars, TypeOK
  <1> QED BY <1>1, <1>2, <1>3 DEF Next, World, OnRelease

\* The initial state has the types.
LEMMA InitTypes == Init => TypeOK
  <1> SUFFICES ASSUME Init PROVE TypeOK
    OBVIOUS
  <1>z. 0 \in Versions /\ 1 \in Versions
    BY PollAssumption DEF Versions
  <1>1. Tables
    <2>1. upstream \in Listings /\ seen \in Listings
      BY <1>z DEF Init, Listings
    <2>2. outbox \in [Releases -> Row]
      BY <1>z DEF Init, Row, NoRow
    <2>3. told \in [Releases -> [Versions -> 0 .. 2]]
      BY DEF Init
    <2> QED BY <2>1, <2>2, <2>3 DEF Init, Tables
  <1>2. Jobs
    BY ListingTypes DEF Init, Jobs, Rest, Working
  <1> QED BY <1>1, <1>2, TypeParts

\* Type correctness (Poll.TypeOK): the tables and the tasks keep their shape
\* whatever the tasks, the prune and upstream do, and a task that enqueues or
\* catalogues has a release to do it for, so the oldest-first loop of
\* deliver_new_releases always has a head.
THEOREM TypeCorrect == Spec => []TypeOK
  <1> QED BY InitTypes, StepTypes, PTL DEF Spec

----------------------------------------------------------------------------
(* What the pipeline's properties rest on.                                 *)

\* Nothing is selected, queued or delivered that is not a listed version of a
\* release the filter accepts.
Sound ==
    /\ \A w \in Tasks : \A r \in job[w].todo : r \in Accepted /\ job[w].snap[r] > 0
    /\ \A r \in Releases : outbox[r].status # "none" => outbox[r].version > 0

\* While releases are not edited and no row is pruned, a delivered release
\* keeps its row, sent with the version delivered, and nobody reopens one.
Unedited == \A w \in Tasks : job[w].pc # "reopen"

DeliveredKeepsRow ==
    /\ Unedited
    /\ \A r \in Releases :
        /\ told[r][0] = 0 /\ told[r][1] < 2
        /\ told[r][1] = 1 => outbox[r] = [status |-> "sent", version |-> 1]

\* The history a poll lists is catalogued with the flag that ends the silence,
\* and what is catalogued is not selected.
HistoryCatalogued ==
    \A r \in Old :
        /\ upstream[r] > 0
        /\ \A w \in Tasks : /\ job[w].pc \in {"etag", "restamp", "select", "baseline", "diff"}
                                 => job[w].snap[r] > 0
                            /\ job[w].pc = "diff" => initialized
                            /\ r \notin job[w].todo
        /\ initialized /\ r \in Accepted => seen[r] > 0
        /\ outbox[r].status = "none"
        /\ \A v \in Versions : told[r][v] = 0

\* A release the stored ETag covers is catalogued, in the outbox, or in the
\* hands of a task that lives on.
Handled(r) == seen[r] > 0 \/ outbox[r].status # "none"

InHand(w, r) == \/ job[w].pc \in {"select", "baseline", "diff"} /\ job[w].snap[r] > 0
                \/ r \in job[w].todo

\* A release about to be reopened was sent, and what was sent is catalogued.
Reopens(w) ==
    job[w].pc = "reopen" =>
        \A r \in job[w].todo : (\A q \in job[w].todo : r <= q) => seen[r] > 0

EtagCovered ==
    /\ \A w \in Tasks : Reopens(w)
    /\ \A w \in Tasks : /\ job[w].pc \notin {"refetch", "restamp"}
                        /\ job[w].pc \in {"fetch", "etag"} => w \notin Mortal
    /\ \A r \in Releases : outbox[r].status = "sent" => seen[r] > 0
    /\ etag # None =>
         \A r \in Accepted :
            etag[r] > 0 => Handled(r) \/ \E w \in Tasks \ Mortal : InHand(w, r)

\* What moves does not matter to the tasks that stay.
LEMMA TaskStepKeepsSound ==
    ASSUME TypeOK, Sound, NEW w \in Tasks,
           Start(w) \/ FetchFails(w) \/ Step(w) \/ Crash(w)
    PROVE  Sound'
  <1>t. /\ upstream \in Listings /\ seen \in Listings /\ outbox \in [Releases -> Row]
        /\ job[w].snap \in Listings
    BY TypeParts DEF Tables, Jobs, Job
  <1>s. \A r \in job[w].todo : r \in Accepted /\ job[w].snap[r] > 0
    BY DEF Sound
  <1>1. \A v \in Tasks : \A r \in job'[v].todo : r \in Accepted /\ job'[v].snap[r] > 0
    <2>1. \A v \in Tasks \ {w} : job'[v] = job[v]
      BY Effects, LoopEffects DEF Moves, Step
    <2>2. \A r \in job'[w].todo : r \in Accepted /\ job'[w].snap[r] > 0
      <3>1. CASE Diff(w)
        <4>1. \A r \in Novel(job[w].snap) : r \in Accepted /\ job[w].snap[r] > 0
          BY DEF Novel, Listed
        <4> QED BY <3>1, <4>1, Effects DEF Moves
      <3>2. CASE Enqueue(w) \/ Catalogue(w)
        BY <3>2, <1>s, LoopEffects DEF Moves
      <3>3. CASE \/ Start(w) \/ FetchFails(w) \/ Fetch(w) \/ SetEtag(w) \/ Refetch(w)
                 \/ Restamp(w) \/ Select(w) \/ Baseline(w) \/ Crash(w)
        <4>1. job'[w].todo = {}
          BY <3>3, Effects DEF Moves
        <4> QED BY <4>1
      <3> QED BY <3>1, <3>2, <3>3 DEF Step
    <2> QED BY <2>1, <2>2 DEF Sound
  <1>2. \A r \in Releases : outbox'[r].status # "none" => outbox'[r].version > 0
    <2>1. CASE Enqueue(w)
      <3>1. Oldest(w) \in Releases /\ job[w].snap[Oldest(w)] > 0
        BY <2>1, <1>s, LoopEffects
      <3> QED BY <2>1, <3>1, <1>t DEF Enqueue, Look, Reopen, Sound
    <2>2. CASE ~Enqueue(w)
      <3>1. outbox' = outbox
        BY <2>2 DEF Start, FetchFails, Crash, Step, Fetch, SetEtag, Refetch, Restamp, Select,
           Baseline, Diff, Catalogue, store
      <3> QED BY <3>1 DEF Sound
    <2> QED BY <2>1, <2>2
  <1> QED BY <1>1, <1>2 DEF Sound

\* What upstream, webhooks, delivery and retention do enqueues nothing unfiltered.
LEMMA WorldKeepsSound ==
    ASSUME TypeOK, Sound, World
    PROVE  Sound'
  <1>t. outbox \in [Releases -> Row]
    BY TypeParts DEF Tables
  <1>1. ASSUME NEW h \in Hooks, Receive(h) PROVE Sound'
    <2>1. h \in Tasks /\ Moves(h, "select", event[h], {}) /\ outbox' = outbox
      BY <1>1, LoopEffects DEF Tasks, Receive
    <2> QED BY <2>1 DEF Sound, Moves
  <1>2. ASSUME NEW h \in Hooks, PruneClaim(h) PROVE Sound'
    BY <1>2 DEF PruneClaim, Sound
  <1>3. ASSUME NEW h \in Hooks, NEW r \in Releases, Post(h, r) PROVE Sound'
    BY <1>3 DEF Post, store, Sound
  <1>4. ASSUME NEW r \in Releases, OnRelease(r) PROVE Sound'
    <2>1. job' = job
      BY <1>4 DEF OnRelease, Publish, Deliver, Bury, Requeue, PruneSeen, PruneSent
    <2>2. \A q \in Releases : outbox'[q].status # "none" =>
              outbox[q].status # "none" /\ outbox'[q].version = outbox[q].version
      BY <1>4, <1>t DEF OnRelease, Publish, Deliver, Bury, Requeue, PruneSeen, PruneSent, store,
         NoRow, Row
    <2> QED BY <2>1, <2>2 DEF Sound
  <1> QED BY <1>1, <1>2, <1>3, <1>4 DEF World

\* Every step keeps the filter's word.
LEMMA StepSound ==
    ASSUME TypeOK, Sound, [Next]_vars
    PROVE  Sound'
  <1>1. CASE UNCHANGED vars
    BY <1>1 DEF vars, Sound
  <1> QED BY <1>1, TaskStepKeepsSound, WorldKeepsSound DEF Next, World, OnRelease

\* Nothing is enqueued or catalogued at first.
LEMMA InitSound == Init => Sound
  BY DEF Init, Sound, Rest, NoRow

\* The filter holds the whole way (Sound): whatever a task enqueues or
\* catalogues is a listed version of a release the watch's filter accepts, and
\* every row of the outbox carries a listed version.
THEOREM SoundAlways == Spec => []Sound
  <1> QED BY InitSound, StepSound, TypeCorrect, PTL DEF Spec

----------------------------------------------------------------------------
(* A release that is not edited is announced once.                         *)

\* With one version, every row that was sent has what a task would put there.
LEMMA StepUnedited ==
    ASSUME MaxVersion = 1, TypeOK, Sound, Unedited, [Next]_vars
    PROVE  Unedited'
  <1>1. ASSUME NEW w \in Tasks, Look(w) PROVE job'[w].pc # "reopen"
    <2>1. Oldest(w) \in Releases /\ job[w].snap[Oldest(w)] = 1
      <3>1. /\ Oldest(w) \in Releases /\ job[w].snap[Oldest(w)] > 0
            /\ job[w].snap \in Listings
        BY <1>1, LoopEffects, TypeParts DEF Enqueue, Sound, Jobs, Job
      <3> QED BY <3>1 DEF Listings, Versions
    <2>2. outbox[Oldest(w)].status = "sent" => outbox[Oldest(w)].version = 1
      <3>1. outbox[Oldest(w)] \in Row
        BY <2>1, TypeParts DEF Tables
      <3> QED BY <2>1, <3>1 DEF Sound, Row, Versions
    <2>3. Goto(w, "catalogue") \/ NextOne(w)
      BY <1>1, <2>1, <2>2 DEF Look
    <2>4. job[w].pc \in Working
      BY <1>1 DEF Look, Working
    <2>5. Goto(w, "catalogue") => Moves(w, "catalogue", job[w].snap, job[w].todo)
      BY JobMoves DEF PCs
    <2> QED BY <2>3, <2>4, <2>5, NextOneMoves DEF Moves
  <1>2. ASSUME NEW w \in Tasks, Catalogue(w) PROVE job'[w].pc # "reopen"
    <2>1. job[w].pc \in Working /\ NextOne(w)
      BY <1>2 DEF Catalogue, Working
    <2> QED BY <2>1, NextOneMoves DEF Moves
  <1>3. ASSUME NEW w \in Tasks, Start(w) \/ FetchFails(w) \/ Step(w) \/ Crash(w)
        PROVE  Unedited'
    <2>1. \A v \in Tasks \ {w} : job'[v] = job[v]
      BY <1>3, Effects, LoopEffects DEF Moves, Step
    <2>2. ~Reopen(w)
      BY DEF Unedited, Reopen
    <2>3. CASE Start(w) \/ FetchFails(w) \/ Fetch(w) \/ SetEtag(w) \/ Refetch(w) \/ Restamp(w)
               \/ Select(w) \/ Baseline(w) \/ Diff(w) \/ Crash(w)
      <3>1. job'[w].pc # "reopen"
        BY <2>3, Effects DEF Moves
      <3> QED BY <2>1, <3>1 DEF Unedited
    <2>4. CASE Look(w) \/ Catalogue(w)
      BY <1>1, <1>2, <2>1, <2>4 DEF Unedited
    <2> QED BY <1>3, <2>2, <2>3, <2>4 DEF Step, Enqueue
  <1>4. ASSUME NEW h \in Hooks, Receive(h) PROVE Unedited'
    <2>1. h \in Tasks /\ Moves(h, "select", event[h], {})
      BY <1>4, LoopEffects DEF Tasks
    <2> QED BY <2>1 DEF Unedited, Moves
  <1>5. CASE job' = job
    BY <1>5 DEF Unedited
  <1> QED BY <1>3, <1>4, <1>5 DEF Next, vars, PruneClaim, Post, Publish, Deliver, Bury, Requeue,
         PruneSeen, PruneSent

\* A delivered version that is never edited keeps the row that stops a second
\* enqueue (the unique key of enqueue).
LEMMA StepDeliveredKeepsRow ==
    ASSUME MaxVersion = 1, "outbox" \notin Retention,
           TypeOK, Sound, DeliveredKeepsRow, [Next]_vars
    PROVE  DeliveredKeepsRow'
  <1>v. Versions = {0, 1}
    BY DEF Versions
  <1>t. /\ outbox \in [Releases -> Row]
        /\ told \in [Releases -> [Versions -> 0 .. 2]]
    BY TypeParts DEF Tables
  <1>u. Unedited /\ Unedited'
    BY StepUnedited DEF DeliveredKeepsRow
  <1>1. ASSUME outbox' = outbox, told' = told PROVE DeliveredKeepsRow'
    BY <1>1, <1>u DEF DeliveredKeepsRow
  <1>2. ASSUME NEW w \in Tasks, Enqueue(w) PROVE DeliveredKeepsRow'
    <2> DEFINE o == Oldest(w)
    <2>1. o \in Releases /\ job[w].snap[o] > 0 /\ job[w].snap \in Listings
      BY <1>2, LoopEffects, TypeParts DEF Sound, Jobs, Job
    <2>2. job[w].snap[o] = 1
      BY <2>1, <1>v DEF Listings
    <2>3. outbox[o] = [status |-> "sent", version |-> 1] => outbox' = outbox
      <3>1. Look(w)
        BY <1>2, <1>u DEF Enqueue, Reopen, Unedited
      <3> QED BY <2>2, <3>1 DEF Look
    <2>4. \A r \in Releases \ {o} : outbox'[r] = outbox[r]
      BY <1>2, <1>t DEF Enqueue, Look, Reopen
    <2>5. told' = told
      BY <1>2 DEF Enqueue, Look, Reopen
    <2> HIDE DEF o
    <2> QED BY <2>1, <2>3, <2>4, <2>5, <1>u DEF DeliveredKeepsRow
  <1>3. ASSUME NEW r \in Releases, Deliver(r) PROVE DeliveredKeepsRow'
    <2>1. /\ outbox[r].status = "queued" /\ outbox[r].version \in Versions
          /\ outbox[r].version > 0
      BY <1>3, <1>t DEF Deliver, Sound, Row
    <2>2. outbox[r].version = 1
      BY <2>1, <1>v
    <2>3. told[r][0] = 0 /\ told[r][1] = 0
      <3>1. told[r][1] # 1 /\ told[r][1] < 2 /\ told[r][1] \in 0 .. 2 /\ told[r][0] = 0
        BY <2>1, <1>t, <1>v DEF DeliveredKeepsRow
      <3> QED BY <3>1
    <2>4. outbox'[r] = [status |-> "sent", version |-> 1]
      BY <1>3, <2>2, <1>t DEF Deliver, Row
    <2>5. told'[r][0] = 0 /\ told'[r][1] = 1
      <3>1. told'[r] = [told[r] EXCEPT ![1] = IF @ = 2 THEN 2 ELSE @ + 1]
        BY <1>3, <2>2, <1>t DEF Deliver
      <3>2. told[r] \in [Versions -> 0 .. 2] /\ 1 \in Versions /\ 0 \in Versions
        BY <1>t, <1>v
      <3> QED BY <2>3, <3>1, <3>2
    <2>6. \A q \in Releases \ {r} : outbox'[q] = outbox[q] /\ told'[q] = told[q]
      BY <1>3, <1>t DEF Deliver
    <2> QED BY <2>4, <2>5, <2>6, <1>u DEF DeliveredKeepsRow
  <1>4. ASSUME NEW r \in Releases, Bury(r) \/ Requeue(r) PROVE DeliveredKeepsRow'
    <2>1. told' = told /\ outbox[r].status # "sent"
      BY <1>4 DEF Bury, Requeue
    <2>2. \A q \in Releases \ {r} : outbox'[q] = outbox[q]
      BY <1>4, <1>t DEF Bury, Requeue
    <2> QED BY <2>1, <2>2, <1>u DEF DeliveredKeepsRow
  <1>5. ASSUME NEW r \in Releases, PruneSent(r) PROVE FALSE
    BY <1>5 DEF PruneSent
  <1>6. ASSUME NEW w \in Tasks, Start(w) \/ FetchFails(w) \/ Step(w) \/ Crash(w)
        PROVE  DeliveredKeepsRow'
    <2>1. CASE Enqueue(w)
      BY <1>2, <2>1
    <2>2. CASE ~Enqueue(w)
      <3>1. outbox' = outbox /\ told' = told
        BY <1>6, <2>2 DEF Start, FetchFails, Crash, Step, Fetch, SetEtag, Refetch, Restamp,
           Select, Baseline, Diff, Catalogue, store
      <3> QED BY <3>1, <1>1
    <2> QED BY <2>1, <2>2
  <1>7. CASE \E h \in Hooks : Receive(h) \/ PruneClaim(h) \/ \E r \in Releases : Post(h, r)
    BY <1>1, <1>7 DEF Receive, PruneClaim, Post, store
  <1>8. ASSUME NEW r \in Releases, OnRelease(r) PROVE DeliveredKeepsRow'
    <2>1. CASE Publish(r) \/ PruneSeen(r)
      BY <1>1, <2>1 DEF Publish, PruneSeen, store
    <2> QED BY <1>3, <1>4, <1>5, <1>8, <2>1 DEF OnRelease
  <1>9. CASE UNCHANGED vars
    BY <1>1, <1>9 DEF vars
  <1> QED BY <1>6, <1>7, <1>8, <1>9 DEF Next, OnRelease

\* No repeats (Poll.NoRepeat): while releases are not edited and sent rows are
\* not pruned, the watch loop, manual checks, webhooks and their retries
\* together deliver a release at most once, although tasks die between
\* try_enqueue_notification and record_seen and the prune forgets what was seen:
\* the sent row refuses what it already carried.
THEOREM DeliveredOnce ==
    ASSUME MaxVersion = 1, "outbox" \notin Retention
    PROVE  Spec => []NoRepeat
  <1>1. Init => DeliveredKeepsRow
    <2> SUFFICES ASSUME Init PROVE DeliveredKeepsRow
      OBVIOUS
    <2>1. 0 \in Versions /\ 1 \in Versions
      BY DEF Versions
    <2>2. told = [r \in Releases |-> [v \in Versions |-> 0]]
      BY DEF Init
    <2>3. \A r \in Releases : told[r][0] = 0 /\ told[r][1] = 0
      BY <2>1, <2>2
    <2>4. \A r \in Releases : told[r][1] < 2 /\ told[r][1] # 1
      <3> TAKE r \in Releases
      <3>1. told[r][1] = 0
        BY <2>3
      <3>2. \A n : n = 0 => n < 2 /\ n # 1
        OBVIOUS
      <3> QED BY <3>1, <3>2
    <2>5. Unedited
      BY DEF Init, Unedited, Rest
    <2> QED BY <2>3, <2>4, <2>5 DEF DeliveredKeepsRow
  <1>2. TypeOK /\ Sound /\ DeliveredKeepsRow /\ [Next]_vars => DeliveredKeepsRow'
    BY StepDeliveredKeepsRow
  <1>3. DeliveredKeepsRow => NoRepeat
    <2>1. Versions = {0, 1}
      BY DEF Versions
    <2> QED BY <2>1 DEF DeliveredKeepsRow, NoRepeat
  <1> QED BY <1>1, <1>2, <1>3, TypeCorrect, SoundAlways, PTL DEF Spec

----------------------------------------------------------------------------
(* What was there before the source was first observed stays unannounced.  *)

\* HistoryCatalogued, of one release and of one task.
OfTask(w, r) == /\ job[w].pc \in {"etag", "restamp", "select", "baseline", "diff"} => job[w].snap[r] > 0
                /\ job[w].pc = "diff" => initialized
                /\ r \notin job[w].todo

OfTables(r) == /\ upstream[r] > 0
               /\ initialized /\ r \in Accepted => seen[r] > 0
               /\ outbox[r].status = "none"
               /\ \A v \in Versions : told[r][v] = 0

\* The silence of history speaks of tables and of tasks, release by release.
LEMMA HistoryParts ==
    /\ HistoryCatalogued <=> \A r \in Old : OfTables(r) /\ \A w \in Tasks : OfTask(w, r)
    /\ HistoryCatalogued' <=> \A r \in Old : OfTables(r)' /\ \A w \in Tasks : OfTask(w, r)'
  BY DEF HistoryCatalogued, OfTask, OfTables

\* A task that catalogues or enqueues does so for a release that is not old.
LEMMA TaskKeepsHistory ==
    ASSUME Hooks = {}, Excluding, TypeOK, Sound, HistoryCatalogued,
           NEW w \in Tasks, Start(w) \/ FetchFails(w) \/ Step(w) \/ Crash(w),
           NEW r \in Old
    PROVE  OfTables(r)' /\ \A v \in Tasks : OfTask(v, r)'
  <1>r. r \in Releases /\ \A q \in Old : q \in Releases
    BY PollAssumption
  <1>t. /\ upstream \in Listings /\ seen \in Listings /\ job[w].snap \in Listings
        /\ outbox \in [Releases -> Row]
    BY TypeParts DEF Tables, Jobs, Job
  <1>h. OfTables(r) /\ OfTask(w, r) /\ \A v \in Tasks : OfTask(v, r)
    BY HistoryParts
  <1>i. initialized => initialized'
    BY DEF Start, FetchFails, Crash, Step, Fetch, SetEtag, Refetch, Restamp, Select, Baseline,
       Diff, Enqueue, Look, Reopen, Catalogue, store
  <1>o. Enqueue(w) \/ Catalogue(w) =>
            /\ Oldest(w) # r /\ Oldest(w) \in Releases /\ job[w].snap[Oldest(w)] > 0
    BY <1>h, LoopEffects DEF OfTask, Sound
  <1>1. OfTables(r)'
    <2>1. upstream' = upstream /\ told' = told
      BY DEF Start, FetchFails, Crash, Step, Fetch, SetEtag, Refetch, Restamp, Select, Baseline,
         Diff, Enqueue, Look, Reopen, Catalogue
    <2>2. outbox'[r] = outbox[r]
      <3>1. CASE Enqueue(w)
        BY <3>1, <1>o, <1>t, <1>r DEF Enqueue, Look, Reopen
      <3> QED BY <3>1 DEF Start, FetchFails, Crash, Step, Fetch, SetEtag, Refetch, Restamp,
                 Select, Baseline, Diff, Catalogue, store
    <2>3. initialized' /\ r \in Accepted => seen'[r] > 0
      <3>1. CASE Baseline(w)
        <4>1. job[w].snap[r] > 0
          BY <3>1, <1>h DEF Baseline, OfTask
        <4>2. r \in Accepted => r \in Listed(job[w].snap)
          BY <4>1 DEF Listed
        <4> QED BY <3>1, <4>1, <4>2, <1>r DEF Baseline
      <3>2. CASE Catalogue(w)
        <4>1. seen'[r] = seen[r] /\ initialized' = initialized
          BY <3>2, <1>o, <1>t, <1>r DEF Catalogue, Listings
        <4> QED BY <4>1, <1>h DEF OfTables
      <3>3. CASE ~Baseline(w) /\ ~Catalogue(w)
        <4>1. seen' = seen /\ initialized' = initialized
          BY <3>3 DEF Start, FetchFails, Crash, Step, Fetch, SetEtag, Refetch, Restamp,
             Select, Diff, Enqueue, Look, Reopen, store
        <4> QED BY <4>1, <1>h DEF OfTables
      <3> QED BY <3>1, <3>2, <3>3
    <2> QED BY <2>1, <2>2, <2>3, <1>h DEF OfTables
  <1>2. OfTask(w, r)'
    <2>1. CASE Start(w) \/ FetchFails(w) \/ Restamp(w) \/ Baseline(w) \/ Crash(w)
      <3>1. job'[w].pc \in {"fetch", "idle"} /\ job'[w].todo = {}
        BY <2>1, Effects DEF Moves
      <3> QED BY <3>1 DEF OfTask
    <2>2. CASE Fetch(w) \/ Refetch(w)
      <3>1. /\ job'[w].todo = {}
            /\ job'[w].pc \in {"idle", "refetch"} \/ job'[w].snap = upstream
            /\ job'[w].pc # "diff"
        BY <2>2, Effects DEF Moves
      <3> QED BY <3>1, <1>h DEF OfTask, OfTables
    <2>3. CASE SetEtag(w)
      <3>1. job'[w].todo = {} /\ job'[w].pc = "select" /\ job'[w].snap = job[w].snap
        BY <2>3, Effects DEF Moves
      <3>2. job[w].snap[r] > 0
        BY <2>3, <1>h DEF SetEtag, OfTask
      <3> QED BY <3>1, <3>2 DEF OfTask
    <2>4. CASE Select(w)
      <3>1. /\ job'[w].todo = {} /\ job'[w].snap = job[w].snap
            /\ job'[w].pc = "diff" => initialized
        BY <2>4, Effects DEF Moves
      <3>2. job[w].snap[r] > 0
        BY <2>4, <1>h DEF Select, OfTask
      <3> QED BY <3>1, <3>2, <1>i DEF OfTask
    <2>5. CASE Diff(w)
      <3>1. r \notin Novel(job[w].snap)
        <4>1. initialized /\ (r \in Accepted => seen[r] > 0)
          BY <2>5, <1>h DEF Diff, OfTask, OfTables
        <4> QED BY <4>1 DEF Novel, Listed
      <3>2. \/ job'[w].pc = "idle" /\ job'[w].todo = {}
            \/ job'[w].pc = "enqueue" /\ job'[w].todo = Novel(job[w].snap)
        BY <2>5, Effects DEF Moves
      <3> QED BY <3>1, <3>2 DEF OfTask
    <2>6. CASE Enqueue(w) \/ Catalogue(w)
      <3>1. /\ job'[w].pc \in {"idle", "enqueue", "reopen", "catalogue"}
            /\ job'[w].todo \subseteq job[w].todo
        BY <2>6, LoopEffects DEF Moves
      <3> QED BY <3>1, <1>h DEF OfTask
    <2> QED BY <2>1, <2>2, <2>3, <2>4, <2>5, <2>6 DEF Step
  <1>3. ASSUME NEW v \in Tasks, v # w PROVE OfTask(v, r)'
    <2>1. job'[v] = job[v]
      BY <1>3, Effects, LoopEffects DEF Moves, Step
    <2> QED BY <2>1, <1>h, <1>i DEF OfTask
  <1> QED BY <1>1, <1>2, <1>3

\* Nothing else in the world adds a row for what has none.
LEMMA WorldKeepsHistory ==
    ASSUME Hooks = {}, "seen" \notin Retention, TypeOK, Sound, HistoryCatalogued,
           NEW q \in Releases, OnRelease(q),
           NEW r \in Old
    PROVE  OfTables(r)' /\ \A v \in Tasks : OfTask(v, r)'
  <1>r. r \in Releases
    BY PollAssumption
  <1>t. /\ upstream \in Listings /\ seen \in Listings /\ outbox \in [Releases -> Row]
        /\ told \in [Releases -> [Versions -> 0 .. 2]]
    BY TypeParts DEF Tables
  <1>h. OfTables(r) /\ \A v \in Tasks : OfTask(v, r)
    BY HistoryParts
  <1>1. job' = job /\ initialized' = initialized
    BY DEF OnRelease, Publish, Deliver, Bury, Requeue, PruneSeen, PruneSent, store
  <1>2. upstream'[r] > 0
    <2>1. CASE Publish(q)
      <3>1. upstream[r] \in Nat /\ upstream[q] \in Nat
        BY <1>r, <1>t, ListingTypes
      <3>2. upstream'[r] = IF r = q THEN upstream[r] + 1 ELSE upstream[r]
        BY <2>1, <1>r, <1>t DEF Publish, Listings
      <3> QED BY <3>1, <3>2, <1>h DEF OfTables
    <2>2. CASE ~Publish(q)
      BY <2>2, <1>h DEF OnRelease, Deliver, Bury, Requeue, PruneSeen, PruneSent, OfTables
    <2> QED BY <2>1, <2>2
  <1>3. outbox'[r].status = "none" /\ told'[r] = told[r]
    BY <1>h, <1>r, <1>t DEF OfTables, OnRelease, Publish, Deliver, Bury, Requeue, PruneSeen,
       PruneSent, NoRow, store
  <1>4. seen'[r] = seen[r]
    <2>1. CASE Deliver(q)
      <3>1. q # r
        BY <2>1, <1>h DEF Deliver, OfTables
      <3> QED BY <2>1, <3>1, <1>r, <1>t DEF Deliver, Listings
    <2>2. CASE ~Deliver(q)
      BY <2>2 DEF OnRelease, Publish, Bury, Requeue, PruneSeen, PruneSent, store
    <2> QED BY <2>1, <2>2
  <1>5. OfTables(r)'
    BY <1>1, <1>2, <1>3, <1>4, <1>h DEF OfTables
  <1>6. \A v \in Tasks : OfTask(v, r)'
    BY <1>1, <1>h DEF OfTask
  <1> QED BY <1>5, <1>6

\* Silent baseline (Poll.HistoryIsSilent): for a source that is only polled,
\* whose filter ignores edits and whose catalogue is not pruned, nothing that
\* upstream listed before the first observation is ever announced, however the
\* loop and manual checks interleave on the baseline and wherever they die.
\* Each hypothesis is needed: a webhook before the baseline, an aged catalogue
\* and a digest that changes each announce an old release.
THEOREM HistoryStaysSilent ==
    ASSUME Hooks = {}, Excluding, "seen" \notin Retention
    PROVE  Spec => []HistoryIsSilent
  <1>1. Init => HistoryCatalogued
    <2> SUFFICES ASSUME Init, NEW r \in Old
                 PROVE  OfTables(r) /\ \A w \in Tasks : OfTask(w, r)
      BY HistoryParts
    <2>1. r \in Releases
      BY PollAssumption
    <2>2. \A v \in Versions : told[r][v] = 0
      BY <2>1 DEF Init
    <2>3. upstream[r] > 0
      BY <2>1 DEF Init
    <2> QED BY <2>1, <2>2, <2>3 DEF Init, OfTables, OfTask, Rest, NoRow
  <1>2. TypeOK /\ Sound /\ HistoryCatalogued /\ [Next]_vars => HistoryCatalogued'
    <2> SUFFICES ASSUME TypeOK, Sound, HistoryCatalogued, [Next]_vars
                 PROVE  HistoryCatalogued'
      OBVIOUS
    <2>1. CASE \E w \in Tasks : Start(w) \/ FetchFails(w) \/ Step(w) \/ Crash(w)
      BY <2>1, TaskKeepsHistory, HistoryParts
    <2>2. CASE \E r \in Releases : OnRelease(r)
      BY <2>2, WorldKeepsHistory, HistoryParts
    <2>3. CASE UNCHANGED vars
      BY <2>3 DEF vars, HistoryCatalogued
    <2> QED BY <2>1, <2>2, <2>3 DEF Next, OnRelease
  <1>3. HistoryCatalogued => HistoryIsSilent
    <2>1. 1 \in Versions
      BY PollAssumption DEF Versions
    <2> QED BY <2>1 DEF HistoryCatalogued, HistoryIsSilent
  <1> QED BY <1>1, <1>2, <1>3, TypeCorrect, SoundAlways, PTL DEF Spec

----------------------------------------------------------------------------
(* The stored ETag is never ahead of the diff.                             *)

\* EtagCovered, of one task and of one release.
Plain(w) == /\ job[w].pc \notin {"refetch", "restamp"}
            /\ job[w].pc \in {"fetch", "etag"} => w \notin Mortal

Held(r) == Handled(r) \/ \E w \in Tasks \ Mortal : InHand(w, r)

Covered(r) == etag # None /\ etag[r] > 0 => Held(r)

\* What a remembered ETag covers, part by part.
LEMMA EtagParts ==
    /\ EtagCovered <=> /\ \A w \in Tasks : Plain(w) /\ Reopens(w)
                       /\ \A r \in Releases : outbox[r].status = "sent" => seen[r] > 0
                       /\ \A r \in Accepted : Covered(r)
    /\ EtagCovered' <=> /\ \A w \in Tasks : Plain(w)' /\ Reopens(w)'
                        /\ \A r \in Releases : outbox'[r].status = "sent" => seen'[r] > 0
                        /\ \A r \in Accepted : Covered(r)'
  BY DEF EtagCovered, Plain, Covered, Held

\* A step of a task that keeps the ETag leaves a release that was in its hands
\* there, or catalogued, or queued.
LEMMA TaskKeepsHeld ==
    ASSUME Undated = {}, TypeOK, Sound, EtagCovered,
           NEW w \in Tasks, Start(w) \/ FetchFails(w) \/ Step(w) \/ Crash(w),
           NEW r \in Accepted, Held(r)
    PROVE  Held(r)'
  <1>r. r \in Releases
    BY PollAssumption
  <1>t. /\ seen \in Listings /\ job[w].snap \in Listings /\ outbox \in [Releases -> Row]
        /\ job[w].pc \in Working <=> job[w].todo # {}
    BY TypeParts DEF Tables, Jobs, Job
  <1>s. \A q \in job[w].todo : job[w].snap[q] > 0
    BY DEF Sound
  <1>o. Enqueue(w) \/ Catalogue(w) => Oldest(w) \in Releases /\ job[w].snap[Oldest(w)] > 0
    BY <1>s, LoopEffects
  <1>1. ASSUME Handled(r) PROVE Handled(r)'
    <2>1. CASE Baseline(w)
      <3>1. seen'[r] = seen[r] \/ seen'[r] > 0
        BY <2>1, <1>r DEF Baseline, Listed
      <3>2. outbox' = outbox
        BY <2>1 DEF Baseline
      <3> QED BY <1>1, <3>1, <3>2 DEF Handled
    <2>2. CASE Catalogue(w)
      <3>1. seen'[r] = seen[r] \/ seen'[r] > 0
        BY <2>2, <1>r, <1>o, <1>t DEF Catalogue, Listings
      <3>2. outbox' = outbox
        BY <2>2 DEF Catalogue
      <3> QED BY <1>1, <3>1, <3>2 DEF Handled
    <2>3. CASE Enqueue(w)
      <3>1. seen' = seen
        BY <2>3 DEF Enqueue, Look, Reopen
      <3>2. outbox'[r] = outbox[r] \/ outbox'[r].status = "queued"
        BY <2>3, <1>r, <1>o, <1>t DEF Enqueue, Look, Reopen, Row
      <3> QED BY <1>1, <3>1, <3>2 DEF Handled
    <2>4. CASE ~Baseline(w) /\ ~Catalogue(w) /\ ~Enqueue(w)
      <3>1. seen' = seen /\ outbox' = outbox
        BY <2>4 DEF Start, FetchFails, Crash, Step, Fetch, SetEtag, Refetch, Restamp, Select,
           Diff, store
      <3> QED BY <1>1, <3>1 DEF Handled
    <2> QED BY <2>1, <2>2, <2>3, <2>4
  <1>2. ASSUME NEW v \in Tasks \ Mortal, InHand(v, r), v # w PROVE InHand(v, r)'
    <2>1. job'[v] = job[v]
      BY <1>2, Effects, LoopEffects DEF Moves, Step
    <2> QED BY <2>1, <1>2 DEF InHand
  <1>3. ASSUME w \notin Mortal, InHand(w, r) PROVE Handled(r)' \/ InHand(w, r)'
    <2>1. CASE job[w].pc \in {"select", "baseline", "diff"} /\ job[w].snap[r] > 0
      <3>1. CASE Select(w)
        <4>1. job'[w].pc \in {"baseline", "diff"} /\ job'[w].snap = job[w].snap
          BY <3>1, Effects DEF Moves
        <4> QED BY <4>1, <2>1 DEF InHand
      <3>2. CASE Baseline(w)
        <4>1. r \in Listed(job[w].snap)
          BY <2>1 DEF Listed
        <4>2. seen'[r] = job[w].snap[r]
          BY <3>2, <4>1, <1>r DEF Baseline
        <4> QED BY <4>2, <2>1 DEF Handled
      <3>3. CASE Diff(w) /\ r \in Novel(job[w].snap)
        <4>1. job'[w].todo = Novel(job[w].snap)
          BY <3>3, Effects DEF Moves
        <4> QED BY <4>1, <3>3 DEF InHand
      <3>4. CASE Diff(w) /\ r \notin Novel(job[w].snap)
        <4>1. seen[r] \in Nat /\ seen[r] # 0
          BY <3>4, <2>1, <1>r, <1>t, ListingTypes DEF Novel, Listed
        <4>2. seen' = seen
          BY <3>4 DEF Diff, store
        <4> QED BY <4>1, <4>2 DEF Handled
      <3> QED BY <1>3, <2>1, <3>1, <3>2, <3>3, <3>4 DEF Start, FetchFails, Step, Crash, Fetch,
                 SetEtag, Refetch, Restamp, Enqueue, Look, Reopen, Catalogue
    <2>2. CASE r \in job[w].todo
      <3>1. job[w].pc \in Working
        BY <2>2, <1>t
      <3>2. Enqueue(w) \/ Catalogue(w)
        BY <1>3, <3>1 DEF Working, Start, FetchFails, Step, Crash, Fetch, SetEtag, Refetch,
           Restamp, Select, Baseline, Diff
      <3>3. CASE r # Oldest(w)
        <4>1. r \in job'[w].todo
          BY <2>2, <3>2, <3>3, LoopEffects DEF Moves
        <4> QED BY <4>1 DEF InHand
      <3>4. CASE r = Oldest(w) /\ Enqueue(w)
        <4>1. CASE Look(w)
          <5>1. outbox'[r].status # "none"
            BY <3>4, <4>1, <1>r, <1>t DEF Look, Row
          <5> QED BY <5>1 DEF Handled
        <4>2. CASE Reopen(w)
          <5>1. job[w].pc = "reopen" /\ seen' = seen
            BY <4>2 DEF Reopen
          <5>2. seen[r] > 0
            BY <3>1, <3>4, <5>1, OldestIsOne, EtagParts DEF Reopens
          <5> QED BY <5>1, <5>2 DEF Handled
        <4> QED BY <3>4, <4>1, <4>2 DEF Enqueue
      <3>5. CASE r = Oldest(w) /\ Catalogue(w)
        <4>1. seen'[r] > 0
          BY <3>5, <1>r, <1>t, <1>o DEF Catalogue, Listings
        <4> QED BY <4>1 DEF Handled
      <3> QED BY <3>2, <3>3, <3>4, <3>5
    <2> QED BY <1>3, <2>1, <2>2 DEF InHand
  <1>4. CASE Handled(r)
    BY <1>1, <1>4 DEF Held
  <1>5. ASSUME NEW v \in Tasks \ Mortal, InHand(v, r) PROVE Held(r)'
    <2>1. CASE v = w
      BY <1>3, <1>5, <2>1 DEF Held
    <2>2. CASE v # w
      BY <1>2, <1>5, <2>2 DEF Held
    <2> QED BY <2>1, <2>2
  <1> QED BY <1>4, <1>5 DEF Held

\* No task takes a release off the catalogue.
LEMMA TaskKeepsSeen ==
    ASSUME TypeOK, Sound,
           NEW w \in Tasks, Start(w) \/ FetchFails(w) \/ Step(w) \/ Crash(w),
           NEW r \in Releases, seen[r] > 0
    PROVE  seen'[r] > 0
  <1>t. /\ seen \in Listings /\ job[w].snap \in Listings
    BY TypeParts DEF Tables, Jobs, Job
  <1>o. Catalogue(w) => Oldest(w) \in Releases /\ job[w].snap[Oldest(w)] > 0
    BY LoopEffects DEF Sound
  <1>3. CASE Baseline(w)
    BY <1>3 DEF Baseline, Listed
  <1>4. CASE Catalogue(w)
    BY <1>4, <1>o, <1>t DEF Catalogue, Listings
  <1>5. CASE ~Baseline(w) /\ ~Catalogue(w)
    <2>1. seen' = seen
      BY <1>5 DEF Start, FetchFails, Crash, Step, Fetch, SetEtag, Refetch, Restamp, Select,
         Diff, Enqueue, Look, Reopen, store
    <2> QED BY <2>1
  <1> QED BY <1>3, <1>4, <1>5

\* What was sent is catalogued, whatever a task does next.
LEMMA TaskKeepsSentSeen ==
    ASSUME TypeOK, Sound, EtagCovered,
           NEW w \in Tasks, Start(w) \/ FetchFails(w) \/ Step(w) \/ Crash(w),
           NEW r \in Releases, outbox'[r].status = "sent"
    PROVE  seen'[r] > 0
  <1>t. /\ seen \in Listings /\ job[w].snap \in Listings /\ outbox \in [Releases -> Row]
    BY TypeParts DEF Tables, Jobs, Job
  <1>o. Enqueue(w) \/ Catalogue(w) => Oldest(w) \in Releases /\ job[w].snap[Oldest(w)] > 0
    BY LoopEffects DEF Sound
  <1>1. outbox'[r] = outbox[r]
    <2>1. CASE Enqueue(w)
      BY <2>1, <1>o, <1>t DEF Enqueue, Look, Reopen
    <2>2. CASE ~Enqueue(w)
      BY <2>2 DEF Start, FetchFails, Crash, Step, Fetch, SetEtag, Refetch, Restamp, Select,
         Baseline, Diff, Catalogue, store
    <2> QED BY <2>1, <2>2
  <1>2. seen[r] > 0
    BY <1>1, EtagParts
  <1> QED BY <1>2, TaskKeepsSeen

\* What a task is about to reopen is catalogued.
LEMMA TaskKeepsReopens ==
    ASSUME TypeOK, Sound, EtagCovered,
           NEW w \in Tasks, Start(w) \/ FetchFails(w) \/ Step(w) \/ Crash(w),
           NEW v \in Tasks
    PROVE  Reopens(v)'
  <1>r. job[v].todo \subseteq Releases /\ job[w].todo \subseteq Releases
    BY DEF TypeOK
  <1>1. CASE v # w
    <2>1. job'[v] = job[v]
      BY <1>1, Effects, LoopEffects DEF Moves, Step
    <2> QED BY <2>1, <1>r, EtagParts, TaskKeepsSeen DEF Reopens
  <1>2. CASE v = w /\ ~Look(w)
    <2>1. job'[w].pc # "reopen"
      <3>1. CASE Start(w) \/ FetchFails(w) \/ Fetch(w) \/ SetEtag(w) \/ Refetch(w)
                 \/ Restamp(w) \/ Select(w) \/ Baseline(w) \/ Diff(w) \/ Crash(w)
        BY <3>1, Effects DEF Moves
      <3>2. CASE Reopen(w) \/ Catalogue(w)
        <4>1. /\ job[w].pc \in Working
              /\ Goto(w, "catalogue") \/ NextOne(w)
          BY <3>2 DEF Reopen, Catalogue, Working
        <4>2. Goto(w, "catalogue") => Moves(w, "catalogue", job[w].snap, job[w].todo)
          BY JobMoves DEF PCs
        <4> QED BY <4>1, <4>2, NextOneMoves DEF Moves
      <3> QED BY <1>2, <3>1, <3>2 DEF Step, Enqueue
    <2> QED BY <1>2, <2>1 DEF Reopens
  <1>3. CASE v = w /\ Look(w)
    <2>1. job[w].pc \in Working /\ seen' = seen
      BY <1>3 DEF Look, Working
    <2>2. CASE Goto(w, "reopen") /\ outbox[Oldest(w)].status = "sent"
      <3>1. Moves(w, "reopen", job[w].snap, job[w].todo)
        BY <2>2, JobMoves DEF PCs
      <3>2. Oldest(w) \in Releases /\ seen[Oldest(w)] > 0
        BY <2>1, <2>2, OldestIsOne, EtagParts
      <3>3. \A r \in job[w].todo : (\A q \in job[w].todo : r <= q) => r = Oldest(w)
        <4>1. \A q \in job[w].todo : q \in Nat
          BY <1>r, PollAssumption
        <4> QED BY <2>1, <4>1, OldestIsOne
      <3> QED BY <1>3, <2>1, <3>1, <3>2, <3>3 DEF Reopens, Moves
    <2>3. CASE Goto(w, "catalogue") \/ NextOne(w)
      <3>1. Goto(w, "catalogue") => Moves(w, "catalogue", job[w].snap, job[w].todo)
        BY JobMoves DEF PCs
      <3>2. job'[w].pc # "reopen"
        BY <2>1, <2>3, <3>1, NextOneMoves DEF Moves
      <3> QED BY <1>3, <3>2 DEF Reopens
    <2> QED BY <1>3, <2>2, <2>3 DEF Look
  <1> QED BY <1>1, <1>2, <1>3

\* A step of a task covers what it stores the ETag of.
LEMMA TaskKeepsCover ==
    ASSUME Undated = {}, Mortal \cap (Loops \cup Checks) = {}, TypeOK, Sound, EtagCovered,
           NEW w \in Tasks, Start(w) \/ FetchFails(w) \/ Step(w) \/ Crash(w)
    PROVE  EtagCovered'
  <1>1. ASSUME NEW v \in Tasks PROVE Plain(v)'
    <2>1. CASE v # w
      <3>1. job'[v] = job[v]
        BY <2>1, Effects, LoopEffects DEF Moves, Step
      <3> QED BY <3>1, EtagParts DEF Plain
    <2>2. CASE v = w /\ Start(w)
      <3>1. job'[w].pc = "fetch" /\ w \notin Mortal
        BY <2>2, Effects DEF Moves, Start
      <3> QED BY <2>2, <3>1 DEF Plain
    <2>3. CASE v = w /\ Fetch(w)
      <3>1. job'[w].pc \in {"idle", "etag"}
        BY <2>3, Effects DEF Moves
      <3>2. w \notin Mortal
        BY <2>3, EtagParts DEF Plain, Fetch
      <3> QED BY <2>3, <3>1, <3>2 DEF Plain
    <2>4. CASE v = w /\ ~Start(w) /\ ~Fetch(w)
      <3>1. ~Refetch(w)
        BY EtagParts DEF Plain, Refetch
      <3>2. job'[w].pc \in {"idle", "select", "diff", "baseline", "enqueue", "reopen", "catalogue"}
        BY <2>4, <3>1, Effects, LoopEffects DEF Moves, Step
      <3> QED BY <2>4, <3>2 DEF Plain
    <2> QED BY <2>1, <2>2, <2>3, <2>4
  <1>2. ASSUME NEW r \in Releases, outbox'[r].status = "sent" PROVE seen'[r] > 0
    BY <1>2, TaskKeepsSentSeen
  <1>3. ASSUME NEW r \in Accepted, etag' # None, etag'[r] > 0 PROVE Held(r)'
    <2>1. CASE SetEtag(w)
      <3>1. job[w].snap[r] > 0 /\ job[w].pc = "etag"
        BY <2>1, <1>3 DEF SetEtag
      <3>2. w \notin Mortal
        BY <3>1, EtagParts DEF Plain
      <3>3. job'[w].pc = "select" /\ job'[w].snap = job[w].snap
        BY <2>1, Effects DEF Moves
      <3> QED BY <3>1, <3>2, <3>3 DEF Held, InHand
    <2>2. CASE ~SetEtag(w)
      <3>1. ~Restamp(w)
        BY EtagParts DEF Plain, Restamp
      <3>2. etag' = etag
        BY <2>2, <3>1 DEF Start, FetchFails, Crash, Step, Fetch, Refetch, Select, Baseline,
           Diff, Enqueue, Look, Reopen, Catalogue, store
      <3>3. Held(r)
        BY <3>2, <1>3, EtagParts DEF Covered
      <3> QED BY <3>3, TaskKeepsHeld
    <2> QED BY <2>1, <2>2
  <1>4. \A r \in Accepted : Covered(r)'
    BY <1>3 DEF Covered
  <1> QED BY <1>1, <1>2, <1>4, EtagParts, TaskKeepsReopens

\* Nor does the rest of the world uncover a release.
LEMMA WorldKeepsCover ==
    ASSUME "seen" \notin Retention, TypeOK, Sound, EtagCovered, World
    PROVE  EtagCovered'
  <1>t. /\ seen \in Listings /\ outbox \in [Releases -> Row]
    BY TypeParts DEF Tables
  <1>a. Accepted \subseteq Releases
    BY PollAssumption
  <1>1. CASE \E h \in Hooks : Receive(h)
    <2>1. PICK h \in Hooks : Receive(h)
      BY <1>1
    <2>2. /\ h \in Tasks /\ Moves(h, "select", event[h], {}) /\ job[h].pc = "idle"
          /\ seen' = seen /\ outbox' = outbox /\ etag' = etag
      BY <2>1, LoopEffects DEF Receive, Tasks
    <2>3. job[h].todo = {}
      BY <2>2, TypeParts DEF Jobs, Working
    <2>4. \A v \in Tasks : Plain(v)' /\ Reopens(v)'
      BY <2>2, EtagParts DEF Plain, Reopens, Moves
    <2>5. \A r \in Releases, v \in Tasks \ Mortal : InHand(v, r) => InHand(v, r)'
      BY <2>2, <2>3 DEF InHand, Moves
    <2>6. ASSUME NEW r \in Accepted PROVE Covered(r)'
      <3>1. Held(r) => Held(r)'
        BY <2>2, <2>5, <1>a DEF Held, Handled
      <3> QED BY <3>1, <2>2, EtagParts DEF Covered
    <2> QED BY <2>2, <2>4, <2>6, EtagParts
  <1>2. CASE \E h \in Hooks : PruneClaim(h) \/ \E r \in Releases : Post(h, r)
    BY <1>2 DEF PruneClaim, Post, store, EtagCovered, Reopens, Handled, InHand
  <1>3. ASSUME NEW q \in Releases, OnRelease(q) PROVE EtagCovered'
    <2>1. job' = job /\ etag' = etag
      BY <1>3 DEF OnRelease, Publish, Deliver, Bury, Requeue, PruneSeen, PruneSent, store
    <2>2. \A r \in Releases : seen[r] > 0 => seen'[r] > 0
      <3>1. CASE Deliver(q)
        <4>1. outbox[q].version > 0
          BY <3>1 DEF Deliver, Sound
        <4> QED BY <3>1, <4>1, <1>t DEF Deliver, Listings
      <3>2. CASE ~Deliver(q)
        BY <1>3, <3>2 DEF OnRelease, Publish, Bury, Requeue, PruneSeen, PruneSent, store
      <3> QED BY <3>1, <3>2
    <2>3. \A r \in Releases : outbox'[r].status = "sent" => seen'[r] > 0
      <3>1. CASE Deliver(q)
        <4>1. outbox[q].version > 0
          BY <3>1 DEF Deliver, Sound
        <4>2. seen'[q] > 0
          BY <3>1, <4>1, <1>t DEF Deliver, Listings
        <4>3. \A r \in Releases \ {q} : outbox'[r] = outbox[r]
          BY <3>1, <1>t DEF Deliver
        <4> QED BY <2>2, <4>2, <4>3, EtagParts
      <3>2. CASE ~Deliver(q)
        <4>1. \A r \in Releases : outbox'[r].status = "sent" => outbox[r].status = "sent"
          BY <1>3, <3>2, <1>t DEF OnRelease, Publish, Bury, Requeue, PruneSeen, PruneSent,
             store, NoRow, Row
        <4> QED BY <4>1, <2>2, EtagParts
      <3> QED BY <3>1, <3>2
    <2>4. \A r \in Releases : Handled(r) => Handled(r)'
      <3>1. CASE PruneSent(q)
        <4>1. seen[q] > 0 /\ seen' = seen
          BY <3>1, EtagParts DEF PruneSent
        <4>2. \A r \in Releases \ {q} : outbox'[r] = outbox[r]
          BY <3>1, <1>t DEF PruneSent
        <4> QED BY <4>1, <4>2 DEF Handled
      <3>2. CASE ~PruneSent(q)
        <4>1. \A r \in Releases : outbox[r].status # "none" => outbox'[r].status # "none"
          BY <1>3, <3>2, <1>t DEF OnRelease, Publish, Deliver, Bury, Requeue, PruneSeen,
             store, Row
        <4> QED BY <4>1, <2>2 DEF Handled
      <3> QED BY <3>1, <3>2
    <2>5. \A v \in Tasks : Plain(v)' /\ Reopens(v)'
      <3>1. \A v \in Tasks : job[v].todo \subseteq Releases
        BY DEF TypeOK
      <3> QED BY <2>1, <2>2, <3>1, EtagParts DEF Plain, Reopens
    <2>6. ASSUME NEW r \in Accepted PROVE Covered(r)'
      <3>1. Held(r) => Held(r)'
        BY <2>1, <2>4, <1>a DEF Held, InHand
      <3> QED BY <3>1, <2>1, EtagParts DEF Covered
    <2> QED BY <2>3, <2>5, <2>6, EtagParts
  <1> QED BY <1>1, <1>2, <1>3 DEF World

\* A 304 hides nothing (Poll.EtagHidesNothing): set_etag runs before the
\* listing is diffed, yet when the loop and the checks live to the end of what
\* they began, every source dates its releases and the catalogue is not pruned,
\* no stored ETag that equals upstream's leaves out a listed release, also when
\* webhooks die between their claim and their record, and sent rows are pruned.
THEOREM EtagIsNeverAhead ==
    ASSUME Undated = {}, Mortal \cap (Loops \cup Checks) = {}, "seen" \notin Retention
    PROVE  Spec => []EtagHidesNothing
  <1>1. Init => EtagCovered
    BY DEF Init, EtagCovered, Reopens, Rest, NoRow
  <1>2. TypeOK /\ Sound /\ EtagCovered /\ [Next]_vars => EtagCovered'
    <2> SUFFICES ASSUME TypeOK, Sound, EtagCovered, [Next]_vars
                 PROVE  EtagCovered'
      OBVIOUS
    <2>1. CASE UNCHANGED vars
      BY <2>1 DEF vars, EtagCovered, Reopens, Handled, InHand
    <2> QED BY <2>1, TaskKeepsCover, WorldKeepsCover DEF Next, World, OnRelease
  <1>3. TypeOK /\ EtagCovered => EtagHidesNothing
    <2> SUFFICES ASSUME TypeOK, EtagCovered, Quiet, etag = upstream,
                        NEW r \in Listed(upstream)
                 PROVE  seen[r] > 0 \/ outbox[r].status # "none"
      BY DEF EtagHidesNothing
    <2>1. etag # None /\ r \in Accepted /\ etag[r] > 0
      BY TypeParts, PollAssumption DEF Tables, Listed
    <2>2. Held(r)
      BY <2>1, EtagParts DEF Covered
    <2>3. \A w \in Tasks : ~InHand(w, r)
      BY TypeParts DEF Quiet, InHand, Jobs, Working
    <2> QED BY <2>2, <2>3 DEF Held, Handled
  <1> QED BY <1>1, <1>2, <1>3, TypeCorrect, SoundAlways, PTL DEF Spec
=============================================================================
