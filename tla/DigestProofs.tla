----------------------------- MODULE DigestProofs -----------------------------
(***************************************************************************)
(* Theorems about the outbox flush for any number of rows, sinks and flush *)
(* tasks, any wave size and retry budget, whatever statement fails, config *)
(* is swapped in or sink is probed on the way.                             *)
(***************************************************************************)
EXTENDS Digest, FiniteSetTheorems, TLAPS

----------------------------------------------------------------------------
(* Types.                                                                  *)

Parent   == [status : {"pending", "failed", "sent", "dead"}, attempts : Nat,
             lock : {"free", "lease", "backoff"}]
Entry    == [status : {"absent", "pending", "failed", "sent", "dead"}, attempts : Nat]
Breaker  == [failures : Nat, open : BOOLEAN, left : Nat]
Calls    == {"none", "todo", "dialling", "breaker", "ok", "error"}
Delivery == [flush : Flushes, rows : SUBSET DRows, pc : {"open", "send", "apply", "backoff"},
             fresh : BOOLEAN, pending : [DRows -> SUBSET DSinks], call : [DSinks -> Calls],
             todo : SUBSET DRows, verdict : [DRows -> {"failed", "delivered", "deferred"}]]
Loop     == [pc : {"off", "idle", "claim", "deliver", "sweep"}, claimed : Nat, short : BOOLEAN]

DigestTypeOK ==
    /\ drow \in [DRows -> Parent]
    /\ dsink \in [DRows -> [DSinks -> Entry]]
    /\ flush \in [Flushes -> Loop]
    /\ units \subseteq Delivery
    /\ breakers \in [DSinks -> Breaker]
    /\ heard \in [DRows -> [DSinks -> Nat]]
    /\ charged \in [DRows -> [DSinks -> 0 .. DMaxAttempts]]

----------------------------------------------------------------------------
(* What a row and a unit in flight can count on.                           *)

\* A row's sinks: sent on an acknowledgement of its own, the row itself only
\* when all are, charged for its own failures.
RowHolds(r) ==
    /\ \A s \in DSinks : dsink[r][s].status = "sent" => heard[r][s] > 0
    /\ drow[r].status = "sent" => \A s \in DSinks : dsink[r][s].status \in {"absent", "sent"}
    /\ \A s \in DSinks : dsink[r][s].status # "dead" => dsink[r][s].attempts <= charged[r][s]

\* A unit works under the lease of each of its rows, in a wave of its flush.
UnitLeases(u) ==
    /\ flush[u.flush].pc = "deliver"
    /\ \A r \in u.rows : drow[r].lock = "lease"

\* Until its results reach a row, the row is not sent and the sinks it owes are
\* still to be settled; an acknowledgement was heard for every row, a failure
\* charged to each row that owes it.
UnitOwes(u) ==
    /\ u.todo \subseteq u.rows
    /\ u.pc \in {"open", "send"} => u.todo = u.rows
    /\ u.pc # "backoff" => \A r \in u.todo : drow[r].status # "sent"
    /\ u.pc \in {"send", "apply"} =>
         /\ \A r \in u.rows, s \in DSinks : u.call[s] = "ok" => heard[r][s] > 0
         /\ \A r \in u.todo : \A s \in u.pending[r] :
              /\ dsink[r][s].status \in Claims
              /\ u.call[s] = "error" =>
                   LowerOf(dsink[r][s].attempts + 1, DMaxAttempts) <= charged[r][s]

\* The rows a flush holds.
Held(f) == UNION {u.rows : u \in {v \in units : v.flush = f}}

RowsHold  == \A r \in DRows : RowHolds(r)
UnitsHold == \A u \in units : UnitLeases(u) /\ UnitOwes(u)

DigestInv == DigestTypeOK /\ RowsHold /\ UnitsHold /\ OneUnitPerRow

----------------------------------------------------------------------------
(* A wave and its partition.                                               *)

\* Fewer than n members of a finite set of numbers have fewer than n below them.
LEMMA OldestFits ==
    ASSUME NEW S \in SUBSET Nat, IsFiniteSet(S), NEW n \in Nat
    PROVE  Cardinality({r \in S : Cardinality({q \in S : q < r}) < n}) <= n
  <1> DEFINE Lower(r) == {q \in S : q < r}
             T == {r \in S : Cardinality(Lower(r)) < n}
             g == [r \in T |-> Cardinality(Lower(r)) + 1]
  <1>1. \A r \in S : IsFiniteSet(Lower(r)) /\ Cardinality(Lower(r)) \in Nat
    BY FS_Subset, FS_CardinalityType
  <1>2. ASSUME NEW a \in S, NEW b \in S, a < b
        PROVE  Cardinality(Lower(a)) < Cardinality(Lower(b))
    <2>0. /\ \A q \in S : q < a => q < b
          /\ a \in Lower(b) /\ a \notin Lower(a)
      BY <1>2
    <2>1. Lower(a) \cup {a} \in SUBSET Lower(b) /\ a \notin Lower(a)
      BY <2>0
    <2>2. Cardinality(Lower(a) \cup {a}) = Cardinality(Lower(a)) + 1
      BY <1>1, <2>1, FS_AddElement
    <2>3. Cardinality(Lower(a) \cup {a}) <= Cardinality(Lower(b))
      BY <1>1, <2>1, FS_Subset
    <2> QED BY <1>1, <2>2, <2>3
  <1> HIDE DEF Lower
  <1>3. g \in [T -> 1 .. n]
    <2>1. \A r \in T : Cardinality(Lower(r)) + 1 \in 1 .. n
      BY <1>1
    <2> QED BY <2>1
  <1>4. \A a, b \in T : g[a] = g[b] => a = b
    <2> SUFFICES ASSUME NEW a \in T, NEW b \in T, g[a] = g[b] PROVE a = b
      OBVIOUS
    <2>1. Cardinality(Lower(a)) = Cardinality(Lower(b))
      BY <1>1
    <2>2. ~(a < b) /\ ~(b < a)
      BY <1>1, <1>2, <2>1
    <2> QED BY <2>2
  <1> HIDE DEF T, g
  <1>5. g \in Injection(T, 1 .. n)
    BY <1>3, <1>4 DEF Injection, IsInjective
  <1>6. IsFiniteSet(1 .. n) /\ Cardinality(1 .. n) = n
    BY FS_Interval
  <1>7. Cardinality(T) <= n
    BY <1>5, <1>6, FS_Injection
  <1> QED BY <1>7 DEF T, Lower

\* A wave is due rows that nobody holds, no more than the concurrency.
LEMMA WaveFits ==
    ASSUME DigestTypeOK, NEW f \in Flushes
    PROVE  LET wave == Oldest(WaveLimit(f)) IN
           /\ wave \subseteq DRows /\ IsFiniteSet(wave) /\ Cardinality(wave) \in Nat
           /\ Cardinality(wave) <= Concurrency
           /\ \A r \in wave : drow[r].status \in Claims /\ drow[r].lock = "free"
  <1> DEFINE n    == WaveLimit(f)
             wave == Oldest(n)
             Low(r) == {q \in DueRows : q < r}
  <1>1. DueRows \in SUBSET Nat /\ DueRows \subseteq DRows /\ IsFiniteSet(DueRows)
        /\ \A r \in DueRows : drow[r].status \in Claims /\ drow[r].lock = "free"
    BY FS_Subset, DigestAssumption DEF DueRows
  <1>2. n \in Int /\ n <= Concurrency /\ Concurrency \in Nat
    BY DigestAssumption DEF WaveLimit, LowerOf, DigestTypeOK, Loop
  <1>3. \A r \in DueRows : Cardinality(Low(r)) \in Nat
    BY <1>1, FS_Subset, FS_CardinalityType
  <1>4. wave = {r \in DueRows : Cardinality(Low(r)) < n}
    BY DEF Oldest
  <1> HIDE DEF n, wave
  <1>5. wave \subseteq {r \in DueRows : Cardinality(Low(r)) < Concurrency}
    <2> HIDE DEF Low
    <2> QED BY <1>2, <1>3, <1>4
  <1>6. Cardinality({r \in DueRows : Cardinality(Low(r)) < Concurrency}) <= Concurrency
    BY <1>1, <1>2, OldestFits
  <1> DEFINE most == {r \in DueRows : Cardinality(Low(r)) < Concurrency}
  <1>7. IsFiniteSet(most) /\ Cardinality(most) \in Nat
    BY <1>1, FS_Subset, FS_CardinalityType
  <1>8. wave \in SUBSET most /\ Cardinality(most) <= Concurrency
    BY <1>5, <1>6
  <1>9. wave \subseteq DueRows
    BY <1>4
  <1> HIDE DEF most
  <1>10. IsFiniteSet(wave) /\ Cardinality(wave) \in Nat /\ Cardinality(wave) <= Cardinality(most)
    BY <1>7, <1>8, FS_Subset, FS_CardinalityType
  <1>11. Cardinality(wave) <= Concurrency
    BY <1>2, <1>7, <1>8, <1>10
  <1> QED BY <1>1, <1>9, <1>10, <1>11 DEF wave, n

\* The groups of a wave share no row.
LEMMA GroupsAreApart ==
    ASSUME NEW wave
    PROVE  /\ \A g \in partition_for_digest(wave) : g \subseteq wave
           /\ \A g, h \in partition_for_digest(wave) : g # h => g \cap h = {}
  <1> DEFINE Group(r) == {q \in wave : q = r \/ (Moment[q] = Moment[r] /\ Moment[r] # "now")}
  <1>1. \A g \in partition_for_digest(wave) : \E r \in wave : g = Group(r)
    BY DEF partition_for_digest
  <1>2. ASSUME NEW a \in wave, NEW b \in wave, NEW q \in Group(a), q \in Group(b)
        PROVE  Group(a) = Group(b)
    <2>1. CASE a = b
      BY <2>1
    <2>2. CASE a # b
      <3>1. Moment[a] = Moment[b] /\ Moment[a] # "now"
        BY <1>2, <2>2
      <3> QED BY <3>1
    <2> QED BY <2>1, <2>2
  <1>3. \A r \in wave : Group(r) \subseteq wave
    OBVIOUS
  <1> HIDE DEF Group
  <1> QED BY <1>1, <1>2, <1>3

----------------------------------------------------------------------------
(* What a step leaves alone.                                               *)

\* Acknowledgements are not forgotten and charges not taken back.
Grows ==
    \A r \in DRows, s \in DSinks :
        (heard[r][s] > 0 => heard'[r][s] > 0) /\ charged[r][s] <= charged'[r][s]

\* A row whose sinks and status stay keeps what holds of it.
LEMMA RowStays ==
    ASSUME DigestTypeOK, DigestTypeOK', Grows, NEW r \in DRows, RowHolds(r),
           dsink'[r] = dsink[r], drow'[r].status = "sent" => drow[r].status = "sent"
    PROVE  RowHolds(r)'
  <1>1. \A s \in DSinks : /\ dsink[r][s].attempts \in Nat
                          /\ charged[r][s] \in Nat /\ charged'[r][s] \in Nat
    BY DigestAssumption DEF DigestTypeOK, Entry
  <1> QED BY <1>1 DEF RowHolds, Grows

\* A unit whose rows keep their sinks and their lease keeps what it counts on.
LEMMA UnitStays ==
    ASSUME DigestTypeOK, DigestTypeOK', Grows, NEW w \in units, UnitLeases(w), UnitOwes(w),
           flush'[w.flush].pc = flush[w.flush].pc,
           \A r \in w.rows : /\ drow'[r].lock = drow[r].lock /\ dsink'[r] = dsink[r]
                             /\ drow'[r].status = "sent" => drow[r].status = "sent"
    PROVE  UnitLeases(w)' /\ UnitOwes(w)'
  <1>0. w \in Delivery
    BY DEF DigestTypeOK
  <1>1. w.rows \subseteq DRows /\ \A r \in DRows : w.pending[r] \subseteq DSinks
    BY <1>0 DEF Delivery
  <1>2. \A r \in DRows, s \in DSinks : LowerOf(dsink[r][s].attempts + 1, DMaxAttempts) \in Nat
                                       /\ charged[r][s] \in Nat /\ charged'[r][s] \in Nat
    BY DigestAssumption DEF DigestTypeOK, Entry, LowerOf
  <1>3. UnitLeases(w)'
    BY DEF UnitLeases
  <1>4. UnitOwes(w)'
    BY <1>1, <1>2 DEF UnitOwes, Grows
  <1> QED BY <1>3, <1>4

\* A flush that holds no more rows than before stays within its wave.
LEMMA HeldShrinks ==
    ASSUME DigestTypeOK, OneUnitPerRow, NEW f \in Flushes, Held(f)' \subseteq Held(f)
    PROVE  Cardinality(Held(f)') <= Concurrency
  <1>1. Held(f) \in SUBSET DRows
    BY DEF Held, DigestTypeOK, Delivery
  <1>2. IsFiniteSet(Held(f)) /\ Cardinality(Held(f)) \in Nat
    BY <1>1, DigestAssumption, FS_Subset, FS_CardinalityType
  <1>3. IsFiniteSet(Held(f)') /\ Cardinality(Held(f)') <= Cardinality(Held(f))
        /\ Cardinality(Held(f)') \in Nat
    <2>1. Held(f)' \in SUBSET Held(f)
      OBVIOUS
    <2> QED BY <1>2, <2>1, FS_Subset, FS_CardinalityType
  <1>4. Cardinality(Held(f)) <= Concurrency
    BY DEF OneUnitPerRow, Held
  <1>5. Concurrency \in Nat
    BY DigestAssumption
  <1> QED BY <1>2, <1>3, <1>4, <1>5

\* Units that lose rows, or go, stay apart.
LEMMA ApartStays ==
    ASSUME DigestTypeOK, OneUnitPerRow,
           \A v \in units' : \E u \in units : u.rows = v.rows /\ u.flush = v.flush,
           \A v, w \in units' : v # w => v.rows \cap w.rows = {}
    PROVE  OneUnitPerRow'
  <1>1. \A f \in Flushes : Held(f)' \subseteq Held(f)
    BY DEF Held
  <1>2. \A f \in Flushes : Cardinality(Held(f)') <= Concurrency
    BY <1>1, HeldShrinks
  <1> QED BY <1>2 DEF OneUnitPerRow, Held

----------------------------------------------------------------------------
(* One attempt, and what it makes of a row.                                *)

\* A failed attempt is counted, and the last of the budget is final.
LEMMA FailedIs ==
    /\ \A q \in Parent : Failed(q) \in Parent /\ Failed(q).lock = q.lock /\ Failed(q).status # "sent"
    /\ \A l \in Entry : /\ Failed(l) \in Entry /\ Failed(l).status \in {"failed", "dead"}
                        /\ Failed(l).attempts = l.attempts + 1
                        /\ Failed(l).status # "dead" => l.attempts + 1 < DMaxAttempts
  <1>1. ASSUME NEW q \in Parent
        PROVE  Failed(q) \in Parent /\ Failed(q).lock = q.lock /\ Failed(q).status # "sent"
    <2> DEFINE st == IF q.attempts + 1 >= DMaxAttempts THEN "dead" ELSE "failed"
    <2>1. st \in {"dead", "failed"}
      OBVIOUS
    <2>2. Failed(q) = [q EXCEPT !.attempts = q.attempts + 1, !.status = st]
      BY DEF Failed
    <2> HIDE DEF st
    <2>3. Failed(q) = [status |-> st, attempts |-> q.attempts + 1, lock |-> q.lock]
      BY <2>2 DEF Parent
    <2>4. q.attempts + 1 \in Nat /\ q.lock \in {"free", "lease", "backoff"}
      BY DEF Parent
    <2> QED BY <2>1, <2>3, <2>4 DEF Parent
  <1>2. ASSUME NEW l \in Entry
        PROVE  /\ Failed(l) \in Entry /\ Failed(l).status \in {"failed", "dead"}
               /\ Failed(l).attempts = l.attempts + 1
               /\ Failed(l).status # "dead" => l.attempts + 1 < DMaxAttempts
    <2> DEFINE st == IF l.attempts + 1 >= DMaxAttempts THEN "dead" ELSE "failed"
    <2>1. st \in {"dead", "failed"} /\ (st # "dead" => l.attempts + 1 < DMaxAttempts)
      BY DigestAssumption DEF Entry
    <2>2. Failed(l) = [l EXCEPT !.attempts = l.attempts + 1, !.status = st]
      BY DEF Failed
    <2> HIDE DEF st
    <2>3. Failed(l) = [status |-> st, attempts |-> l.attempts + 1]
      BY <2>2 DEF Entry
    <2>4. l.attempts + 1 \in Nat
      BY DEF Entry
    <2> QED BY <2>1, <2>3, <2>4 DEF Entry
  <1> QED BY <1>1, <1>2

\* The parent follows its sinks: it becomes sent only when all of them are.
LEMMA SyncedIs ==
    ASSUME NEW q \in Parent, NEW l \in [DSinks -> Entry]
    PROVE  /\ Synced(q, l) \in Parent /\ Synced(q, l).lock = q.lock
           /\ Synced(q, l).status = "sent" => AllSent(l) \/ q.status = "sent"
  BY DEF Synced, Parent

\* Ensuring the sinks of a row adds fresh ones and gives up orphans.
LEMMA EnsuredIs ==
    ASSUME NEW l \in [DSinks -> Entry]
    PROVE  /\ Ensured(l) \in [DSinks -> Entry]
           /\ \A s \in DSinks :
                \/ Ensured(l)[s] = l[s]
                \/ Ensured(l)[s].status = "pending" /\ Ensured(l)[s].attempts = 0
                \/ Ensured(l)[s].status = "dead"
  BY DigestAssumption DEF Ensured, Entry

\* A unit that moves on under its lease keeps the invariant, once its own rows
\* and what it owes them are looked after.
LEMMA UnitMoves ==
    ASSUME DigestInv, NEW u \in units, NEW v \in Delivery,
           v.flush = u.flush, v.rows = u.rows, units' = (units \ {u}) \cup {v},
           flush' = flush, drow' \in [DRows -> Parent], dsink' \in [DRows -> [DSinks -> Entry]],
           breakers' \in [DSinks -> Breaker], heard' \in [DRows -> [DSinks -> Nat]],
           charged' \in [DRows -> [DSinks -> 0 .. DMaxAttempts]], Grows,
           \A r \in DRows \ u.rows : drow'[r] = drow[r] /\ dsink'[r] = dsink[r],
           \A r \in u.rows : drow'[r].lock = drow[r].lock /\ RowHolds(r)',
           UnitOwes(v)'
    PROVE  DigestInv'
  <1>0. DigestTypeOK /\ RowsHold /\ UnitsHold /\ OneUnitPerRow
    BY DEF DigestInv
  <1>1. DigestTypeOK'
    BY <1>0 DEF DigestTypeOK
  <1>2. RowsHold'
    <2> SUFFICES ASSUME NEW r \in DRows PROVE RowHolds(r)'
      BY DEF RowsHold
    <2>1. CASE r \in u.rows
      BY <2>1
    <2>2. CASE r \notin u.rows
      BY <1>0, <1>1, <2>2, RowStays DEF RowsHold
    <2> QED BY <2>1, <2>2
  <1>3. \A w \in units \ {u} : w.rows \cap u.rows = {} /\ w.rows \subseteq DRows
    BY <1>0 DEF OneUnitPerRow, DigestTypeOK, Delivery
  <1>4. UnitsHold'
    <2>1. ASSUME NEW w \in units \ {u} PROVE UnitLeases(w)' /\ UnitOwes(w)'
      <3>1. \A r \in w.rows : drow'[r] = drow[r] /\ dsink'[r] = dsink[r]
        BY <1>3
      <3>2. UnitLeases(w) /\ UnitOwes(w)
        BY <1>0 DEF UnitsHold
      <3> QED BY <1>0, <1>1, <3>1, <3>2, UnitStays
    <2>2. UnitLeases(v)'
      BY <1>0 DEF UnitsHold, UnitLeases
    <2> QED BY <2>1, <2>2 DEF UnitsHold
  <1>5. OneUnitPerRow'
    <2>1. \A x \in units' : \E y \in units : y.rows = x.rows /\ y.flush = x.flush
      OBVIOUS
    <2>2. \A x, y \in units' : x # y => x.rows \cap y.rows = {}
      BY <1>0, <1>3 DEF OneUnitPerRow
    <2> QED BY <1>0, <2>1, <2>2, ApartStays
  <1> QED BY <1>1, <1>2, <1>4, <1>5 DEF DigestInv

\* A unit that ends, or is dropped, leaves its rows behind.
LEMMA UnitGoes ==
    ASSUME DigestInv, NEW u \in units, units' = units \ {u},
           UNCHANGED <<dsink, flush, breakers, heard, charged>>,
           drow' \in [DRows -> Parent], \A r \in DRows : drow'[r].status = drow[r].status,
           \A r \in DRows \ u.rows : drow'[r] = drow[r]
    PROVE  DigestInv'
  <1>0. DigestTypeOK /\ RowsHold /\ UnitsHold /\ OneUnitPerRow
    BY DEF DigestInv
  <1>1. DigestTypeOK'
    BY <1>0 DEF DigestTypeOK
  <1>g. Grows
    BY <1>0, DigestAssumption DEF Grows, DigestTypeOK
  <1>2. RowsHold'
    BY <1>0, <1>1, <1>g, RowStays DEF RowsHold
  <1>3. UnitsHold'
    <2> SUFFICES ASSUME NEW w \in units \ {u} PROVE UnitLeases(w)' /\ UnitOwes(w)'
      BY DEF UnitsHold
    <2>1. w.rows \subseteq DRows /\ w.rows \cap u.rows = {} /\ UnitLeases(w) /\ UnitOwes(w)
      BY <1>0 DEF UnitsHold, OneUnitPerRow, DigestTypeOK, Delivery
    <2>2. \A r \in w.rows : drow'[r] = drow[r] /\ dsink'[r] = dsink[r]
      BY <2>1
    <2> QED BY <1>0, <1>1, <1>g, <2>1, <2>2, UnitStays
  <1>4. OneUnitPerRow'
    BY <1>0, ApartStays DEF OneUnitPerRow
  <1> QED BY <1>1, <1>2, <1>3, <1>4 DEF DigestInv

----------------------------------------------------------------------------
(* The steps of a unit.                                                    *)

\* What is known of a unit in flight and its rows.
LEMMA UnitKnown ==
    ASSUME DigestInv, NEW u \in units
    PROVE  /\ u \in Delivery /\ u.rows \subseteq DRows /\ UnitOwes(u) /\ DigestTypeOK
           /\ \A r \in DRows : RowHolds(r) /\ drow[r] \in Parent /\ dsink[r] \in [DSinks -> Entry]
  <1>1. DigestTypeOK /\ RowsHold /\ UnitsHold
    BY DEF DigestInv
  <1> QED BY <1>1 DEF DigestTypeOK, RowsHold, UnitsHold, Delivery

\* Nothing is forgotten where the histories stay.
LEMMA SameHistory ==
    ASSUME DigestTypeOK, heard' = heard, charged' = charged
    PROVE  Grows
  <1>1. \A r \in DRows, s \in DSinks : charged[r][s] \in Int
    BY DEF DigestTypeOK
  <1> QED BY <1>1 DEF Grows

\* A unit without a sink charges its rows one attempt each.
LEMMA NoMatchKeeps ==
    ASSUME DigestInv, NEW u \in units, NoMatch(u)
    PROVE  DigestInv'
  <1>1. /\ u \in Delivery /\ u.rows \subseteq DRows /\ UnitOwes(u) /\ DigestTypeOK
        /\ \A r \in DRows : RowHolds(r) /\ drow[r] \in Parent
    BY UnitKnown
  <1>2. PICK v : v = [u EXCEPT !.pc = "backoff"]
    OBVIOUS
  <1>3. /\ v \in Delivery /\ v.flush = u.flush /\ v.rows = u.rows /\ v.pc = "backoff"
        /\ v.todo = u.todo
    BY <1>1, <1>2 DEF Delivery
  <1>4. /\ units' = (units \ {u}) \cup {v} /\ flush' = flush /\ dsink' = dsink
        /\ breakers' = breakers /\ heard' = heard /\ charged' = charged
        /\ drow' = [r \in DRows |-> IF r \in u.rows THEN Failed(drow[r]) ELSE drow[r]]
    BY <1>2 DEF NoMatch, Replace
  <1>5. /\ drow' \in [DRows -> Parent]
        /\ \A r \in DRows : drow'[r].lock = drow[r].lock
        /\ \A r \in u.rows : drow'[r].status # "sent"
        /\ \A r \in DRows \ u.rows : drow'[r] = drow[r]
    BY <1>1, <1>4, FailedIs
  <1>6. \A r \in u.rows : RowHolds(r)'
    BY <1>1, <1>4, <1>5 DEF RowHolds
  <1>7. UnitOwes(v)'
    BY <1>1, <1>3 DEF UnitOwes
  <1>8. Grows
    BY <1>1, <1>4, SameHistory
  <1> QED BY <1>1, <1>3, <1>4, <1>5, <1>6, <1>7, <1>8, UnitMoves DEF DigestTypeOK

\* Preparing a row adds pending sinks and gives up orphans; it is sent only if
\* every sink already is.
LEMMA EnsuredRow ==
    ASSUME DigestTypeOK, NEW r \in DRows, RowHolds(r),
           dsink'[r] = Ensured(dsink[r]), heard' = heard, charged' = charged,
           drow'[r].status = "sent" => AllSent(dsink'[r])
    PROVE  RowHolds(r)'
  <1>1. dsink[r] \in [DSinks -> Entry]
    BY DEF DigestTypeOK
  <1>2. \A s \in DSinks :
            \/ dsink'[r][s] = dsink[r][s]
            \/ dsink'[r][s].status = "pending" /\ dsink'[r][s].attempts = 0
            \/ dsink'[r][s].status = "dead"
    BY <1>1, EnsuredIs
  <1>3. \A s \in DSinks : 0 <= charged[r][s]
    BY DEF DigestTypeOK
  <1>4. \A s \in DSinks : dsink'[r][s].status = "sent" => heard'[r][s] > 0
    BY <1>2 DEF RowHolds
  <1>5. \A s \in DSinks : dsink'[r][s].status # "dead" => dsink'[r][s].attempts <= charged'[r][s]
    BY <1>2, <1>3 DEF RowHolds
  <1> QED BY <1>4, <1>5 DEF RowHolds, AllSent

\* Preparing a unit settles what needs no call, or opens the calls it owes.
LEMMA PrepareKeeps ==
    ASSUME DigestInv, NEW u \in units, Prepare(u)
    PROVE  DigestInv'
  <1> DEFINE ledger == [r \in DRows |-> IF r \in u.rows THEN Ensured(dsink[r]) ELSE dsink[r]]
             owed   == [r \in DRows |-> IF r \in u.rows THEN Unsent(ledger[r]) ELSE {}]
             union  == UNION {owed[r] : r \in u.rows}
             drifted(r) == Cardinality(u.rows) = 1 /\ Unsent(dsink[r]) # {} /\ owed[r] = {}
             before(r)  == IF drifted(r) THEN Failed(drow[r]) ELSE drow[r]
  <1>1. /\ u \in Delivery /\ u.rows \subseteq DRows /\ UnitOwes(u) /\ DigestTypeOK
        /\ \A r \in DRows : RowHolds(r) /\ drow[r] \in Parent /\ dsink[r] \in [DSinks -> Entry]
    BY UnitKnown
  <1>2. /\ u.pc = "open" /\ u.todo = u.rows /\ \A r \in u.rows : drow[r].status # "sent"
    BY <1>1 DEF Prepare, UnitOwes
  <1>3. /\ flush' = flush /\ breakers' = breakers /\ heard' = heard /\ charged' = charged
        /\ dsink' = ledger
    BY DEF Prepare
  <1>4. /\ \A r \in u.rows : dsink'[r] = Ensured(dsink[r])
        /\ \A r \in DRows \ u.rows : dsink'[r] = dsink[r]
        /\ dsink' \in [DRows -> [DSinks -> Entry]]
    BY <1>1, <1>3, EnsuredIs
  <1>g. Grows
    BY <1>1, <1>3, SameHistory
  <1>5. CASE union = {}
    <2>1. PICK v : v = [u EXCEPT !.pc = "backoff", !.verdict = [r \in DRows |->
                 IF r \in u.rows /\ Completed(drow[r], ledger[r]) THEN "delivered" ELSE "failed"]]
      OBVIOUS
    <2>2. /\ units' = (units \ {u}) \cup {v}
          /\ drow' = [r \in DRows |->
               IF r \notin u.rows THEN drow[r] ELSE Synced(before(r), ledger[r])]
      BY <1>5, <2>1 DEF Prepare, Replace
    <2>3. /\ v \in Delivery /\ v.flush = u.flush /\ v.rows = u.rows /\ v.pc = "backoff"
          /\ v.todo = u.todo
      <3> DEFINE verdict == [r \in DRows |->
                 IF r \in u.rows /\ Completed(drow[r], ledger[r]) THEN "delivered" ELSE "failed"]
      <3>1. verdict \in [DRows -> {"failed", "delivered", "deferred"}]
        OBVIOUS
      <3>2. v = [u EXCEPT !.pc = "backoff", !.verdict = verdict]
        BY <2>1
      <3> HIDE DEF verdict
      <3> QED BY <1>1, <3>1, <3>2 DEF Delivery
    <2>4. \A r \in u.rows : before(r) \in Parent /\ before(r).lock = drow[r].lock
                            /\ before(r).status # "sent"
      BY <1>1, <1>2, FailedIs
    <2>5. \A r \in u.rows : ledger[r] = dsink'[r] /\ ledger[r] \in [DSinks -> Entry]
      BY <1>1, <1>3, <1>4
    <2> HIDE DEF before, ledger
    <2>6. ASSUME NEW r \in u.rows
          PROVE  /\ drow'[r] \in Parent /\ drow'[r].lock = drow[r].lock
                 /\ drow'[r].status = "sent" => AllSent(dsink'[r])
      <3>1. drow'[r] = Synced(before(r), dsink'[r])
        BY <1>1, <2>2, <2>5
      <3>2. before(r) \in Parent /\ dsink'[r] \in [DSinks -> Entry]
        BY <2>4, <2>5
      <3> HIDE DEF before
      <3> QED BY <2>4, <3>1, <3>2, SyncedIs
    <2>7. \A r \in DRows \ u.rows : drow'[r] = drow[r]
      BY <2>2
    <2>8. drow' \in [DRows -> Parent]
      <3>1. \A r \in DRows : drow'[r] \in Parent
        BY <1>1, <2>6, <2>7
      <3>2. drow' = [r \in DRows |-> drow'[r]]
        BY <2>2
      <3> QED BY <3>1, <3>2
    <2>9. \A r \in u.rows : RowHolds(r)'
      BY <1>1, <1>3, <1>4, <2>6, EnsuredRow
    <2>10. UnitOwes(v)'
      BY <1>1, <2>3 DEF UnitOwes
    <2> QED BY <1>1, <1>3, <1>4, <1>g, <2>2, <2>3, <2>6, <2>7, <2>8, <2>9, <2>10, UnitMoves
            DEF DigestTypeOK
  <1>6. CASE union # {}
    <2> DEFINE calls == [s \in DSinks |-> IF s \in union THEN "todo" ELSE "none"]
    <2>1. PICK v : v = [u EXCEPT !.pc = "send", !.pending = owed, !.call = calls]
      OBVIOUS
    <2>2. units' = (units \ {u}) \cup {v} /\ drow' = drow
      BY <1>6, <2>1 DEF Prepare, Replace
    <2>3. calls \in [DSinks -> Calls] /\ \A s \in DSinks : calls[s] \notin {"ok", "error"}
      BY DEF Calls
    <2>4. /\ owed \in [DRows -> SUBSET DSinks]
          /\ \A r \in u.rows : \A s \in owed[r] : dsink'[r][s].status \in Claims
      BY <1>1, <1>3 DEF Unsent
    <2> HIDE DEF calls, owed
    <2>5. /\ v \in Delivery /\ v.flush = u.flush /\ v.rows = u.rows /\ v.pc = "send"
          /\ v.todo = u.todo /\ v.call = calls /\ v.pending = owed
      BY <1>1, <2>1, <2>3, <2>4 DEF Delivery
    <2>6. UnitOwes(v)'
      BY <1>2, <2>2, <2>3, <2>4, <2>5, <1>1 DEF UnitOwes, Delivery
    <2>7. \A r \in u.rows : RowHolds(r)'
      BY <1>1, <1>2, <1>3, <1>4, <2>2, EnsuredRow
    <2> QED BY <1>1, <1>3, <1>4, <1>g, <2>2, <2>5, <2>6, <2>7, UnitMoves DEF DigestTypeOK
  <1> QED BY <1>5, <1>6

\* Recording an outcome leaves a breaker.
LEMMA RecordedIs ==
    ASSUME NEW b \in Breaker, NEW ok \in BOOLEAN
    PROVE  Recorded(b, ok) \in Breaker
  <1> DEFINE n == LowerOf(b.failures + 1, Threshold)
  <1>1. n \in Nat /\ Cooldown \in Nat
    BY DigestAssumption DEF Breaker, LowerOf
  <1>2. [failures |-> n, open |-> TRUE, left |-> Cooldown] \in Breaker /\ [b EXCEPT !.failures = n] \in Breaker
    <2> HIDE DEF n
    <2> QED BY <1>1 DEF Breaker
  <1>3. Closed \in Breaker
    BY DEF Closed, Breaker
  <1> QED BY <1>2, <1>3 DEF Recorded

\* A call is opened, or skipped at an open breaker.
LEMMA DialKeeps ==
    ASSUME DigestInv, NEW u \in units, NEW s \in DSinks, Dial(u, s)
    PROVE  DigestInv'
  <1>1. /\ u \in Delivery /\ u.rows \subseteq DRows /\ UnitOwes(u) /\ DigestTypeOK
        /\ \A r \in DRows : RowHolds(r)
    BY UnitKnown
  <1>2. PICK c \in {"dialling", "breaker"} : Replace(u, [u EXCEPT !.call[s] = c])
    BY DEF Dial
  <1>3. PICK v : v = [u EXCEPT !.call[s] = c]
    OBVIOUS
  <1>4. /\ units' = (units \ {u}) \cup {v} /\ drow' = drow /\ flush' = flush /\ dsink' = dsink
        /\ breakers' = breakers /\ heard' = heard /\ charged' = charged
        /\ u.pc = "send"
    BY <1>2, <1>3 DEF Dial, Replace
  <1>5. c \in Calls /\ c \notin {"ok", "error"}
    BY DEF Calls
  <1>6. /\ v \in Delivery /\ v.flush = u.flush /\ v.rows = u.rows /\ v.pc = "send"
        /\ v.todo = u.todo /\ v.pending = u.pending
        /\ \A t \in DSinks : v.call[t] = IF t = s THEN c ELSE u.call[t]
    BY <1>1, <1>3, <1>4, <1>5 DEF Delivery
  <1>7. UnitOwes(v)'
    <2>1. \A r \in u.todo : u.pending[r] \subseteq DSinks
      BY <1>1 DEF Delivery
    <2>2. \A t \in DSinks : v.call[t] \in {"ok", "error"} => v.call[t] = u.call[t]
      BY <1>5, <1>6
    <2> QED BY <1>1, <1>4, <1>6, <2>1, <2>2 DEF UnitOwes
  <1>8. \A r \in u.rows : RowHolds(r)'
    BY <1>1, <1>4 DEF RowHolds
  <1> QED BY <1>1, <1>4, <1>6, <1>7, <1>8, SameHistory, UnitMoves DEF DigestTypeOK

\* The outcome of a call is heard, or charged, for every row it names.
LEMMA OutcomeKeeps ==
    ASSUME DigestInv, NEW u \in units, NEW s \in DSinks, NEW ok \in BOOLEAN, Outcome(u, s, ok)
    PROVE  DigestInv'
  <1>1. /\ u \in Delivery /\ u.rows \subseteq DRows /\ UnitOwes(u) /\ DigestTypeOK
        /\ \A r \in DRows : RowHolds(r)
    BY UnitKnown
  <1> DEFINE c == IF ok THEN "ok" ELSE "error"
  <1>3. PICK v : v = [u EXCEPT !.call[s] = c]
    OBVIOUS
  <1>4. /\ units' = (units \ {u}) \cup {v} /\ drow' = drow /\ flush' = flush /\ dsink' = dsink
        /\ u.pc = "send"
        /\ breakers' \in {breakers, [breakers EXCEPT ![s] = Recorded(breakers[s], ok)]}
        /\ heard' = [r \in DRows |-> IF ok /\ r \in u.rows
                       THEN [heard[r] EXCEPT ![s] = LowerOf(@ + 1, MaxHeard)] ELSE heard[r]]
        /\ charged' = [r \in DRows |-> IF ~ok /\ s \in u.pending[r]
                       THEN [charged[r] EXCEPT ![s] = LowerOf(@ + 1, DMaxAttempts)]
                       ELSE charged[r]]
    BY <1>3 DEF Outcome, Replace, RecordOutcome
  <1>5. /\ v \in Delivery /\ v.flush = u.flush /\ v.rows = u.rows /\ v.pc = "send"
        /\ v.todo = u.todo /\ v.pending = u.pending
        /\ \A t \in DSinks : v.call[t] = IF t = s THEN c ELSE u.call[t]
    <2>1. c \in Calls
      BY DEF Calls
    <2> HIDE DEF c
    <2> QED BY <1>1, <1>3, <1>4, <2>1 DEF Delivery
  <1>b. breakers' \in [DSinks -> Breaker]
    BY <1>1, <1>4, RecordedIs DEF DigestTypeOK
  <1>h. /\ heard' \in [DRows -> [DSinks -> Nat]]
        /\ \A r \in DRows, t \in DSinks : heard[r][t] > 0 => heard'[r][t] > 0
        /\ ok => \A r \in u.rows : heard'[r][s] > 0
    <2>1. MaxHeard \in Nat /\ MaxHeard > 0
      BY DigestAssumption
    <2>2. \A n \in Nat : LowerOf(n + 1, MaxHeard) \in Nat /\ LowerOf(n + 1, MaxHeard) > 0
      BY <2>1 DEF LowerOf
    <2>3. \A r \in DRows : heard[r] \in [DSinks -> Nat]
      BY <1>1 DEF DigestTypeOK
    <2>4. \A r \in DRows : /\ heard'[r] \in [DSinks -> Nat]
                           /\ \A t \in DSinks : heard[r][t] > 0 => heard'[r][t] > 0
                           /\ ok /\ r \in u.rows => heard'[r][s] > 0
      BY <1>4, <2>2, <2>3
    <2> QED BY <1>1, <1>4, <2>4
  <1>c. /\ charged' \in [DRows -> [DSinks -> 0 .. DMaxAttempts]]
        /\ \A r \in DRows, t \in DSinks : charged[r][t] <= charged'[r][t]
        /\ ~ok => \A r \in DRows : s \in u.pending[r] =>
                    charged'[r][s] = LowerOf(charged[r][s] + 1, DMaxAttempts)
    <2>1. DMaxAttempts \in Nat
      BY DigestAssumption
    <2>2. \A n \in 0 .. DMaxAttempts : /\ LowerOf(n + 1, DMaxAttempts) \in 0 .. DMaxAttempts
                                       /\ n <= LowerOf(n + 1, DMaxAttempts)
      BY <2>1 DEF LowerOf
    <2>3. \A r \in DRows : charged[r] \in [DSinks -> 0 .. DMaxAttempts]
      BY <1>1 DEF DigestTypeOK
    <2>4. \A r \in DRows :
            /\ charged'[r] \in [DSinks -> 0 .. DMaxAttempts]
            /\ \A t \in DSinks : charged[r][t] <= charged'[r][t]
            /\ ~ok /\ s \in u.pending[r] =>
                 charged'[r][s] = LowerOf(charged[r][s] + 1, DMaxAttempts)
      BY <1>4, <2>2, <2>3
    <2> QED BY <1>4, <2>4
  <1>g. Grows
    BY <1>h, <1>c DEF Grows
  <1>t. DigestTypeOK'
    <2>1. units' \subseteq Delivery
      BY <1>1, <1>4, <1>5 DEF DigestTypeOK
    <2> QED BY <1>1, <1>4, <1>b, <1>h, <1>c, <2>1 DEF DigestTypeOK
  <1>7. UnitOwes(v)'
    <2>1. u.todo = u.rows /\ \A r \in u.todo : u.pending[r] \subseteq DSinks
      BY <1>1, <1>4 DEF Delivery, UnitOwes
    <2>2. \A r \in v.rows, t \in DSinks : v.call[t] = "ok" => heard'[r][t] > 0
      BY <1>1, <1>4, <1>5, <1>h DEF UnitOwes
    <2>3. ASSUME NEW r \in v.todo, NEW t \in v.pending[r], v.call[t] = "error"
          PROVE  LowerOf(dsink'[r][t].attempts + 1, DMaxAttempts) <= charged'[r][t]
      <3>1. /\ dsink[r][t].status \in Claims /\ r \in DRows /\ t \in DSinks
            /\ dsink'[r][t] = dsink[r][t]
        BY <1>1, <1>4, <1>5, <2>1, <2>3 DEF UnitOwes
      <3>2. dsink[r][t].attempts \in Nat /\ charged[r][t] \in Nat /\ charged'[r][t] \in Nat
            /\ DMaxAttempts \in Nat
        BY <1>1, <1>t, <3>1, DigestAssumption DEF DigestTypeOK, Entry
      <3>3. CASE t = s
        <4>1. ~ok /\ charged'[r][s] = LowerOf(charged[r][s] + 1, DMaxAttempts)
          BY <1>5, <1>c, <2>3, <3>1, <3>3
        <4>2. dsink[r][s].attempts <= charged[r][s]
          BY <1>1, <3>1, <3>3 DEF RowHolds, Claims
        <4> QED BY <3>1, <3>2, <3>3, <4>1, <4>2 DEF LowerOf
      <3>4. CASE t # s
        <4>1. LowerOf(dsink[r][t].attempts + 1, DMaxAttempts) <= charged[r][t]
          BY <1>1, <1>4, <1>5, <2>1, <2>3, <3>1, <3>4 DEF UnitOwes
        <4>2. charged[r][t] <= charged'[r][t]
          BY <1>c, <3>1
        <4>3. LowerOf(dsink[r][t].attempts + 1, DMaxAttempts) \in Nat
          BY <3>2 DEF LowerOf
        <4> QED BY <3>1, <3>2, <4>1, <4>2, <4>3
      <3> QED BY <3>3, <3>4
    <2>4. \A r \in v.todo : \A t \in v.pending[r] : dsink'[r][t].status \in Claims
      BY <1>1, <1>4, <1>5 DEF UnitOwes
    <2>5. /\ v.todo = v.rows /\ \A r \in v.todo : drow'[r].status # "sent"
      BY <1>1, <1>4, <1>5, <2>1 DEF UnitOwes
    <2> QED BY <1>5, <2>2, <2>3, <2>4, <2>5 DEF UnitOwes
  <1>8. \A r \in u.rows : RowHolds(r)'
    BY <1>1, <1>4, <1>t, <1>g, RowStays
  <1> QED BY <1>1, <1>4, <1>5, <1>b, <1>h, <1>c, <1>g, <1>7, <1>8, UnitMoves DEF DigestTypeOK

\* The results are handed to the rows as they are.
LEMMA SendReturnsKeeps ==
    ASSUME DigestInv, NEW u \in units, SendReturns(u)
    PROVE  DigestInv'
  <1>1. /\ u \in Delivery /\ u.rows \subseteq DRows /\ UnitOwes(u) /\ DigestTypeOK
        /\ \A r \in DRows : RowHolds(r)
    BY UnitKnown
  <1>2. PICK v : v = [u EXCEPT !.pc = "apply"]
    OBVIOUS
  <1>3. /\ units' = (units \ {u}) \cup {v} /\ drow' = drow /\ flush' = flush /\ dsink' = dsink
        /\ breakers' = breakers /\ heard' = heard /\ charged' = charged
        /\ u.pc = "send"
    BY <1>2 DEF SendReturns, Replace
  <1>4. /\ v \in Delivery /\ v.flush = u.flush /\ v.rows = u.rows /\ v.pc = "apply"
        /\ v.todo = u.todo /\ v.pending = u.pending /\ v.call = u.call
    BY <1>1, <1>2 DEF Delivery
  <1>5. UnitOwes(v)'
    BY <1>1, <1>3, <1>4 DEF UnitOwes
  <1>6. \A r \in u.rows : RowHolds(r)'
    BY <1>1, <1>3 DEF RowHolds
  <1> QED BY <1>1, <1>3, <1>4, <1>5, <1>6, SameHistory, UnitMoves DEF DigestTypeOK

\* The results that concern a row settle its sinks and nobody else's.
LEMMA ApplyKeeps ==
    ASSUME DigestInv, NEW u \in units, NEW r \in DRows, Apply(u, r)
    PROVE  DigestInv'
  <1> DEFINE ledger == [s \in DSinks |->
                 IF s \in Owes(u, r) THEN Settled(dsink[r][s], u.call[s]) ELSE dsink[r][s]]
             hit(c) == \E s \in Owes(u, r) : u.call[s] = c
             word   == IF Completed(drow[r], ledger) THEN "delivered"
                       ELSE IF hit("breaker") /\ ~hit("error") THEN "deferred" ELSE "failed"
             next   == IF u.todo = {r} THEN "backoff" ELSE u.pc
  <1>1. /\ u \in Delivery /\ u.rows \subseteq DRows /\ UnitOwes(u) /\ DigestTypeOK
        /\ \A q \in DRows : RowHolds(q) /\ drow[q] \in Parent /\ dsink[q] \in [DSinks -> Entry]
    BY UnitKnown
  <1>2. PICK v : v = [u EXCEPT !.todo = u.todo \ {r}, !.pc = next, !.verdict[r] = word]
    OBVIOUS
  <1>3. /\ units' = (units \ {u}) \cup {v} /\ flush' = flush
        /\ breakers' = breakers /\ heard' = heard /\ charged' = charged
        /\ u.pc = "apply" /\ r \in u.todo /\ r \in u.rows
        /\ dsink' = [dsink EXCEPT ![r] = ledger]
        /\ drow' = [drow EXCEPT ![r] = Synced(drow[r], ledger)]
    BY <1>1, <1>2 DEF Apply, Replace, UnitOwes
  <1>4. word \in {"failed", "delivered", "deferred"} /\ next \in {"apply", "backoff"}
    BY <1>3
  <1>5. /\ \A s \in DSinks : \/ ledger[s] = dsink[r][s]
                             \/ s \in u.pending[r] /\ ledger[s] = Settled(dsink[r][s], u.call[s])
        /\ \A s \in DSinks : ledger[s] = IF s \in u.pending[r] THEN Settled(dsink[r][s], u.call[s])
                                         ELSE dsink[r][s]
        /\ ledger = [s \in DSinks |-> ledger[s]]
    BY DEF Owes
  <1> HIDE DEF word, next, ledger
  <1>6. /\ v \in Delivery /\ v.flush = u.flush /\ v.rows = u.rows /\ v.pc \in {"apply", "backoff"}
        /\ v.todo = u.todo \ {r} /\ v.pending = u.pending /\ v.call = u.call
    BY <1>1, <1>2, <1>4 DEF Delivery
  <1>7. ASSUME NEW s \in DSinks
        PROVE  /\ ledger[s] \in Entry
               /\ ledger[s].status = "sent" => heard[r][s] > 0
               /\ ledger[s].status # "dead" => ledger[s].attempts <= charged[r][s]
    <2>0. dsink[r][s] \in Entry /\ charged[r][s] \in Nat /\ DMaxAttempts \in Nat
      BY <1>1, DigestAssumption DEF DigestTypeOK
    <2>1. CASE ledger[s] = dsink[r][s]
      BY <1>1, <2>0, <2>1 DEF RowHolds
    <2>2. CASE s \in u.pending[r] /\ u.call[s] = "ok"
      <3>1. ledger[s] = [dsink[r][s] EXCEPT !.status = "sent"]
        BY <1>5, <2>2 DEF Settled
      <3>2. ledger[s] \in Entry /\ ledger[s].attempts = dsink[r][s].attempts
        BY <2>0, <3>1 DEF Entry
      <3>3. dsink[r][s].status \in Claims /\ heard[r][s] > 0
        BY <1>1, <1>3, <2>2 DEF UnitOwes
      <3>4. dsink[r][s].attempts <= charged[r][s]
        BY <1>1, <3>3 DEF RowHolds, Claims
      <3> QED BY <3>2, <3>3, <3>4
    <2>3. CASE s \in u.pending[r] /\ u.call[s] = "error"
      <3>1. ledger[s] = Failed(dsink[r][s])
        BY <1>5, <2>3 DEF Settled
      <3>2. /\ ledger[s] \in Entry /\ ledger[s].status \in {"failed", "dead"}
            /\ ledger[s].attempts = dsink[r][s].attempts + 1
            /\ ledger[s].status # "dead" => dsink[r][s].attempts + 1 < DMaxAttempts
        BY <2>0, <3>1, FailedIs
      <3>3. LowerOf(dsink[r][s].attempts + 1, DMaxAttempts) <= charged[r][s]
        BY <1>1, <1>3, <2>3 DEF UnitOwes
      <3>4. dsink[r][s].attempts \in Nat
        BY <2>0 DEF Entry
      <3> QED BY <2>0, <3>2, <3>3, <3>4 DEF LowerOf
    <2>4. CASE u.call[s] \notin {"ok", "error"}
      BY <1>1, <1>5, <2>0, <2>4 DEF Settled, RowHolds
    <2> QED BY <1>5, <2>1, <2>2, <2>3, <2>4
  <1>8. ledger \in [DSinks -> Entry]
    BY <1>5, <1>7
  <1>9. /\ Synced(drow[r], ledger) \in Parent /\ Synced(drow[r], ledger).lock = drow[r].lock
        /\ Synced(drow[r], ledger).status = "sent" => AllSent(ledger)
    <2>1. drow[r] \in Parent /\ drow[r].status # "sent"
      BY <1>1, <1>3 DEF UnitOwes
    <2> QED BY <1>8, <2>1, SyncedIs
  <1>10. /\ drow' \in [DRows -> Parent] /\ dsink' \in [DRows -> [DSinks -> Entry]]
         /\ dsink'[r] = ledger /\ drow'[r] = Synced(drow[r], ledger)
         /\ \A q \in DRows \ {r} : drow'[q] = drow[q] /\ dsink'[q] = dsink[q]
    BY <1>1, <1>3, <1>8, <1>9 DEF DigestTypeOK
  <1>11. \A q \in u.rows : drow'[q].lock = drow[q].lock /\ RowHolds(q)'
    <2>1. RowHolds(r)'
      BY <1>3, <1>7, <1>9, <1>10 DEF RowHolds, AllSent
    <2>2. \A q \in u.rows \ {r} : RowHolds(q)'
      BY <1>1, <1>3, <1>10 DEF RowHolds
    <2> QED BY <1>1, <1>9, <1>10, <2>1, <2>2
  <1>12. UnitOwes(v)'
    BY <1>1, <1>3, <1>6, <1>10 DEF UnitOwes
  <1>13. \A q \in DRows \ u.rows : drow'[q] = drow[q] /\ dsink'[q] = dsink[q]
    BY <1>3, <1>10
  <1> QED BY <1>1, <1>3, <1>6, <1>10, <1>11, <1>12, <1>13, SameHistory, UnitMoves DEF DigestTypeOK

\* A unit that ends backs off its rows; one that a store error drops leaves
\* them to their leases.
LEMMA UnitEndsKeeps ==
    ASSUME DigestInv, NEW u \in units, UnitEnds(u) \/ StoreFails(u)
    PROVE  DigestInv'
  <1>1. u.rows \subseteq DRows /\ DigestTypeOK /\ \A r \in DRows : drow[r] \in Parent
    BY UnitKnown
  <1>2. units' = units \ {u} /\ UNCHANGED <<dsink, flush, breakers, heard, charged>>
    BY DEF UnitEnds, StoreFails
  <1>3. CASE drow' = drow
    BY <1>1, <1>2, <1>3, UnitGoes DEF DigestTypeOK
  <1>4. CASE UnitEnds(u)
    <2>1. drow' = [r \in DRows |->
             IF r \notin u.rows \/ u.verdict[r] = "delivered" THEN drow[r]
             ELSE [drow[r] EXCEPT !.lock = "backoff",
                     !.attempts = IF u.verdict[r] = "deferred" THEN @ ELSE @ + 1]]
      BY <1>4 DEF UnitEnds
    <2>2. ASSUME NEW r \in DRows
          PROVE  drow'[r] \in Parent /\ drow'[r].status = drow[r].status
      <3> DEFINE n == IF u.verdict[r] = "deferred" THEN drow[r].attempts ELSE drow[r].attempts + 1
      <3>1. drow[r] \in Parent /\ n \in Nat
        BY <1>1 DEF Parent
      <3>2. drow'[r] = drow[r] \/ drow'[r] = [drow[r] EXCEPT !.lock = "backoff", !.attempts = n]
        BY <2>1
      <3> HIDE DEF n
      <3> QED BY <3>1, <3>2 DEF Parent
    <2>3. drow' \in [DRows -> Parent] /\ \A r \in DRows \ u.rows : drow'[r] = drow[r]
      <3>1. drow' = [r \in DRows |-> drow'[r]]
        BY <2>1
      <3>2. \A r \in DRows \ u.rows : drow'[r] = drow[r]
        BY <2>1
      <3> QED BY <2>2, <3>1, <3>2
    <2> QED BY <1>2, <2>2, <2>3, UnitGoes
  <1> QED BY <1>3, <1>4 DEF StoreFails

----------------------------------------------------------------------------
(* Waves, locks and upsets.                                                *)

\* A step that leaves the units, and changes a row's lock or status only where
\* no unit holds it or it gives up, keeps the invariant.
LEMMA FrameKeeps ==
    ASSUME DigestInv, units' = units, UNCHANGED <<dsink, heard, charged>>,
           breakers' \in [DSinks -> Breaker], flush' \in [Flushes -> Loop],
           \A f \in Flushes : flush[f].pc = "deliver" /\ (\E u \in units : u.flush = f) =>
               flush'[f].pc = "deliver",
           drow' \in [DRows -> Parent],
           \A r \in DRows : /\ drow'[r].status = "sent" => drow[r].status = "sent"
                            /\ (\E u \in units : r \in u.rows) => drow'[r].lock = drow[r].lock
    PROVE  DigestInv'
  <1>0. DigestTypeOK /\ RowsHold /\ UnitsHold /\ OneUnitPerRow
    BY DEF DigestInv
  <1>1. DigestTypeOK'
    BY <1>0 DEF DigestTypeOK
  <1>g. Grows
    BY <1>0, SameHistory
  <1>2. RowsHold'
    BY <1>0, <1>1, <1>g, RowStays DEF RowsHold
  <1>3. UnitsHold'
    <2> SUFFICES ASSUME NEW w \in units PROVE UnitLeases(w)' /\ UnitOwes(w)'
      BY DEF UnitsHold
    <2>1. UnitLeases(w) /\ UnitOwes(w) /\ w.rows \subseteq DRows /\ w.flush \in Flushes
      BY <1>0 DEF UnitsHold, DigestTypeOK, Delivery
    <2>2. flush'[w.flush].pc = flush[w.flush].pc
      BY <2>1 DEF UnitLeases
    <2>3. \A r \in w.rows : /\ drow'[r].lock = drow[r].lock /\ dsink'[r] = dsink[r]
                            /\ drow'[r].status = "sent" => drow[r].status = "sent"
      BY <2>1
    <2> QED BY <1>0, <1>1, <1>g, <2>1, <2>2, <2>3, UnitStays
  <1>4. OneUnitPerRow'
    BY <1>0 DEF OneUnitPerRow
  <1> QED BY <1>1, <1>2, <1>3, <1>4 DEF DigestInv

\* A lock runs out only where no unit works under it.
LEMMA LockExpiresKeeps ==
    ASSUME DigestInv, NEW r \in DRows, LockExpires(r)
    PROVE  DigestInv'
  <1>0. DigestTypeOK /\ UnitsHold
    BY DEF DigestInv
  <1>1. \A u \in units : r \notin u.rows
    BY <1>0 DEF LockExpires, UnitsHold, UnitLeases
  <1>2. drow' = [drow EXCEPT ![r].lock = "free"] /\ units' = units /\ flush' = flush
        /\ breakers' = breakers /\ UNCHANGED <<dsink, heard, charged>>
    BY DEF LockExpires
  <1>3. drow' \in [DRows -> Parent]
    BY <1>0, <1>2 DEF DigestTypeOK, Parent
  <1>4. \A q \in DRows : /\ drow'[q].status = drow[q].status
                         /\ q # r => drow'[q].lock = drow[q].lock
    BY <1>0, <1>2 DEF DigestTypeOK, Parent
  <1> QED BY <1>0, <1>1, <1>2, <1>3, <1>4, FrameKeeps DEF DigestTypeOK

\* The loops of the flush tasks, and the sweep of rows out of attempts.
LEMMA LoopKeeps ==
    ASSUME DigestInv, NEW f \in Flushes,
           FlushBegins(f) \/ WaveEnds(f) \/ reconcile_exhausted_outbox(f)
    PROVE  DigestInv'
  <1>0. DigestTypeOK /\ UnitsHold
    BY DEF DigestInv
  <1>1. /\ units' = units /\ breakers' = breakers /\ UNCHANGED <<dsink, heard, charged>>
        /\ \A u \in units : u.flush # f
    BY <1>0 DEF FlushBegins, WaveEnds, reconcile_exhausted_outbox, UnitsHold, UnitLeases
  <1>2. /\ flush' \in [Flushes -> Loop]
        /\ \A g \in Flushes \ {f} : flush'[g] = flush[g]
    <2>1. \E l \in Loop : flush' = [flush EXCEPT ![f] = l]
      <3>1. CASE FlushBegins(f)
        <4>1. [flush[f] EXCEPT !.pc = "claim"] \in Loop
          BY <1>0 DEF DigestTypeOK, Loop
        <4> QED BY <3>1, <4>1 DEF FlushBegins
      <3>2. CASE WaveEnds(f)
        <4>1. \A p \in {"sweep", "claim"} : [flush[f] EXCEPT !.pc = p] \in Loop
          BY <1>0 DEF DigestTypeOK, Loop
        <4> QED BY <3>2, <4>1 DEF WaveEnds
      <3>3. CASE reconcile_exhausted_outbox(f)
        <4>1. NotBusy \in Loop
          BY DEF NotBusy, Loop
        <4> QED BY <3>3, <4>1 DEF reconcile_exhausted_outbox
      <3> QED BY <3>1, <3>2, <3>3
    <2> QED BY <1>0, <2>1 DEF DigestTypeOK
  <1>3. /\ drow' \in [DRows -> Parent]
        /\ \A r \in DRows : /\ drow'[r].lock = drow[r].lock
                            /\ drow'[r].status = "sent" => drow[r].status = "sent"
    <2>1. CASE drow' = drow
      BY <1>0, <2>1 DEF DigestTypeOK
    <2>2. CASE reconcile_exhausted_outbox(f)
      <3>1. \A r \in DRows : [drow[r] EXCEPT !.status = "dead"] \in Parent
                             /\ [drow[r] EXCEPT !.status = "dead"].lock = drow[r].lock
                             /\ [drow[r] EXCEPT !.status = "dead"].status = "dead"
        BY <1>0 DEF DigestTypeOK, Parent
      <3>2. \A r \in DRows : drow[r] \in Parent
        BY <1>0 DEF DigestTypeOK
      <3>3. drow' = [r \in DRows |->
                  IF drow[r].status \in Claims /\ drow[r].attempts >= DMaxAttempts
                  THEN [drow[r] EXCEPT !.status = "dead"] ELSE drow[r]]
        BY <2>2 DEF reconcile_exhausted_outbox
      <3>4. \A r \in DRows : drow'[r] = drow[r] \/ drow'[r] = [drow[r] EXCEPT !.status = "dead"]
        BY <3>3
      <3>5. drow' = [r \in DRows |-> drow'[r]]
        BY <3>3
      <3> QED BY <3>1, <3>2, <3>4, <3>5
    <2> QED BY <2>1, <2>2 DEF FlushBegins, WaveEnds
  <1> QED BY <1>0, <1>1, <1>2, <1>3, FrameKeeps DEF DigestTypeOK

\* Cooldowns, probes and moments touch no row.
LEMMA ClockKeeps ==
    ASSUME DigestInv,
           \/ \E r \in DRows : PassMoment(Moment[r])
           \/ \E s \in DSinks : Tick(s) \/ (\E ok \in BOOLEAN : test_at(s, ok))
    PROVE  DigestInv'
  <1>0. DigestTypeOK
    BY DEF DigestInv
  <1>1. /\ units' = units /\ flush' = flush /\ drow' = drow
        /\ UNCHANGED <<dsink, heard, charged>>
    BY DEF PassMoment, Tick, test_at
  <1>2. breakers' \in [DSinks -> Breaker]
    <2>1. CASE \E r \in DRows : PassMoment(Moment[r])
      BY <1>0, <2>1 DEF PassMoment, DigestTypeOK
    <2>2. ASSUME NEW s \in DSinks, Tick(s) PROVE breakers' \in [DSinks -> Breaker]
      <3>1. breakers[s] \in Breaker /\ breakers[s].left - 1 \in Nat
        BY <1>0, <2>2 DEF Tick, DigestTypeOK, Breaker
      <3>2. [breakers[s] EXCEPT !.left = breakers[s].left - 1] \in Breaker
        BY <3>1 DEF Breaker
      <3>3. breakers' = [breakers EXCEPT ![s] = [breakers[s] EXCEPT !.left = breakers[s].left - 1]]
        BY <2>2 DEF Tick
      <3> QED BY <1>0, <3>2, <3>3 DEF DigestTypeOK
    <2>3. ASSUME NEW s \in DSinks, NEW ok \in BOOLEAN, test_at(s, ok)
          PROVE  breakers' \in [DSinks -> Breaker]
      <3>1. breakers' = [breakers EXCEPT ![s] = Recorded(breakers[s], ok)]
        BY <2>3 DEF test_at, RecordOutcome
      <3>2. Recorded(breakers[s], ok) \in Breaker
        BY <1>0, RecordedIs DEF DigestTypeOK
      <3> QED BY <1>0, <3>1, <3>2 DEF DigestTypeOK
    <2> QED BY <2>1, <2>2, <2>3
  <1> QED BY <1>0, <1>1, <1>2, FrameKeeps DEF DigestTypeOK

\* A new notifier leaves every unit with its rows.
LEMMA SwapSinksKeeps ==
    ASSUME DigestInv, NEW sinks \in SUBSET DSinks, SwapSinks(sinks)
    PROVE  DigestInv'
  <1> DEFINE Later(u) == [u EXCEPT !.fresh = (u.pc = "open")]
  <1>0. DigestTypeOK /\ RowsHold /\ UnitsHold /\ OneUnitPerRow
    BY DEF DigestInv
  <1>1. /\ flush' = flush /\ drow' = drow /\ UNCHANGED <<dsink, heard, charged>>
        /\ breakers' = [s \in DSinks |-> Closed]
        /\ units' = {Later(u) : u \in units}
    BY DEF SwapSinks
  <1>2. \A u \in units : /\ Later(u) \in Delivery /\ Later(u).flush = u.flush
                         /\ Later(u).rows = u.rows /\ Later(u).pc = u.pc
                         /\ Later(u).todo = u.todo /\ Later(u).pending = u.pending
                         /\ Later(u).call = u.call
    BY <1>0 DEF DigestTypeOK, Delivery
  <1>3. \A v \in units' : \E u \in units : v = Later(u)
    BY <1>1
  <1> HIDE DEF Later
  <1>4. DigestTypeOK'
    <2>1. units' \subseteq Delivery
      BY <1>2, <1>3
    <2>2. Closed \in Breaker
      BY DEF Closed, Breaker
    <2> QED BY <1>0, <1>1, <2>1, <2>2 DEF DigestTypeOK
  <1>5. RowsHold'
    BY <1>0, <1>1 DEF RowsHold, RowHolds
  <1>6. UnitsHold'
    <2> SUFFICES ASSUME NEW v \in units' PROVE UnitLeases(v)' /\ UnitOwes(v)'
      BY DEF UnitsHold
    <2>1. PICK u \in units : v = Later(u)
      BY <1>3
    <2>2. UnitLeases(u) /\ UnitOwes(u)
      BY <1>0 DEF UnitsHold
    <2>3. /\ v.flush = u.flush /\ v.rows = u.rows /\ v.pc = u.pc
          /\ v.todo = u.todo /\ v.pending = u.pending /\ v.call = u.call
      BY <1>2, <2>1
    <2>4. UnitLeases(v)'
      BY <1>1, <2>2, <2>3 DEF UnitLeases
    <2>5. UnitOwes(v)'
      BY <1>1, <2>2, <2>3 DEF UnitOwes
    <2> QED BY <2>4, <2>5
  <1>7. OneUnitPerRow'
    <2>1. \A v \in units' : \E u \in units : u.rows = v.rows /\ u.flush = v.flush
      BY <1>2, <1>3
    <2>2. \A v, w \in units' : v # w => v.rows \cap w.rows = {}
      BY <1>0, <1>2, <1>3 DEF OneUnitPerRow
    <2> QED BY <1>0, <2>1, <2>2, ApartStays
  <1> QED BY <1>4, <1>5, <1>6, <1>7 DEF DigestInv

\* A claim takes free rows only, one wave of them, and partitions them into
\* units of their own.
LEMMA ClaimKeeps ==
    ASSUME DigestInv, NEW f \in Flushes, claim_outbox_batch(f)
    PROVE  DigestInv'
  <1> DEFINE wave  == Oldest(WaveLimit(f))
             fresh == {Unit(f, g) : g \in partition_for_digest(wave)}
             loop  == [pc |-> IF wave = {} THEN "sweep" ELSE "deliver",
                       claimed |-> flush[f].claimed + Cardinality(wave),
                       short |-> Cardinality(wave) < WaveLimit(f)]
  <1>0. DigestTypeOK /\ RowsHold /\ UnitsHold /\ OneUnitPerRow
    BY DEF DigestInv
  <1>1. /\ UNCHANGED <<dsink, breakers, heard, charged>> /\ flush[f].pc = "claim"
        /\ drow' = [r \in DRows |-> IF r \in wave THEN [drow[r] EXCEPT !.lock = "lease"]
                                    ELSE drow[r]]
        /\ units' = units \cup fresh
        /\ flush' = [flush EXCEPT ![f] = loop]
    BY DEF claim_outbox_batch
  <1>2. /\ wave \subseteq DRows /\ Cardinality(wave) \in Nat /\ Cardinality(wave) <= Concurrency
        /\ IsFiniteSet(wave)
        /\ \A r \in wave : drow[r].status \in Claims /\ drow[r].lock = "free"
    BY <1>0, WaveFits
  <1>3. /\ \A g \in partition_for_digest(wave) : g \subseteq wave
        /\ \A g, h \in partition_for_digest(wave) : g # h => g \cap h = {}
    BY GroupsAreApart
  <1>4. loop \in Loop /\ (wave # {} => loop.pc = "deliver")
    BY <1>0, <1>2 DEF DigestTypeOK, Loop
  <1> HIDE DEF wave, loop
  <1>5. ASSUME NEW v \in fresh
        PROVE  /\ v \in Delivery /\ v.flush = f /\ v.pc = "open" /\ v.todo = v.rows
               /\ v.rows \in partition_for_digest(wave) /\ v = Unit(f, v.rows)
    <2>1. PICK g \in partition_for_digest(wave) : v = Unit(f, g)
      OBVIOUS
    <2>2. NoCalls \in [DSinks -> Calls] /\ NoneOwed \in [DRows -> SUBSET DSinks]
      BY DEF NoCalls, NoneOwed, Calls
    <2>3. g \subseteq DRows
      BY <1>2, <1>3
    <2>4. v \in Delivery
      BY <2>1, <2>2, <2>3 DEF Unit, Delivery
    <2> QED BY <2>1, <2>4 DEF Unit
  <1>6. \A v \in fresh : v.rows \subseteq wave
    BY <1>3, <1>5
  <1> HIDE DEF fresh
  <1>7. /\ drow' \in [DRows -> Parent]
        /\ \A r \in DRows : drow'[r].status = drow[r].status
        /\ \A r \in wave : drow'[r].lock = "lease"
        /\ \A r \in DRows \ wave : drow'[r] = drow[r]
    BY <1>0, <1>1, <1>2 DEF DigestTypeOK, Parent
  <1>8. \A u \in units : /\ u.flush # f /\ u.flush \in Flushes /\ u.rows \subseteq DRows
                         /\ u.rows \cap wave = {}
    BY <1>0, <1>1, <1>2 DEF UnitsHold, UnitLeases, DigestTypeOK, Delivery
  <1>9. flush' \in [Flushes -> Loop] /\ flush'[f] = loop
        /\ \A g \in Flushes \ {f} : flush'[g] = flush[g]
    BY <1>0, <1>1, <1>4 DEF DigestTypeOK
  <1>10. DigestTypeOK'
    BY <1>0, <1>1, <1>5, <1>7, <1>9 DEF DigestTypeOK
  <1>g. Grows
    BY <1>0, <1>1, SameHistory
  <1>11. RowsHold'
    BY <1>0, <1>1, <1>7, <1>10, <1>g, RowStays DEF RowsHold
  <1>12. UnitsHold'
    <2>1. ASSUME NEW u \in units PROVE UnitLeases(u)' /\ UnitOwes(u)'
      <3>1. /\ flush'[u.flush].pc = flush[u.flush].pc
            /\ \A r \in u.rows : drow'[r] = drow[r] /\ dsink'[r] = dsink[r]
        BY <1>1, <1>7, <1>8, <1>9
      <3>2. UnitLeases(u) /\ UnitOwes(u)
        BY <1>0 DEF UnitsHold
      <3> QED BY <1>0, <1>10, <1>g, <3>1, <3>2, UnitStays
    <2>2. ASSUME NEW v \in fresh PROVE UnitLeases(v)' /\ UnitOwes(v)'
      <3>1. v.rows # {}
        BY <1>5 DEF partition_for_digest
      <3>2. loop.pc = "deliver"
        BY <1>4, <1>6, <3>1
      <3>3. \A r \in v.rows : drow'[r].lock = "lease" /\ drow'[r].status # "sent"
        BY <1>2, <1>6, <1>7 DEF Claims
      <3>4. UnitLeases(v)'
        BY <1>5, <1>9, <3>2, <3>3 DEF UnitLeases
      <3>5. UnitOwes(v)'
        BY <1>5, <3>3 DEF UnitOwes
      <3> QED BY <3>4, <3>5
    <2> QED BY <1>1, <2>1, <2>2 DEF UnitsHold
  <1>13. OneUnitPerRow'
    <2>1. \A v, w \in units' : v # w => v.rows \cap w.rows = {}
      <3>1. \A v, w \in fresh : v # w => v.rows \cap w.rows = {}
        BY <1>3, <1>5
      <3>2. \A v \in fresh, w \in units : v.rows \cap w.rows = {}
        BY <1>6, <1>8
      <3> QED BY <1>0, <1>1, <3>1, <3>2 DEF OneUnitPerRow
    <2>2. \A g \in Flushes \ {f} : Held(g)' \subseteq Held(g)
      BY <1>1, <1>5 DEF Held
    <2>3. Held(f)' \in SUBSET wave
      BY <1>1, <1>6, <1>8 DEF Held
    <2>4. Cardinality(Held(f)') <= Concurrency
      <3>1. /\ IsFiniteSet(Held(f)') /\ Cardinality(Held(f)') \in Nat
            /\ Cardinality(Held(f)') <= Cardinality(wave)
        BY <1>2, <2>3, FS_Subset, FS_CardinalityType
      <3>2. Concurrency \in Nat
        BY DigestAssumption
      <3> QED BY <1>2, <3>1, <3>2
    <2>5. \A g \in Flushes : Cardinality(Held(g)') <= Concurrency
      BY <1>0, <2>2, <2>4, HeldShrinks
    <2> QED BY <2>1, <2>5 DEF OneUnitPerRow, Held
  <1> QED BY <1>10, <1>11, <1>12, <1>13 DEF DigestInv

----------------------------------------------------------------------------
(* The theorems.                                                           *)

\* Every row waits and no unit is in flight.
LEMMA DigestInitHolds == DigestInit => DigestInv
  <1> SUFFICES ASSUME DigestInit PROVE DigestInv
    OBVIOUS
  <1>1. /\ drow = [r \in DRows |-> [status |-> "pending", attempts |-> 0, lock |-> "free"]]
        /\ dsink = [r \in DRows |-> [s \in DSinks |-> [status |-> "absent", attempts |-> 0]]]
        /\ units = {} /\ breakers = [s \in DSinks |-> Closed]
        /\ heard = [r \in DRows |-> [s \in DSinks |-> 0]]
        /\ charged = [r \in DRows |-> [s \in DSinks |-> 0]]
        /\ \E fs : flush = [f \in Flushes |-> IF f \in fs THEN NotBusy ELSE Absent]
    BY DEF DigestInit
  <1>2. NotBusy \in Loop /\ Absent \in Loop /\ Closed \in Breaker
    BY DEF NotBusy, Absent, Loop, Closed, Breaker
  <1>3. DigestTypeOK
    <2>1. DMaxAttempts \in Nat
      BY DigestAssumption
    <2>2. flush \in [Flushes -> Loop] /\ breakers \in [DSinks -> Breaker] /\ units \subseteq Delivery
      BY <1>1, <1>2
    <2>3. drow \in [DRows -> Parent] /\ dsink \in [DRows -> [DSinks -> Entry]]
      BY <1>1 DEF Parent, Entry
    <2>4. heard \in [DRows -> [DSinks -> Nat]] /\ charged \in [DRows -> [DSinks -> 0 .. DMaxAttempts]]
      BY <1>1, <2>1
    <2> QED BY <2>2, <2>3, <2>4 DEF DigestTypeOK
  <1>4. RowsHold
    BY <1>1 DEF RowsHold, RowHolds
  <1>5. UnitsHold
    BY <1>1 DEF UnitsHold
  <1>6. OneUnitPerRow
    <2>1. \A f \in Flushes : Held(f) = {}
      BY <1>1 DEF Held
    <2>2. Cardinality({}) = 0 /\ 0 <= Concurrency
      BY FS_EmptySet, DigestAssumption
    <2> QED BY <1>1, <2>1, <2>2 DEF OneUnitPerRow, Held
  <1> QED BY <1>3, <1>4, <1>5, <1>6 DEF DigestInv

\* One step per action of the flush tasks, the units, the breakers and the
\* operators.
LEMMA DigestNextKeeps == DigestInv /\ [DigestNext]_digestVars => DigestInv'
  <1> SUFFICES ASSUME DigestInv, [DigestNext]_digestVars PROVE DigestInv'
    OBVIOUS
  <1>1. ASSUME NEW u \in units, UnitStep(u) PROVE DigestInv'
    BY <1>1, NoMatchKeeps, PrepareKeeps, SendReturnsKeeps, UnitEndsKeeps, DialKeeps, OutcomeKeeps,
       ApplyKeeps DEF UnitStep
  <1>2. ASSUME NEW f \in Flushes, FlushBegins(f) \/ FlushStep(f) PROVE DigestInv'
    BY <1>1, <1>2, LoopKeeps, ClaimKeeps DEF FlushStep
  <1>3. ASSUME NEW u \in units, StoreFails(u) PROVE DigestInv'
    BY <1>3, UnitEndsKeeps
  <1>4. CASE UNCHANGED digestVars
    <2>1. /\ drow' = drow /\ dsink' = dsink /\ flush' = flush /\ units' = units
          /\ breakers' = breakers /\ heard' = heard /\ charged' = charged
      BY <1>4 DEF digestVars
    <2>2. DigestTypeOK
      BY DEF DigestInv
    <2> QED BY <2>1, <2>2, FrameKeeps DEF DigestTypeOK
  <1>5. CASE \/ \E r \in DRows : PassMoment(Moment[r])
             \/ \E s \in DSinks : Tick(s) \/ (\E ok \in BOOLEAN : test_at(s, ok))
    BY <1>5, ClockKeeps
  <1>6. ASSUME NEW r \in DRows, LockExpires(r) PROVE DigestInv'
    BY <1>6, LockExpiresKeeps
  <1>7. ASSUME NEW sinks \in SUBSET DSinks, SwapSinks(sinks) PROVE DigestInv'
    BY <1>7, SwapSinksKeeps
  <1> QED BY <1>2, <1>3, <1>4, <1>5, <1>6, <1>7 DEF DigestNext

\* What rows and units in flight can count on, in every state: a lease for each
\* row, results applied once, charges that are the row's own.
THEOREM DigestInvariance == DigestSpec => []DigestInv
  BY DigestInitHolds, DigestNextKeeps, PTL DEF DigestSpec

\* Rows that share a wave or a message stay separate rows: none is in two units,
\* is sent on another's acknowledgement or pays for another's failure
\* (partition_for_digest, deliver_digest_to_pending_sinks).
THEOREM RowsAlwaysStayApart == DigestSpec => []RowsStayApart
  <1>1. DigestInv => RowsStayApart
    <2> SUFFICES ASSUME DigestInv PROVE SentIsHeard /\ FairCharge
      BY DEF RowsStayApart, DigestInv
    <2>1. \A r \in DRows : RowHolds(r)
      BY DEF DigestInv, RowsHold
    <2> QED BY <2>1 DEF RowHolds, SentIsHeard, FairCharge
  <1> QED BY <1>1, DigestInvariance, PTL

\* An outcome shuts a breaker exactly when record says that it newly opens.
LEMMA RecordedOpens ==
    ASSUME NEW b \in Breaker, NEW ok \in BOOLEAN
    PROVE  /\ NewlyOpens(b, ok) => Allows(b) /\ ~Allows(Recorded(b, ok))
           /\ ~NewlyOpens(b, ok) => (Allows(b) => Allows(Recorded(b, ok)))
  <1> DEFINE n == LowerOf(b.failures + 1, Threshold)
  <1>1. /\ Threshold \in Nat /\ Cooldown \in Nat /\ Cooldown # 0 /\ b.failures \in Nat
        /\ n >= Threshold <=> b.failures + 1 >= Threshold
    BY DigestAssumption DEF Breaker, LowerOf
  <1>2. CASE ok
    BY <1>2 DEF NewlyOpens, Recorded, Allows, Closed
  <1>3. CASE ~ok /\ b.failures + 1 >= Threshold
    <2>1. Recorded(b, ok) = [failures |-> n, open |-> TRUE, left |-> Cooldown]
      BY <1>1, <1>3 DEF Recorded
    <2> HIDE DEF n
    <2> QED BY <1>1, <1>3, <2>1 DEF NewlyOpens, Allows
  <1>4. CASE ~ok /\ ~(b.failures + 1 >= Threshold)
    <2>1. Recorded(b, ok) = [b EXCEPT !.failures = n]
      BY <1>1, <1>4 DEF Recorded
    <2> HIDE DEF n
    <2>2. Recorded(b, ok).open = b.open /\ Recorded(b, ok).left = b.left
      BY <2>1 DEF Breaker
    <2> QED BY <1>4, <2>2 DEF NewlyOpens, Allows
  <1> QED BY <1>2, <1>3, <1>4

\* What a step does to the breakers and to the labels to be alerted.
LEMMA BreakerSteps ==
    ASSUME DigestTypeOK, [DigestNext]_digestVars
    PROVE  \/ breakers' = breakers /\ opened' \subseteq opened
           \/ breakers' = [s \in DSinks |-> Closed] /\ opened' \subseteq opened
           \/ \E s \in DSinks : Tick(s)
           \/ \E s \in DSinks, ok \in BOOLEAN : RecordOutcome(s, ok)
  <1>1. ASSUME NEW u \in units, UnitStep(u)
        PROVE  \/ breakers' = breakers /\ opened' \subseteq opened
               \/ \E s \in DSinks, ok \in BOOLEAN : RecordOutcome(s, ok)
    BY <1>1 DEF UnitStep, NoMatch, Prepare, SendReturns, UnitEnds, Dial, Outcome, Apply
  <1>2. ASSUME NEW f \in Flushes, FlushBegins(f) \/ FlushStep(f)
        PROVE  \/ breakers' = breakers /\ opened' \subseteq opened
               \/ \E s \in DSinks, ok \in BOOLEAN : RecordOutcome(s, ok)
    BY <1>1, <1>2 DEF FlushBegins, FlushStep, claim_outbox_batch, WaveEnds, reconcile_exhausted_outbox
  <1>3. CASE UNCHANGED digestVars
    BY <1>3 DEF digestVars
  <1>4. ASSUME \/ \E u \in units : StoreFails(u)
               \/ \E r \in DRows : PassMoment(Moment[r]) \/ LockExpires(r)
        PROVE  breakers' = breakers /\ opened' = opened
    BY <1>4 DEF StoreFails, PassMoment, LockExpires
  <1>5. ASSUME NEW sinks \in SUBSET DSinks, SwapSinks(sinks)
        PROVE  breakers' = [s \in DSinks |-> Closed] /\ opened' \subseteq opened
    BY <1>5 DEF SwapSinks
  <1>6. ASSUME NEW s \in DSinks, NEW ok \in BOOLEAN, test_at(s, ok)
        PROVE  RecordOutcome(s, ok)
    BY <1>6 DEF test_at
  <1> QED BY <1>2, <1>3, <1>4, <1>5, <1>6 DEF DigestNext

\* An outcome that stops further calls to a sink always leaves an alert to be
\* drained, and nothing else does (Breaker::record and record_breaker_outcome).
THEOREM OpeningAlwaysAlerts == DigestSpec => OpeningIsAlerted
  <1> DEFINE Alerted ==
        \A s \in DSinks :
          /\ Allows(breakers[s]) /\ ~Allows(breakers'[s]) => s \in opened'
          /\ s \in opened' \ opened => Allows(breakers[s]) /\ ~Allows(breakers'[s])
  <1>1. DigestInv /\ [DigestNext]_digestVars => Alerted
    <2> SUFFICES ASSUME DigestInv, [DigestNext]_digestVars, NEW s \in DSinks
                 PROVE  /\ Allows(breakers[s]) /\ ~Allows(breakers'[s]) => s \in opened'
                        /\ s \in opened' \ opened => Allows(breakers[s]) /\ ~Allows(breakers'[s])
      OBVIOUS
    <2>0. DigestTypeOK /\ breakers \in [DSinks -> Breaker] /\ breakers[s] \in Breaker
      BY DEF DigestInv, DigestTypeOK
    <2>1. CASE breakers' = breakers /\ opened' \subseteq opened
      BY <2>1
    <2>2. CASE breakers' = [t \in DSinks |-> Closed] /\ opened' \subseteq opened
      BY <2>2 DEF Allows, Closed
    <2>3. ASSUME NEW t \in DSinks, Tick(t)
          PROVE  opened' = opened /\ (Allows(breakers[s]) => Allows(breakers'[s]))
      <3>1. breakers[s].left \in Nat /\ breakers[t].left > 0 /\ opened' = opened
        BY <2>0, <2>3 DEF Breaker, Tick
      <3>2. CASE t = s
        <4>1. Allows(breakers[s]) => ~breakers[s].open
          BY <3>1, <3>2 DEF Allows
        <4>2. breakers'[s].open = breakers[s].open
          BY <2>0, <2>3, <3>2 DEF Tick, Breaker
        <4> QED BY <3>1, <4>1, <4>2 DEF Allows
      <3>3. CASE t # s
        BY <2>0, <2>3, <3>1, <3>3 DEF Tick
      <3> QED BY <3>2, <3>3
    <2>4. ASSUME NEW t \in DSinks, NEW ok \in BOOLEAN, RecordOutcome(t, ok)
          PROVE  /\ Allows(breakers[s]) /\ ~Allows(breakers'[s]) => s \in opened'
                 /\ s \in opened' \ opened => Allows(breakers[s]) /\ ~Allows(breakers'[s])
      <3>1. /\ breakers'[t] = Recorded(breakers[t], ok)
            /\ s # t => breakers'[s] = breakers[s]
            /\ opened' = IF NewlyOpens(breakers[t], ok) THEN opened \cup {t} ELSE opened
        BY <2>0, <2>4 DEF RecordOutcome
      <3>2. CASE s = t
        BY <2>0, <3>1, <3>2, RecordedOpens
      <3>3. CASE s # t
        BY <3>1, <3>3
      <3> QED BY <3>2, <3>3
    <2> QED BY <2>0, <2>1, <2>2, <2>3, <2>4, BreakerSteps
  <1>2. DigestInv /\ [DigestNext]_digestVars => [Alerted]_digestVars
    BY <1>1
  <1> QED BY <1>2, DigestInvariance, PTL DEF DigestSpec, OpeningIsAlerted

=============================================================================
