--------------------------- MODULE ConfigApplyProofs ---------------------------
(***************************************************************************)
(* Theorems about pushed configuration for any number of organizations,    *)
(* documents, secrets and instances, whatever statements fail and wherever *)
(* the process dies.                                                       *)
(***************************************************************************)
EXTENDS ConfigApply, WellFoundedInduction, TLAPS

----------------------------------------------------------------------------
(* Types.                                                                  *)

Revision == [shape : Shapes, status : {"applied", "rejected"}]
Steps    == {"seal", "prune", "swap", "append", "commit", "restore"}
Replies  == {"none", "unchanged", "rejected", "error", "stale", "applied", "conflict"}

Operation == [pc : Steps \cup {"idle"}, s : Streams, shape : Shapes \cup {NoShape},
              inline : Inline, rotation : BOOLEAN, merged : Docs, prev : Docs]

ApplyTypeOK ==
    /\ inst \in Instances
    /\ ledger \in [Streams -> Seq(Revision)]
    /\ file \in Docs /\ running \in Docs
    /\ sealed \in Secrets /\ vault \in Secrets
    /\ proc \in {"down", "booting", "up", "failed"}
    /\ identity \in Docs \cup {NoIdentity}
    /\ op \in Operation
    /\ staged \in Shapes \cup {Nothing}
    /\ answer \in [kind : Replies, s : Streams, inline : Inline]

----------------------------------------------------------------------------
(* What an operation that holds apply_lock knows.                          *)

newest(s) == latest_applied_config_revision(ledger[s])

\* Documents that follow the ledger in the streams of S.
Follows(docs, S) == \A s \in S \cap Live : HasRow(s) => docs[s] = newest(s)

\* Nothing runs for a stream the instance does not have.
OnlyLive(docs) == \A s \in Streams \ Live : docs[s] = NoShape

\* The documents an operation would run.
MergedHolds == /\ OnlyLive(op.merged) /\ op.merged[op.s] = op.shape
               /\ Follows(op.merged, Streams \ {op.s})

\* An operation belongs to an instance that takes pushes, and to a live stream;
\* its document and the secrets it carries go together, and unless it is a
\* rotation the document becomes the current one with its row.  Until the swap
\* what it would restore is what runs and what it would run is the document among
\* the other streams' authorities; what it carries is sealed after the first step.
OpHolds ==
    op.pc # "idle" =>
        /\ Up /\ inst.api /\ op.s \in Live /\ op.shape \in Shapes
        /\ \A k \in Slots : op.inline[k] # NoValue => k \in Needs[op.shape]
        /\ op.rotation => op.pc \in {"seal", "prune", "commit"}
        /\ newest(op.s) = op.shape <=> op.rotation \/ op.pc = "commit"
        /\ OnlyLive(op.prev)
        /\ op.pc \in {"seal", "prune", "swap"} => op.prev = running /\ MergedHolds
        /\ op.pc # "seal" =>
             \A k \in Slots : op.inline[k] # NoValue => sealed[op.s][k] = op.inline[k]

\* A reload stages a file of a single-document instance.
StagedHolds == staged # Nothing => ~inst.orgs /\ staged \in Shapes

\* What runs, step by step of an operation: the ledger, and between the swap and
\* the row the new document with the old one kept for the compensation.
RunsLedger ==
    /\ OnlyLive(running)
    /\ inst.api /\ proc = "booting" => Follows(running, Streams)
    /\ inst.api /\ Up /\ "restore" \notin lapses =>
         /\ op.pc \in {"append", "restore"} =>
              Follows(running, Streams \ {op.s}) /\ running[op.s] = op.shape
         /\ op.pc \notin {"append", "restore"} => Follows(running, Streams)
         /\ op.pc \notin {"idle", "commit"} => Follows(op.prev, Streams)

\* What the identity names, step by step.
NamesRunning ==
    /\ proc = "booting" /\ "bootEdit" \notin lapses => running = compose_organizations
    /\ Up /\ lapses \cap {"restore", "bootEdit"} = {} /\ identity # NoIdentity =>
         IF op.pc \in {"append", "commit", "restore"} THEN identity = op.prev
         ELSE identity = running

\* What the vault holds is sealed, unless a seal failed.
VaultSealed ==
    proc \in {"up", "booting"} /\ "seal" \notin lapses =>
        \A s \in Streams, k \in Slots : vault[s][k] # NoValue => sealed[s][k] = vault[s][k]

ApplyInv == ApplyTypeOK /\ OpHolds /\ StagedHolds /\ ConsecutiveDiffer
            /\ RunsLedger /\ NamesRunning /\ VaultSealed /\ AnsweredIsSealed

----------------------------------------------------------------------------
(* The rows of one stream.                                                 *)

\* A set of row numbers has a newest one.
LEMMA NewestOfRows ==
    ASSUME NEW n \in Nat, NEW T \in SUBSET (1 .. n), T # {}
    PROVE  Max(T) \in T /\ \A j \in T : Max(T) >= j
  <1> DEFINE Newer == {p \in Nat \X Nat : p[1] < p[2]}
             Age   == {n - i : i \in T}
  <1>1. IsWellFoundedOn(Newer, Nat)
    BY NatLessThanWellFounded DEF OpToRel
  <1>2. Age \subseteq Nat /\ Age # {}
    <2>1. \A i \in T : n - i \in Nat
      OBVIOUS
    <2>2. \A y \in Age : \E i \in T : y = n - i
      OBVIOUS
    <2>3. \E i \in T : n - i \in Age
      OBVIOUS
    <2> HIDE DEF Age
    <2> QED BY <2>1, <2>2, <2>3
  <1>3. \E x \in Age : \A y \in Age : <<y, x>> \notin Newer
    <2> HIDE DEF Newer, Age
    <2> QED BY <1>1, <1>2, WFMin
  <1>4. PICK i \in T : \A y \in Age : <<y, n - i>> \notin Newer
    BY <1>3
  <1>5. \A j \in T : i >= j
    <2> TAKE j \in T
    <2>1. <<n - j, n - i>> \notin Newer
      BY <1>4
    <2>2. n - j \in Nat /\ n - i \in Nat /\ i \in Nat /\ j \in Nat
      OBVIOUS
    <2>3. ~(n - j < n - i)
      BY <2>1, <2>2
    <2> QED BY <2>2, <2>3
  <1> QED BY <1>5 DEF Max

\* The newest applied row of a stream, and the one before it.
LEMMA LatestIsRow ==
    ASSUME NEW rows \in Seq(Revision)
    PROVE  /\ AppliedRows(rows) \in SUBSET (1 .. Len(rows))
           /\ latest_applied_config_revision(rows) \in Shapes \cup {NoShape}
           /\ latest_applied_config_revision(rows) = NoShape <=> AppliedRows(rows) = {}
           /\ AppliedRows(rows) # {} =>
                /\ Max(AppliedRows(rows)) \in AppliedRows(rows)
                /\ \A j \in AppliedRows(rows) : Max(AppliedRows(rows)) >= j
                /\ latest_applied_config_revision(rows) = rows[Max(AppliedRows(rows))].shape
  <1>1. AppliedRows(rows) \in SUBSET (1 .. Len(rows)) /\ Len(rows) \in Nat
    BY DEF AppliedRows
  <1>2. AppliedRows(rows) # {} =>
            /\ Max(AppliedRows(rows)) \in AppliedRows(rows)
            /\ \A j \in AppliedRows(rows) : Max(AppliedRows(rows)) >= j
    BY <1>1, NewestOfRows
  <1>3. \A i \in 1 .. Len(rows) : rows[i].shape \in Shapes /\ rows[i].shape # NoShape
    <2>1. \A i \in 1 .. Len(rows) : rows[i] \in Revision
      OBVIOUS
    <2> QED BY <2>1, ConfigApplyAssumption DEF Revision
  <1> QED BY <1>1, <1>2, <1>3 DEF latest_applied_config_revision

\* The revision a rollback re-applies is a document, or there is none.
LEMMA PreviousIsRow ==
    ASSUME NEW rows \in Seq(Revision)
    PROVE  previous_applied_config_revision(rows) \in Shapes \cup {NoShape}
  <1>1. CASE AppliedRows(rows) = {}
    BY <1>1 DEF previous_applied_config_revision
  <1>2. CASE AppliedRows(rows) # {}
    <2> DEFINE m == Max(AppliedRows(rows))
               older == SubSeq(rows, 1, m - 1)
    <2>1. m \in 1 .. Len(rows)
      BY <1>2, LatestIsRow
    <2> HIDE DEF m
    <2>2. older \in Seq(Revision)
      BY <2>1
    <2>3. latest_applied_config_revision(older) \in Shapes \cup {NoShape}
      BY <2>2, LatestIsRow
    <2> QED BY <1>2, <2>3 DEF previous_applied_config_revision, m
  <1> QED BY <1>1, <1>2

\* Neighbouring applied rows of one stream differ.
NeighboursDiffer(rows) ==
    \A i, j \in AppliedRows(rows) :
        i < j /\ (\A k \in AppliedRows(rows) : k <= i \/ j <= k) => rows[i].shape # rows[j].shape

\* What a new row makes of a stream.
LEMMA AppendedRow ==
    ASSUME NEW rows \in Seq(Revision), NEW r \in Revision
    PROVE  /\ Append(rows, r) \in Seq(Revision)
           /\ r.status = "rejected" => AppliedRows(Append(rows, r)) = AppliedRows(rows)
           /\ r.status = "applied" =>
                AppliedRows(Append(rows, r)) = AppliedRows(rows) \cup {Len(rows) + 1}
           /\ \A i \in AppliedRows(rows) : Append(rows, r)[i] = rows[i]
           /\ Append(rows, r)[Len(rows) + 1] = r
  BY DEF AppliedRows

\* A rejected row changes nothing of what is current; an applied row is current.
LEMMA AppendedLatest ==
    ASSUME NEW rows \in Seq(Revision), NEW r \in Revision
    PROVE  /\ r.status = "rejected" =>
                latest_applied_config_revision(Append(rows, r)) = latest_applied_config_revision(rows)
           /\ r.status = "applied" => latest_applied_config_revision(Append(rows, r)) = r.shape
  <1> DEFINE more == Append(rows, r)
  <1>1. more \in Seq(Revision)
    BY AppendedRow
  <1>2. CASE r.status = "rejected"
    <2>1. AppliedRows(more) = AppliedRows(rows)
      BY <1>2, AppendedRow
    <2>2. AppliedRows(rows) # {} => more[Max(AppliedRows(rows))] = rows[Max(AppliedRows(rows))]
      BY AppendedRow, LatestIsRow
    <2> HIDE DEF more
    <2> QED BY <1>2, <2>1, <2>2 DEF latest_applied_config_revision, more
  <1>3. CASE r.status = "applied"
    <2> DEFINE a == AppliedRows(more)
               n == Len(rows) + 1
    <2>1. a = AppliedRows(rows) \cup {n}
      BY <1>3, AppendedRow
    <2>2. AppliedRows(rows) \in SUBSET (1 .. Len(rows)) /\ Len(rows) \in Nat
      BY LatestIsRow
    <2>3. a # {} /\ Max(a) \in a /\ Max(a) >= n
      BY <1>1, <2>1, LatestIsRow
    <2>4. Max(a) = n
      BY <2>1, <2>2, <2>3
    <2>5. latest_applied_config_revision(more) = more[n].shape
      BY <1>1, <2>3, <2>4, LatestIsRow
    <2> QED BY <1>3, <2>5, AppendedRow
  <1> QED BY <1>2, <1>3 DEF Revision

\* A row of other content than the newest keeps neighbours apart.
LEMMA AppendedDiffers ==
    ASSUME NEW rows \in Seq(Revision), NEW r \in Revision, NeighboursDiffer(rows),
           r.status = "applied" => latest_applied_config_revision(rows) # r.shape
    PROVE  NeighboursDiffer(Append(rows, r))
  <1> DEFINE more == Append(rows, r)
             n    == Len(rows) + 1
  <1>0. AppliedRows(rows) \in SUBSET (1 .. Len(rows)) /\ Len(rows) \in Nat
    BY LatestIsRow
  <1>1. CASE r.status = "rejected"
    <2>1. AppliedRows(more) = AppliedRows(rows)
      BY <1>1, AppendedRow
    <2>2. \A i \in AppliedRows(rows) : more[i] = rows[i]
      BY AppendedRow
    <2> HIDE DEF more
    <2>3. NeighboursDiffer(more)
      BY <2>1, <2>2 DEF NeighboursDiffer
    <2> QED BY <2>3 DEF more
  <1>2. CASE r.status = "applied"
    <2>1. AppliedRows(more) = AppliedRows(rows) \cup {n} /\ more[n] = r
      BY <1>2, AppendedRow
    <2>2. \A i \in AppliedRows(rows) : more[i] = rows[i] /\ i < n
      BY <1>0, AppendedRow
    <2> HIDE DEF more
    <2>3. ASSUME NEW i \in AppliedRows(more), NEW j \in AppliedRows(more), i < j,
                 \A k \in AppliedRows(more) : k <= i \/ j <= k
          PROVE  more[i].shape # more[j].shape
      <3>1. i \in AppliedRows(rows)
        BY <1>0, <2>1, <2>2, <2>3
      <3>2. CASE j \in AppliedRows(rows)
        BY <2>1, <2>2, <2>3, <3>1, <3>2 DEF NeighboursDiffer
      <3>3. CASE j = n
        <4> DEFINE m == Max(AppliedRows(rows))
        <4>1. m \in AppliedRows(rows) /\ m >= i /\ latest_applied_config_revision(rows) = rows[m].shape
          BY <3>1, LatestIsRow
        <4> HIDE DEF m
        <4>2. m <= i
          BY <1>0, <2>1, <2>2, <2>3, <3>3, <4>1
        <4>3. m = i
          BY <1>0, <3>1, <4>1, <4>2
        <4> QED BY <1>2, <2>1, <2>2, <3>1, <3>3, <4>1, <4>3
      <3> QED BY <2>1, <2>3, <3>2, <3>3
    <2> QED BY <2>3 DEF NeighboursDiffer, more
  <1> QED BY <1>1, <1>2 DEF Revision

----------------------------------------------------------------------------
(* The documents and the tables.                                           *)

\* The streams of an instance and the revisions they hold.
LEMMA InstanceTypes ==
    ASSUME ApplyTypeOK
    PROVE  /\ inst.orgs \in BOOLEAN /\ inst.api \in BOOLEAN
           /\ Live \subseteq Streams /\ (~inst.orgs => Live = {Null}) /\ (inst.orgs => Live = Orgs)
           /\ \A s \in Streams : ledger[s] \in Seq(Revision)
           /\ \A s \in Streams : newest(s) \in Shapes \cup {NoShape}
           /\ NoDocs \in Docs /\ NoInline \in Inline /\ NoSecrets \in Secrets
  <1>1. inst \in [orgs : BOOLEAN, api : BOOLEAN, faults : SUBSET Faults]
    BY ConfigApplyAssumption DEF ApplyTypeOK
  <1>2. \A s \in Streams : ledger[s] \in Seq(Revision)
    BY DEF ApplyTypeOK
  <1>3. \A s \in Streams : newest(s) \in Shapes \cup {NoShape}
    BY <1>2, LatestIsRow DEF newest
  <1>4. NoDocs \in Docs /\ NoInline \in Inline /\ NoSecrets \in Secrets
    BY DEF NoDocs, Docs, NoInline, Inline, NoSecrets, Secrets
  <1> QED BY <1>1, <1>2, <1>3, <1>4 DEF Live, Streams

\* The authority of every stream: the ledger where it has a row.
LEMMA Composed ==
    ASSUME ApplyTypeOK
    PROVE  /\ compose_organizations \in Docs
           /\ OnlyLive(compose_organizations)
           /\ inst.api => Follows(compose_organizations, Streams)
  <1>1. \A s \in Streams : Authority(s) \in Shapes \cup {NoShape}
    BY InstanceTypes DEF Authority, newest, ApplyTypeOK, Docs
  <1>2. compose_organizations \in Docs
    BY <1>1 DEF compose_organizations, Docs
  <1>3. \A s \in Streams : compose_organizations[s] = IF s \in Live THEN Authority(s) ELSE NoShape
    BY DEF compose_organizations
  <1>4. \A s \in Live : inst.api /\ HasRow(s) => Authority(s) = newest(s)
    BY DEF Authority, ledger_is_bootable, newest
  <1> QED BY <1>2, <1>3, <1>4 DEF OnlyLive, Follows

\* The candidate among the others' authorities.
LEMMA Candidate ==
    ASSUME ApplyTypeOK, NEW s \in Live, NEW shape \in Shapes
    PROVE  /\ resolve_scoped_candidate(s, shape) \in Docs
           /\ OnlyLive(resolve_scoped_candidate(s, shape))
           /\ resolve_scoped_candidate(s, shape)[s] = shape
           /\ inst.api => Follows(resolve_scoped_candidate(s, shape), Streams \ {s})
           /\ ~inst.orgs => resolve_scoped_candidate(s, shape) = [NoDocs EXCEPT ![Null] = shape]
  <1>1. s \in Streams
    BY InstanceTypes
  <1>2. compose_organizations \in Docs
    BY Composed
  <1> DEFINE c == resolve_scoped_candidate(s, shape)
  <1>3. /\ c \in Docs /\ c[s] = shape
        /\ \A t \in Streams \ {s} : c[t] = compose_organizations[t]
    BY <1>1, <1>2 DEF resolve_scoped_candidate, Docs
  <1>4. OnlyLive(c) /\ (inst.api => Follows(c, Streams \ {s}))
    <2> HIDE DEF c
    <2> QED BY <1>3, Composed DEF OnlyLive, Follows
  <1>5. ASSUME ~inst.orgs PROVE c = [NoDocs EXCEPT ![Null] = shape]
    <2>1. s = Null /\ Live = {Null} /\ Null \in Streams
      BY <1>5, InstanceTypes
    <2> DEFINE d == [NoDocs EXCEPT ![Null] = shape]
    <2>2. d \in Docs /\ d[Null] = shape /\ \A t \in Streams \ {Null} : d[t] = NoShape
      BY <2>1 DEF NoDocs, Docs
    <2>3. \A t \in Streams : c[t] = d[t]
      <3> HIDE DEF c, d
      <3> QED BY <1>3, <1>4, <2>1, <2>2 DEF OnlyLive
    <2> HIDE DEF c, d
    <2>4. c = d
      BY <1>3, <2>2, <2>3 DEF Docs
    <2> QED BY <2>4 DEF d
  <1> QED BY <1>3, <1>4, <1>5

\* Sealing values writes them to one stream and leaves the others alone.
LEMMA Writes ==
    ASSUME NEW table \in Secrets, NEW s \in Streams, NEW inline \in Inline
    PROVE  /\ Write(table, s, inline) \in Secrets
           /\ \A k \in Slots :
                Write(table, s, inline)[s][k] = IF inline[k] # NoValue THEN inline[k] ELSE table[s][k]
           /\ \A t \in Streams \ {s}, k \in Slots : Write(table, s, inline)[t][k] = table[t][k]
  <1>1. \A k \in Slots : inline[k] \in Values \cup {NoValue} /\ table[s][k] \in Values \cup {NoValue}
    BY DEF Inline, Secrets
  <1> DEFINE w == [k \in Slots |-> IF inline[k] # NoValue THEN inline[k] ELSE table[s][k]]
  <1>2. w \in [Slots -> Values \cup {NoValue}]
    BY <1>1
  <1>3. Write(table, s, inline) = [table EXCEPT ![s] = w]
    BY DEF Write
  <1>4. \A k \in Slots : w[k] = IF inline[k] # NoValue THEN inline[k] ELSE table[s][k]
    OBVIOUS
  <1> HIDE DEF w
  <1>5. [table EXCEPT ![s] = w] \in Secrets
    BY <1>2 DEF Secrets
  <1>6. /\ [table EXCEPT ![s] = w][s] = w
        /\ \A t \in Streams \ {s} : [table EXCEPT ![s] = w][t] = table[t]
    BY DEF Secrets
  <1> QED BY <1>3, <1>4, <1>5, <1>6

\* Pruning names empties them in one stream and leaves the others alone.
LEMMA Deletes ==
    ASSUME NEW table \in Secrets, NEW s \in Streams, NEW names
    PROVE  /\ Delete(table, s, names) \in Secrets
           /\ \A k \in Slots :
                Delete(table, s, names)[s][k] = IF k \in names THEN NoValue ELSE table[s][k]
           /\ \A t \in Streams \ {s}, k \in Slots : Delete(table, s, names)[t][k] = table[t][k]
  <1>1. \A k \in Slots : table[s][k] \in Values \cup {NoValue}
    BY DEF Secrets
  <1> DEFINE d == [k \in Slots |-> IF k \in names THEN NoValue ELSE table[s][k]]
  <1>2. d \in [Slots -> Values \cup {NoValue}]
    BY <1>1
  <1>3. Delete(table, s, names) = [table EXCEPT ![s] = d]
    BY DEF Delete
  <1>4. \A k \in Slots : d[k] = IF k \in names THEN NoValue ELSE table[s][k]
    OBVIOUS
  <1> HIDE DEF d
  <1>5. [table EXCEPT ![s] = d] \in Secrets
    BY <1>2 DEF Secrets
  <1>6. /\ [table EXCEPT ![s] = d][s] = d
        /\ \A t \in Streams \ {s} : [table EXCEPT ![s] = d][t] = table[t]
    BY DEF Secrets
  <1> QED BY <1>3, <1>4, <1>5, <1>6

----------------------------------------------------------------------------
(* Boot, crash and the files.                                              *)

\* No operation is in flight in a process that does not run.
LEMMA DownIsIdle ==
    ASSUME ApplyInv, ~Up
    PROVE  op.pc = "idle"
  BY DEF ApplyInv, OpHolds

\* A step that leaves the ledger keeps neighbours apart.
LEMMA SameLedger ==
    ASSUME ConsecutiveDiffer, ledger' = ledger
    PROVE  ConsecutiveDiffer'
  BY DEF ConsecutiveDiffer

\* A step that leaves the ledger leaves what an operation would run.
LEMMA SameMerged ==
    ASSUME MergedHolds, inst' = inst, ledger' = ledger,
           op'.s = op.s, op'.shape = op.shape, op'.merged = op.merged
    PROVE  MergedHolds'
  BY DEF MergedHolds, OnlyLive, Follows, Live, newest, HasRow

\* A step that leaves the operation, the ledger and what runs leaves what the
\* operation knows.
LEMMA SameOperation ==
    ASSUME OpHolds, inst' = inst, ledger' = ledger, op' = op, proc' = proc,
           running' = running, sealed' = sealed
    PROVE  OpHolds'
  <1>1. MergedHolds => MergedHolds'
    BY SameMerged
  <1> QED BY <1>1 DEF OpHolds, Up, Live, newest, OnlyLive

\* An answer without secrets, or none, claims nothing.
LEMMA NothingClaimed ==
    ASSUME answer'.kind \notin {"applied", "unchanged"} \/ answer'.inline = NoInline
    PROVE  AnsweredIsSealed'
  BY DEF AnsweredIsSealed, RotationKept, NoInline

\* No answer is an answer.
LEMMA NoAnswerTypes ==
    ASSUME ApplyTypeOK
    PROVE  /\ NoAnswer \in [kind : Replies, s : Streams, inline : Inline]
           /\ NoAnswer.kind = "none"
  BY InstanceTypes DEF NoAnswer, Replies, Streams

\* Boot loads the vault from app_secret and resolves every stream's authority.
LEMMA BootResolveKeeps ==
    ASSUME ApplyInv, BootResolve
    PROVE  ApplyInv'
  <1>0. ApplyTypeOK /\ op.pc = "idle" /\ compose_organizations \in Docs
    BY DownIsIdle, Composed DEF ApplyInv, BootResolve, Up
  <1>1. /\ vault' = sealed /\ running' = compose_organizations /\ proc' = "booting"
        /\ answer' = NoAnswer /\ lapses' = {}
        /\ inst' = inst /\ ledger' = ledger /\ sealed' = sealed /\ file' = file
        /\ identity' = identity /\ op' = op /\ staged' = staged
    BY DEF BootResolve, stores
  <1>2. ApplyTypeOK'
    BY <1>0, <1>1, NoAnswerTypes DEF ApplyTypeOK
  <1>3. compose_organizations' = compose_organizations
    BY <1>1 DEF compose_organizations, Live, Authority, ledger_is_bootable, HasRow
  <1>4. OpHolds' /\ StagedHolds'
    BY <1>0, <1>1 DEF OpHolds, StagedHolds, ApplyInv
  <1>5. RunsLedger'
    <2>1. OnlyLive(compose_organizations) /\ (inst.api => Follows(compose_organizations, Streams))
      BY <1>0, Composed
    <2>2. OnlyLive(running)'
      BY <1>1, <2>1 DEF OnlyLive, Live
    <2>3. inst'.api => Follows(running, Streams)'
      BY <1>1, <2>1 DEF Follows, Live, newest, HasRow
    <2> QED BY <1>1, <2>2, <2>3 DEF RunsLedger, Up
  <1>6. NamesRunning' /\ VaultSealed'
    BY <1>1, <1>3 DEF NamesRunning, VaultSealed, Up
  <1> QED BY <1>1, <1>2, <1>4, <1>5, <1>6, SameLedger, NothingClaimed, NoAnswerTypes
          DEF ApplyInv

\* Boot reads the authority again for the identity, and serves or exits.
LEMMA BootServeKeeps ==
    ASSUME ApplyInv, BootServe
    PROVE  ApplyInv'
  <1>0. ApplyTypeOK /\ op.pc = "idle" /\ compose_organizations \in Docs /\ proc = "booting"
    BY DownIsIdle, Composed DEF ApplyInv, BootServe, Up
  <1>1. /\ answer' = NoAnswer /\ lapses' = lapses
        /\ inst' = inst /\ ledger' = ledger /\ sealed' = sealed /\ file' = file
        /\ op' = op /\ staged' = staged
        /\ \/ /\ proc' = "up" /\ identity' = compose_organizations
              /\ vault' = vault /\ running' = running
           \/ /\ proc' = "failed" /\ identity' = identity
              /\ vault' = NoSecrets /\ running' = NoDocs
    BY DEF BootServe, BootIdentity, stores
  <1>2. ApplyTypeOK'
    BY <1>0, <1>1, NoAnswerTypes, InstanceTypes DEF ApplyTypeOK
  <1>3. OpHolds' /\ StagedHolds'
    BY <1>0, <1>1 DEF OpHolds, StagedHolds, ApplyInv
  <1>4. RunsLedger'
    <2>1. OnlyLive(running)'
      BY <1>1 DEF ApplyInv, RunsLedger, OnlyLive, NoDocs, Live
    <2>2. inst.api => Follows(running, Streams)
      BY <1>0 DEF ApplyInv, RunsLedger
    <2>3. inst'.api /\ proc' = "up" => Follows(running, Streams)'
      BY <1>1, <2>2 DEF Follows, Live, newest, HasRow
    <2> QED BY <1>0, <1>1, <2>1, <2>3 DEF RunsLedger, Up
  <1>5. NamesRunning' /\ VaultSealed'
    BY <1>0, <1>1 DEF NamesRunning, VaultSealed, Up, ApplyInv
  <1> QED BY <1>1, <1>2, <1>3, <1>4, <1>5, SameLedger, NothingClaimed, NoAnswerTypes
          DEF ApplyInv

\* A crash loses the process and its lock, never a row or a secret.
LEMMA CrashKeeps ==
    ASSUME ApplyInv, Crash
    PROVE  ApplyInv'
  <1>0. ApplyTypeOK
    BY DEF ApplyInv
  <1>1. /\ answer' = NoAnswer /\ lapses' = lapses /\ proc' = "down"
        /\ inst' = inst /\ ledger' = ledger /\ sealed' = sealed /\ file' = file
        /\ op' = Idle /\ staged' = Nothing /\ identity' = NoIdentity
        /\ vault' = NoSecrets /\ running' = NoDocs
    BY DEF Crash, stores
  <1>2. Idle \in Operation /\ Idle.pc = "idle"
    BY <1>0, InstanceTypes DEF Idle, Operation, Steps, Streams
  <1>3. ApplyTypeOK'
    BY <1>0, <1>1, <1>2, NoAnswerTypes, InstanceTypes DEF ApplyTypeOK
  <1>4. OpHolds' /\ StagedHolds' /\ NamesRunning' /\ VaultSealed'
    BY <1>1, <1>2 DEF OpHolds, StagedHolds, NamesRunning, VaultSealed, Up
  <1>5. RunsLedger'
    BY <1>1 DEF RunsLedger, OnlyLive, NoDocs, Up
  <1> QED BY <1>1, <1>3, <1>4, <1>5, SameLedger, NothingClaimed, NoAnswerTypes DEF ApplyInv

\* A seed file edited while the process boots is a lapse of its identity only.
LEMMA EditFileKeeps ==
    ASSUME ApplyInv, EditFile
    PROVE  ApplyInv'
  <1>0. ApplyTypeOK
    BY DEF ApplyInv
  <1>1. /\ answer' = NoAnswer /\ proc' = proc
        /\ inst' = inst /\ ledger' = ledger /\ sealed' = sealed
        /\ op' = op /\ staged' = staged /\ identity' = identity
        /\ vault' = vault /\ running' = running
        /\ proc = "booting" => lapses' = lapses \cup {"bootEdit"}
        /\ proc # "booting" => lapses' = lapses
    BY DEF EditFile, stores, memory
  <1>2. PICK s \in Live, f \in Seeds : file' = [file EXCEPT ![s] = f]
    BY DEF EditFile
  <1>3. file' \in Docs
    BY <1>0, <1>2, ConfigApplyAssumption DEF ApplyTypeOK, Docs
  <1>4. ApplyTypeOK'
    BY <1>0, <1>1, <1>3, NoAnswerTypes DEF ApplyTypeOK
  <1>5. OpHolds' /\ StagedHolds' /\ VaultSealed'
    <2>1. OpHolds'
      BY <1>1, SameOperation DEF ApplyInv
    <2> QED BY <1>1, <2>1 DEF StagedHolds, VaultSealed, ApplyInv
  <1>6. RunsLedger'
    BY <1>1 DEF RunsLedger, ApplyInv, Up, OnlyLive, Follows, Live, newest, HasRow
  <1>7. NamesRunning'
    BY <1>1 DEF NamesRunning, ApplyInv, Up
  <1> QED BY <1>1, <1>4, <1>5, <1>6, <1>7, SameLedger, NothingClaimed, NoAnswerTypes DEF ApplyInv

----------------------------------------------------------------------------
(* The decision and the steps of an operation.                             *)

\* What a new row of a stream leaves as it was.
LEMMA OneMoreRow ==
    ASSUME ApplyTypeOK, NEW s \in Streams, NEW shape \in Shapes, NEW status \in {"applied", "rejected"},
           AppendRow(s, shape, status)
    PROVE  /\ ledger' \in [Streams -> Seq(Revision)]
           /\ \A t \in Streams \ {s} : ledger'[t] = ledger[t]
           /\ latest_applied_config_revision(ledger'[s]) =
                IF status = "applied" THEN shape ELSE newest(s)
           /\ ConsecutiveDiffer /\ (status = "applied" => newest(s) # shape) => ConsecutiveDiffer'
  <1> DEFINE r == [shape |-> shape, status |-> status]
  <1>1. r \in Revision /\ r.shape = shape /\ r.status = status /\ ledger[s] \in Seq(Revision)
    BY InstanceTypes DEF Revision
  <1>2. ledger' = [ledger EXCEPT ![s] = Append(ledger[s], r)] /\ ledger \in [Streams -> Seq(Revision)]
    BY DEF AppendRow, ApplyTypeOK
  <1> HIDE DEF r
  <1>3. Append(ledger[s], r) \in Seq(Revision)
    BY <1>1, AppendedRow
  <1>4. /\ ledger' \in [Streams -> Seq(Revision)] /\ ledger'[s] = Append(ledger[s], r)
        /\ \A t \in Streams \ {s} : ledger'[t] = ledger[t]
    BY <1>2, <1>3
  <1>5. latest_applied_config_revision(ledger'[s]) =
            IF status = "applied" THEN shape ELSE newest(s)
    BY <1>1, <1>4, AppendedLatest DEF newest
  <1>6. ASSUME ConsecutiveDiffer, status = "applied" => newest(s) # shape PROVE ConsecutiveDiffer'
    <2>1. \A t \in Streams : NeighboursDiffer(ledger[t])
      BY <1>6 DEF ConsecutiveDiffer, NeighboursDiffer
    <2>2. NeighboursDiffer(Append(ledger[s], r))
      BY <1>1, <1>6, <2>1, AppendedDiffers DEF newest
    <2>3. \A t \in Streams : NeighboursDiffer(ledger'[t])
      BY <1>4, <2>1, <2>2
    <2> QED BY <2>3 DEF ConsecutiveDiffer, NeighboursDiffer
  <1> QED BY <1>4, <1>5, <1>6

\* A step of a free process that only answers.
LEMMA AnswerKeeps ==
    ASSUME ApplyInv, Free,
           ledger' \in [Streams -> Seq(Revision)], ConsecutiveDiffer',
           \A t \in Streams : latest_applied_config_revision(ledger'[t]) = newest(t),
           UNCHANGED <<inst, file, sealed, memory, proc, op, lapses>>,
           StagedHolds', staged' \in Shapes \cup {Nothing},
           answer' \in [kind : Replies, s : Streams, inline : Inline], AnsweredIsSealed'
    PROVE  ApplyInv'
  <1>1. /\ op.pc = "idle" /\ proc = "up" /\ proc' = proc /\ inst' = inst /\ op' = op
        /\ lapses' = lapses /\ running' = running /\ identity' = identity /\ vault' = vault
        /\ sealed' = sealed /\ file' = file
    BY DEF Free, Up, memory
  <1>2. ApplyTypeOK'
    BY <1>1 DEF ApplyInv, ApplyTypeOK
  <1>3. OpHolds' /\ NamesRunning' /\ VaultSealed'
    BY <1>1 DEF ApplyInv, OpHolds, NamesRunning, VaultSealed, Up
  <1>4. RunsLedger'
    <2>1. Live \subseteq Streams /\ Live' = Live
      BY <1>1, InstanceTypes DEF ApplyInv, Live
    <2>2. OnlyLive(running)'
      BY <1>1 DEF ApplyInv, RunsLedger, OnlyLive, Live
    <2>3. inst.api /\ "restore" \notin lapses => Follows(running, Streams)
      BY <1>1 DEF ApplyInv, RunsLedger, Up
    <2>4. inst.api /\ "restore" \notin lapses => Follows(running, Streams)'
      BY <1>1, <2>1, <2>3 DEF Follows, newest, HasRow
    <2> QED BY <1>1, <2>2, <2>4 DEF RunsLedger, Up
  <1> QED BY <1>2, <1>3, <1>4 DEF ApplyInv

\* A decision that writes nothing, records a rejection or takes the lock
\* (apply_document before its first write).
LEMMA ApplyDocumentKeeps ==
    ASSUME ApplyInv, Free, inst.api,
           NEW s \in Live, NEW shape \in Shapes, NEW inline \in Inline,
           \A k \in Slots : inline[k] # NoValue => k \in Needs[shape],
           apply_document(s, shape, inline),
           UNCHANGED <<inst, file, sealed, memory, proc, staged, lapses>>
    PROVE  ApplyInv'
  <1>0. ApplyTypeOK /\ s \in Streams /\ op.pc = "idle" /\ proc = "up"
    BY InstanceTypes DEF ApplyInv, Free, Up
  <1>s. StagedHolds' /\ staged' \in Shapes \cup {Nothing}
    BY DEF ApplyInv, ApplyTypeOK, StagedHolds
  <1>a. \A kind \in Replies : Respond(kind, s, inline) =>
            /\ answer' \in [kind : Replies, s : Streams, inline : Inline]
            /\ answer'.kind = kind /\ answer'.s = s /\ answer'.inline = inline
    BY <1>0 DEF Respond
  <1>n. \A t \in Streams : newest(t) = latest_applied_config_revision(ledger[t])
    BY DEF newest
  <1>1. CASE /\ effective_secret_rotations(s, inline) = {}
             /\ Respond("unchanged", s, inline)
             /\ UNCHANGED <<op, ledger>>
    <2>1. "seal" \notin lapses => \A k \in Slots : inline[k] # NoValue => sealed[s][k] = inline[k]
      <3>1. \A k \in Slots : inline[k] # NoValue => inline[k] = vault[s][k]
        BY <1>1 DEF effective_secret_rotations
      <3> QED BY <1>0, <3>1 DEF ApplyInv, VaultSealed
    <2>2. answer'.s = s /\ answer'.inline = inline
          /\ answer' \in [kind : Replies, s : Streams, inline : Inline]
      BY <1>1, <1>a DEF Replies
    <2>3. AnsweredIsSealed'
      BY <2>1, <2>2 DEF AnsweredIsSealed, RotationKept
    <2>4. ledger' \in [Streams -> Seq(Revision)] /\ ConsecutiveDiffer'
      BY <1>1, SameLedger DEF ApplyInv, ApplyTypeOK
    <2> QED BY <1>1, <1>s, <1>n, <2>2, <2>3, <2>4, AnswerKeeps
  <1>2. CASE /\ \/ AppendRow(s, shape, "rejected") /\ Respond("rejected", s, inline)
                \/ Respond("error", s, inline) /\ UNCHANGED ledger
             /\ UNCHANGED op
    <2>1. /\ answer' \in [kind : Replies, s : Streams, inline : Inline]
          /\ answer'.kind \in {"rejected", "error"}
      BY <1>2, <1>a DEF Replies
    <2>2. AnsweredIsSealed'
      BY <2>1, NothingClaimed
    <2>3. CASE UNCHANGED ledger
      <3>1. ledger' \in [Streams -> Seq(Revision)] /\ ConsecutiveDiffer'
        BY <2>3, SameLedger DEF ApplyInv, ApplyTypeOK
      <3> QED BY <1>2, <1>s, <1>n, <2>1, <2>2, <2>3, <3>1, AnswerKeeps
    <2>4. CASE AppendRow(s, shape, "rejected")
      <3>1. /\ ledger' \in [Streams -> Seq(Revision)] /\ ConsecutiveDiffer'
            /\ \A t \in Streams : latest_applied_config_revision(ledger'[t]) = newest(t)
        BY <1>0, <1>n, <2>4, OneMoreRow DEF ApplyInv
      <3> QED BY <1>2, <1>s, <2>1, <2>2, <3>1, AnswerKeeps
    <2> QED BY <1>2, <2>3, <2>4
  <1>3. CASE /\ op' = [pc |-> "seal", s |-> s, shape |-> shape, inline |-> inline,
                       rotation |-> IsCurrent(s, shape),
                       merged |-> resolve_scoped_candidate(s, shape), prev |-> running]
             /\ answer' = NoAnswer
             /\ UNCHANGED ledger
    <2>1. /\ proc' = proc /\ inst' = inst /\ lapses' = lapses /\ running' = running
          /\ identity' = identity /\ vault' = vault /\ sealed' = sealed /\ file' = file
          /\ ledger' = ledger /\ staged' = staged
      BY <1>3 DEF memory
    <2>2. /\ op'.pc = "seal" /\ op'.s = s /\ op'.shape = shape /\ op'.inline = inline
          /\ op'.rotation = IsCurrent(s, shape) /\ op'.prev = running
          /\ op'.merged = resolve_scoped_candidate(s, shape)
      BY <1>3
    <2>c. /\ resolve_scoped_candidate(s, shape) \in Docs
          /\ OnlyLive(resolve_scoped_candidate(s, shape))
          /\ resolve_scoped_candidate(s, shape)[s] = shape
          /\ Follows(resolve_scoped_candidate(s, shape), Streams \ {s})
      BY <1>0, Candidate
    <2>3. op' \in Operation
      BY <1>0, <1>3, <2>c DEF Operation, Steps, IsCurrent, ApplyTypeOK
    <2>4. ApplyTypeOK'
      BY <1>0, <1>3, <2>1, <2>3, NoAnswerTypes DEF ApplyTypeOK
    <2>5. Live' = Live /\ \A t \in Streams : newest(t)' = newest(t)
      BY <2>1 DEF Live, newest
    <2>6. OnlyLive(running)
      BY DEF ApplyInv, RunsLedger
    <2>7. OpHolds'
      <3>1. newest(s)' = latest_applied_config_revision(ledger[s])
        BY <2>1 DEF newest
      <3>2. OnlyLive(op.prev)'
        BY <2>1, <2>2, <2>6 DEF OnlyLive, Live
      <3>3. newest(s)' = shape <=> op'.rotation
        BY <2>2, <3>1 DEF IsCurrent
      <3>5. MergedHolds'
        BY <2>1, <2>2, <2>c DEF MergedHolds, OnlyLive, Follows, Live, newest, HasRow
      <3>4. newest(op.s)' = newest(s)'
        BY <2>2 DEF newest
      <3> QED BY <1>0, <2>1, <2>2, <2>5, <3>2, <3>3, <3>4, <3>5 DEF OpHolds, Up
    <2>8. RunsLedger'
      <3>1. inst.api /\ "restore" \notin lapses => Follows(running, Streams)
        BY <1>0 DEF ApplyInv, RunsLedger, Up
      <3>2. inst.api /\ "restore" \notin lapses =>
                Follows(running, Streams)' /\ Follows(op.prev, Streams)'
        BY <2>1, <2>2, <3>1 DEF Follows, Live, newest, HasRow
      <3>3. OnlyLive(running)'
        BY <2>1, <2>6 DEF OnlyLive, Live
      <3> QED BY <1>0, <2>1, <2>2, <3>2, <3>3 DEF RunsLedger, Up
    <2>9. NamesRunning' /\ VaultSealed' /\ StagedHolds'
      BY <1>0, <2>1, <2>2 DEF ApplyInv, NamesRunning, VaultSealed, StagedHolds, Up
    <2> QED BY <1>3, <2>1, <2>4, <2>7, <2>8, <2>9, SameLedger, NothingClaimed, NoAnswerTypes, <1>0
            DEF ApplyInv
  <1> QED BY <1>1, <1>2, <1>3 DEF apply_document

\* A push to a stream and a rollback both go through apply_document.
LEMMA PushKeeps ==
    ASSUME ApplyInv, post_apply \/ post_org_apply \/ rollback
    PROVE  ApplyInv'
  <1>0. ApplyTypeOK
    BY DEF ApplyInv
  <1>1. ASSUME PushTo(Live), inst.api PROVE ApplyInv'
    <2>1. PICK s \in Live, shape \in Shapes \ Seeds, inline \in Inline :
              /\ \A k \in Slots : inline[k] # NoValue => k \in Needs[shape]
              /\ apply_document(s, shape, inline)
      BY <1>1 DEF PushTo
    <2>2. Free /\ UNCHANGED <<inst, file, sealed, memory, proc, staged, lapses>>
      BY <1>1 DEF PushTo
    <2> QED BY <1>1, <2>1, <2>2, ApplyDocumentKeeps
  <1>2. CASE post_apply \/ post_org_apply
    BY <1>0, <1>1, <1>2, InstanceTypes DEF post_apply, post_org_apply, accepts_pushed_config
  <1>3. CASE rollback
    <2>1. PICK s \in Live :
              /\ previous_applied_config_revision(ledger[s]) # NoShape
              /\ apply_document(s, previous_applied_config_revision(ledger[s]), NoInline)
      BY <1>3 DEF rollback
    <2>2. /\ Free /\ UNCHANGED <<inst, file, sealed, memory, proc, staged, lapses>>
          /\ inst.api
      BY <1>3 DEF rollback, accepts_pushed_config
    <2>3. previous_applied_config_revision(ledger[s]) \in Shapes
      BY <1>0, <2>1, InstanceTypes, PreviousIsRow
    <2>4. NoInline \in Inline /\ \A k \in Slots : NoInline[k] = NoValue
      BY <1>0, InstanceTypes DEF NoInline
    <2> QED BY <2>1, <2>2, <2>3, <2>4, ApplyDocumentKeeps
  <1> QED BY <1>2, <1>3

\* Another tag is answered, and nothing else happens.
LEMMA StaleTagKeeps ==
    ASSUME ApplyInv, enforce_if_match
    PROVE  ApplyInv'
  <1>0. ApplyTypeOK
    BY DEF ApplyInv
  <1>1. PICK s \in Live : Respond("stale", s, NoInline)
    BY DEF enforce_if_match
  <1>2. answer' \in [kind : Replies, s : Streams, inline : Inline] /\ AnsweredIsSealed'
    BY <1>0, <1>1, InstanceTypes, NothingClaimed DEF Respond, Replies
  <1>3. Free /\ UNCHANGED <<inst, ledger, file, sealed, memory, proc, op, staged, lapses>>
    BY DEF enforce_if_match, stores
  <1>4. ledger' \in [Streams -> Seq(Revision)] /\ ConsecutiveDiffer' /\ StagedHolds'
        /\ staged' \in Shapes \cup {Nothing}
    BY <1>3, SameLedger DEF ApplyInv, ApplyTypeOK, StagedHolds
  <1> QED BY <1>2, <1>3, <1>4, AnswerKeeps DEF newest

\* An operation that ends with an error claims nothing.
LEMMA FailTypes ==
    ASSUME ApplyTypeOK, Fail
    PROVE  /\ op' \in Operation /\ op'.pc = "idle" /\ answer'.kind = "error"
           /\ answer' \in [kind : Replies, s : Streams, inline : Inline]
  BY InstanceTypes DEF Fail, Idle, Operation, Steps, Streams, Respond, Replies, ApplyTypeOK

\* What the operation in flight is.
LEMMA OpTypes ==
    ASSUME ApplyInv, op.pc # "idle"
    PROVE  /\ op \in Operation /\ op.s \in Streams /\ op.s \in Live /\ op.shape \in Shapes
           /\ op.inline \in Inline /\ op.prev \in Docs /\ op.rotation \in BOOLEAN
           /\ op.merged \in Docs /\ inst.api /\ proc = "up"
           /\ \A p \in Steps : /\ [op EXCEPT !.pc = p] \in Operation
                               /\ [op EXCEPT !.pc = p].pc = p
                               /\ [op EXCEPT !.pc = p].s = op.s
                               /\ [op EXCEPT !.pc = p].shape = op.shape
                               /\ [op EXCEPT !.pc = p].inline = op.inline
                               /\ [op EXCEPT !.pc = p].prev = op.prev
                               /\ [op EXCEPT !.pc = p].merged = op.merged
                               /\ [op EXCEPT !.pc = p].rotation = op.rotation
  <1>1. op \in Operation
    BY DEF ApplyInv, ApplyTypeOK
  <1>2. op.s \in Live /\ op.shape \in Shapes /\ inst.api /\ proc = "up"
    BY DEF ApplyInv, OpHolds, Up
  <1> QED BY <1>1, <1>2 DEF Operation

\* Until the swap an operation leaves what runs alone.
LEMMA SameRuns ==
    ASSUME ApplyInv, proc = "up", op.pc \in {"seal", "prune", "swap"},
           inst' = inst, ledger' = ledger, proc' = proc, running' = running,
           lapses \subseteq lapses',
           op'.pc \in {"idle", "commit"} \/ (op'.pc \in {"prune", "swap"} /\ op'.prev = op.prev)
    PROVE  RunsLedger'
  <1>1. /\ OnlyLive(running)
        /\ inst.api /\ "restore" \notin lapses =>
             Follows(running, Streams) /\ Follows(op.prev, Streams)
    BY DEF ApplyInv, RunsLedger, Up
  <1>2. OnlyLive(running)' /\ (inst.api /\ "restore" \notin lapses => Follows(running, Streams)')
    BY <1>1 DEF OnlyLive, Follows, Live, newest, HasRow
  <1>3. op'.pc \notin {"idle", "commit"} /\ inst.api /\ "restore" \notin lapses => Follows(op.prev, Streams)'
    BY <1>1 DEF Follows, Live, newest, HasRow
  <1>4. "restore" \notin lapses' => "restore" \notin lapses
    OBVIOUS
  <1> QED BY <1>2, <1>3, <1>4 DEF RunsLedger, Up

\* A single document that runs is the identity that names it.
LEMMA OneDocument ==
    ASSUME ApplyTypeOK, ~inst.orgs, NEW docs \in Docs, OnlyLive(docs), NEW shape, docs[Null] = shape
    PROVE  docs = [NoDocs EXCEPT ![Null] = shape]
  <1>1. Live = {Null} /\ Null \in Streams
    BY InstanceTypes
  <1>2. \A t \in Streams : docs[t] = IF t = Null THEN shape ELSE NoShape
    BY <1>1 DEF OnlyLive
  <1> QED BY <1>2 DEF NoDocs, Docs

\* Completion publishes what runs, or drops the identity.
LEMMA PublishedIsRunning ==
    ASSUME ApplyTypeOK, NEW s \in Live, NEW shape \in Shapes
    PROVE  /\ Published(s, shape) \in Docs \cup {NoIdentity}
           /\ \A docs \in Docs : OnlyLive(docs) /\ docs[s] = shape =>
                Published(s, shape) \in {docs, NoIdentity}
  <1>1. CASE inst.orgs
    BY <1>1 DEF Published, finish_org_apply
  <1>2. CASE ~inst.orgs
    <2>1. s = Null /\ NoDocs \in Docs
      BY <1>2, InstanceTypes
    <2>2. Published(s, shape) = [NoDocs EXCEPT ![Null] = shape]
      BY <1>2, <2>1 DEF Published, commit_effective
    <2>3. [NoDocs EXCEPT ![Null] = shape] \in Docs
      BY <2>1 DEF Docs
    <2>4. \A docs \in Docs : OnlyLive(docs) /\ docs[s] = shape =>
              docs = [NoDocs EXCEPT ![Null] = shape]
      BY <1>2, <2>1, OneDocument
    <2> QED BY <2>2, <2>3, <2>4
  <1> QED BY <1>1, <1>2

\* Sealing writes the vault and the table together, or ends with the lapse of a seal.
LEMMA UpsertKeeps ==
    ASSUME ApplyInv, upsert_app_secrets
    PROVE  ApplyInv'
  <1>0. ApplyTypeOK /\ op.pc = "seal" /\ proc = "up"
    BY DEF ApplyInv, upsert_app_secrets, Up
  <1>o. /\ op.s \in Streams /\ op.s \in Live /\ op.shape \in Shapes /\ op.inline \in Inline
        /\ op.rotation \in BOOLEAN
    BY <1>0, OpTypes
  <1>1. /\ inst' = inst /\ ledger' = ledger /\ file' = file /\ proc' = proc
        /\ running' = running /\ identity' = identity /\ staged' = staged
        /\ vault' = Write(vault, op.s, op.inline)
        /\ \/ /\ sealed' = Write(sealed, op.s, op.inline)
              /\ op' = [op EXCEPT !.pc = "prune"] /\ answer' = NoAnswer /\ lapses' = lapses
           \/ /\ Fail /\ lapses' = lapses \cup {"seal"} /\ sealed' = sealed
    BY DEF upsert_app_secrets
  <1>w. ASSUME NEW table \in Secrets
        PROVE  /\ Write(table, op.s, op.inline) \in Secrets
               /\ \A k \in Slots : op.inline[k] # NoValue =>
                    Write(table, op.s, op.inline)[op.s][k] = op.inline[k]
               /\ \A k \in Slots : op.inline[k] = NoValue =>
                    Write(table, op.s, op.inline)[op.s][k] = table[op.s][k]
               /\ \A t \in Streams \ {op.s}, k \in Slots :
                    Write(table, op.s, op.inline)[t][k] = table[t][k]
    BY <1>o, Writes
  <1>t. vault \in Secrets /\ sealed \in Secrets
    BY <1>0 DEF ApplyTypeOK
  <1>2. vault' \in Secrets /\ Write(sealed, op.s, op.inline) \in Secrets
    BY <1>1, <1>t, <1>w
  <1>3. /\ op' \in Operation
        /\ \/ op'.pc = "idle"
           \/ /\ op'.pc = "prune" /\ op'.s = op.s /\ op'.shape = op.shape /\ op'.inline = op.inline
              /\ op'.prev = op.prev /\ op'.rotation = op.rotation /\ op'.merged = op.merged
              /\ sealed' = Write(sealed, op.s, op.inline)
        /\ answer' \in [kind : Replies, s : Streams, inline : Inline]
        /\ answer'.kind \in {"none", "error"}
    <2>1. CASE Fail
      BY <1>0, <2>1, FailTypes
    <2>2. CASE op' = [op EXCEPT !.pc = "prune"] /\ answer' = NoAnswer
               /\ sealed' = Write(sealed, op.s, op.inline)
      BY <1>0, <2>2, OpTypes, NoAnswerTypes DEF Steps
    <2> QED BY <1>1, <2>1, <2>2
  <1>4. ApplyTypeOK'
    BY <1>0, <1>1, <1>2, <1>3 DEF ApplyTypeOK
  <1>5. OpHolds'
    <2>1. CASE op'.pc = "idle"
      BY <2>1 DEF OpHolds
    <2>2. CASE op'.pc # "idle"
      <3>1. \A k \in Slots : op.inline[k] # NoValue => sealed'[op.s][k] = op.inline[k]
        BY <1>3, <2>2, <1>t, <1>w
      <3>2. /\ inst.api /\ \A k \in Slots : op.inline[k] # NoValue => k \in Needs[op.shape]
            /\ newest(op.s) = op.shape <=> op.rotation
            /\ OnlyLive(op.prev) /\ op.prev = running /\ MergedHolds
        BY <1>0 DEF ApplyInv, OpHolds
      <3>3. newest(op.s)' = newest(op.s) /\ Live' = Live /\ OnlyLive(op.prev)'
        BY <1>1, <1>3, <2>2, <3>2 DEF newest, Live, OnlyLive
      <3>4. MergedHolds'
        BY <1>1, <1>3, <2>2, <3>2, SameMerged
      <3> QED BY <1>0, <1>1, <1>3, <1>o, <2>2, <3>1, <3>2, <3>3, <3>4 DEF OpHolds, Up
    <2> QED BY <2>1, <2>2
  <1>6. RunsLedger'
    <2>1. lapses \subseteq lapses' /\ (op'.pc = "idle" \/ (op'.pc = "prune" /\ op'.prev = op.prev))
      BY <1>1, <1>3
    <2> QED BY <1>0, <1>1, <2>1, SameRuns
  <1>7. NamesRunning' /\ StagedHolds'
    <2>1. lapses' \cap {"restore", "bootEdit"} = {} => lapses \cap {"restore", "bootEdit"} = {}
      BY <1>1
    <2> QED BY <1>0, <1>1, <1>3, <2>1 DEF ApplyInv, NamesRunning, StagedHolds, Up
  <1>8. VaultSealed'
    <2>1. CASE sealed' = Write(sealed, op.s, op.inline) /\ lapses' = lapses
      <3>1. "seal" \notin lapses => \A s \in Streams, k \in Slots :
                vault[s][k] # NoValue => sealed[s][k] = vault[s][k]
        BY <1>0 DEF ApplyInv, VaultSealed
      <3>2. \A k \in Slots :
                /\ op.inline[k] # NoValue =>
                     vault'[op.s][k] = op.inline[k] /\ sealed'[op.s][k] = op.inline[k]
                /\ op.inline[k] = NoValue =>
                     vault'[op.s][k] = vault[op.s][k] /\ sealed'[op.s][k] = sealed[op.s][k]
        BY <1>1, <1>t, <1>w, <2>1
      <3>3. \A s \in Streams \ {op.s}, k \in Slots :
                vault'[s][k] = vault[s][k] /\ sealed'[s][k] = sealed[s][k]
        BY <1>1, <1>t, <1>w, <2>1
      <3>4. ASSUME "seal" \notin lapses, NEW s \in Streams, NEW k \in Slots, vault'[s][k] # NoValue
            PROVE  sealed'[s][k] = vault'[s][k]
        <4>1. CASE s = op.s
          BY <3>1, <3>2, <3>4, <4>1
        <4>2. CASE s # op.s
          BY <3>1, <3>3, <3>4, <4>2
        <4> QED BY <4>1, <4>2
      <3> QED BY <2>1, <3>4 DEF VaultSealed
    <2>2. CASE lapses' = lapses \cup {"seal"}
      BY <2>2 DEF VaultSealed
    <2> QED BY <1>1, <2>1, <2>2
  <1>9. AnsweredIsSealed'
    BY <1>3, NothingClaimed
  <1> QED BY <1>1, <1>4, <1>5, <1>6, <1>7, <1>8, <1>9, SameLedger DEF ApplyInv

\* Pruning spares what the new document names.
LEMMA PruneKeeps ==
    ASSUME ApplyInv, prune_stale_app_secrets
    PROVE  ApplyInv'
  <1> DEFINE stale == StaleNames(op.s, op.shape, op.prev)
             gone  == stale \ {k \in stale : sealed[op.s][k] = NoValue}
  <1>0. ApplyTypeOK /\ op.pc = "prune" /\ proc = "up"
    BY DEF ApplyInv, prune_stale_app_secrets, Up
  <1>o. /\ op.s \in Streams /\ op.s \in Live /\ op.shape \in Shapes /\ op.inline \in Inline
        /\ op.rotation \in BOOLEAN /\ inst.api
    BY <1>0, OpTypes
  <1>h. /\ \A k \in Slots : op.inline[k] # NoValue =>
             k \in Needs[op.shape] /\ sealed[op.s][k] = op.inline[k]
        /\ newest(op.s) = op.shape <=> op.rotation
        /\ OnlyLive(op.prev) /\ op.prev = running /\ MergedHolds
    BY <1>0 DEF ApplyInv, OpHolds
  <1>1. /\ inst' = inst /\ ledger' = ledger /\ file' = file /\ proc' = proc
        /\ running' = running /\ staged' = staged /\ lapses' = lapses /\ identity' = identity
        /\ vault' = Delete(vault, op.s, gone)
        /\ \/ /\ sealed' = Delete(sealed, op.s, stale) /\ answer' = NoAnswer
              /\ op' = [op EXCEPT !.pc = IF op.rotation THEN "commit" ELSE "swap"]
           \/ sealed' = sealed /\ Fail
    BY DEF prune_stale_app_secrets
  <1>2. \A k \in Needs[op.shape] : k \notin stale
    BY DEF StaleNames
  <1>3. \A k : k \in gone <=> k \in stale /\ sealed[op.s][k] # NoValue
    OBVIOUS
  <1> HIDE DEF stale, gone
  <1>d. ASSUME NEW table \in Secrets, NEW names
        PROVE  /\ Delete(table, op.s, names) \in Secrets
               /\ \A k \in Slots :
                    Delete(table, op.s, names)[op.s][k] = IF k \in names THEN NoValue ELSE table[op.s][k]
               /\ \A t \in Streams \ {op.s}, k \in Slots :
                    Delete(table, op.s, names)[t][k] = table[t][k]
    BY <1>o, Deletes
  <1>t. vault \in Secrets /\ sealed \in Secrets
    BY <1>0 DEF ApplyTypeOK
  <1>v. /\ vault' \in Secrets
        /\ \A k \in Slots : vault'[op.s][k] = IF k \in gone THEN NoValue ELSE vault[op.s][k]
        /\ \A t \in Streams \ {op.s}, k \in Slots : vault'[t][k] = vault[t][k]
    BY <1>1, <1>t, <1>d
  <1>s. /\ sealed' \in Secrets
        /\ \A k \in Slots : k \notin stale => sealed'[op.s][k] = sealed[op.s][k]
        /\ \A t \in Streams \ {op.s}, k \in Slots : sealed'[t][k] = sealed[t][k]
    <2>1. CASE sealed' = sealed
      BY <2>1, <1>t
    <2>2. CASE sealed' = Delete(sealed, op.s, stale)
      BY <2>2, <1>t, <1>d
    <2> QED BY <1>1, <2>1, <2>2
  <1>4. \A k \in Slots : op.inline[k] # NoValue => sealed'[op.s][k] = op.inline[k]
    BY <1>h, <1>2, <1>s
  <1>5. /\ op' \in Operation
        /\ answer' \in [kind : Replies, s : Streams, inline : Inline]
        /\ answer'.kind \in {"none", "error"}
        /\ \/ /\ op'.pc = IF op.rotation THEN "commit" ELSE "swap"
              /\ op'.s = op.s /\ op'.shape = op.shape /\ op'.inline = op.inline
              /\ op'.prev = op.prev /\ op'.rotation = op.rotation /\ op'.merged = op.merged
           \/ op'.pc = "idle"
    <2>1. CASE op' = [op EXCEPT !.pc = IF op.rotation THEN "commit" ELSE "swap"]
               /\ answer' = NoAnswer
      <3>1. (IF op.rotation THEN "commit" ELSE "swap") \in Steps
        BY DEF Steps
      <3> QED BY <1>0, <2>1, <3>1, OpTypes, NoAnswerTypes
    <2>2. CASE Fail
      BY <1>0, <2>2, FailTypes
    <2> QED BY <1>1, <2>1, <2>2
  <1>6. ApplyTypeOK'
    BY <1>0, <1>1, <1>v, <1>s, <1>5 DEF ApplyTypeOK
  <1>7. OpHolds'
    <2>1. CASE op'.pc = "idle"
      BY <2>1 DEF OpHolds
    <2>2. CASE op'.pc # "idle"
      <3>1. newest(op.s)' = newest(op.s) /\ Live' = Live /\ OnlyLive(op.prev)'
        BY <1>1, <1>5, <2>2, <1>h DEF newest, Live, OnlyLive
      <3>2. MergedHolds'
        BY <1>1, <1>5, <2>2, <1>h, SameMerged
      <3> QED BY <1>0, <1>1, <1>o, <1>h, <1>4, <1>5, <2>2, <3>1, <3>2 DEF OpHolds, Up
    <2> QED BY <2>1, <2>2
  <1>8. RunsLedger'
    <2>1. /\ lapses \subseteq lapses'
          /\ op'.pc \in {"idle", "commit"} \/ (op'.pc = "swap" /\ op'.prev = op.prev)
      BY <1>1, <1>5
    <2> QED BY <1>0, <1>1, <2>1, SameRuns
  <1>9. NamesRunning' /\ StagedHolds'
    BY <1>0, <1>1, <1>5, <1>h DEF ApplyInv, NamesRunning, StagedHolds, Up
  <1>10. VaultSealed'
    <2>1. "seal" \notin lapses => \A s \in Streams, k \in Slots :
              vault[s][k] # NoValue => sealed[s][k] = vault[s][k]
      BY <1>0 DEF ApplyInv, VaultSealed
    <2>2. ASSUME "seal" \notin lapses, NEW s \in Streams, NEW k \in Slots, vault'[s][k] # NoValue
          PROVE  sealed'[s][k] = vault'[s][k]
      <3>1. CASE s = op.s
        <4>1. k \notin gone /\ vault'[s][k] = vault[s][k]
          BY <1>v, <2>2, <3>1
        <4>2. sealed[s][k] = vault[s][k] /\ sealed[s][k] # NoValue
          BY <2>1, <2>2, <4>1
        <4>3. k \notin stale
          BY <1>3, <3>1, <4>1, <4>2
        <4> QED BY <1>s, <3>1, <4>1, <4>2, <4>3
      <3>2. CASE s # op.s
        BY <1>v, <1>s, <2>1, <2>2, <3>2
      <3> QED BY <3>1, <3>2
    <2> QED BY <1>1, <2>2 DEF VaultSealed
  <1>11. AnsweredIsSealed'
    BY <1>5, NothingClaimed
  <1> QED BY <1>1, <1>6, <1>7, <1>8, <1>9, <1>10, <1>11, SameLedger DEF ApplyInv

\* The swap runs the candidate or ends with an error.
LEMMA SwapKeeps ==
    ASSUME ApplyInv, Swap
    PROVE  ApplyInv'
  <1>0. ApplyTypeOK /\ op.pc = "swap" /\ proc = "up"
    BY DEF ApplyInv, Swap, Up
  <1>o. /\ op.s \in Streams /\ op.s \in Live /\ op.shape \in Shapes /\ op.inline \in Inline
        /\ op.rotation \in BOOLEAN /\ inst.api /\ op.prev \in Docs
    BY <1>0, OpTypes
  <1>h. /\ \A k \in Slots : op.inline[k] # NoValue =>
             k \in Needs[op.shape] /\ sealed[op.s][k] = op.inline[k]
        /\ ~op.rotation /\ newest(op.s) # op.shape
        /\ OnlyLive(op.prev) /\ op.prev = running /\ MergedHolds
    BY <1>0 DEF ApplyInv, OpHolds
  <1> DEFINE merged == op.merged
  <1>1. /\ inst' = inst /\ ledger' = ledger /\ file' = file /\ proc' = proc /\ sealed' = sealed
        /\ vault' = vault /\ identity' = identity /\ staged' = staged /\ lapses' = lapses
        /\ \/ running' = merged /\ op' = [op EXCEPT !.pc = "append"] /\ answer' = NoAnswer
           \/ running' = running /\ Fail
    BY DEF Swap, stores
  <1>m. /\ merged \in Docs /\ OnlyLive(merged) /\ merged[op.s] = op.shape
        /\ Follows(merged, Streams \ {op.s})
    BY <1>0, <1>h, OpTypes DEF MergedHolds
  <1> HIDE DEF merged
  <1>2. VaultSealed' /\ StagedHolds' /\ Live' = Live /\ \A t \in Streams : newest(t)' = newest(t)
    BY <1>1 DEF ApplyInv, VaultSealed, StagedHolds, Live, newest
  <1>3. CASE running' = running /\ Fail
    <2>1. /\ op' \in Operation /\ op'.pc = "idle" /\ answer'.kind = "error"
          /\ answer' \in [kind : Replies, s : Streams, inline : Inline]
      BY <1>0, <1>3, FailTypes
    <2>2. ApplyTypeOK'
      BY <1>0, <1>1, <1>3, <2>1 DEF ApplyTypeOK
    <2>3. OpHolds' /\ NamesRunning'
      BY <1>0, <1>1, <1>3, <2>1 DEF ApplyInv, OpHolds, NamesRunning, Up
    <2>4. RunsLedger'
      BY <1>0, <1>1, <1>3, <2>1, SameRuns
    <2> QED BY <1>1, <1>2, <2>1, <2>2, <2>3, <2>4, SameLedger, NothingClaimed DEF ApplyInv
  <1>4. CASE running' = merged /\ op' = [op EXCEPT !.pc = "append"] /\ answer' = NoAnswer
    <2>1. /\ op' \in Operation /\ op'.pc = "append" /\ op'.s = op.s /\ op'.shape = op.shape
          /\ op'.inline = op.inline /\ op'.prev = op.prev /\ op'.rotation = op.rotation
      BY <1>0, <1>4, OpTypes DEF Steps
    <2>2. ApplyTypeOK'
      BY <1>0, <1>1, <1>4, <1>m, <2>1, NoAnswerTypes DEF ApplyTypeOK
    <2>3. OnlyLive(op.prev)' /\ OnlyLive(running)' /\ newest(op.s)' = newest(op.s)
      BY <1>1, <1>2, <1>4, <1>h, <1>m, <2>1 DEF OnlyLive, newest
    <2>4. OpHolds'
      BY <1>0, <1>1, <1>2, <1>o, <1>h, <2>1, <2>3 DEF OpHolds, Up
    <2>5. RunsLedger'
      <3>1. inst.api /\ "restore" \notin lapses => Follows(op.prev, Streams)
        BY <1>0 DEF ApplyInv, RunsLedger, Up
      <3>2. "restore" \notin lapses => Follows(op.prev, Streams)'
        BY <1>1, <1>o, <2>1, <3>1 DEF Follows, Live, newest, HasRow
      <3>3. Follows(running, Streams \ {op.s})' /\ running'[op'.s] = op'.shape
        BY <1>1, <1>4, <1>m, <2>1 DEF Follows, Live, newest, HasRow
      <3> QED BY <1>0, <1>1, <2>1, <2>3, <3>2, <3>3 DEF RunsLedger, Up
    <2>6. NamesRunning'
      BY <1>0, <1>1, <1>h, <2>1 DEF ApplyInv, NamesRunning, Up
    <2> QED BY <1>0, <1>1, <1>2, <1>4, <2>2, <2>4, <2>5, <2>6, SameLedger, NothingClaimed, NoAnswerTypes
            DEF ApplyInv
  <1> QED BY <1>1, <1>3, <1>4

\* The row makes the running document the newest, under the identity of the one
\* before; without it the process owes a compensation.
LEMMA RecordAppliedKeeps ==
    ASSUME ApplyInv, RecordApplied
    PROVE  ApplyInv'
  <1>0. ApplyTypeOK /\ op.pc = "append" /\ proc = "up"
    BY DEF ApplyInv, RecordApplied, Up
  <1>o. /\ op.s \in Streams /\ op.s \in Live /\ op.shape \in Shapes /\ op.inline \in Inline
        /\ op.rotation \in BOOLEAN /\ inst.api /\ op.prev \in Docs
    BY <1>0, OpTypes
  <1>h. /\ \A k \in Slots : op.inline[k] # NoValue => sealed[op.s][k] = op.inline[k]
        /\ \A k \in Slots : op.inline[k] # NoValue => k \in Needs[op.shape]
        /\ ~op.rotation /\ newest(op.s) # op.shape
        /\ OnlyLive(op.prev)
    BY <1>0 DEF ApplyInv, OpHolds
  <1>r. /\ OnlyLive(running)
        /\ "restore" \notin lapses =>
             /\ Follows(running, Streams \ {op.s}) /\ running[op.s] = op.shape
             /\ Follows(op.prev, Streams)
    BY <1>0, <1>o DEF ApplyInv, RunsLedger, Up
  <1>1. /\ inst' = inst /\ file' = file /\ proc' = proc /\ sealed' = sealed /\ running' = running
        /\ vault' = vault /\ staged' = staged /\ lapses' = lapses
        /\ identity' = identity /\ answer' = NoAnswer
        /\ \/ /\ AppendRow(op.s, op.shape, "applied")
              /\ op' = [op EXCEPT !.pc = "commit"]
           \/ op' = [op EXCEPT !.pc = "restore"] /\ ledger' = ledger
    BY DEF RecordApplied, memory
  <1>2. VaultSealed' /\ StagedHolds' /\ Live' = Live /\ OnlyLive(running)'
    BY <1>1, <1>r DEF ApplyInv, VaultSealed, StagedHolds, Live, OnlyLive
  <1>3. CASE AppendRow(op.s, op.shape, "applied") /\ op' = [op EXCEPT !.pc = "commit"]
    <2>1. /\ ledger' \in [Streams -> Seq(Revision)]
          /\ \A t \in Streams \ {op.s} : ledger'[t] = ledger[t]
          /\ latest_applied_config_revision(ledger'[op.s]) = op.shape
          /\ ConsecutiveDiffer'
      BY <1>0, <1>o, <1>h, <1>3, OneMoreRow DEF ApplyInv
    <2>2. /\ op' \in Operation /\ op'.pc = "commit" /\ op'.s = op.s /\ op'.shape = op.shape
          /\ op'.inline = op.inline /\ op'.prev = op.prev /\ op'.rotation = op.rotation
      BY <1>0, <1>3, OpTypes DEF Steps
    <2>3. ApplyTypeOK'
      BY <1>0, <1>1, <2>1, <2>2, NoAnswerTypes DEF ApplyTypeOK
    <2>4. OpHolds'
      <3>1. newest(op.s)' = op.shape /\ OnlyLive(op.prev)'
        BY <1>2, <1>h, <2>1, <2>2 DEF newest, OnlyLive
      <3> QED BY <1>0, <1>1, <1>2, <1>o, <1>h, <2>2, <3>1 DEF OpHolds, Up
    <2>5. "restore" \notin lapses => Follows(running, Streams)'
      BY <1>1, <1>2, <1>r, <2>1 DEF Follows, newest, HasRow
    <2>6. RunsLedger'
      BY <1>0, <1>1, <1>2, <2>2, <2>5 DEF RunsLedger, Up
    <2>7. NamesRunning'
      BY <1>0, <1>1, <2>2 DEF ApplyInv, NamesRunning, Up
    <2> QED BY <1>0, <1>1, <1>2, <2>1, <2>3, <2>4, <2>6, <2>7, NothingClaimed, NoAnswerTypes
            DEF ApplyInv
  <1>4. CASE op' = [op EXCEPT !.pc = "restore"] /\ ledger' = ledger
    <2>1. /\ op' \in Operation /\ op'.pc = "restore" /\ op'.s = op.s /\ op'.shape = op.shape
          /\ op'.inline = op.inline /\ op'.prev = op.prev /\ op'.rotation = op.rotation
      BY <1>0, <1>4, OpTypes DEF Steps
    <2>2. ApplyTypeOK'
      BY <1>0, <1>1, <1>4, <2>1, NoAnswerTypes DEF ApplyTypeOK
    <2>3. OpHolds'
      BY <1>0, <1>1, <1>4, <2>1 DEF ApplyInv, OpHolds, Up, Live, newest, OnlyLive
    <2>4. RunsLedger'
      <3>1. "restore" \notin lapses =>
              /\ Follows(running, Streams \ {op.s})' /\ running'[op'.s] = op'.shape
              /\ Follows(op.prev, Streams)'
        BY <1>1, <1>2, <1>4, <1>r, <2>1 DEF Follows, newest, HasRow
      <3> QED BY <1>0, <1>1, <1>2, <2>1, <3>1 DEF RunsLedger, Up
    <2>5. NamesRunning'
      BY <1>0, <1>1, <1>4, <2>1 DEF ApplyInv, NamesRunning, Up
    <2> QED BY <1>0, <1>1, <1>2, <1>4, <2>2, <2>3, <2>4, <2>5, SameLedger, NothingClaimed, NoAnswerTypes
            DEF ApplyInv
  <1> QED BY <1>1, <1>3, <1>4

\* The identity follows the row, and what is answered is sealed.
LEMMA FinishKeeps ==
    ASSUME ApplyInv, Finish
    PROVE  ApplyInv'
  <1>0. ApplyTypeOK /\ op.pc = "commit" /\ proc = "up"
    BY DEF ApplyInv, Finish, Up
  <1>o. /\ op.s \in Streams /\ op.s \in Live /\ op.shape \in Shapes /\ op.inline \in Inline
        /\ inst.api
    BY <1>0, OpTypes
  <1>h. /\ \A k \in Slots : op.inline[k] # NoValue => sealed[op.s][k] = op.inline[k]
        /\ newest(op.s) = op.shape
    BY <1>0 DEF ApplyInv, OpHolds
  <1>r. running \in Docs /\ OnlyLive(running) /\ ("restore" \notin lapses => Follows(running, Streams))
    BY <1>0, <1>o DEF ApplyInv, ApplyTypeOK, RunsLedger, Up
  <1>1. /\ inst' = inst /\ ledger' = ledger /\ file' = file /\ proc' = proc /\ sealed' = sealed
        /\ vault' = vault /\ running' = running /\ staged' = staged /\ lapses' = lapses
        /\ identity' = Published(op.s, op.shape)
        /\ op' = Idle /\ Respond("applied", op.s, op.inline)
    BY DEF Finish, stores
  <1>2. op' \in Operation /\ op'.pc = "idle"
    BY <1>0, <1>1, InstanceTypes DEF Idle, Operation, Steps, Streams
  <1>3. /\ answer' \in [kind : Replies, s : Streams, inline : Inline]
        /\ answer'.s = op.s /\ answer'.inline = op.inline
    BY <1>1, <1>o DEF Respond, Replies
  <1>4. "restore" \notin lapses => running[op.s] = op.shape
    <2>1. HasRow(op.s) /\ op.s \in Streams \cap Live
      BY <1>o, <1>h, ConfigApplyAssumption DEF HasRow, newest
    <2> QED BY <1>h, <1>r, <2>1 DEF Follows
  <1>5. /\ identity' \in Docs \cup {NoIdentity}
        /\ "restore" \notin lapses => identity' \in {running, NoIdentity}
    BY <1>0, <1>o, <1>r, <1>1, <1>4, PublishedIsRunning
  <1>6. ApplyTypeOK'
    BY <1>0, <1>1, <1>2, <1>3, <1>5 DEF ApplyTypeOK
  <1>7. OpHolds' /\ StagedHolds' /\ VaultSealed' /\ AnsweredIsSealed'
    BY <1>1, <1>h, <1>2, <1>3
       DEF ApplyInv, OpHolds, StagedHolds, VaultSealed, AnsweredIsSealed, RotationKept
  <1>8. RunsLedger'
    <2>1. OnlyLive(running)' /\ ("restore" \notin lapses => Follows(running, Streams)')
      BY <1>1, <1>r DEF OnlyLive, Follows, Live, newest, HasRow
    <2> QED BY <1>0, <1>1, <1>2, <2>1 DEF RunsLedger, Up
  <1>9. NamesRunning'
    BY <1>0, <1>1, <1>2, <1>5 DEF NamesRunning, Up
  <1> QED BY <1>1, <1>6, <1>7, <1>8, <1>9, SameLedger DEF ApplyInv

\* The compensation brings back what ran, or is recorded as a lapse.
LEMMA RestoreKeeps ==
    ASSUME ApplyInv, Restore
    PROVE  ApplyInv'
  <1>0. ApplyTypeOK /\ op.pc = "restore" /\ proc = "up"
    BY DEF ApplyInv, Restore, Up
  <1>o. inst.api /\ op.prev \in Docs
    BY <1>0, OpTypes
  <1>1. /\ inst' = inst /\ ledger' = ledger /\ file' = file /\ proc' = proc /\ sealed' = sealed
        /\ vault' = vault /\ identity' = identity /\ staged' = staged /\ Fail
        /\ \/ running' = op.prev /\ lapses' = lapses
           \/ running' = running /\ lapses' = lapses \cup {"restore"}
    BY DEF Restore, stores
  <1>2. /\ op' \in Operation /\ op'.pc = "idle" /\ answer'.kind = "error"
        /\ answer' \in [kind : Replies, s : Streams, inline : Inline]
    BY <1>0, <1>1, FailTypes
  <1>3. ApplyTypeOK'
    BY <1>0, <1>1, <1>2, <1>o DEF ApplyTypeOK
  <1>4. OpHolds' /\ StagedHolds' /\ VaultSealed'
    BY <1>1, <1>2 DEF ApplyInv, OpHolds, StagedHolds, VaultSealed
  <1>5. RunsLedger'
    <2>1. /\ OnlyLive(running) /\ OnlyLive(op.prev)
          /\ "restore" \notin lapses => Follows(op.prev, Streams)
      BY <1>0, <1>o DEF ApplyInv, RunsLedger, OpHolds, Up
    <2>2. OnlyLive(running)'
      BY <1>1, <2>1 DEF OnlyLive, Live
    <2>3. "restore" \notin lapses' => Follows(running, Streams)'
      BY <1>1, <2>1 DEF Follows, Live, newest, HasRow
    <2> QED BY <1>0, <1>1, <1>2, <2>2, <2>3 DEF RunsLedger, Up
  <1>6. NamesRunning'
    BY <1>0, <1>1, <1>2 DEF ApplyInv, NamesRunning, Up
  <1> QED BY <1>1, <1>2, <1>3, <1>4, <1>5, <1>6, SameLedger, NothingClaimed DEF ApplyInv

----------------------------------------------------------------------------
(* Reloads.                                                                *)

\* A file read before the lock is only staged.
LEMMA ReloadReadKeeps ==
    ASSUME ApplyInv, ReloadRead
    PROVE  ApplyInv'
  <1>0. ApplyTypeOK
    BY DEF ApplyInv
  <1>1. /\ inst' = inst /\ ledger' = ledger /\ file' = file /\ proc' = proc /\ sealed' = sealed
        /\ vault' = vault /\ identity' = identity /\ running' = running /\ op' = op
        /\ lapses' = lapses /\ answer' = NoAnswer /\ staged' = file[Null]
        /\ proc = "up" /\ ~inst.orgs /\ file[Null] # NoShape
    BY DEF ReloadRead, stores, memory, Up
  <1>2. staged' \in Shapes
    BY <1>0, <1>1 DEF ApplyTypeOK, Docs, Streams
  <1>3. ApplyTypeOK'
    BY <1>0, <1>1, <1>2, NoAnswerTypes DEF ApplyTypeOK
  <1>4. StagedHolds' /\ VaultSealed' /\ NamesRunning'
    BY <1>1, <1>2 DEF ApplyInv, StagedHolds, VaultSealed, NamesRunning, Up
  <1>5. OpHolds'
    BY <1>1, SameOperation DEF ApplyInv
  <1>6. RunsLedger'
    BY <1>1 DEF ApplyInv, RunsLedger, Up, OnlyLive, Follows, Live, newest, HasRow
  <1> QED BY <1>0, <1>1, <1>3, <1>4, <1>5, <1>6, SameLedger, NothingClaimed, NoAnswerTypes DEF ApplyInv

\* A reload under the lock swaps in documents that follow the ledger, with the
\* identity that names them, or nothing.
LEMMA SwapInKeeps ==
    ASSUME ApplyInv, Free, NEW docs \in Docs, OnlyLive(docs), inst.api => Follows(docs, Streams),
           \/ SwapIn(docs)
           \/ Respond("conflict", Null, NoInline) /\ UNCHANGED <<running, bound, identity>>,
           UNCHANGED <<inst, stores, file, vault, proc, op, lapses>>,
           StagedHolds', staged' \in Shapes \cup {Nothing}
    PROVE  ApplyInv'
  <1>0. ApplyTypeOK /\ op.pc = "idle" /\ proc = "up"
    BY DEF ApplyInv, Free, Up
  <1>1. /\ inst' = inst /\ ledger' = ledger /\ file' = file /\ proc' = proc /\ sealed' = sealed
        /\ vault' = vault /\ op' = op /\ lapses' = lapses
    BY DEF stores
  <1>2. \E kind \in Replies : Respond(kind, Null, NoInline)
    BY DEF SwapIn, Replies
  <1>3. /\ answer' \in [kind : Replies, s : Streams, inline : Inline]
        /\ answer'.inline = NoInline
    BY <1>0, <1>2, InstanceTypes DEF Respond, Streams
  <1>4. \/ running' = docs /\ identity' = docs
        \/ running' = running /\ identity' = identity
    BY DEF SwapIn
  <1>5. ApplyTypeOK'
    BY <1>0, <1>1, <1>3, <1>4 DEF ApplyTypeOK
  <1>6. OpHolds' /\ NamesRunning' /\ VaultSealed'
    BY <1>0, <1>1, <1>4 DEF ApplyInv, OpHolds, NamesRunning, VaultSealed, Up
  <1>7. RunsLedger'
    <2>1. OnlyLive(running) /\ (inst.api /\ "restore" \notin lapses => Follows(running, Streams))
      BY <1>0 DEF ApplyInv, RunsLedger, Up
    <2>2. OnlyLive(running)'
      BY <1>1, <1>4, <2>1 DEF OnlyLive, Live
    <2>3. inst.api /\ "restore" \notin lapses => Follows(running, Streams)'
      BY <1>1, <1>4, <2>1 DEF Follows, Live, newest, HasRow
    <2> QED BY <1>0, <1>1, <2>2, <2>3 DEF RunsLedger, Up
  <1> QED BY <1>1, <1>3, <1>5, <1>6, <1>7, SameLedger, NothingClaimed DEF ApplyInv

\* Both kinds of reload swap in such documents: the staged file only where the
\* ledger has no row, the composition of every stream's authority otherwise.
LEMMA ReloadKeeps ==
    ASSUME ApplyInv, reload_document \/ reload_organizations
    PROVE  ApplyInv'
  <1>0. ApplyTypeOK
    BY DEF ApplyInv
  <1>1. CASE reload_organizations
    <2>1. /\ Free /\ SwapIn(compose_organizations)
          /\ UNCHANGED <<inst, stores, file, vault, proc, op, lapses>> /\ staged' = staged
      BY <1>1 DEF reload_organizations
    <2>2. /\ compose_organizations \in Docs /\ OnlyLive(compose_organizations)
          /\ inst.api => Follows(compose_organizations, Streams)
      BY <1>0, Composed
    <2>3. StagedHolds' /\ staged' \in Shapes \cup {Nothing}
      BY <1>0, <2>1 DEF ApplyInv, StagedHolds, ApplyTypeOK
    <2> QED BY <2>1, <2>2, <2>3, SwapInKeeps
  <1>2. CASE reload_document
    <2>1. /\ Free /\ staged # Nothing /\ staged' = Nothing
          /\ UNCHANGED <<inst, stores, file, vault, proc, op, lapses>>
      BY <1>2 DEF reload_document
    <2>2. ~inst.orgs /\ staged \in Shapes /\ Live = {Null} /\ Null \in Streams /\ NoDocs \in Docs
      BY <1>0, <2>1, InstanceTypes DEF ApplyInv, StagedHolds
    <2>3. StagedHolds' /\ staged' \in Shapes \cup {Nothing}
      BY <2>1 DEF StagedHolds
    <2>4. CASE ledger_is_bootable /\ HasRow(Null)
      <3>1. Respond("conflict", Null, NoInline) /\ UNCHANGED <<running, bound, identity>>
        BY <1>2, <2>4 DEF reload_document
      <3>2. /\ compose_organizations \in Docs /\ OnlyLive(compose_organizations)
            /\ inst.api => Follows(compose_organizations, Streams)
        BY <1>0, Composed
      <3> QED BY <2>1, <2>3, <3>1, <3>2, SwapInKeeps
    <2>5. CASE ~(ledger_is_bootable /\ HasRow(Null))
      <3> DEFINE docs == [NoDocs EXCEPT ![Null] = staged]
      <3>1. SwapIn(docs)
        BY <1>2, <2>5 DEF reload_document
      <3>2. docs \in Docs /\ \A t \in Streams \ {Null} : docs[t] = NoShape
        BY <2>2 DEF NoDocs, Docs
      <3> HIDE DEF docs
      <3>3. OnlyLive(docs) /\ (inst.api => Follows(docs, Streams))
        BY <2>2, <2>5, <3>2 DEF OnlyLive, Follows, ledger_is_bootable
      <3> QED BY <2>1, <2>3, <3>1, <3>2, <3>3, SwapInKeeps
    <2> QED BY <2>4, <2>5
  <1> QED BY <1>1, <1>2

----------------------------------------------------------------------------
(* The theorems.                                                           *)

\* An instance starts with an empty ledger and nothing running.
LEMMA ApplyInitHolds == ApplyInit => ApplyInv
  <1> SUFFICES ASSUME ApplyInit PROVE ApplyInv
    OBVIOUS
  <1>1. /\ inst \in Instances /\ file \in [Streams -> Seeds \cup {NoShape}]
        /\ ledger = [s \in Streams |-> <<>>] /\ sealed = NoSecrets /\ vault = NoSecrets
        /\ proc = "down" /\ running = NoDocs /\ identity = NoIdentity /\ op = Idle
        /\ staged = Nothing /\ answer = NoAnswer
    BY DEF ApplyInit
  <1>2. NoDocs \in Docs /\ NoSecrets \in Secrets /\ NoInline \in Inline
    BY DEF NoDocs, Docs, NoSecrets, Secrets, NoInline, Inline
  <1>3. file \in Docs
    BY <1>1, ConfigApplyAssumption DEF Docs
  <1>4. Idle \in Operation /\ Idle.pc = "idle" /\ NoAnswer.kind = "none"
        /\ NoAnswer \in [kind : Replies, s : Streams, inline : Inline]
    BY <1>2 DEF Idle, Operation, Steps, Streams, NoAnswer, Replies
  <1>5. ApplyTypeOK
    BY <1>1, <1>2, <1>3, <1>4 DEF ApplyTypeOK
  <1>6. ConsecutiveDiffer
    <2>1. \A s \in Streams : AppliedRows(ledger[s]) = {}
      BY <1>1 DEF AppliedRows
    <2> QED BY <2>1 DEF ConsecutiveDiffer
  <1>7. OpHolds /\ StagedHolds /\ NamesRunning /\ VaultSealed
    BY <1>1, <1>4 DEF OpHolds, StagedHolds, NamesRunning, VaultSealed, Up
  <1>8. RunsLedger
    BY <1>1 DEF RunsLedger, OnlyLive, NoDocs, Up
  <1>9. AnsweredIsSealed
    BY <1>1, <1>4 DEF AnsweredIsSealed, RotationKept
  <1> QED BY <1>5, <1>6, <1>7, <1>8, <1>9 DEF ApplyInv

\* One step per action of the process, its operators and its environment.
LEMMA ApplyNextKeeps == ApplyInv /\ [ApplyNext]_applyVars => ApplyInv'
  <1> SUFFICES ASSUME ApplyInv, [ApplyNext]_applyVars PROVE ApplyInv'
    OBVIOUS
  <1>1. CASE BootResolve
    BY <1>1, BootResolveKeeps
  <1>2. CASE BootServe
    BY <1>2, BootServeKeeps
  <1>3. CASE Crash
    BY <1>3, CrashKeeps
  <1>4. CASE EditFile
    BY <1>4, EditFileKeeps
  <1>5. CASE post_apply \/ post_org_apply \/ rollback
    BY <1>5, PushKeeps
  <1>6. CASE enforce_if_match
    BY <1>6, StaleTagKeeps
  <1>7. CASE upsert_app_secrets
    BY <1>7, UpsertKeeps
  <1>8. CASE prune_stale_app_secrets
    BY <1>8, PruneKeeps
  <1>9. CASE Swap
    BY <1>9, SwapKeeps
  <1>10. CASE RecordApplied
    BY <1>10, RecordAppliedKeeps
  <1>15. CASE Finish
    BY <1>15, FinishKeeps
  <1>11. CASE Restore
    BY <1>11, RestoreKeeps
  <1>12. CASE ReloadRead
    BY <1>12, ReloadReadKeeps
  <1>13. CASE reload_document \/ reload_organizations
    BY <1>13, ReloadKeeps
  <1>14. CASE UNCHANGED applyVars
    <2>1. /\ inst' = inst /\ ledger' = ledger /\ file' = file /\ sealed' = sealed /\ vault' = vault
          /\ proc' = proc /\ running' = running /\ identity' = identity /\ op' = op
          /\ staged' = staged /\ lapses' = lapses /\ answer' = answer
      BY <1>14 DEF applyVars
    <2>2. ApplyTypeOK' /\ StagedHolds' /\ VaultSealed' /\ AnsweredIsSealed'
      BY <2>1 DEF ApplyInv, ApplyTypeOK, StagedHolds, VaultSealed, AnsweredIsSealed, RotationKept
    <2>3. OpHolds'
      BY <2>1, SameOperation DEF ApplyInv
    <2>4. RunsLedger'
      BY <2>1 DEF ApplyInv, RunsLedger, Up, OnlyLive, Follows, Live, newest, HasRow
    <2>5. NamesRunning'
      <3>1. compose_organizations' = compose_organizations
        BY <2>1 DEF compose_organizations, Live, Authority, ledger_is_bootable, HasRow
      <3> QED BY <2>1, <3>1 DEF ApplyInv, NamesRunning, Up
    <2> QED BY <2>1, <2>2, <2>3, <2>4, <2>5, SameLedger DEF ApplyInv
  <1> QED BY <1>1, <1>2, <1>3, <1>4, <1>5, <1>6, <1>7, <1>8, <1>9, <1>10, <1>11, <1>12, <1>13, <1>14,
             <1>15
          DEF ApplyNext

\* What each step of an apply, a rollback, a reload and a boot leaves behind:
\* the types, the lock holder's knowledge, the documents that run, the identity
\* that names them and the vault, whichever statement fails and wherever the
\* process dies.
THEOREM ConfigInvariance == ApplySpec => []ApplyInv
  BY ApplyInitHolds, ApplyNextKeeps, PTL DEF ApplySpec

\* The applied rows are the history of what ran and the last of them runs, so a
\* rollback is an undo (record_attempt after apply_runtime, and the boot that
\* reads the ledger).
THEOREM LedgerAlwaysRules == ApplySpec => []LedgerIsHistory
  <1>1. ApplyInv => LedgerIsHistory
    <2> SUFFICES ASSUME ApplyInv PROVE LedgerRules
      BY DEF ApplyInv, LedgerIsHistory
    <2>1. Live \subseteq Streams
      BY InstanceTypes DEF ApplyInv
    <2>2. Free /\ "restore" \notin lapses /\ inst.api => Follows(running, Streams)
      BY DEF ApplyInv, RunsLedger, Free
    <2> QED BY <2>1, <2>2 DEF LedgerRules, Follows, newest, ledger_is_bootable
  <1> QED BY <1>1, ConfigInvariance, PTL

\* A reload skipped as unchanged skips nothing (effective_desired_sha against
\* the documents that run).
THEOREM IdentityAlwaysTruthful == ApplySpec => []IdentityTruthful
  <1>1. ApplyInv => IdentityTruthful
    BY DEF ApplyInv, NamesRunning, IdentityTruthful, Free
  <1> QED BY <1>1, ConfigInvariance, PTL

\* A rotation is never mistaken for a no-op: what an apply acknowledged with its
\* inline secrets is sealed (effective_secret_rotations and the order of
\* upsert_app_secrets, prune_stale_app_secrets and record_attempt).
THEOREM AcknowledgedSecretsAreSealed == ApplySpec => []AnsweredIsSealed
  <1>1. ApplyInv => AnsweredIsSealed
    BY DEF ApplyInv
  <1> QED BY <1>1, ConfigInvariance, PTL

=============================================================================
