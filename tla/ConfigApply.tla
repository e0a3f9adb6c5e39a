----------------------------- MODULE ConfigApply -----------------------------
(***************************************************************************)
(* Pushed configuration: the config_revision ledger, the app_secret table, *)
(* the process vault, the hot-swapped runtime and the seed files           *)
(* (src/config_apply/mod.rs, src/store/postgres/config_revision.rs,        *)
(* src/store/postgres/app_secret.rs, src/api/config.rs,                    *)
(* src/api/organizations.rs, src/config/resolve.rs, src/engine.rs,         *)
(* src/runtime.rs).                                                        *)
(*                                                                         *)
(* A document is its refs-only body (a "shape") after restore and          *)
(* normalisation; the secrets it names are the slots in Needs[shape], one  *)
(* name per stream and slot.  Mutations hold AppState::apply_lock, so one  *)
(* operation is in flight; every statement or hot-swap of it is a step, and *)
(* reads, reloads that have not taken the lock, file edits and crashes come *)
(* between any two steps.  A client that drops its request between two steps *)
(* is Lifecycle's (its hot swap), not this module's.                       *)
(***************************************************************************)
EXTENDS Integers, Sequences, Functions, FiniteSetsExt

CONSTANTS
    Orgs,       \* the slugs of [[organizations]]
    Null,       \* the organization_id IS NULL stream of a single-document instance
    Shapes,     \* refs-only desired documents
    NoShape,    \* no document (EMPTY_ORGANIZATION_DOCUMENT, no seed file)
    Broken,     \* shapes that parse but that validate_full rejects
    Seeds,      \* shapes a seed file may hold; they name no sealed secret, and
                \* their bytes are never those serialize_desired_only_strict writes
    Slots,      \* secret positions (auto names) of one document
    Needs,      \* the slots each shape references
    Required,   \* slots whose sink cannot be built without a value
    Values,     \* secret values
    NoValue,    \* name not present
    NoIdentity, \* effective_desired_sha = None
    Instances,  \* [orgs, api, faults]: multi-org or not, source = "api" or
                \* "local", and what may go wrong
    MaxRows     \* bound on the rows of config_revision, by inst.orgs

\* A crash, a failing statement, or a file edited while the process boots.
Faults  == {"crash", "seal", "prune", "append", "record", "bootEdit"}
Streams == Orgs \cup {Null}
Docs    == [Streams -> Shapes \cup {NoShape}]
Secrets == [Streams -> [Slots -> Values \cup {NoValue}]]
Inline  == [Slots -> Values \cup {NoValue}]

ASSUME ConfigApplyAssumption ==
    /\ Null \notin Orgs
    /\ NoShape \notin Shapes
    /\ NoValue \notin Values
    /\ NoIdentity \notin Docs \cup Shapes \cup {NoShape}
    /\ Broken \subseteq Shapes
    /\ Seeds \subseteq Shapes
    /\ Needs \in [Shapes -> SUBSET Slots]
    /\ \A f \in Seeds : Needs[f] = {}
    /\ Required \subseteq Slots
    /\ Instances \subseteq [orgs : BOOLEAN, api : BOOLEAN, faults : SUBSET Faults]
    /\ MaxRows \in [BOOLEAN -> Nat]

VARIABLES
    inst,      \* bootstrap.toml: immutable for the life of the instance
    ledger,    \* config_revision, per stream, in id order
    file,      \* the app file of each stream
    sealed,    \* app_secret
    vault,     \* the process vault
    proc,      \* "down", "booting", "up" or "failed"
    running,   \* DesiredRuntime.effective, per stream
    bound,     \* the secret values the running sinks were built with
    identity,  \* DesiredRuntime.effective_desired_sha (the documents it names)
    op,        \* the apply or rollback that holds apply_lock
    staged,    \* the file content a reload has read before taking the lock
    lapses,    \* history of this process: "restore" when the compensation itself
               \* failed, "seal" when a seal did, "bootEdit" for that fault
    answer     \* the answer given by the last step, if it gave one

stores == <<ledger, sealed>>
memory == <<vault, running, bound, identity>>
applyVars == <<inst, ledger, file, sealed, vault, proc, running, bound, identity,
               op, staged, lapses, answer>>

NoDocs     == [s \in Streams |-> NoShape]
NoSecrets  == [s \in Streams |-> [k \in Slots |-> NoValue]]
NoInline   == [k \in Slots |-> NoValue]
NoAnswer   == [kind |-> "none", s |-> Null, inline |-> NoInline]
Nothing    == "nothing"
Idle       == [pc |-> "idle", s |-> Null, shape |-> NoShape, inline |-> NoInline,
               rotation |-> FALSE, merged |-> NoDocs, prev |-> NoDocs]

\* [config_api].source decides both whether pushes are taken and whether the
\* ledger is what the process boots from.
accepts_pushed_config == inst.api
ledger_is_bootable    == inst.api

Live == IF inst.orgs THEN Orgs ELSE {Null}
Up   == proc = "up"
Free == Up /\ op.pc = "idle"

----------------------------------------------------------------------------
(* The ledger and the authority of a stream.                               *)

\* stream_config_revision: WHERE status = 'applied' ORDER BY id DESC LIMIT 1,
\* and the one before it with OFFSET 1.
AppliedRows(rows) == {i \in DOMAIN rows : rows[i].status = "applied"}

latest_applied_config_revision(rows) ==
    LET a == AppliedRows(rows) IN IF a = {} THEN NoShape ELSE rows[Max(a)].shape

previous_applied_config_revision(rows) ==
    LET a == AppliedRows(rows) IN
    IF a = {} THEN NoShape
    ELSE latest_applied_config_revision(SubSeq(rows, 1, Max(a) - 1))

\* Room for one more row: a bound, not code.
RowsLeft == FoldFunctionOnSet(LAMBDA rows, n : Len(rows) + n, 0, ledger, Streams) < MaxRows[inst.orgs]

HasRow(s) == latest_applied_config_revision(ledger[s]) # NoShape

\* resolve / organization_desired_raw: the ledger when it is bootable and has
\* a row, the seed file otherwise.
Authority(s) ==
    IF ledger_is_bootable /\ HasRow(s) THEN latest_applied_config_revision(ledger[s])
    ELSE file[s]

\* compose_organizations, and the whole document of a single-document instance.
compose_organizations ==
    [s \in Streams |-> IF s \in Live THEN Authority(s) ELSE NoShape]

\* The candidate substituted in the composition of every stream's authority.
resolve_scoped_candidate(s, shape) == [compose_organizations EXCEPT ![s] = shape]

validate_full(docs) == \A s \in Streams : docs[s] \notin Broken

\* build_notifiers: a sink without its credential is Misconfigured.
Builds(docs, v) ==
    \A s \in Streams : docs[s] # NoShape =>
        \A k \in Needs[docs[s]] \cap Required : v[s][k] # NoValue

Bind(docs, v) ==
    [s \in Streams |-> [k \in Slots |->
        IF docs[s] # NoShape /\ k \in Needs[docs[s]] THEN v[s][k] ELSE NoValue]]

\* Mutant: an unchanged document is never a rotation
Mut_effective_secret_rotations(s, inline) == {}

\* effective_secret_rotations: writes that differ from the process vault.
effective_secret_rotations(s, inline) ==
    {k \in Slots : inline[k] # NoValue /\ inline[k] # vault[s][k]}

Write(table, s, inline) ==
    [table EXCEPT ![s] = [k \in Slots |->
        IF inline[k] # NoValue THEN inline[k] ELSE table[s][k]]]

Delete(table, s, names) ==
    [table EXCEPT ![s] = [k \in Slots |-> IF k \in names THEN NoValue ELSE table[s][k]]]

\* stale_ui_managed_secrets over previous_secret_env_refs: the names of the
\* running document (whole) or of the stream's authority (organization) that
\* the next one does not reference.
StaleNames(s, next, prev) ==
    LET old == IF inst.orgs THEN Authority(s) ELSE prev[s]
    IN  (IF old = NoShape THEN {} ELSE Needs[old]) \ Needs[next]

\* enforce_if_match compares with the running identity; post_org_apply with
\* the stream's authority.
CurrentTag(s) == IF inst.orgs THEN Authority(s)
                 ELSE IF identity = NoIdentity THEN NoIdentity ELSE identity[s]

----------------------------------------------------------------------------
(* Boot.                                                                   *)

ApplyInit ==
    /\ inst \in Instances
    /\ file \in [Streams -> Seeds \cup {NoShape}]
    /\ \A s \in Streams : s \notin Live => file[s] = NoShape
    /\ ~inst.api => \A s \in Live : file[s] # NoShape
    /\ ledger = [s \in Streams |-> <<>>]
    /\ sealed = NoSecrets /\ vault = NoSecrets
    /\ proc = "down" /\ running = NoDocs /\ bound = NoSecrets
    /\ identity = NoIdentity /\ op = Idle /\ staged = Nothing
    /\ lapses = {} /\ answer = NoAnswer

\* Runtime::new: load the vault, resolve the documents.
BootResolve ==
    /\ proc \in {"down", "failed"}
    /\ vault' = sealed
    /\ running' = compose_organizations
    /\ proc' = "booting"
    /\ lapses' = {}
    /\ answer' = NoAnswer
    /\ UNCHANGED <<inst, stores, file, bound, identity, op, staged>>

\* AppState::new reads the authority a second time, for the identity.
BootIdentity == compose_organizations

\* Runtime::serve: build the sinks or exit.
BootServe ==
    /\ proc = "booting"
    /\ IF Builds(running, vault)
       THEN /\ proc' = "up"
            /\ bound' = Bind(running, vault)
            /\ identity' = BootIdentity
            /\ UNCHANGED <<vault, running>>
       ELSE /\ proc' = "failed"
            /\ vault' = NoSecrets /\ running' = NoDocs
            /\ UNCHANGED <<bound, identity>>
    /\ answer' = NoAnswer
    /\ UNCHANGED <<inst, stores, file, op, staged, lapses>>

Crash ==
    /\ "crash" \in inst.faults
    /\ Up
    /\ proc' = "down"
    /\ vault' = NoSecrets /\ running' = NoDocs /\ bound' = NoSecrets
    /\ identity' = NoIdentity
    /\ op' = Idle /\ staged' = Nothing /\ answer' = NoAnswer
    /\ UNCHANGED <<inst, stores, file, lapses>>

EditFile ==
    /\ IF proc = "booting"
       THEN "bootEdit" \in inst.faults /\ lapses' = lapses \cup {"bootEdit"}
       ELSE UNCHANGED lapses
    /\ \E s \in Live, f \in Seeds : file[s] # NoShape /\ file' = [file EXCEPT ![s] = f]
    /\ answer' = NoAnswer
    /\ UNCHANGED <<inst, stores, memory, proc, op, staged>>

----------------------------------------------------------------------------
(* apply_document and rollback.                                            *)

Respond(kind, s, inline) == answer' = [kind |-> kind, s |-> s, inline |-> inline]

AppendRow(s, shape, status) ==
    ledger' = [ledger EXCEPT ![s] = Append(@, [shape |-> shape, status |-> status])]

\* The sha the ledger would record is the current row's.
IsCurrent(s, shape) == latest_applied_config_revision(ledger[s]) = shape

\* The decisions apply_document takes before its first write.
apply_document(s, shape, inline) ==
    LET unchanged == IsCurrent(s, shape)
        rotations == effective_secret_rotations(s, inline)
        merged    == resolve_scoped_candidate(s, shape)
    IN  \/ /\ unchanged /\ rotations = {}
           /\ Respond("unchanged", s, inline)
           /\ UNCHANGED <<op, ledger>>
        \/ /\ ~(unchanged /\ rotations = {}) /\ ~validate_full(merged)
           /\ \/ AppendRow(s, shape, "rejected") /\ Respond("rejected", s, inline)
              \/ "record" \in inst.faults /\ Respond("error", s, inline) /\ UNCHANGED ledger
           /\ UNCHANGED op
        \/ /\ ~(unchanged /\ rotations = {}) /\ validate_full(merged)
           /\ op' = [pc |-> "seal", s |-> s, shape |-> shape, inline |-> inline,
                     rotation |-> unchanged, merged |-> merged, prev |-> running]
           /\ answer' = NoAnswer
           /\ UNCHANGED ledger

\* A push without an If-Match header, or with one that names the current tag.
PushTo(streams) ==
    /\ Free /\ RowsLeft
    /\ \E s \in streams, shape \in Shapes \ Seeds, inline \in Inline :
        /\ \A k \in Slots : inline[k] # NoValue => k \in Needs[shape]
        /\ apply_document(s, shape, inline)
    /\ UNCHANGED <<inst, file, sealed, memory, proc, staged, lapses>>

\* require_single_document_mode; pushes need source = "api".
post_apply     == ~inst.orgs /\ accepts_pushed_config /\ PushTo({Null})
\* require_organization, require_pushes_accepted.
post_org_apply == inst.orgs /\ accepts_pushed_config /\ PushTo(Orgs)

\* check_if_match, under the lock: any other tag is refused.
enforce_if_match ==
    /\ Free /\ accepts_pushed_config
    /\ \E s \in Live, if_match \in Shapes :
        if_match # CurrentTag(s) /\ Respond("stale", s, NoInline)
    /\ UNCHANGED <<inst, stores, file, memory, proc, op, staged, lapses>>

\* rollback: re-apply the second-newest applied row, which carries references
\* and no values.
rollback ==
    /\ Free /\ accepts_pushed_config /\ RowsLeft
    /\ \E s \in Live :
        LET shape == previous_applied_config_revision(ledger[s]) IN
        /\ shape # NoShape
        /\ apply_document(s, shape, NoInline)
    /\ UNCHANGED <<inst, file, sealed, memory, proc, staged, lapses>>

Fail == /\ op' = Idle /\ Respond("error", op.s, op.inline)

\* upsert_app_secrets: the vault is refreshed row by row inside the
\* transaction, before it commits.
upsert_app_secrets ==
    /\ Up /\ op.pc = "seal"
    /\ vault' = Write(vault, op.s, op.inline)
    /\ \/ /\ sealed' = Write(sealed, op.s, op.inline)
          /\ op' = [op EXCEPT !.pc = "prune"]
          /\ answer' = NoAnswer
          /\ UNCHANGED lapses
       \/ /\ "seal" \in inst.faults
          /\ Fail
          /\ lapses' = lapses \cup {"seal"}
          /\ UNCHANGED sealed
    /\ UNCHANGED <<inst, ledger, file, proc, running, bound, identity, staged>>

\* Mutant: one organization's sha is published as the composed identity
MutPublished(s, shape) == [NoDocs EXCEPT ![s] = shape]

\* commit_effective publishes the applied document's sha.
commit_effective(s, shape) == [NoDocs EXCEPT ![s] = shape]
\* finish_org_apply drops the composed identity.
finish_org_apply == NoIdentity

Published(s, shape) ==
    IF inst.orgs THEN finish_org_apply ELSE commit_effective(s, shape)

\* prune_stale_app_secrets; a rotation of an unchanged document is neither
\* swapped nor appended.
prune_stale_app_secrets ==
    /\ Up /\ op.pc = "prune"
    /\ LET stale == StaleNames(op.s, op.shape, op.prev)
           kept  == {k \in stale : sealed[op.s][k] = NoValue} IN
       \/ /\ sealed' = Delete(sealed, op.s, stale)
          /\ vault'  = Delete(vault, op.s, stale \ kept)
          /\ op' = [op EXCEPT !.pc = IF op.rotation THEN "commit" ELSE "swap"]
          /\ answer' = NoAnswer
       \/ /\ "prune" \in inst.faults /\ stale # {}
          /\ vault' = Delete(vault, op.s, stale \ kept)
          /\ Fail /\ UNCHANGED sealed
    /\ UNCHANGED <<inst, ledger, file, proc, running, bound, identity, staged, lapses>>

\* AppState::apply_runtime of the documents merged before the first write:
\* nothing is touched unless the new sinks build.
Swap ==
    /\ Up /\ op.pc = "swap"
    /\ IF Builds(op.merged, vault)
       THEN /\ running' = op.merged /\ bound' = Bind(op.merged, vault)
            /\ op' = [op EXCEPT !.pc = "append"]
            /\ answer' = NoAnswer
       ELSE Fail /\ UNCHANGED <<running, bound>>
    /\ UNCHANGED <<inst, stores, file, vault, proc, identity, staged, lapses>>

\* record_attempt(applied); on failure the previous runtime is swapped back.
RecordApplied ==
    /\ Up /\ op.pc = "append"
    /\ answer' = NoAnswer
    /\ \/ /\ AppendRow(op.s, op.shape, "applied")
          /\ op' = [op EXCEPT !.pc = "commit"]
       \/ /\ "append" \in inst.faults
          /\ op' = [op EXCEPT !.pc = "restore"]
          /\ UNCHANGED ledger
    /\ UNCHANGED <<inst, sealed, file, memory, proc, staged, lapses>>

\* finish_apply and finish_org_apply: the identity follows the row, still under
\* the lock, and the apply is answered.
Finish ==
    /\ Up /\ op.pc = "commit"
    /\ identity' = Published(op.s, op.shape)
    /\ op' = Idle /\ Respond("applied", op.s, op.inline)
    /\ UNCHANGED <<inst, stores, file, vault, proc, running, bound, staged, lapses>>

\* Mutant: the failed append is reported, the new runtime kept
MutRestore ==
    /\ Up /\ op.pc = "restore"
    /\ Fail
    /\ UNCHANGED <<inst, stores, file, memory, proc, staged, lapses>>

\* The compensation: the previous configuration is built and swapped back.
Restore ==
    /\ Up /\ op.pc = "restore"
    /\ Fail
    /\ IF Builds(op.prev, vault)
       THEN running' = op.prev /\ bound' = Bind(op.prev, vault) /\ UNCHANGED lapses
       ELSE lapses' = lapses \cup {"restore"} /\ UNCHANGED <<running, bound>>
    /\ UNCHANGED <<inst, stores, file, vault, proc, identity, staged>>

----------------------------------------------------------------------------
(* reload_from_disk.                                                       *)

\* A single-document reload reads the file before it waits for the lock.
ReloadRead ==
    /\ Up /\ ~inst.orgs /\ staged = Nothing
    /\ file[Null] # NoShape
    /\ staged' = file[Null]
    /\ answer' = NoAnswer
    /\ UNCHANGED <<inst, stores, file, memory, proc, op, lapses>>

\* validate_full, then apply_runtime; the answer is the identity swapped in.
SwapIn(docs) ==
    IF docs = identity \/ ~validate_full(docs) \/ ~Builds(docs, vault)
    THEN /\ Respond(IF docs = identity THEN "unchanged" ELSE "error", Null, NoInline)
         /\ UNCHANGED <<running, bound, identity>>
    ELSE /\ running' = docs /\ bound' = Bind(docs, vault) /\ identity' = docs
         /\ Respond("applied", Null, NoInline)

reload_document ==
    /\ Free /\ staged # Nothing
    /\ IF ledger_is_bootable /\ HasRow(Null)
       THEN Respond("conflict", Null, NoInline) /\ UNCHANGED <<running, bound, identity>>
       ELSE SwapIn([NoDocs EXCEPT ![Null] = staged])
    /\ staged' = Nothing
    /\ UNCHANGED <<inst, stores, file, vault, proc, op, lapses>>

reload_organizations ==
    /\ Free /\ inst.orgs
    /\ SwapIn(compose_organizations)
    /\ UNCHANGED <<inst, stores, file, vault, proc, op, staged, lapses>>

ApplyNext ==
    \/ BootResolve \/ BootServe \/ Crash \/ EditFile
    \/ post_apply \/ post_org_apply \/ enforce_if_match \/ rollback
    \/ upsert_app_secrets \/ prune_stale_app_secrets \/ Swap
    \/ RecordApplied \/ Finish \/ Restore
    \/ ReloadRead \/ reload_document \/ reload_organizations

ApplySpec == ApplyInit /\ [][ApplyNext]_applyVars

----------------------------------------------------------------------------
(* Properties.                                                             *)

\* Whatever applies, rollbacks, reloads, failed appends and crashes went
\* before, once no operation is in flight the process runs the newest applied
\* row of every stream that has one, unless the compensation failed.
LedgerRules ==
    Free /\ "restore" \notin lapses /\ ledger_is_bootable =>
        \A s \in Live : HasRow(s) => running[s] = latest_applied_config_revision(ledger[s])

\* Two consecutive applied rows of a stream differ, which is what makes a
\* rollback an undo (rollback's doc comment).
ConsecutiveDiffer ==
    \A s \in Streams : LET a == AppliedRows(ledger[s]) IN
        \A i, j \in a : i < j /\ (\A k \in a : k <= i \/ j <= k) =>
            ledger[s][i].shape # ledger[s][j].shape

\* LedgerRules and ConsecutiveDiffer together: the applied rows of a stream are
\* the history of what ran, and the last of them is what runs (RecordApplied).
LedgerIsHistory == LedgerRules /\ ConsecutiveDiffer

\* The identity a reload compares with names the documents that run, so a
\* reload skipped as unchanged skips nothing (unless the file was edited
\* between the two reads of a boot, or a compensation failed).
IdentityTruthful ==
    Free /\ lapses \cap {"restore", "bootEdit"} = {} /\ identity # NoIdentity => identity = running

\* An apply answered as done or as a no-op has its inline secrets sealed: a
\* rotation is never mistaken for a no-op.
RotationKept ==
    answer.kind \in {"applied", "unchanged"} =>
        \A k \in Slots : answer.inline[k] # NoValue =>
            sealed[answer.s][k] = answer.inline[k]

\* RotationKept holds of a process none of whose seals has failed, whatever
\* else failed or crashed.
AnsweredIsSealed == "seal" \notin lapses => RotationKept

\* A crash during an apply heals: the next boot reloads the ledger and comes up.
BootConverges == proc # "failed"

\* An apply that was answered as applied is in force: the running sinks hold
\* the secrets it carried.
AppliedIsInForce ==
    answer.kind = "applied" =>
        \A k \in Slots : answer.inline[k] # NoValue =>
            bound[answer.s][k] = answer.inline[k]

=============================================================================
