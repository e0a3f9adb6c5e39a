------------------------------ MODULE Secrets ------------------------------
(***************************************************************************)
(* Where the secret of a notifier or a source lives while documents are    *)
(* read, edited and applied: masked on GET, restored from the running      *)
(* document on apply, moved into the vault under a generated name, and     *)
(* deleted from it when no document needs it (src/config_apply/redact.rs,  *)
(* src/config/secrets.rs).  A channel is a notifier or a source with one   *)
(* secret; sealing, the ledger and failures are the module ConfigApply.    *)
(***************************************************************************)
EXTENDS Naturals, Sequences, SequencesExt, FiniteSets

CONSTANTS
    Documents,   \* documents the instance may start with
    Templates,   \* [kind, name, tip] of channels an operator may add
    Labels,      \* names an operator may give a channel
    Values,      \* secrets
    Slug,        \* what auto_name keeps of a name, tip or value
    Careful,     \* do operators keep channels, and the names of secrets, apart?
    Environ,     \* variables of the process: env name -> value
    Forges,      \* the kinds that are sources
    Nothing,     \* no name, no tip, no secret
    MaxEdits,    \* bound: edits of the document on screen
    MaxApplies   \* bound: applies

VARIABLES
    document,    \* the running desired document: channels [kind, name, tip,
                 \* value, env] and, as history, owed: the secret typed for each
    vault,       \* app_secret and its cache: env name -> value
    screen,      \* the document being edited
    edits, applies

secretsVars == <<document, vault, screen, edits, applies>>

Blank    == ""
Redacted == "<redacted>"
NoEnv    == [kind |-> "none", of |-> Nothing, at |-> 0]

placeholder(value) == value \in {Blank, Redacted}

----------------------------------------------------------------------------
(* redact.rs: what GET /api/v1/config shows.                               *)

redact_config(doc) ==
    [i \in DOMAIN doc |->
        IF doc[i].value # Blank \/ doc[i].env # NoEnv
        THEN [doc[i] EXCEPT !.value = Redacted] ELSE doc[i]]

----------------------------------------------------------------------------
(* redact.rs: restore_redacted_secrets.                                    *)

\* Which channel of the running document the edited one is taken for.
same_channel(next, prev, doc) ==
    /\ next.kind = prev.kind
    /\ CASE next.kind = "webhook" ->
              \/ next.name # Nothing /\ next.name = prev.name
              \/ ~placeholder(next.value) /\ next.value = prev.value
              \/ placeholder(next.value) /\ next.name = Nothing
                 /\ Cardinality({i \in DOMAIN doc : doc[i].kind = "webhook"}) = 1
         [] next.kind = "slack" ->
              IF next.tip # Nothing THEN next.tip = prev.tip ELSE next.name = prev.name
         [] next.kind \in {"rabbitmq", "nats"} -> next.tip = prev.tip /\ next.name = prev.name
         [] OTHER -> next.tip = prev.tip

\* Mutant: references are not restored
Mut_restored(next, prev) ==
    IF placeholder(next.value) /\ ~placeholder(prev.value)
    THEN [next EXCEPT !.value = prev.value] ELSE next

\* The inline value, then the reference, then the mask of a reference is dropped.
restored(next, prev) ==
    LET value == IF placeholder(next.value) /\ ~placeholder(prev.value)
                 THEN prev.value ELSE next.value
        env == IF next.env = NoEnv THEN prev.env ELSE next.env IN
    [next EXCEPT !.value = IF env # NoEnv /\ placeholder(value) THEN Blank ELSE value, !.env = env]

\* The first channel that matches.
restore_redacted_secrets(previous, doc) ==
    [i \in DOMAIN doc |->
        LET matches == {j \in DOMAIN previous : same_channel(doc[i], previous[j], previous)} IN
        IF matches = {} THEN doc[i] ELSE restored(doc[i], previous[Min(matches)])]

----------------------------------------------------------------------------
(* secrets.rs: normalize_secrets_to_refs.                                  *)

notifier_stable_tip(c) ==
    IF c.kind # "webhook" THEN c.tip
    ELSE IF placeholder(c.value) THEN Nothing ELSE c.value

\* Generated names: a name, else an endpoint, else the place in the list; a
\* source's name does not say which forge it is on.
auto_name(c, i) ==
    CASE c.kind \in Forges -> [kind |-> "SRC", of |-> Slug[c.tip], at |-> 0]
      [] c.kind \notin Forges /\ c.name # Nothing -> [kind |-> c.kind, of |-> Slug[c.name], at |-> 0]
      [] c.kind \notin Forges /\ c.name = Nothing /\ notifier_stable_tip(c) # Nothing ->
            [kind |-> c.kind, of |-> Slug[notifier_stable_tip(c)], at |-> 0]
      [] OTHER -> [kind |-> c.kind, of |-> Nothing, at |-> i]

\* take_inline: neither nothing nor a mask is a secret.
takes(value) == ~placeholder(value)

env_of(c, i) == IF takes(c.value) /\ c.env = NoEnv THEN auto_name(c, i) ELSE c.env

\* The document with references only.
normalized(doc) ==
    [i \in DOMAIN doc |-> [doc[i] EXCEPT !.value = Blank, !.env = env_of(doc[i], i)]]

\* push_write: two channels under one name leave the last one's value.
secret_writes(doc) ==
    LET taken == {i \in DOMAIN doc : takes(doc[i].value)} IN
    [name \in {env_of(doc[i], i) : i \in taken} |->
        doc[Max({i \in taken : env_of(doc[i], i) = name})].value]

collect_secret_env_refs(doc) == {doc[i].env : i \in DOMAIN doc} \ {NoEnv}

\* Names the normalisation made; an operator's own names are left alone.
is_ui_managed_secret_name(name) == name.kind # "ops"

stale_ui_managed_secrets(previous, next) ==
    {n \in previous \ next : is_ui_managed_secret_name(n)}

\* resolve_secret over env_token: inline, the process environment, the vault.
resolve_secret(c) ==
    IF takes(c.value) THEN c.value
    ELSE IF c.env \in DOMAIN Environ THEN Environ[c.env]
    ELSE IF c.env \in DOMAIN vault THEN vault[c.env] ELSE Nothing

\* What careful operators see to before they apply: that no two channels look
\* the same once their secrets are masked, and that no secret is typed for a
\* channel under the name of another one's.
LookApart(doc) ==
    LET seen == redact_config(doc) IN
    \A i, j \in DOMAIN doc : i # j => ~same_channel(seen[i], seen[j], seen)

NamedApart(doc) ==
    \A i, j \in DOMAIN doc :
        i # j /\ takes(doc[i].value) => env_of(doc[i], i) # env_of(doc[j], j)

----------------------------------------------------------------------------
(* An operator edits the document and applies it.                          *)

\* A mask is no secret, and every channel and variable has a kind.  In a document
\* to start with a channel is owed its inline secret; one without has a variable
\* that is set, or is owed none.
ASSUME SecretsAssumption ==
    /\ \A v \in Values : takes(v)
    /\ \A t \in Templates : t.kind # "none"
    /\ \A e \in DOMAIN Environ : e.kind # "none"
    /\ "webhook" \notin Forges
    /\ \A doc \in Documents :
          /\ doc \in Seq(Range(doc))
          /\ \A i \in DOMAIN doc :
                /\ DOMAIN doc[i] = {"kind", "name", "tip", "value", "env", "owed"}
                /\ doc[i].kind # "none"
                /\ IF takes(doc[i].value) THEN doc[i].owed = doc[i].value
                   ELSE doc[i].env \in DOMAIN Environ \/ doc[i].owed = Nothing
          /\ Careful => LookApart(doc)

SecretsInit ==
    /\ document \in Documents
    /\ vault = [n \in {} |-> Blank]
    /\ screen = <<>>
    /\ edits = 0 /\ applies = 0

\* GET /api/v1/config into an editor.
Get ==
    /\ screen = <<>> /\ applies < MaxApplies
    /\ screen' = redact_config(document)
    /\ UNCHANGED <<document, vault, edits, applies>>

Edits ==
    /\ screen # <<>> /\ edits < MaxEdits /\ edits' = edits + 1
    /\ UNCHANGED <<document, vault, applies>>

\* A new secret is typed over the mask.
Retype(i, v) ==
    /\ Edits
    /\ screen' = [screen EXCEPT ![i].value = v, ![i].owed = v]

\* The client leaves out what is blank or masked, reference and all.
Leave(i) ==
    /\ Edits
    /\ screen[i].value = Redacted
    /\ screen' = [screen EXCEPT ![i].value = Blank, ![i].env = NoEnv]

Rename(i, label) ==
    /\ Edits
    /\ screen[i].kind \notin Forges \cup {"webhook", "rabbitmq", "nats"}
    /\ screen[i].kind = "slack" => screen[i].tip # Nothing
    /\ screen' = [screen EXCEPT ![i].name = label]

MoveUp(i) ==
    /\ Edits
    /\ i > 1
    /\ screen' = [screen EXCEPT ![i] = screen[i - 1], ![i - 1] = screen[i]]

Delete(i) ==
    /\ Edits
    /\ Len(screen) > 1
    /\ screen' = RemoveAt(screen, i)

\* A channel is added with its secret.
Add(t, v) ==
    /\ Edits
    /\ screen' = Append(screen, [kind |-> t.kind, name |-> t.name, tip |-> t.tip,
                                 value |-> v, env |-> NoEnv, owed |-> v])

\* Building the notifiers refuses one without its secret; a source does without.
builds(doc) ==
    \A i \in DOMAIN doc : doc[i].kind \in Forges \/ resolve_secret(doc[i]) # Nothing

\* POST /api/v1/config/apply: restore, normalise, build, seal, swap, prune.
Apply ==
    LET next == restore_redacted_secrets(document, screen)
        refs == normalized(next)
        writes == secret_writes(next)
        stale == stale_ui_managed_secrets(collect_secret_env_refs(document),
                                          collect_secret_env_refs(refs)) IN
    /\ screen # <<>> /\ builds(next)
    /\ Careful => LookApart(next) /\ NamedApart(next)
    /\ document' = refs
    /\ vault' = [n \in (DOMAIN vault \cup DOMAIN writes) \ stale |->
                    IF n \in DOMAIN writes THEN writes[n] ELSE vault[n]]
    /\ screen' = <<>> /\ applies' = applies + 1
    /\ UNCHANGED edits

SecretsNext ==
    \/ Get \/ Apply
    \/ \E i \in DOMAIN screen :
          \/ \E v \in Values : Retype(i, v)
          \/ Leave(i) \/ MoveUp(i) \/ Delete(i)
          \/ \E label \in Labels : Rename(i, label)
    \/ \E t \in Templates, v \in Values : Add(t, v)

SecretsSpec == SecretsInit /\ [][SecretsNext]_secretsVars

----------------------------------------------------------------------------
(* Properties.                                                             *)

\* Whatever sequence of reads, edits and applies careful operators make, every
\* channel ends up with the secret that was typed for it: restoring never takes
\* a neighbour's, normalising never overwrites one, and pruning never deletes
\* one that is in use.  The process environment wins over what is typed.
SecretFollows ==
    \A i \in DOMAIN document :
        document[i].env \notin DOMAIN Environ => resolve_secret(document[i]) = document[i].owed

\* Deleting a channel deletes its secret: after an apply the vault holds
\* nothing generated that the running document does not use.
NoOrphans ==
    applies > 0 => \A n \in DOMAIN vault :
        is_ui_managed_secret_name(n) => n \in collect_secret_env_refs(document)

\* SecretFollows and NoOrphans together: what the vault holds is what the
\* channels of the running document were given, no other secret and none left over.
SecretsStay == SecretFollows /\ NoOrphans

=============================================================================
