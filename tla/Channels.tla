------------------------------ MODULE Channels ------------------------------
(***************************************************************************)
(* From a [[notifiers]] entry to a channel: what validation demands of each*)
(* of the ten kinds (src/validate.rs), how a secret is looked up (inline,  *)
(* a named variable, a global one: src/config/notifiers.rs, config/mod.rs) *)
(* and what the constructors demand when the channels are built            *)
(* (src/notify).  The two happen at different times, an apply and a boot,  *)
(* and variables come and go in between.  A secret written inline is "",   *)
(* "<redacted>" (what an API answer leaves of it) or "inline"; a variable  *)
(* is "" or holds its own name.                                            *)
(***************************************************************************)
EXTENDS Naturals, Sequences

CONSTANTS
    Lists,      \* [[notifiers]] lists a document may hold
    Variables,  \* names of process variables and vault secrets
    MaxTurns    \* bound on the changes of a variable

Unset == ""
Mask  == "<redacted>"

\* Entries are of the ten kinds, and any name they give is one of the variables.
ASSUME ChannelsAssumption ==
    /\ Unset \notin Variables
    /\ \A list \in Lists : \A i \in DOMAIN list :
         /\ list[i].kind \in {"apprise", "webhook", "express", "novu", "slack", "telegram", "smtp",
                             "kafka", "nats", "rabbitmq"}
         /\ {list[i].named, list[i].second_env} \subseteq Variables \cup {Unset}

VARIABLES
    entries,    \* the [[notifiers]] of the document
    env,        \* name -> its value
    report,     \* "unchecked", "valid" or "invalid"
    globals,    \* the variables when it was checked
    sinks,      \* "none", "failed" or "built"
    secrets,    \* the credentials each entry was built with
    turns

channelsVars == <<entries, env, report, globals, sinks, secrets, turns>>

----------------------------------------------------------------------------
(* Looking a secret up.                                                    *)

env_token(name) == IF name \in Variables THEN env[name] ELSE Unset

sanitize_secret(value) == IF value = Mask THEN Unset ELSE value

FirstSet(a, b) == IF a # Unset THEN a ELSE b

resolve_channel_secret(inline, named, global) ==
    FirstSet(sanitize_secret(inline), FirstSet(env_token(named), env_token(global)))

\* Apprise has no global variable.
resolve_apprise_urls(entry) == resolve_channel_secret(entry.inline, entry.named, Unset)

Global(kind) ==
    CASE kind \in {"apprise", "webhook", "kafka"} -> Unset
      [] kind = "slack" -> "XRELEASE_SLACK_WEBHOOK_URL"
      [] OTHER -> "XRELEASE_" \o kind

Bot == "XRELEASE_SLACK_BOT_TOKEN"

credential(entry) == resolve_channel_secret(entry.inline, entry.named, Global(entry.kind))
bot(entry)        == resolve_channel_secret(entry.second, entry.second_env, Bot)

\* A webhook's headers are its second secret; without any it is built all the same.
resolve_webhook_headers(entry) == resolve_channel_secret(entry.second, entry.second_env, Unset)

credentials(entry) ==
    {credential(entry)} \cup CASE entry.kind = "slack"   -> {bot(entry)}
                               [] entry.kind = "webhook" -> {resolve_webhook_headers(entry)}
                               [] OTHER -> {}

----------------------------------------------------------------------------
(* validate.rs.                                                            *)

\* Mutant: whatever stands inline is enough
Mut_secret_present(value) == value # Unset

secret_present(value) == value \notin {Unset, Mask}

\* A named variable may be filled later; a global one has to be there.
secret_configured(inline, named, global) ==
    secret_present(inline) \/ named # Unset \/ env_token(global) # Unset

\* Apprise counts urls, masked ones too.
is_configured(entry) == entry.inline # Unset \/ entry.named # Unset \/ entry.config_key

\* `rest`: the other required fields are filled; `mode`: Telegram's parse mode
\* or Apprise's format is one of the known ones.
validate_notifier_entry(entry) ==
    LET has == secret_configured(entry.inline, entry.named, Global(entry.kind)) IN
    CASE entry.kind = "apprise"  -> is_configured(entry) /\ entry.mode /\ entry.rest
      [] entry.kind = "slack"    ->
           LET has_bot == secret_configured(entry.second, entry.second_env, Bot)
           IN  has # has_bot /\ (has_bot => entry.rest)
      [] entry.kind = "telegram" -> has /\ entry.rest /\ entry.mode
      [] entry.kind \in {"smtp", "kafka"} -> entry.rest
      [] entry.kind = "webhook"  -> has
      [] OTHER -> has /\ entry.rest

----------------------------------------------------------------------------
(* The constructors.  `parses`: addresses, header names and values are ones *)
(* the libraries take.                                                     *)

NewApprise(entry)  == entry.config_key \/ resolve_apprise_urls(entry) # Unset
NewWebhook(entry)  == credential(entry) # Unset /\ entry.parses
NewExpress(entry)  == credential(entry) # Unset /\ entry.rest
NewNovu(entry)     == credential(entry) # Unset /\ entry.rest
NewTelegram(entry) == credential(entry) # Unset /\ entry.rest /\ entry.mode
NewSmtp(entry)     == entry.rest /\ entry.parses
NewKafka(entry)    == entry.rest
NewNats(entry)     == credential(entry) # Unset /\ entry.rest
NewRabbitMq(entry) == credential(entry) # Unset /\ entry.rest

NewSlack(entry) ==
    /\ (credential(entry) # Unset) # (bot(entry) # Unset)
    /\ bot(entry) # Unset => entry.rest

build(entry) ==
    CASE entry.kind = "apprise"  -> NewApprise(entry)
      [] entry.kind = "webhook"  -> NewWebhook(entry)
      [] entry.kind = "express"  -> NewExpress(entry)
      [] entry.kind = "novu"     -> NewNovu(entry)
      [] entry.kind = "slack"    -> NewSlack(entry)
      [] entry.kind = "telegram" -> NewTelegram(entry)
      [] entry.kind = "smtp"     -> NewSmtp(entry)
      [] entry.kind = "kafka"    -> NewKafka(entry)
      [] entry.kind = "nats"     -> NewNats(entry)
      [] entry.kind = "rabbitmq" -> NewRabbitMq(entry)

----------------------------------------------------------------------------
ChannelsInit ==
    /\ entries \in Lists
    /\ env \in [Variables -> {Unset}]
    /\ report = "unchecked" /\ globals = env
    /\ sinks = "none" /\ secrets = <<>> /\ turns = 0

\* A variable is set or unset, a secret is sealed or pruned.
Turn(name) ==
    /\ turns < MaxTurns
    /\ env' = [env EXCEPT ![name] = IF @ = Unset THEN name ELSE Unset]
    /\ turns' = turns + 1
    /\ UNCHANGED <<entries, report, globals, sinks, secrets>>

ValidateEntries ==
    /\ report' = IF \A i \in DOMAIN entries : validate_notifier_entry(entries[i])
                 THEN "valid" ELSE "invalid"
    /\ globals' = env
    /\ UNCHANGED <<entries, env, sinks, secrets, turns>>

\* One channel that cannot be built leaves none.
build_notifiers ==
    /\ report = "valid"
    /\ IF \A i \in DOMAIN entries : build(entries[i])
       THEN sinks' = "built" /\ secrets' = [i \in DOMAIN entries |-> credentials(entries[i])]
       ELSE sinks' = "failed" /\ secrets' = <<>>
    /\ UNCHANGED <<entries, env, report, globals, turns>>

ChannelsNext == ValidateEntries \/ build_notifiers \/ \E name \in Variables : Turn(name)

ChannelsSpec == ChannelsInit /\ [][ChannelsNext]_channelsVars

----------------------------------------------------------------------------
Named(entry)    == {n \in {entry.named, entry.second_env} : n # Unset}
OwnNames        == UNION {Named(entries[i]) : i \in DOMAIN entries}
Globals         == {Bot} \cup {Global(entries[i].kind) : i \in DOMAIN entries}
OnlyMasks(entry) == entry.kind = "apprise" /\ entry.inline = Mask /\ entry.named = Unset

\* What was found valid can be built, now or at the next boot: as long as the
\* variables it names are there, the global ones are as they were, addresses
\* and headers parse, and Apprise was not left with masked urls alone.
ValidBuilds ==
    [][build_notifiers /\ sinks' = "failed" =>
          \/ \E name \in OwnNames : env[name] = Unset
          \/ \E name \in Globals \cap Variables : env[name] # globals[name]
          \/ \E i \in DOMAIN entries : ~entries[i].parses \/ OnlyMasks(entries[i])]_channelsVars

=============================================================================
