------------------------------ MODULE Tenants ------------------------------
(***************************************************************************)
(* How the documents of several organizations become one running           *)
(* configuration: presets and defaults of a source, namespacing of ids,    *)
(* tags and presets, the merge in catalogue order, the validation of the   *)
(* result, and the routing of events to sinks (src/config/organizations.rs,*)
(* sources/mod.rs, sources/preset.rs, resolve.rs, mod.rs, src/validate.rs  *)
(* and notify/routing.rs).  A name is the sequence of its parts between    *)
(* "::", <<>> is an unset or blank one, 0 an unset interval, "unset" an    *)
(* unset delivery schedule and "" immediate delivery.  Left out: the ids of *)
(* the legacy forms package:... and registry:..., which preparation        *)
(* replaces by the default id; jitter and poll_on_startup, settled like the *)
(* interval; a blank preset name, which is an error; the [[teams]]         *)
(* catalogue; and the process-wide cap on upstream requests, the one       *)
(* setting of an organization that slows the polls of all.                 *)
(***************************************************************************)
EXTENDS Naturals, SequencesExt

CONSTANTS
    Catalogue,  \* the [[organizations]] of bootstrap.toml, in order
    Drafts,     \* documents an organization may be given
    Builtin,    \* built-in presets, by name
    MaxPushes   \* bound on the documents applied

VARIABLES
    held,       \* organization -> its document; NoDocument before the first apply
    merged,     \* the configuration the process runs
    pushes      \* documents applied so far

tenantsVars == <<held, merged, pushes>>

Tenant    == ToSet(Catalogue)
NoDocument     == [sources |-> <<>>, sinks |-> <<>>, presets |-> <<>>, interval |-> 1,
                   when |-> "unset", ops |-> <<>>]
Broadcast == <<"__org__">>
Own(name) == name # <<>>

\* Words, those of this module among them.
Word   == STRING \cup {"__org__", "alone", "unset", ""}
Name   == Seq(Word)
Preset == [tag : Name, interval : Nat, when : Word, pattern : Word]
Source == [kind : Word, name : Word, id : Name, tag : Name, preset : Name,
           interval : Nat, when : Word, pattern : Word, at : Word \X Nat]
Notifier == [name : Word, tags : SUBSET Name]

\* A preset has a name, and a document always has an interval.
Document(doc) ==
    /\ doc \in [sources : Seq(Source), sinks : Seq(Notifier),
                presets : {doc.presets}, interval : Nat \ {0}, when : Word, ops : Name]
    /\ doc.presets \in [DOMAIN doc.presets -> Preset]
    /\ DOMAIN doc.presets \subseteq Name \ {<<>>}

\* Ids in the catalogue are distinct, and one part each; so are the names of
\* the built-in presets.
ASSUME TenantsAssumption ==
    /\ Catalogue \in Seq(Word) \ {<<>>}
    /\ \A i, j \in DOMAIN Catalogue : Catalogue[i] = Catalogue[j] => i = j
    /\ Builtin \in [DOMAIN Builtin -> Preset]
    /\ \A name \in DOMAIN Builtin : name \in Name /\ Len(name) = 1
    /\ \A doc \in Drafts : Document(doc)

----------------------------------------------------------------------------
(* sources/preset.rs and sources/mod.rs: one source to one watch.          *)

effective_source_presets(user) ==
    [name \in DOMAIN user \cup DOMAIN Builtin |->
        IF name \in DOMAIN user THEN user[name] ELSE Builtin[name]]

OrElse(value, unset, fallback) == IF value = unset THEN fallback ELSE value

\* The source's own fields win over its preset's.
merge_into(preset, source) ==
    [source EXCEPT !.tag = OrElse(@, <<>>, preset.tag),
                   !.interval = OrElse(@, 0, preset.interval),
                   !.when = OrElse(@, "unset", preset.when),
                   !.pattern = OrElse(@, "", preset.pattern)]

Known(presets, source) == Own(source.preset) => source.preset \in DOMAIN presets

with_preset_resolved(presets, source) ==
    IF Own(source.preset) THEN merge_into(presets[source.preset], source) ELSE source

\* A source's "" opts out of the default schedule.
resolve_notify_schedule(common, doc) ==
    IF common.when = "unset" THEN OrElse(doc.when, "unset", "") ELSE common.when

own_id(source) == <<source.kind \o ":" \o source.name>>

into_watch(source, doc, presets) ==
    LET common == with_preset_resolved(presets, source) IN
    [id |-> OrElse(source.id, <<>>, own_id(source)),
     tag |-> common.tag, pattern |-> common.pattern,
     interval |-> OrElse(common.interval, 0, doc.interval),
     when |-> resolve_notify_schedule(common, doc), at |-> source.at]

Resolvable(doc) ==
    \A source \in ToSet(doc.sources) : Known(effective_source_presets(doc.presets), source)

to_watches(doc) ==
    {into_watch(source, doc, effective_source_presets(doc.presets)) : source \in ToSet(doc.sources)}

----------------------------------------------------------------------------
(* organizations.rs and prepare_organization_sources: one document's names *)
(* made its organization's.  `at` and `of` say where a source or a sink    *)
(* came from; no code reads them.                                          *)

\* Mutant: names stay as they are
Mut_namespace_scoped(org, value) == value

namespace_scoped(org, value) ==
    IF Len(value) > 1 /\ Head(value) = org THEN value ELSE <<org>> \o value

\* A Codeberg repository is named as a GitHub one.
default_source_id(source) ==
    <<(IF source.kind = "codeberg" THEN "github" ELSE source.kind) \o ":" \o source.name>>

bare_source_id(id) == IF Len(id) > 1 THEN Tail(id) ELSE id

\* Mutant: the schedule is left to the merged defaults
Mut_prepare_organization_sources(org, doc) ==
    [i \in DOMAIN doc.sources |->
        LET s == doc.sources[i] IN
        [s EXCEPT !.id = namespace_scoped(org, OrElse(bare_source_id(@), <<>>, default_source_id(s))),
                  !.tag = namespace_scoped(org, OrElse(@, <<>>, Broadcast)),
                  !.preset = IF @ \in DOMAIN doc.presets THEN namespace_scoped(org, @) ELSE @,
                  !.at = <<org, i>>]]

\* Schedule and tag are settled before the preset has its say.
prepare_organization_sources(org, doc) ==
    [i \in DOMAIN doc.sources |->
        LET s == doc.sources[i] IN
        [s EXCEPT !.id = namespace_scoped(org, OrElse(bare_source_id(@), <<>>, default_source_id(s))),
                  !.interval = OrElse(@, 0, doc.interval),
                  !.when = OrElse(@, "unset", doc.when),
                  !.tag = namespace_scoped(org, OrElse(@, <<>>, Broadcast)),
                  !.preset = IF @ \in DOMAIN doc.presets THEN namespace_scoped(org, @) ELSE @,
                  !.at = <<org, i>>]]

\* Every tag the organization's events can carry.
catch_all(org, doc) ==
    {namespace_scoped(org, tag) :
        tag \in {Broadcast} \cup {s.tag : s \in {t \in ToSet(doc.sources) : Own(t.tag)}}
                \cup (IF Own(doc.ops) THEN {doc.ops} ELSE {})}

namespaced_sinks(org, doc) ==
    [i \in DOMAIN doc.sinks |->
        [tags |-> IF doc.sinks[i].tags = {} THEN catch_all(org, doc)
                  ELSE {namespace_scoped(org, tag) : tag \in doc.sinks[i].tags},
         of |-> org, name |-> doc.sinks[i].name]]

namespaced_presets(org, doc) ==
    LET names == {namespace_scoped(org, name) : name \in DOMAIN doc.presets} IN
    [name \in names |->
        doc.presets[CHOOSE n \in DOMAIN doc.presets : namespace_scoped(org, n) = name]]

namespace_organization_desired(org, doc) ==
    [sources |-> prepare_organization_sources(org, doc),
     sinks |-> namespaced_sinks(org, doc),
     presets |-> namespaced_presets(org, doc),
     interval |-> doc.interval, when |-> doc.when,
     ops |-> IF Own(doc.ops) THEN namespace_scoped(org, doc.ops) ELSE <<>>]

\* resolve.rs: documents joined in catalogue order; the defaults are those of
\* the first organization, or nobody's while that one has no document.
compose_organizations(docs) ==
    LET each  == [i \in DOMAIN Catalogue |->
                    namespace_organization_desired(Catalogue[i], docs[Catalogue[i]])]
        names == UNION {DOMAIN each[i].presets : i \in DOMAIN each}
    IN  [sources |-> FlattenSeq([i \in DOMAIN each |-> each[i].sources]),
         sinks |-> FlattenSeq([i \in DOMAIN each |-> each[i].sinks]),
         presets |-> [n \in names |->
            each[Max({i \in DOMAIN each : n \in DOMAIN each[i].presets})].presets[n]],
         interval |-> each[1].interval, when |-> each[1].when, ops |-> each[1].ops]

----------------------------------------------------------------------------
(* notify/routing.rs and validate.rs.                                      *)

matches_routing_tags(tags, tag) == tags = {} \/ (Own(tag) /\ tag \in tags)

Audience(sinks, tag) == {k \in ToSet(sinks) : matches_routing_tags(k.tags, tag)}

SinkTags(doc) == UNION {k.tags : k \in ToSet(doc.sinks)}
Wildcard(doc) == \E k \in ToSet(doc.sinks) : k.tags = {}

EffectiveTag(doc, source) ==
    IF Known(effective_source_presets(doc.presets), source)
    THEN with_preset_resolved(effective_source_presets(doc.presets), source).tag
    ELSE source.tag

untagged(doc) ==
    {s.at : s \in {t \in ToSet(doc.sources) : ~Own(EffectiveTag(doc, t))}}

\* Mutant: only the operators' tag is looked at
Mut_unmatched(doc) ==
    IF Own(doc.ops) /\ ~Wildcard(doc) /\ doc.ops \notin SinkTags(doc) THEN {<<"ops">>} ELSE {}

\* Sources and the operators' tag, where no sink listens for them.
unmatched(doc) ==
    {s.at : s \in {t \in ToSet(doc.sources) : LET tag == EffectiveTag(doc, t) IN
                     Own(tag) /\ ~Wildcard(doc) /\ tag \notin SinkTags(doc)}}
    \cup (IF Own(doc.ops) /\ ~Wildcard(doc) /\ doc.ops \notin SinkTags(doc)
          THEN {<<"ops">>} ELSE {})

validate_team_routing(doc) ==
    [errors |-> IF doc.sinks # <<>> THEN unmatched(doc) ELSE {},
     warnings |-> (IF ~Wildcard(doc) /\ SinkTags(doc) # {} THEN untagged(doc) ELSE {})
                  \cup (IF doc.sinks = <<>> THEN unmatched(doc) ELSE {})]

\* A configuration without sinks only warns: it is authored step by step.
validate_notifiers(doc) ==
    [errors |-> {}, warnings |-> IF doc.sinks = <<>> THEN {<<"sinks">>} ELSE {}]

duplicate_ids(doc) ==
    \E a, b \in to_watches(doc) : a.at # b.at /\ a.id = b.id

validate_sources(doc) ==
    [errors |-> IF ~Resolvable(doc) THEN {<<"preset">>}
                ELSE IF duplicate_ids(doc) THEN {<<"id">>} ELSE {},
     warnings |-> IF doc.sources = <<>> THEN {<<"sources">>} ELSE {}]

validate_tenant(doc) ==
    LET parts == {validate_notifiers(doc), validate_team_routing(doc), validate_sources(doc)} IN
    [errors |-> UNION {p.errors : p \in parts}, warnings |-> UNION {p.warnings : p \in parts}]

----------------------------------------------------------------------------
\* Documents number their sources; a document on its own is a configuration.
Alone(doc) == [doc EXCEPT !.sources = [i \in DOMAIN @ |-> [@[i] EXCEPT !.at = <<"alone", i>>]]]

TenantsInit ==
    /\ held = [org \in Tenant |-> Alone(NoDocument)]
    /\ merged = compose_organizations(held)
    /\ pushes = 0

\* A document for one organization, composed with the others' as they are
\* held; what does not validate changes nothing.
PushDocument(org, doc) ==
    LET docs == [held EXCEPT ![org] = Alone(doc)] IN
    /\ pushes < MaxPushes
    /\ validate_tenant(compose_organizations(docs)).errors = {}
    /\ held' = docs
    /\ merged' = compose_organizations(docs)
    /\ pushes' = pushes + 1

TenantsNext == \E org \in Tenant, doc \in Drafts : PushDocument(org, doc)

TenantsSpec == TenantsInit /\ [][TenantsNext]_tenantsVars

----------------------------------------------------------------------------
Watched == to_watches(merged)
OwnerOf(watch) == watch.at[1]

NamesItself(org, doc) ==
    \E s \in ToSet(doc.sources) :
        \E name \in {s.id, default_source_id(s), s.tag, Broadcast} :
            org \in ToSet(bare_source_id(name))

\* Every watch carries its organization's name in its id and its tag, and
\* carries it once unless the document uses that name for something else.
NamedOnce ==
    \A w \in Watched :
        /\ Head(w.id) = OwnerOf(w) /\ Head(w.tag) = OwnerOf(w)
        /\ ~NamesItself(OwnerOf(w), held[OwnerOf(w)]) =>
             Head(Tail(w.id)) # OwnerOf(w) /\ Head(Tail(w.tag)) # OwnerOf(w)
        /\ w.interval > 0

\* A sink never hears of another organization's sources.
Isolation ==
    \A w \in Watched : \A k \in Audience(merged.sinks, w.tag) : k.of = OwnerOf(w)

NamesOf(sinks) == {k.name : k \in sinks}

SameAsAlone(org, i, fields) ==
    LET doc   == held[org]
        own   == CHOOSE w \in to_watches(doc) : w.at = <<"alone", i>>
        here  == CHOOSE w \in Watched : w.at = <<org, i>>
    IN  /\ here.pattern = own.pattern
        /\ "interval" \in fields => here.interval = own.interval
        /\ "when" \in fields => here.when = own.when
        /\ "tag" \in fields =>
              NamesOf(Audience(merged.sinks, here.tag)) = NamesOf(Audience(doc.sinks, own.tag))

PresetOf(org, i) ==
    with_preset_resolved(effective_source_presets(held[org].presets),
                         [held[org].sources[i] EXCEPT !.tag = <<>>, !.interval = 0, !.when = "unset"])

\* Fields a source leaves to its preset are lost in the merge, and so is the
\* immediate delivery of a document without a schedule when the first
\* organization of the catalogue has one.
Kept(org, i) ==
    LET s == held[org].sources[i] IN
    {f \in {"interval", "tag", "when"} :
        \/ f = "interval" /\ (s.interval # 0 \/ PresetOf(org, i).interval = 0)
        \/ f = "tag" /\ (Own(s.tag) \/ ~Own(PresetOf(org, i).tag))
        \/ f = "when" /\ \/ s.when # "unset"
                         \/ held[org].when # "unset" /\ PresetOf(org, i).when = "unset"}

\* Names that already carry the organization's prefix are left as they are,
\* and the tag that stands for all of it is nobody's alone.
KnowsTheMerge(org, doc) ==
    \/ Broadcast \in SinkTags(doc)
    \/ \E name \in SinkTags(doc) \cup {s.tag : s \in ToSet(doc.sources)}
                    \cup DOMAIN doc.presets :
          Len(name) > 1 /\ Head(name) = org

\* A document means beside others what it means alone: same schedule, same
\* filter and the same sinks for every source, except for a schedule or a
\* tag that the source takes from a preset, and for a schedule nobody set.
MeansTheSame ==
    \A org \in Tenant : Resolvable(held[org]) /\ ~KnowsTheMerge(org, held[org]) =>
        \A i \in DOMAIN held[org].sources : SameAsAlone(org, i, Kept(org, i))

\* The promise of organizations.rs: "The transformation must preserve the
\* document's STANDALONE semantics".
StandaloneSemantics ==
    \A org \in Tenant : Resolvable(held[org]) /\ ~KnowsTheMerge(org, held[org]) =>
        \A i \in DOMAIN held[org].sources : SameAsAlone(org, i, {"interval", "tag", "when"})

\* A source names a preset that only another organization declares, by the
\* name it has in the merged configuration.
Borrows(org, docs) ==
    \E s \in ToSet(docs[org].sources) :
        /\ s.preset \notin DOMAIN docs[org].presets
        /\ \E other \in Tenant \ {org} :
              s.preset \in DOMAIN namespaced_presets(other, docs[other])

\* The promise of prepare_organization_sources: "a reference to a name
\* defined in a DIFFERENT org now fails resolution instead of silently
\* borrowing it".
PresetsStayHome == \A org \in Tenant : ~Borrows(org, held)

\* An organization's document changes nothing for the others: their watches
\* and who hears of each stay as they were.  Delivery schedules are compared
\* for organizations that have one, the others inherit the first one's, and
\* organizations that borrow another's preset have to bear its changes.  (What
\* all of them share by design is outside: the process-wide cap of requests
\* per minute that the merge adds up, and the pool of workers.)
Of(org, doc, watches) ==
    {[w EXCEPT !.when = IF doc.when = "unset" THEN "" ELSE @] :
        w \in {x \in watches : OwnerOf(x) = org}}
OthersUnaffected ==
    [][\A org \in Tenant :
            held'[org] = held[org] /\ ~Borrows(org, held) /\ ~Borrows(org, held') =>
          /\ Of(org, held[org], Watched') = Of(org, held[org], Watched)
          /\ \A w \in Of(org, held[org], Watched) :
                Audience(merged.sinks, w.tag)' = Audience(merged.sinks, w.tag)]_tenantsVars

\* What validates without an error or a warning reaches somebody, for the
\* configuration that runs and for each document as `xrelease validate`
\* would see it alone.
Quiet(doc) == validate_tenant(doc).errors = {} /\ validate_tenant(doc).warnings = {}
NothingGoesUnheard ==
    \A doc \in {merged} \cup {held[org] : org \in Tenant} :
        Quiet(doc) => \A w \in to_watches(doc) : Audience(doc.sinks, w.tag) # {}

\* NamedOnce and the rules above at once: the merged configuration keeps the
\* organizations apart and each of them whole (namespace_organization_desired).
TenantsApart == NamedOnce /\ Isolation /\ MeansTheSame /\ NothingGoesUnheard

=============================================================================
