------------------------------ MODULE MCRules ------------------------------
(***************************************************************************)
(* Ten parts of the system that share no state in the model, checked in    *)
(* one run: a behaviour is a behaviour of the part in focus, and the       *)
(* others stay in an initial state.  The definitions with the prefix of a  *)
(* part give its constants their values.                                   *)
(***************************************************************************)
EXTENDS Accounts, Access, Ingress, Secrets, Tenants, Sinks, Channels, Startup,
        Catalogue, Advisories

CONSTANT Parts  \* the parts that come into focus

VARIABLE focus

----------------------------------------------------------------------------
(* Access: every setting and caller that the roles and guards tell apart.  *)

AccessConfigs ==
    {c \in [key : BOOLEAN, oidc : BOOLEAN, session : BOOLEAN, hmac : BOOLEAN, scope : BOOLEAN,
            routes : BOOLEAN, pushed : BOOLEAN, require_auth : {FALSE}, fallback : {1, 2},
            orgs : {{}, {"a"}}] :
        (c.scope => c.oidc) /\ (c.pushed => c.routes) /\ (c.fallback > 1 => c.oidc)}
AccessGrants  == [role : {2, 3}, org : {"a", NoOrg}]
AccessCallers ==
    {[bearer |-> b] : b \in {"none", "junk", "key"}}
    \cup [bearer : {"session"}, current : BOOLEAN, role : {1, 3}]
    \cup [bearer : {"oidc"}, scoped : BOOLEAN,
          groups : {g \in SUBSET AccessGrants : Cardinality(g) <= 1}]

(* Ingress: one delivery of every forge, a repeated id, a forged one, a    *)
(* draft, a branch push, and manual checks.                                *)

IngressBody(event, item, draft, repo, tags) ==
    [json |-> TRUE, event |-> event, item |-> item, draft |-> draft, repo |-> repo, tags |-> tags]
IngressPush(kind, id, good, bad, body) ==
    [kind |-> kind, id |-> id, good |-> good, bad |-> bad, body |-> body]
IngressWatchOf ==
    [w1 |-> [kind |-> "github", name |-> "A"], w2 |-> [kind |-> "github", name |-> "a"],
     w3 |-> [kind |-> "codeberg", name |-> "a"]]
IngressLower  == [x \in {"A", "a", "b", Missing} |-> IF x = "A" THEN "a" ELSE x]
IngressTags   == [w1 |-> {"v1"}, w2 |-> {"v1", "v2"}, w3 |-> {"v1"}]
IngressPushes ==
    LET published(draft, repo, tag) == IngressBody("published", TRUE, draft, repo, <<tag>>) IN
    {IngressPush("github", "d1", {"X-Hub-Signature-256"}, {}, published(FALSE, "A", "v1")),
     IngressPush("gitea", "d1", {"Bearer"}, {}, published(FALSE, "a", "v1")),
     IngressPush("gitea", "d2", {"Bearer"}, {"X-Webhook-Secret"}, published(FALSE, "a", "v1")),
     IngressPush("github", "d3", {"X-Hub-Signature-256"}, {}, published(TRUE, "a", "v1")),
     IngressPush("gitlab", "d4", {"X-Gitlab-Token"}, {},
                 IngressBody("release", TRUE, FALSE, "b", <<"v1">>)),
     IngressPush("bitbucket", "d5", {"X-Hub-Signature"}, {},
                 IngressBody("repo:push", TRUE, FALSE, "b", <<"branch", Missing>>)),
     IngressPush("docker", "d6", {"X-Webhook-Secret"}, {},
                 IngressBody("push", TRUE, FALSE, "a", <<>>)),
     IngressPush("generic", Missing, {"X-Webhook-Secret"}, {},
                 IngressBody("push", TRUE, FALSE, "w3", <<"v1">>)),
     [kind |-> "check", dry |-> FALSE], [kind |-> "check", dry |-> TRUE]}

(* Secrets: channels of one kind told apart by name or place only.         *)

SecretsChannel(kind, name, tip, value) ==
    [owed |-> value, kind |-> kind, name |-> name, tip |-> tip, value |-> value, env |-> NoEnv]
SecretsPlace(kind, name, tip) == [kind |-> kind, name |-> name, tip |-> tip]
SecretsToken     == [kind |-> "ops", of |-> "TOKEN", at |-> 0]
SecretsDocuments ==
    {<<SecretsChannel("smtp", "n1", "h1", "p1"), SecretsChannel("webhook", "n1", Nothing, "p2")>>,
     <<SecretsChannel("slack", Nothing, "h2", "p1"),
       [SecretsChannel("github", Nothing, "r1", Blank) EXCEPT !.env = SecretsToken, !.owed = "p1"]>>}
SecretsTemplates ==
    {SecretsPlace("smtp", "n1", "h3"), SecretsPlace("smtp", "n2", "h1"),
     SecretsPlace("slack", "n3", "h4"),
     SecretsPlace("webhook", Nothing, Nothing), SecretsPlace("nats", "n2", "h1"),
     SecretsPlace("gitlab", Nothing, "r2")}
SecretsSlug    == [x \in {"h1", "h2", "h3", "h4", "n1", "n2", "n3", "n4", "r1", "r2", "p1", "p2"} |-> x]
SecretsEnviron == [x \in {SecretsToken} |-> "p1"]
\* Two mailboxes of one server, saved from the form: neither has a name.
SecretsSharing ==
    {<<SecretsChannel("smtp", Nothing, "h1", "p1"), SecretsChannel("smtp", Nothing, "h1", "p2")>>}

(* Tenants: documents whose ids, tags, sinks and presets overlap.          *)

TenantsSource(kind, name, id, tag, preset, interval) ==
    [kind |-> kind, name |-> name, id |-> id, tag |-> tag, preset |-> preset,
     interval |-> interval, when |-> IF interval = 5 THEN "" ELSE "unset", pattern |-> "",
     at |-> <<"", 0>>]
TenantsPreset(tag, interval, pattern) ==
    [tag |-> tag, interval |-> interval, when |-> "unset", pattern |-> pattern]
TenantsBuiltin == [n \in {<<"semver">>} |-> TenantsPreset(<<>>, 0, "v1")]
TenantsSources ==
    {<<>>, <<TenantsSource("github", "r", <<>>, <<>>, <<>>, 0)>>,
     <<TenantsSource("github", "r", <<>>, <<"x">>, <<"p">>, 0)>>,
     <<TenantsSource("npm", "r", <<"n">>, <<>>, <<"p">>, 5),
       TenantsSource("codeberg", "r", <<>>, <<"x">>, <<"semver">>, 0)>>,
     <<TenantsSource("codeberg", "r", <<>>, <<"b", "x">>, <<>>, 0),
       TenantsSource("github", "q", <<>>, <<"x">>, <<>>, 0)>>,
     <<TenantsSource("codeberg", "r", <<>>, <<>>, <<>>, 0),
       TenantsSource("github", "r", <<>>, <<"x">>, <<>>, 0)>>,
     <<TenantsSource("github", "r", <<"a">>, <<"a">>, <<"b", "p">>, 0)>>}
TenantsSink(name, tags) == [name |-> name, tags |-> tags]
TenantsSinks ==
    {<<>>, <<TenantsSink("k1", {})>>, <<TenantsSink("k1", {<<"x">>})>>,
     <<TenantsSink("k1", {<<"x">>}), TenantsSink("k2", {})>>,
     <<TenantsSink("k1", {<<"b", "x">>}), TenantsSink("k2", {<<"x">>})>>}
TenantsPresets ==
    {[n \in {<<"p">>} |-> TenantsPreset(<<"x">>, 3, "v2")],
     [n \in {<<"p">>, <<"semver">>} |-> TenantsPreset(<<>>, 0, "v3")]}
TenantsCatalogue == <<"a", "b">>
TenantsDrafts ==
    [sources : TenantsSources, sinks : TenantsSinks, presets : TenantsPresets,
     interval : {2}, ops : {<<>>, <<"o">>}, when : {"unset", "daily"}]

(* Sinks: every kind alone, and a pair of teams.                           *)

SinksChannel(kind, tags, to, text) ==
    [kind |-> kind, tags |-> tags, to |-> to, text |-> text, markdown |-> (kind = "smtp")]
SinksEvent(source, title, body, url, tag) ==
    [source |-> source, title |-> title, body |-> body, url |-> url, tag |-> tag]
SinksSetups ==
    {<<SinksChannel(k, {}, "tag", {})>> :
        k \in {"slack", "telegram", "novu", "nats", "rabbitmq", "express"}}
    \cup {<<SinksChannel(k, {"x"}, "there", {})>> :
        k \in {"slack_webhook", "apprise", "smtp", "kafka", "webhook"}}
    \cup {<<SinksChannel("slack", {"x"}, "there", {"words", "tag"}),
            SinksChannel("webhook", {"y"}, "there", {})>>}
SinksNovu   == {<<SinksChannel("novu", {}, "there", {})>>}
SinksEvents ==
    {SinksEvent("digest", "2 new", "a,b", "", "x"), SinksEvent("digest", "2 new", "c,d", "", "x"),
     SinksEvent("s", "s: new", "", "u", "")}
SinksTest   == SinksEvent("test", "test", "t", "", "")

(* Channels: every kind complete, incomplete, masked, named or inline.     *)

ChannelsEntry(kind, inline, named) ==
    [kind |-> kind, inline |-> inline, named |-> named, second |-> "", second_env |-> "",
     config_key |-> FALSE, rest |-> TRUE, mode |-> TRUE, parses |-> TRUE]
ChannelsWhole ==
    {ChannelsEntry(k, i, n) :
        k \in {"apprise", "webhook", "express", "novu", "slack", "telegram", "smtp", "kafka",
               "nats", "rabbitmq"},
        i \in {"", "<redacted>", "inline"}, n \in {"", "OWN"}}
ChannelsOf(kinds) == {e \in ChannelsWhole : e.kind \in kinds}
ChannelsEntries ==
    ChannelsWhole
    \cup {[e EXCEPT !.rest = FALSE] : e \in ChannelsWhole}
    \cup {[e EXCEPT !.mode = FALSE] : e \in ChannelsOf({"telegram", "apprise"})}
    \cup {[e EXCEPT !.parses = FALSE] : e \in ChannelsOf({"smtp", "webhook"})}
    \cup {[e EXCEPT !.config_key = TRUE] : e \in ChannelsOf({"apprise"})}
    \cup {[e EXCEPT !.second = "<redacted>", !.second_env = "OWN", !.rest = r] :
             e \in ChannelsOf({"slack", "webhook"}), r \in BOOLEAN}
ChannelsVariables ==
    {"OWN", "XRELEASE_SLACK_WEBHOOK_URL", "XRELEASE_SLACK_BOT_TOKEN", "XRELEASE_novu",
     "XRELEASE_smtp"}
ChannelsLists ==
    {<<e>> : e \in ChannelsEntries}
    \cup {<<ChannelsEntry("slack", "", "OWN"), ChannelsEntry("novu", "inline", "")>>,
          <<ChannelsEntry("smtp", "", ""), ChannelsEntry("nats", "", "OWN")>>,
          <<[ChannelsEntry("slack", "", "") EXCEPT !.second = "inline"],
            ChannelsEntry("webhook", "", "XRELEASE_SLACK_WEBHOOK_URL")>>}

(* Startup: two binaries, one of the release before, on an empty or an old *)
(* database, with the settings that validate and serve read differently.   *)

StartupFile ==
    [postgres_url |-> "db", ssl_mode |-> "unset", ssl_root_cert |-> "unset", log |-> "info",
     listen |-> "addr", webhook_secret |-> "w", api_key |-> "unset", issuer |-> "unset",
     local_auth |-> TRUE, admin_username |-> "admin", admin_password |-> "unset",
     session_secret |-> "unset", require_auth |-> TRUE, source |-> "local", api_config |-> FALSE,
     ui_config |-> FALSE, rate_limit |-> 1, prune_interval |-> FALSE, prune_seen |-> FALSE,
     interval |-> 1]
StartupFiles ==
    {StartupFile,
     [StartupFile EXCEPT !.api_config = TRUE, !.source = "api", !.require_auth = FALSE]}
StartupEnvs ==
    {("api_key" :> "") @@ ("allow" :> "on") @@ ("hmac" :> "h"),
     ("log" :> "") @@ ("hmac" :> "h") @@ ("key" :> "k2"),
     ("session_secret" :> "s") @@ ("admin_password" :> "pw") @@ ("key" :> "k1"),
     ("api_key" :> "k") @@ ("ssl_mode" :> "verify-full") @@ ("ssl_root_cert" :> "missing"),
     ("issuer" :> "i") @@ ("key" :> "malformed"),
     ("postgres_url" :> "malformed")}
StartupDatabases ==
    {d \in [version : {0, 1}, dated : BOOLEAN, users : {0}, lock : {"free"}, lease : {"free"},
             secret : {[value |-> "", by |-> "none"]}] : d.version = 0 \/ d.dated}
StartupBinary == [p \in Procs |-> IF p = "p1" THEN 1 ELSE 2]
StartupKeyless == {"hmac" :> "h"}   \* for Api_key.cfg

(* Catalogue: 1 and 2 have no version, and dates do not follow the tags.   *)

CatalogueDates == (1 :> 2) @@ (2 :> 1) @@ (3 :> 3)

----------------------------------------------------------------------------
rulesVars == <<focus, accountsVars, accessVars, ingressVars, secretsVars, tenantsVars,
               sinksVars, channelsVars, startupVars, catalogueVars, advisoriesVars>>

\* What a part with several initial states starts in when it is out of focus.
Pinned ==
    /\ IF focus = "accounts" THEN TRUE
       ELSE users = ensure_bootstrap_admin(CHOOSE n \in Usernames : TRUE)
    /\ IF focus = "secrets" THEN TRUE ELSE document = CHOOSE d \in Documents : TRUE
    /\ IF focus = "sinks" THEN TRUE ELSE channels = CHOOSE s \in Setups : TRUE
    /\ IF focus = "channels" THEN TRUE ELSE entries = CHOOSE l \in Lists : TRUE
    /\ IF focus = "startup" THEN TRUE ELSE db = CHOOSE d \in Databases : TRUE
    /\ IF focus = "catalogue" THEN TRUE ELSE listing = None /\ shown = None
    /\ IF focus = "access" THEN TRUE ELSE call = [answer |-> 0]

Init ==
    /\ focus \in Parts
    /\ Pinned
    /\ AccountsInit /\ IngressInit /\ SecretsInit /\ TenantsInit /\ SinksInit
    /\ ChannelsInit /\ StartupInit /\ CatalogueInit
    /\ AdvisoriesInit /\ (focus # "advisories" => osv.up)
    /\ IF focus = "access" THEN AccessInit ELSE TRUE

OnlyOf(part) ==
    /\ focus = part
    /\ UNCHANGED focus
    /\ IF part = "accounts" THEN TRUE ELSE UNCHANGED accountsVars
    /\ IF part = "access" THEN TRUE ELSE UNCHANGED accessVars
    /\ IF part = "ingress" THEN TRUE ELSE UNCHANGED ingressVars
    /\ IF part = "secrets" THEN TRUE ELSE UNCHANGED secretsVars
    /\ IF part = "tenants" THEN TRUE ELSE UNCHANGED tenantsVars
    /\ IF part = "sinks" THEN TRUE ELSE UNCHANGED sinksVars
    /\ IF part = "channels" THEN TRUE ELSE UNCHANGED channelsVars
    /\ IF part = "startup" THEN TRUE ELSE UNCHANGED startupVars
    /\ IF part = "catalogue" THEN TRUE ELSE UNCHANGED catalogueVars
    /\ IF part = "advisories" THEN TRUE ELSE UNCHANGED advisoriesVars

Next ==
    \/ OnlyOf("accounts") /\ AccountsNext
    \/ OnlyOf("access") /\ AccessNext
    \/ OnlyOf("ingress") /\ IngressNext
    \/ OnlyOf("secrets") /\ SecretsNext
    \/ OnlyOf("tenants") /\ TenantsNext
    \/ OnlyOf("sinks") /\ SinksNext
    \/ OnlyOf("channels") /\ ChannelsNext
    \/ OnlyOf("startup") /\ StartupNext
    \/ OnlyOf("catalogue") /\ CatalogueNext
    \/ OnlyOf("advisories") /\ AdvisoriesNext

Spec == Init /\ [][Next]_rulesVars

=============================================================================
