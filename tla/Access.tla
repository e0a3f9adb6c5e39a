------------------------------- MODULE Access -------------------------------
(***************************************************************************)
(* What one management request is answered: who the caller is, the roles   *)
(* an OIDC token's groups resolve to, the router's layers and the checks   *)
(* of the handlers (src/api/auth.rs, role.rs, oidc.rs, mod.rs and          *)
(* organizations.rs).  Answers are status codes; 200 stands for reaching   *)
(* the handler's own work.                                                 *)
(***************************************************************************)
EXTENDS Naturals, FiniteSetsExt

CONSTANTS
    OrgIds,        \* organization ids a path or a group may name
    NoOrg,         \* the instance as a whole
    ServedConfigs, \* instance configurations, see Serves
    Callers        \* credentials a request may carry, see resolve_auth_principal

\* Roles are numbers in the order of the enum; 1 is the least.
AppRoles   == 1..3
RoleGrants == [role : AppRoles, org : OrgIds \cup {NoOrg}]

\* No bearer or one nobody issued, the API key; a session; an OIDC token.
Credentials ==
    [bearer : {"none", "junk", "key"}]
    \cup [bearer : {"session"}, current : BOOLEAN, role : AppRoles]
    \cup [bearer : {"oidc"}, scoped : BOOLEAN, groups : SUBSET RoleGrants]

ASSUME AccessAssumption ==
    /\ NoOrg \notin OrgIds /\ Callers \subseteq Credentials
    /\ ServedConfigs \subseteq
         [key : BOOLEAN, oidc : BOOLEAN, session : BOOLEAN, hmac : BOOLEAN, scope : BOOLEAN,
          routes : BOOLEAN, pushed : BOOLEAN, require_auth : BOOLEAN, fallback : AppRoles,
          orgs : SUBSET OrgIds]

VARIABLE call      \* the request and, once handled, its answer

accessVars == <<call>>

Viewer   == 1
Operator == 2
Admin    == 3

----------------------------------------------------------------------------
(* role.rs: groups are [role, org] after the alias lists are applied.      *)

\* The highest of the fallback and the bare aliases.
resolve_app_role(groups, fallback) ==
    Max({fallback} \cup {g.role : g \in {h \in groups : h.org = NoOrg}})

\* Mutant: a scoped alias counts everywhere
Mut_resolve_resolved_roles(groups, fallback) ==
    [global |-> Max({fallback} \cup {g.role : g \in groups}),
     per_org |-> [o \in OrgIds |-> 0]]

\* A scoped alias grants its role on one organization; 0 is no grant.
resolve_resolved_roles(groups, fallback) ==
    [global |-> resolve_app_role(groups, fallback),
     per_org |-> [o \in OrgIds |-> Max({0} \cup {g.role : g \in {h \in groups : h.org = o}})]]

for_org(roles, org) ==
    IF org = NoOrg THEN roles.global ELSE Max({roles.global, roles.per_org[org]})

----------------------------------------------------------------------------
(* auth.rs: the caller.                                                    *)

auth_configured(cfg) == cfg.key \/ cfg.oidc \/ cfg.session

\* The API key first, then a session, then an OIDC token; a session whose
\* epoch is over is refused outright, never tried as an OIDC token.
resolve_auth_principal(cfg, who) ==
    IF ~auth_configured(cfg) THEN [kind |-> "anonymous"]
    ELSE IF who.bearer = "key" /\ cfg.key THEN [kind |-> "key"]
    ELSE IF who.bearer = "session" /\ cfg.session
         THEN IF who.current THEN [kind |-> "local", role |-> who.role] ELSE [kind |-> "refused"]
    ELSE IF who.bearer = "oidc" /\ cfg.oidc
         THEN [kind |-> "oidc", scoped |-> who.scoped,
               roles |-> resolve_resolved_roles(who.groups, cfg.fallback)]
    ELSE [kind |-> "refused"]

\* Role on an organization; an anonymous caller has none and is let through.
role_for_org(principal, org) ==
    CASE principal.kind = "key" -> Admin
      [] principal.kind = "local" -> principal.role
      [] principal.kind = "oidc" -> for_org(principal.roles, org)

authorize_for_org(principal, minimum, org) ==
    principal.kind = "anonymous" \/ role_for_org(principal, org) >= minimum

\* apply_scope gates OIDC callers only; the body signature gates everyone.
require_config_apply_auth(cfg, principal, signed, org) ==
    IF ~cfg.routes THEN 404
    ELSE IF ~cfg.pushed THEN 409
    ELSE IF principal.kind = "refused" THEN 401
    ELSE IF ~authorize_for_org(principal, Admin, org) THEN 403
    ELSE IF principal.kind = "oidc" /\ cfg.scope /\ ~principal.scoped THEN 401
    ELSE IF cfg.hmac /\ ~signed THEN 401
    ELSE 200

\* An instance that pushes nothing in without any credential to ask for.
config_apply_auth_configured(cfg) == auth_configured(cfg) \/ cfg.hmac

\* Start-up: require_auth refuses an open API, the apply API always does.
Serves(cfg) ==
    /\ cfg.require_auth => auth_configured(cfg)
    /\ cfg.routes => config_apply_auth_configured(cfg)

----------------------------------------------------------------------------
(* mod.rs and organizations.rs: layer, then handler.                       *)

\* Mutant: an organization's routes sit under the operator layer too
MutLayer(route) ==
    IF route = "users" THEN Admin ELSE IF route = "read" THEN Viewer ELSE Operator

\* The role the router's layer asks for, instance-wide.
Layer(route) ==
    CASE route \in {"check", "requeue", "reload", "apply", "rollback"} -> Operator
      [] route = "users" -> Admin
      [] OTHER -> Viewer

\* Handlers check an organization that exists, and the role there.
Handler(cfg, principal, signed, route, org) ==
    CASE route \in {"apply", "rollback"} ->
           LET said == require_config_apply_auth(cfg, principal, signed, NoOrg) IN
           IF said = 200 /\ cfg.orgs # {} THEN 409 ELSE said
      [] route \in {"org_apply", "org_rollback"} ->
           IF org \notin cfg.orgs THEN 404
           ELSE require_config_apply_auth(cfg, principal, signed, org)
      [] route = "org_validate" ->
           IF org \notin cfg.orgs THEN 404
           ELSE IF authorize_for_org(principal, Operator, org) THEN 200 ELSE 403
      [] route = "org_read" -> IF org \notin cfg.orgs THEN 404 ELSE 200
      [] OTHER -> 200

Routes == {"read", "check", "requeue", "reload", "users", "apply", "rollback",
           "org_read", "org_validate", "org_apply", "org_rollback"}

\* Mounted only when the apply API is on.
Mounted(cfg, route) ==
    route \in {"apply", "rollback", "org_apply", "org_rollback"} => cfg.routes

router(cfg, who, signed, route, org) ==
    LET principal == resolve_auth_principal(cfg, who) IN
    IF ~Mounted(cfg, route) THEN 404
    ELSE IF principal.kind = "refused" THEN 401
    ELSE IF ~authorize_for_org(principal, Layer(route), NoOrg) THEN 403
    ELSE Handler(cfg, principal, signed, route, org)

----------------------------------------------------------------------------
(* One request.                                                            *)

\* Only some routes look at a signature of the body, or at an organization.
Matters(route, signed, org) ==
    /\ signed => route \in {"apply", "rollback", "org_apply", "org_rollback"}
    /\ route \notin {"org_read", "org_validate", "org_apply", "org_rollback"} =>
          org = CHOOSE o \in OrgIds : TRUE

AccessInit ==
    /\ \E cfg \in ServedConfigs, who \in Callers, route \in Routes, signed \in BOOLEAN,
          org \in OrgIds :
        /\ Serves(cfg) /\ Matters(route, signed, org)
        /\ call = [cfg |-> cfg, who |-> who, route |-> route, signed |-> signed, org |-> org,
                   answer |-> 0]

Answer ==
    /\ call.answer = 0
    /\ call' = [call EXCEPT !.answer =
                   router(call.cfg, call.who, call.signed, call.route, call.org)]

AccessNext == Answer

AccessSpec == AccessInit /\ [][AccessNext]_accessVars

----------------------------------------------------------------------------
(* Properties.                                                             *)

Handled == call.answer = 200

\* What the claims say, without the code's tables: the caller was granted at
\* least this role on the organization, or on the instance as a whole.
Granted(minimum, org) ==
    \/ call.who.bearer = "key" /\ call.cfg.key
    \/ call.who.bearer = "session" /\ call.cfg.session /\ call.who.current
       /\ call.who.role >= minimum
    \/ call.who.bearer = "oidc" /\ call.cfg.oidc
       /\ (call.cfg.fallback >= minimum
           \/ \E g \in call.who.groups : g.role >= minimum /\ g.org \in {org, NoOrg})

Scoped == {"org_validate", "org_apply", "org_rollback"}

\* A request that changes something is handled only for a caller whose claims
\* grant the role, and a grant on one organization opens nothing on another nor
\* on the instance; only an instance with no credentials at all lets everyone in.
OnlyTheGranted ==
    Handled /\ call.route \notin {"read", "org_read"} /\ auth_configured(call.cfg) =>
        CASE call.route \in {"users", "apply", "rollback"} -> Granted(Admin, NoOrg)
          [] call.route \in {"check", "requeue", "reload"} -> Granted(Operator, NoOrg)
          [] call.route = "org_validate" -> Granted(Operator, call.org)
          [] call.route \in {"org_apply", "org_rollback"} -> Granted(Admin, call.org)

\* The other direction: an administrator of an organization that exists can
\* change it whatever the role on the instance, and is not stopped by a layer.
OrgAdminsGetThrough ==
    call.answer = 403 /\ call.route \in Scoped => ~Granted(Admin, call.org)

\* One more group never turns a request that is handled into one that is not.
MoreGroupsNeverLess ==
    Handled /\ call.who.bearer = "oidc" =>
        \A role \in {Viewer, Operator, Admin}, org \in OrgIds \cup {NoOrg} :
            router(call.cfg, [call.who EXCEPT !.groups = @ \cup {[role |-> role, org |-> org]}],
                   call.signed, call.route, call.org) = 200

\* The apply API is never open to the world: without a credential it wants at
\* least the body's signature, whatever combination of settings an instance
\* was allowed to start with.
ApplyIsGuarded ==
    Handled /\ call.route \in {"apply", "rollback", "org_apply", "org_rollback"} =>
        \/ call.cfg.hmac /\ call.signed
        \/ call.who.bearer # "none"

\* The four rules above: who is let in by the layers and handlers of the router
\* is who was granted it, no fewer and no more.
RolesAreRespected ==
    OnlyTheGranted /\ OrgAdminsGetThrough /\ MoreGroupsNeverLess /\ ApplyIsGuarded

=============================================================================
