------------------------------ MODULE Accounts ------------------------------
(***************************************************************************)
(* The user directory behind the API: password logins and their sessions,  *)
(* logout, the admin's user operations and the single sign-on sync         *)
(* (src/api/auth_routes.rs, src/api/auth.rs, src/api/session.rs,           *)
(* src/store/postgres/users.rs).                                           *)
(*                                                                         *)
(* Every SQL statement is a step: requests interleave between a SELECT and *)
(* the UPDATE or INSERT that rests on it.  Passwords, display names and    *)
(* times are left out; a role is its rank.                                 *)
(***************************************************************************)
EXTENDS Naturals, FiniteSetsExt

CONSTANTS
    Ids,       \* app_user.id, at most one row each (bound on the directory)
    Usernames,     \* usernames
    Subs,      \* OIDC subjects
    Emails,    \* addresses, compared without case by every statement
    Roles,     \* ranks of AppRole
    Calls,  \* requests in flight
    MaxVer,    \* bound on session_version
    MaxCalls,  \* bound on the requests that arrive
    Null

ASSUME AccountsAssumption ==
    /\ Ids \subseteq Nat /\ Ids # {}
    /\ Roles \subseteq 0 .. 2 /\ Roles # {}
    /\ MaxVer \in Nat /\ MaxCalls \in Nat
    /\ Null \notin Usernames \cup Subs \cup Emails

VARIABLES
    users,    \* the table app_user
    tokens,   \* session JWTs issued and not yet expired
    request,  \* what each request in flight has read and will do
    calls,    \* requests that have arrived
    revoked,  \* history: the sessions a logout has revoked
    proven,   \* history: <<id, subject>> adopted by a verified token of the address the
              \* account then had, which no admin has changed since
    pinned,   \* history: <<id, subject>> an admin has linked explicitly
    lapses    \* history: ids adopted on the strength of a row that had changed

accountsVars == <<users, tokens, request, calls, revoked, proven, pinned, lapses>>

NoUser  == [name |-> Null, sub |-> Null, email |-> Null, role |-> 0,
            source |-> "none", ver |-> 0]
Unused    == [pc |-> "idle"]
IsRow(i) == users[i].source # "none"

\* ensure_bootstrap_admin: an empty directory is seeded with one local admin
\* before the listener starts.
ensure_bootstrap_admin(name) ==
    [i \in Ids |-> IF i = Min(Ids)
                   THEN [NoUser EXCEPT !.name = name, !.role = Max(Roles), !.source = "local"]
                   ELSE NoUser]

AccountsInit ==
    /\ \E n \in Usernames : users = ensure_bootstrap_admin(n)
    /\ tokens = {} /\ revoked = {} /\ proven = {} /\ pinned = {} /\ lapses = {}
    /\ request = [r \in Calls |-> Unused] /\ calls = 0

\* A request arrives.
Arrives(r) == request[r] = Unused /\ calls < MaxCalls /\ calls' = calls + 1

Holds(r, what) == request' = [request EXCEPT ![r] = what]
Done(r)        == Holds(r, Unused)
Settles(r)     == Done(r) /\ UNCHANGED calls

----------------------------------------------------------------------------
(* The table.                                                              *)

get_user_by_username(n) == {i \in Ids : IsRow(i) /\ users[i].name = n}
get_user_by_oidc_sub(s) == {i \in Ids : IsRow(i) /\ users[i].sub = s}

\* The local row with this address that no subject is linked to; lowest id first.
find_linkable_local_user_by_email(e) ==
    LET rows == {i \in Ids : users[i].source = "local" /\ users[i].sub = Null
                             /\ users[i].email = e}
    IN {i \in rows : \A j \in rows : i <= j}

\* username TEXT UNIQUE, oidc_sub TEXT UNIQUE: NULLs do not collide.
MayHold(i, row) ==
    \A j \in Ids \ {i} :
        /\ row.name # Null => users[j].name # row.name
        /\ row.sub # Null => users[j].sub # row.sub

\* An UPDATE or INSERT that would break a constraint is an error: no change.
Write(i, row) == users' = IF MayHold(i, row) THEN [users EXCEPT ![i] = row] ELSE users

\* BIGSERIAL: the next id.
Insert(row) ==
    LET free == {i \in Ids : ~IsRow(i)} IN
    /\ free # {}
    /\ Write(Min(free), row)

coalesce(a, b) == IF a = Null THEN b ELSE a

----------------------------------------------------------------------------
(* Sessions.                                                               *)

\* Mutant: any session of an existing user is accepted
Mut_session_accepted(t) == IsRow(t.uid)

\* resolve_auth_principal: the token's ver must still be the row's.
session_accepted(t) == IsRow(t.uid) /\ users[t.uid].ver = t.ver

\* login reads the row and verifies the password ...
login(r, n) ==
    /\ Arrives(r)
    /\ \E i \in get_user_by_username(n) :
        /\ users[i].source = "local"
        /\ Holds(r, [pc |-> "issue", uid |-> i, role |-> users[i].role, ver |-> users[i].ver])
    /\ UNCHANGED <<users, tokens, revoked, proven, pinned, lapses>>

\* ... and signs what it read.
issue_session_token(r) ==
    /\ request[r].pc = "issue"
    /\ tokens' = tokens \cup {[uid |-> request[r].uid, role |-> request[r].role,
                               ver |-> request[r].ver]}
    /\ Settles(r)
    /\ UNCHANGED <<users, revoked, proven, pinned, lapses>>

\* validate_session_token rejects it from now on.
Expires(t) ==
    /\ t \in tokens
    /\ tokens' = tokens \ {t}
    /\ UNCHANGED <<users, request, calls, revoked, proven, pinned, lapses>>

\* logout resolves the caller, then bumps; other callers are a no-op.
logout(r, t) ==
    /\ Arrives(r)
    /\ t \in tokens /\ session_accepted(t)
    /\ Holds(r, [pc |-> "bump", uid |-> t.uid])
    /\ UNCHANGED <<users, tokens, revoked, proven, pinned, lapses>>

bump_session_version(r) ==
    /\ request[r].pc = "bump"
    /\ LET i == request[r].uid IN
       /\ users[i].ver < MaxVer
       /\ users' = [users EXCEPT ![i].ver = @ + 1]
       /\ revoked' = revoked \cup {t \in tokens : t.uid = i}
    /\ Settles(r)
    /\ UNCHANGED <<tokens, proven, pinned, lapses>>

----------------------------------------------------------------------------
(* The admin's operations.                                                 *)

\* create_user answers 409 for a name it finds, then hashes the password ...
create_user(r, n, e, role) ==
    /\ Arrives(r)
    /\ get_user_by_username(n) = {}
    /\ Holds(r, [pc |-> "insert", row |-> [NoUser EXCEPT !.name = n, !.email = e,
                                           !.role = role, !.source = "local"]])
    /\ UNCHANGED <<users, tokens, revoked, proven, pinned, lapses>>

\* ... and inserts.
insert_user(r) ==
    /\ request[r].pc = "insert"
    /\ Insert(request[r].row)
    /\ Settles(r)
    /\ UNCHANGED <<tokens, revoked, proven, pinned, lapses>>

\* link_user_oidc without a subject: is the address taken?
LinkEmail(r, i, e) ==
    /\ Arrives(r)
    /\ users[i].source = "local"
    /\ e # Null => \A j \in Ids \ {i} : users[j].email # e
    /\ Holds(r, [pc |-> "email", id |-> i, email |-> e])
    /\ UNCHANGED <<users, tokens, revoked, proven, pinned, lapses>>

LinksOfOthers(links, i) == {p \in links : p[1] # i}

\* Mutant: re-pointing an account leaves its subject linked
Mut_set_user_oidc_link_email(r) ==
    /\ request[r].pc = "email"
    /\ LET i == request[r].id
           moved == request[r].email = Null \/ request[r].email # users[i].email
       IN /\ users' = [users EXCEPT ![i].email = request[r].email]
          /\ pinned' = IF moved THEN LinksOfOthers(pinned, i) ELSE pinned
          /\ proven' = IF moved THEN LinksOfOthers(proven, i) ELSE proven
    /\ Settles(r)
    /\ UNCHANGED <<tokens, revoked, lapses>>

\* The subject was proven against the previous address: a change clears it.
set_user_oidc_link_email(r) ==
    /\ request[r].pc = "email"
    /\ LET i == request[r].id
           e == request[r].email
           moved == e = Null \/ e # users[i].email
       IN /\ users' = [users EXCEPT ![i].email = e, ![i].sub = IF moved THEN Null ELSE @]
          /\ pinned' = IF moved THEN LinksOfOthers(pinned, i) ELSE pinned
          /\ proven' = IF moved THEN LinksOfOthers(proven, i) ELSE proven
    /\ Settles(r)
    /\ UNCHANGED <<tokens, revoked, lapses>>

\* link_user_oidc with a subject (or an empty one, which unlinks): the owner is
\* looked up by the handler and again by the store; the second look decides.
LinkSub(r, i, s) ==
    /\ Arrives(r)
    /\ users[i].source = "local"
    /\ s # Null => get_user_by_oidc_sub(s) \subseteq {i}
    /\ Holds(r, [pc |-> "sub", id |-> i, sub |-> s])
    /\ UNCHANGED <<users, tokens, revoked, proven, pinned, lapses>>

link_user_oidc_sub(r) ==
    /\ request[r].pc = "sub"
    /\ LET i == request[r].id
           row == [users[i] EXCEPT !.sub = request[r].sub]
       IN /\ Write(i, row)
          /\ IF MayHold(i, row)
             THEN /\ pinned' = LinksOfOthers(pinned, i) \cup
                               ({<<i, request[r].sub>>} \ {<<i, Null>>})
                  /\ proven' = LinksOfOthers(proven, i)
             ELSE UNCHANGED <<pinned, proven>>
    /\ Settles(r)
    /\ UNCHANGED <<tokens, revoked, lapses>>

----------------------------------------------------------------------------
(* oidc_sync: upsert_oidc_user, statement by statement.                    *)

\* By subject, or on to the address.
oidc_sync(r, c) ==
    /\ Arrives(r)
    /\ IF get_user_by_oidc_sub(c.sub) # {}
       THEN \E i \in get_user_by_oidc_sub(c.sub) :
               Holds(r, [pc |-> "known", id |-> i, claims |-> c])
       ELSE Holds(r, [pc |-> "lookup", claims |-> c])
    /\ UNCHANGED <<users, tokens, revoked, proven, pinned, lapses>>

\* UPDATE ... WHERE id: the address (verified or not), the name and the role of
\* the claims, on the row as it is by now.
SyncKnown(r) ==
    /\ request[r].pc = "known"
    /\ LET i == request[r].id
           c == request[r].claims
       IN users' = [users EXCEPT ![i].email = coalesce(c.email, @), ![i].role = c.role]
    /\ Settles(r)
    /\ UNCHANGED <<tokens, revoked, proven, pinned, lapses>>

\* link_by_email: only a verified address may adopt a local account.
Linkable(c) ==
    IF ~c.verified \/ c.email = Null THEN {} ELSE find_linkable_local_user_by_email(c.email)

\* By address, else a new row if auto_create_users, else denied.
SyncLookup(r) ==
    /\ request[r].pc = "lookup"
    /\ LET c == request[r].claims IN
       IF Linkable(c) # {}
       THEN \E i \in Linkable(c) :
               Holds(r, [pc |-> "adopt", id |-> i, claims |-> c])
       ELSE Holds(r, [pc |-> "create", claims |-> c]) \/ Done(r)
    /\ UNCHANGED <<users, calls, tokens, revoked, proven, pinned, lapses>>

\* The row that was found by the address still has it, and no subject.
StillLinkable(i, e) == users[i].source = "local" /\ users[i].sub = Null /\ users[i].email = e

SyncAdopt(r) ==
    /\ request[r].pc = "adopt"
    /\ LET i == request[r].id
           c == request[r].claims
           row == [users[i] EXCEPT !.sub = c.sub, !.email = c.email, !.role = c.role]
           right == StillLinkable(i, c.email)
       IN /\ Write(i, row)
          /\ proven' = IF right /\ c.verified /\ MayHold(i, row)
                       THEN proven \cup {<<i, c.sub>>} ELSE proven
          /\ lapses' = IF right THEN lapses ELSE lapses \cup {i}
    /\ Settles(r)
    /\ UNCHANGED <<tokens, revoked, pinned>>

SyncCreate(r) ==
    /\ request[r].pc = "create"
    /\ LET c == request[r].claims IN
       Insert([NoUser EXCEPT !.sub = c.sub, !.email = c.email, !.role = c.role,
                             !.source = "oidc"])
    /\ Settles(r)
    /\ UNCHANGED <<tokens, revoked, proven, pinned, lapses>>

----------------------------------------------------------------------------
Claims == [sub : Subs, email : Emails \cup {Null}, verified : BOOLEAN, role : Roles]

AccountsNext ==
    \/ \E t \in tokens : Expires(t)
    \/ \E r \in Calls :
        \/ \E n \in Usernames :
            \/ login(r, n)
            \/ \E e \in Emails \cup {Null}, role \in Roles : create_user(r, n, e, role)
        \/ issue_session_token(r)
        \/ \E t \in tokens : logout(r, t)
        \/ bump_session_version(r) \/ insert_user(r)
        \/ \E i \in Ids :
            \/ \E e \in Emails \cup {Null} : LinkEmail(r, i, e)
            \/ \E s \in Subs \cup {Null} : LinkSub(r, i, s)
        \/ set_user_oidc_link_email(r) \/ link_user_oidc_sub(r)
        \/ \E c \in Claims : oidc_sync(r, c)
        \/ SyncKnown(r) \/ SyncLookup(r) \/ SyncAdopt(r) \/ SyncCreate(r)

AccountsSpec == AccountsInit /\ [][AccountsNext]_accountsVars

----------------------------------------------------------------------------
(* Properties.                                                             *)

\* A session that a logout has revoked is never accepted again, whatever
\* logins read the row before the bump and sign their token after it.
RevokedStaysOut == \A t \in revoked : ~session_accepted(t)

\* No two rows share a username or a subject, although create_user, the links
\* and the sync all look first and write later.
IdentitiesUnique ==
    \A i, j \in Ids :
        i # j => /\ users[i].name = users[j].name => users[i].name = Null
                 /\ users[i].sub = users[j].sub => users[i].sub = Null

\* A local account answers to a subject only if an admin linked that subject to
\* it, or the subject's provider vouched for the address the account had when it
\* was adopted; re-pointing or re-linking the account ends the old link.  (Later
\* logins of that subject may change the address, verified or not.)  The one
\* exception is an adoption whose UPDATE landed on a row that had been linked or
\* re-addressed since its SELECT.
LinkIsProven ==
    \A i \in Ids \ lapses :
        users[i].source = "local" /\ users[i].sub # Null =>
            <<i, users[i].sub>> \in pinned \cup proven

\* LinkIsProven and IdentitiesUnique together: at any time one name or subject
\* is one account, and the right one (create_user, upsert_oidc_user).
IdentityHolds == LinkIsProven /\ IdentitiesUnique

\* What the comment on session_version says: a role change bumps it, so a
\* session that is accepted carries the role its user has.
SessionRoleCurrent ==
    \A t \in tokens : session_accepted(t) => t.role = users[t.uid].role

=============================================================================
