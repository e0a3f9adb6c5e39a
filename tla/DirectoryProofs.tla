--------------------------- MODULE DirectoryProofs ---------------------------
(***************************************************************************)
(* Theorems about who an installation serves: the user directory, for any  *)
(* number of rows, requests, logins and single sign-on subjects, and the   *)
(* organizations of its catalogue, for any number of them and any          *)
(* documents they are given.                                               *)
(***************************************************************************)
EXTENDS Accounts, Tenants, WellFoundedInduction, TLAPS

----------------------------------------------------------------------------
\* A set of numbers has a least one.
LEMMA LeastOf ==
    ASSUME NEW S \in SUBSET Nat, S # {}
    PROVE  \E n \in S : \A m \in S : n <= m
  <1> DEFINE Less == {s \in Nat \X Nat : s[1] < s[2]}
  <1>1. IsWellFoundedOn(Less, Nat)
    BY NatLessThanWellFounded DEF OpToRel
  <1>2. \E n \in S : \A m \in S : <<m, n>> \notin Less
    <2> HIDE DEF Less
    <2> QED BY <1>1, WFMin
  <1>3. \A n \in Nat, m \in Nat : <<m, n>> \notin Less => n <= m
    OBVIOUS
  <1> HIDE DEF Less
  <1> QED BY <1>2, <1>3

----------------------------------------------------------------------------
(* Types.                                                                  *)

Names    == Usernames \cup {Null}
Linked   == Subs \cup {Null}
Contacts == Emails \cup {Null}
Ranks    == {0} \cup Roles

User == [name : Names, sub : Linked, email : Contacts, role : Ranks,
         source : {"none", "local", "oidc"}, ver : Nat]

Session == [uid : Ids, role : Ranks, ver : Nat]

\* What a request holds between two statements.
Held ==
    [pc : {"idle"}]
    \cup [pc : {"issue"}, uid : Ids, role : Ranks, ver : Nat]
    \cup [pc : {"bump"}, uid : Ids]
    \cup [pc : {"insert"}, row : User]
    \cup [pc : {"email"}, id : Ids, email : Contacts]
    \cup [pc : {"sub"}, id : Ids, sub : Linked]
    \cup [pc : {"lookup", "create"}, claims : Claims]
    \cup [pc : {"known", "adopt"}, id : Ids, claims : Claims]

AccountsTypeOK ==
    /\ users \in [Ids -> User]
    /\ tokens \subseteq Session /\ revoked \subseteq Session
    /\ request \in [Calls -> Held]

----------------------------------------------------------------------------
(* What the properties rest on.                                            *)

\* No session, issued or about to be, is of a later version than its row, and
\* what a logout revoked is of an earlier one.
SessionsAge ==
    /\ \A t \in tokens : IsRow(t.uid) /\ t.ver <= users[t.uid].ver
    /\ \A r \in Calls : request[r].pc = "issue" =>
         IsRow(request[r].uid) /\ request[r].ver <= users[request[r].uid].ver
    /\ \A t \in revoked : IsRow(t.uid) /\ t.ver < users[t.uid].ver

\* What a request checked holds of it until it writes: a new row has no subject,
\* and only a verified address adopts an account.
ChecksHold ==
    \A r \in Calls :
        /\ request[r].pc = "insert" => request[r].row.sub = Null /\ request[r].row.source = "local"
        /\ request[r].pc = "adopt" => request[r].claims.verified

AccountsInv == AccountsTypeOK /\ SessionsAge /\ ChecksHold /\ IdentitiesUnique /\ LinkIsProven

----------------------------------------------------------------------------
(* The operators of the module.                                            *)

\* The lowest of a set of ids is one of them (BIGSERIAL, ORDER BY id LIMIT 1).
LEMMA LowestIsOne ==
    ASSUME NEW S \in SUBSET Nat, S # {}
    PROVE  Min(S) \in S
  BY LeastOf DEF Min

\* The highest role is a role.
LEMMA HighestIsRole == Max(Roles) \in Roles
  <1>1. Roles \subseteq {0, 1, 2} /\ Roles # {}
    BY AccountsAssumption
  <1>2. \E x \in Roles : \A y \in Roles : x >= y
    <2>1. CASE 2 \in Roles
      BY <1>1, <2>1
    <2>2. CASE 2 \notin Roles /\ 1 \in Roles
      BY <1>1, <2>2
    <2>3. CASE 2 \notin Roles /\ 1 \notin Roles
      <3>1. Roles = {0}
        BY <1>1, <2>3
      <3> QED BY <3>1
    <2> QED BY <2>1, <2>2, <2>3
  <1> QED BY <1>2 DEF Max

\* What a request holds, by what it does next.
LEMMA Kinds ==
    ASSUME AccountsTypeOK, NEW r \in Calls
    PROVE  /\ request[r].pc = "issue" =>
                request[r].uid \in Ids /\ request[r].role \in Ranks /\ request[r].ver \in Nat
           /\ request[r].pc = "bump" => request[r].uid \in Ids
           /\ request[r].pc = "insert" => request[r].row \in User
           /\ request[r].pc = "email" => request[r].id \in Ids /\ request[r].email \in Contacts
           /\ request[r].pc = "sub" => request[r].id \in Ids /\ request[r].sub \in Linked
           /\ request[r].pc \in {"lookup", "create", "known", "adopt"} => request[r].claims \in Claims
           /\ request[r].pc \in {"known", "adopt"} => request[r].id \in Ids
  <1>1. request[r] \in Held
    BY DEF AccountsTypeOK
  <1> QED BY <1>1 DEF Held

\* A request that holds something of a declared kind.
LEMMA HoldsTypes ==
    ASSUME AccountsTypeOK, NEW r \in Calls, NEW what \in Held, Holds(r, what)
    PROVE  /\ request' \in [Calls -> Held]
           /\ request'[r] = what
           /\ \A q \in Calls \ {r} : request'[q] = request[q]
  BY DEF AccountsTypeOK, Holds

\* A request that is done holds nothing.
LEMMA DoneTypes ==
    ASSUME AccountsTypeOK, NEW r \in Calls, Done(r)
    PROVE  /\ request' \in [Calls -> Held]
           /\ request'[r] = Unused
           /\ \A q \in Calls \ {r} : request'[q] = request[q]
  <1>1. Unused \in Held
    BY DEF Unused, Held
  <1> QED BY <1>1, HoldsTypes DEF Done

\* A statement writes its row or, against a constraint, nothing, and either way
\* names and subjects stay unique.
LEMMA WriteOne ==
    ASSUME AccountsTypeOK, IdentitiesUnique, NEW i \in Ids, NEW row \in User, Write(i, row)
    PROVE  /\ users' \in [Ids -> User]
           /\ \A j \in Ids \ {i} : users'[j] = users[j]
           /\ MayHold(i, row) => users'[i] = row
           /\ ~MayHold(i, row) => users' = users
           /\ IdentitiesUnique'
  <1>1. /\ users' \in [Ids -> User]
        /\ \A j \in Ids \ {i} : users'[j] = users[j]
        /\ MayHold(i, row) => users'[i] = row
        /\ ~MayHold(i, row) => users' = users
    BY DEF Write, AccountsTypeOK
  <1>2. CASE MayHold(i, row)
    <2>1. \A j \in Ids \ {i} : /\ users'[i].name = users'[j].name => users'[i].name = Null
                               /\ users'[i].sub = users'[j].sub => users'[i].sub = Null
      BY <1>1, <1>2 DEF MayHold
    <2>2. \A j \in Ids \ {i}, k \in Ids \ {i} :
              j # k => /\ users'[j].name = users'[k].name => users'[j].name = Null
                       /\ users'[j].sub = users'[k].sub => users'[j].sub = Null
      BY <1>1 DEF IdentitiesUnique
    <2>3. ASSUME NEW j \in Ids, NEW k \in Ids, j # k
          PROVE  /\ users'[j].name = users'[k].name => users'[j].name = Null
                 /\ users'[j].sub = users'[k].sub => users'[j].sub = Null
      <3>1. CASE j = i
        BY <2>1, <2>3, <3>1
      <3>2. CASE k = i
        BY <2>1, <2>3, <3>2
      <3>3. CASE j # i /\ k # i
        BY <2>2, <2>3, <3>3
      <3> QED BY <3>1, <3>2, <3>3
    <2> QED BY <1>1, <1>2, <2>3 DEF IdentitiesUnique
  <1>3. CASE ~MayHold(i, row)
    BY <1>1, <1>3 DEF IdentitiesUnique
  <1> QED BY <1>1, <1>2, <1>3

\* A new row takes a free id.
LEMMA InsertTakesFree ==
    ASSUME NEW row, Insert(row)
    PROVE  \E i \in Ids : ~IsRow(i) /\ Write(i, row)
  <1>1. {i \in Ids : ~IsRow(i)} \in SUBSET Nat
    BY AccountsAssumption
  <1> QED BY <1>1, LowestIsOne DEF Insert

----------------------------------------------------------------------------
(* Steps that read the directory: the table and the histories stay.        *)

\* Reads and checks: what a request goes on to hold is of a declared kind.
Reads(r) ==
    \/ \E n \in Usernames :
        \/ login(r, n)
        \/ \E e \in Contacts, role \in Roles : create_user(r, n, e, role)
    \/ \E t \in tokens : logout(r, t)
    \/ \E i \in Ids : \/ \E e \in Contacts : LinkEmail(r, i, e)
                      \/ \E s \in Linked : LinkSub(r, i, s)
    \/ \E c \in Claims : oidc_sync(r, c)
    \/ SyncLookup(r)

\* The table, the sessions and the histories stay.
Still == users' = users /\ tokens' = tokens /\ revoked' = revoked /\ proven' = proven
         /\ pinned' = pinned /\ lapses' = lapses

\* What a read may hold, so that what it checked holds of it.
Fit(what) == /\ what.pc = "issue" => IsRow(what.uid) /\ what.ver <= users[what.uid].ver
             /\ what.pc = "insert" => what.row.sub = Null /\ what.row.source = "local"
             /\ what.pc = "adopt" => what.claims.verified

\* A request that has only read holds a fitting account and has written nothing
\* (login, create_user, logout, the OIDC lookups).
LEMMA ReadsHold ==
    ASSUME AccountsTypeOK, NEW r \in Calls, Reads(r)
    PROVE  Still /\ \E what \in Held : Holds(r, what) /\ Fit(what)
  <1>u. users \in [Ids -> User] /\ tokens \subseteq Session
    BY DEF AccountsTypeOK
  <1>1. ASSUME NEW n \in Usernames, login(r, n)
        PROVE  \E what \in Held : Holds(r, what) /\ Fit(what)
    <2>1. PICK i \in get_user_by_username(n) :
              Holds(r, [pc |-> "issue", uid |-> i, role |-> users[i].role, ver |-> users[i].ver])
      BY <1>1 DEF login
    <2>2. i \in Ids /\ IsRow(i) /\ users[i] \in User
      BY <1>u DEF get_user_by_username
    <2> DEFINE w == [pc |-> "issue", uid |-> i, role |-> users[i].role, ver |-> users[i].ver]
    <2>3. users[i].role \in Ranks /\ users[i].ver \in Nat
      BY <2>2 DEF User
    <2>4. w \in Held /\ Fit(w)
      BY <2>2, <2>3 DEF Held, Fit
    <2> QED BY <2>1, <2>4
  <1>2. ASSUME NEW n \in Usernames, NEW e \in Contacts, NEW role \in Roles,
               create_user(r, n, e, role)
        PROVE  \E what \in Held : Holds(r, what) /\ Fit(what)
    <2> DEFINE row == [NoUser EXCEPT !.name = n, !.email = e, !.role = role, !.source = "local"]
               w   == [pc |-> "insert", row |-> row]
    <2>1. row \in User /\ row.sub = Null /\ row.source = "local"
      BY DEF NoUser, User, Names, Linked, Ranks
    <2>2. Holds(r, w)
      BY <1>2 DEF create_user
    <2> HIDE DEF row
    <2>3. w \in Held /\ Fit(w)
      BY <2>1 DEF Held, Fit
    <2> QED BY <2>2, <2>3
  <1>3. ASSUME NEW t \in tokens, logout(r, t)
        PROVE  \E what \in Held : Holds(r, what) /\ Fit(what)
    <2> DEFINE w == [pc |-> "bump", uid |-> t.uid]
    <2>1. w \in Held /\ Fit(w)
      BY <1>u DEF Session, Held, Fit
    <2> QED BY <1>3, <2>1 DEF logout
  <1>4. ASSUME NEW i \in Ids, NEW e \in Contacts, LinkEmail(r, i, e)
        PROVE  \E what \in Held : Holds(r, what) /\ Fit(what)
    <2> DEFINE w == [pc |-> "email", id |-> i, email |-> e]
    <2>1. w \in Held /\ Fit(w)
      BY DEF Held, Fit
    <2> QED BY <1>4, <2>1 DEF LinkEmail
  <1>5. ASSUME NEW i \in Ids, NEW s \in Linked, LinkSub(r, i, s)
        PROVE  \E what \in Held : Holds(r, what) /\ Fit(what)
    <2> DEFINE w == [pc |-> "sub", id |-> i, sub |-> s]
    <2>1. w \in Held /\ Fit(w)
      BY DEF Held, Fit
    <2> QED BY <1>5, <2>1 DEF LinkSub
  <1>6. ASSUME NEW c \in Claims, oidc_sync(r, c)
        PROVE  \E what \in Held : Holds(r, what) /\ Fit(what)
    <2>1. CASE get_user_by_oidc_sub(c.sub) # {}
      <3>1. PICK i \in get_user_by_oidc_sub(c.sub) :
                Holds(r, [pc |-> "known", id |-> i, claims |-> c])
        BY <1>6, <2>1 DEF oidc_sync
      <3>2. i \in Ids /\ users[i] \in User /\ users[i].sub = c.sub
        BY <1>u DEF get_user_by_oidc_sub
      <3> DEFINE w == [pc |-> "known", id |-> i, claims |-> c]
      <3>3. w \in Held /\ Fit(w)
        BY <3>2 DEF Held, Fit
      <3> QED BY <3>1, <3>3
    <2>2. CASE get_user_by_oidc_sub(c.sub) = {}
      <3> DEFINE w == [pc |-> "lookup", claims |-> c]
      <3>1. Holds(r, w)
        BY <1>6, <2>2 DEF oidc_sync
      <3>2. w \in Held /\ Fit(w)
        BY DEF Held, Fit
      <3> QED BY <3>1, <3>2
    <2> QED BY <2>1, <2>2
  <1>7. ASSUME SyncLookup(r)
        PROVE  \E what \in Held : Holds(r, what) /\ Fit(what)
    <2> DEFINE c == request[r].claims
    <2>1. c \in Claims
      BY <1>7, Kinds DEF SyncLookup
    <2>2. CASE Linkable(c) # {}
      <3>1. PICK i \in Linkable(c) :
                Holds(r, [pc |-> "adopt", id |-> i, claims |-> c])
        BY <1>7, <2>2 DEF SyncLookup
      <3>2. i \in Ids /\ users[i] \in User /\ c.verified
        BY <1>u DEF Linkable, find_linkable_local_user_by_email
      <3> HIDE DEF c
      <3> DEFINE w == [pc |-> "adopt", id |-> i, claims |-> c]
      <3>3. w \in Held /\ Fit(w)
        BY <2>1, <3>2 DEF Held, Fit
      <3> QED BY <3>1, <3>3
    <2>3. CASE Linkable(c) = {}
      <3> DEFINE w == [pc |-> "create", claims |-> c]
      <3>1. Holds(r, w) \/ Holds(r, Unused)
        BY <1>7, <2>3 DEF SyncLookup, Done
      <3> HIDE DEF c
      <3>2. w \in Held /\ Fit(w)
        BY <2>1 DEF Held, Fit
      <3>3. Unused \in Held /\ Fit(Unused)
        BY DEF Unused, Held, Fit
      <3> QED BY <3>1, <3>2, <3>3
    <2> QED BY <2>2, <2>3
  <1>8. Still
    BY DEF Reads, login, create_user, logout, LinkEmail, LinkSub, oidc_sync, SyncLookup, Still
  <1> QED BY <1>1, <1>2, <1>3, <1>4, <1>5, <1>6, <1>7, <1>8 DEF Reads

\* The reads of a request keep the invariant.
LEMMA ReadsKeep ==
    ASSUME AccountsInv, NEW r \in Calls, Reads(r)
    PROVE  AccountsInv'
  <1> USE DEF AccountsInv
  <1>1. PICK what \in Held : Holds(r, what) /\ Fit(what)
    BY ReadsHold
  <1>2. Still
    BY ReadsHold
  <1>3. /\ request' \in [Calls -> Held] /\ request'[r] = what
        /\ \A q \in Calls \ {r} : request'[q] = request[q]
    BY <1>1, HoldsTypes
  <1>4. AccountsTypeOK'
    BY <1>2, <1>3 DEF AccountsTypeOK, Still
  <1>5. SessionsAge'
    BY <1>1, <1>2, <1>3 DEF SessionsAge, Still, IsRow, Fit
  <1>6. ChecksHold'
    BY <1>1, <1>3 DEF ChecksHold, Fit
  <1>7. IdentitiesUnique' /\ LinkIsProven'
    BY <1>2 DEF IdentitiesUnique, LinkIsProven, Still
  <1> QED BY <1>4, <1>5, <1>6, <1>7

----------------------------------------------------------------------------
(* Steps that write it.                                                    *)

\* A request that ends leaves nothing to check.
LEMMA DoneChecks ==
    ASSUME AccountsTypeOK, ChecksHold, NEW r \in Calls, Done(r)
    PROVE  ChecksHold'
  BY DoneTypes DEF ChecksHold, Unused

\* A statement that keeps every row, and the version of each, ages no session.
RowsKeepVersion ==
    \A i \in Ids : IsRow(i) => users'[i].source # "none" /\ users'[i].ver = users[i].ver

\* Ending a request leaves every session as old as its account allows.
LEMMA DoneKeepsAge ==
    ASSUME AccountsTypeOK, SessionsAge, NEW r \in Calls, Done(r), RowsKeepVersion,
           tokens' = tokens, revoked' = revoked
    PROVE  SessionsAge'
  <1>1. \A t \in tokens \cup revoked : t.uid \in Ids
    BY DEF AccountsTypeOK, Session
  <1>2. \A q \in Calls : request'[q].pc = "issue" => q # r /\ request'[q] = request[q]
    BY DoneTypes DEF Unused
  <1>3. \A q \in Calls : request[q].pc = "issue" => request[q].uid \in Ids
    BY Kinds
  <1> QED BY <1>1, <1>2, <1>3 DEF SessionsAge, RowsKeepVersion, IsRow

\* One row changes as a row may: the others keep their proof.
LEMMA LinkOfOthers ==
    ASSUME LinkIsProven, NEW i \in Ids,
           \A j \in Ids \ {i} : users'[j] = users[j],
           lapses \subseteq lapses',
           \A p \in pinned : p[1] # i => p \in pinned',
           \A p \in proven : p[1] # i => p \in proven'
    PROVE  \A j \in Ids \ lapses' :
             j # i /\ users'[j].source = "local" /\ users'[j].sub # Null =>
               <<j, users'[j].sub>> \in pinned' \cup proven'
  <1> TAKE j \in Ids \ lapses'
  <1> HAVE j # i /\ users'[j].source = "local" /\ users'[j].sub # Null
  <1>1. users'[j] = users[j] /\ j \in Ids \ lapses
    OBVIOUS
  <1>2. CASE <<j, users[j].sub>> \in pinned
    <2>1. <<j, users[j].sub>> \in pinned'
      BY <1>2
    <2> QED BY <1>1, <2>1
  <1>3. CASE <<j, users[j].sub>> \in proven
    <2>1. <<j, users[j].sub>> \in proven'
      BY <1>3
    <2> QED BY <1>1, <2>1
  <1> QED BY <1>1, <1>2, <1>3 DEF LinkIsProven

\* A new session, and a logout's bump.
LEMMA IssueKeeps ==
    ASSUME AccountsInv, NEW r \in Calls, issue_session_token(r)
    PROVE  AccountsInv'
  <1> USE DEF AccountsInv
  <1> DEFINE t == [uid |-> request[r].uid, role |-> request[r].role, ver |-> request[r].ver]
  <1>1. t \in Session /\ IsRow(t.uid) /\ t.ver <= users[t.uid].ver
    BY Kinds DEF Session, SessionsAge, issue_session_token
  <1>2. tokens' = tokens \cup {t} /\ users' = users /\ revoked' = revoked /\ Done(r)
    BY DEF issue_session_token, Settles
  <1> HIDE DEF t
  <1>3. AccountsTypeOK'
    BY <1>1, <1>2, DoneTypes DEF AccountsTypeOK
  <1>4. SessionsAge'
    <2>1. \A q \in Calls : request'[q].pc = "issue" => request'[q] = request[q]
      BY <1>2, DoneTypes DEF Unused
    <2> QED BY <1>1, <1>2, <2>1 DEF SessionsAge, IsRow
  <1>5. IdentitiesUnique' /\ LinkIsProven'
    BY DEF IdentitiesUnique, LinkIsProven, issue_session_token
  <1> QED BY <1>2, <1>3, <1>4, <1>5, DoneChecks

\* Raising session_version outdates every session of the account, and no other.
LEMMA BumpKeeps ==
    ASSUME AccountsInv, NEW r \in Calls, bump_session_version(r)
    PROVE  AccountsInv'
  <1> USE DEF AccountsInv
  <1> DEFINE i == request[r].uid
  <1>1. i \in Ids
    BY Kinds DEF bump_session_version
  <1>2. /\ users' = [users EXCEPT ![i].ver = @ + 1] /\ tokens' = tokens
        /\ revoked' = revoked \cup {t \in tokens : t.uid = i} /\ Done(r)
    BY DEF bump_session_version, Settles
  <1> HIDE DEF i
  <1>3. users[i] \in User /\ users \in [Ids -> User]
    BY <1>1 DEF AccountsTypeOK
  <1>4. /\ users' \in [Ids -> User]
        /\ users'[i] = [users[i] EXCEPT !.ver = @ + 1]
        /\ \A j \in Ids \ {i} : users'[j] = users[j]
    BY <1>1, <1>2, <1>3 DEF User
  <1>5. \A j \in Ids : /\ users'[j].name = users[j].name /\ users'[j].sub = users[j].sub
                       /\ users'[j].email = users[j].email /\ users'[j].source = users[j].source
    BY <1>1, <1>3, <1>4 DEF User
  <1>6. users'[i].ver = users[i].ver + 1 /\ users[i].ver \in Nat
    BY <1>3, <1>4 DEF User
  <1>7. AccountsTypeOK'
    BY <1>2, <1>4, DoneTypes DEF AccountsTypeOK
  <1>8. SessionsAge'
    <2>0. \A j \in Ids : users[j].ver \in Nat
      BY DEF AccountsTypeOK, User
    <2>1. \A j \in Ids : IsRow(j) => users'[j].source # "none" /\ users[j].ver <= users'[j].ver
      <3> TAKE j \in Ids
      <3>1. CASE j = i
        BY <1>5, <1>6, <3>1 DEF IsRow
      <3>2. CASE j # i
        <4>1. users'[j] = users[j] /\ users[j].ver <= users[j].ver
          BY <1>4, <2>0, <3>2
        <4> QED BY <4>1 DEF IsRow
      <3> QED BY <3>1, <3>2
    <2>2. \A t \in tokens \cup revoked : t.uid \in Ids /\ t.ver \in Nat
      BY DEF AccountsTypeOK, Session
    <2>3. \A t \in tokens : users'[t.uid].source # "none" /\ t.ver <= users'[t.uid].ver
      <3> TAKE t \in tokens
      <3>1. IsRow(t.uid) /\ t.ver <= users[t.uid].ver /\ users'[t.uid].ver \in Nat
        BY <2>2, <1>4 DEF SessionsAge, User
      <3> QED BY <2>0, <2>1, <2>2, <3>1
    <2>4. ASSUME NEW q \in Calls, request'[q].pc = "issue"
          PROVE  users'[request'[q].uid].source # "none"
                 /\ request'[q].ver <= users'[request'[q].uid].ver
      <3>1. request'[q] = request[q]
        BY <1>2, <2>4, DoneTypes DEF Unused
      <3> DEFINE u == request[q].uid
      <3>2. /\ u \in Ids /\ request[q].ver \in Nat /\ IsRow(u)
            /\ request[q].ver <= users[u].ver /\ users'[u].ver \in Nat
        BY <2>4, <3>1, <1>4, Kinds DEF SessionsAge, User
      <3> HIDE DEF u
      <3>3. users'[u].source # "none" /\ request[q].ver <= users'[u].ver
        BY <2>0, <2>1, <3>2
      <3> QED BY <3>1, <3>3 DEF u
    <2>5. ASSUME NEW t \in revoked'
          PROVE  users'[t.uid].source # "none" /\ t.ver < users'[t.uid].ver
      <3>1. t.uid \in Ids /\ t.ver \in Nat /\ users'[t.uid].ver \in Nat
        BY <1>2, <2>2, <2>5, <1>4 DEF User
      <3>2. CASE t \in revoked
        <4>1. IsRow(t.uid) /\ t.ver < users[t.uid].ver
          BY <3>2 DEF SessionsAge
        <4> QED BY <2>0, <2>1, <3>1, <4>1
      <3>3. CASE t \in tokens /\ t.uid = i
        <4>1. IsRow(i) /\ t.ver <= users[i].ver
          BY <3>3 DEF SessionsAge
        <4> QED BY <1>1, <1>6, <2>1, <3>1, <3>3, <4>1
      <3> QED BY <1>2, <2>5, <3>2, <3>3
    <2> QED BY <1>2, <2>3, <2>4, <2>5 DEF SessionsAge, IsRow
  <1>9. IdentitiesUnique' /\ LinkIsProven'
    BY <1>5 DEF IdentitiesUnique, LinkIsProven, bump_session_version
  <1> QED BY <1>2, <1>7, <1>8, <1>9, DoneChecks

\* A new row, of a user created by the admin or by the sync: it has no subject
\* or belongs to the provider.
LEMMA InsertKeeps ==
    ASSUME AccountsInv, NEW r \in Calls, Done(r),
           NEW row \in User, row.source = "oidc" \/ (row.source = "local" /\ row.sub = Null),
           Insert(row),
           tokens' = tokens, revoked' = revoked, proven' = proven, pinned' = pinned, lapses' = lapses
    PROVE  AccountsInv'
  <1> USE DEF AccountsInv
  <1>1. PICK i \in Ids : ~IsRow(i) /\ Write(i, row)
    BY InsertTakesFree
  <1>2. /\ users' \in [Ids -> User] /\ IdentitiesUnique'
        /\ \A j \in Ids \ {i} : users'[j] = users[j]
        /\ users'[i] = row \/ users' = users
    BY <1>1, WriteOne
  <1>3. AccountsTypeOK'
    BY <1>2, DoneTypes DEF AccountsTypeOK
  <1>4. RowsKeepVersion
    BY <1>1, <1>2 DEF RowsKeepVersion, IsRow
  <1>5. LinkIsProven'
    <2>1. CASE users' = users
      BY <2>1 DEF LinkIsProven
    <2>2. CASE users'[i] = row
      BY <1>2, <2>2, LinkOfOthers DEF LinkIsProven
    <2> QED BY <1>2, <2>1, <2>2
  <1> QED BY <1>2, <1>3, <1>4, <1>5, DoneChecks, DoneKeepsAge

\* A change of one row that leaves its version and whether it is a row.
LEMMA ChangeKeeps ==
    ASSUME AccountsInv, NEW r \in Calls, Done(r), NEW i \in Ids,
           users' \in [Ids -> User], IdentitiesUnique',
           \A j \in Ids \ {i} : users'[j] = users[j],
           users'[i].source = users[i].source, users'[i].ver = users[i].ver,
           tokens' = tokens, revoked' = revoked,
           lapses \subseteq lapses',
           \A p \in pinned : p[1] # i => p \in pinned',
           \A p \in proven : p[1] # i => p \in proven',
           \/ i \in lapses'
           \/ users'[i].sub = Null
           \/ <<i, users'[i].sub>> \in pinned' \cup proven'
           \/ users'[i].sub = users[i].sub /\ pinned' = pinned /\ proven' = proven
    PROVE  AccountsInv'
  <1> USE DEF AccountsInv
  <1>1. AccountsTypeOK'
    BY DoneTypes DEF AccountsTypeOK
  <1>2. RowsKeepVersion
    BY DEF RowsKeepVersion, IsRow
  <1>3. LinkIsProven'
    <2>1. CASE users'[i].sub = users[i].sub /\ pinned' = pinned /\ proven' = proven
      <3>1. i \notin lapses' /\ users'[i].source = "local" /\ users'[i].sub # Null =>
              <<i, users'[i].sub>> \in pinned' \cup proven'
        BY <2>1 DEF LinkIsProven
      <3> QED BY <3>1, LinkOfOthers DEF LinkIsProven
    <2>2. CASE ~(users'[i].sub = users[i].sub /\ pinned' = pinned /\ proven' = proven)
      BY <2>2, LinkOfOthers DEF LinkIsProven
    <2> QED BY <2>1, <2>2
  <1> QED BY <1>1, <1>2, <1>3, DoneChecks, DoneKeepsAge

\* A changed contact address clears the subject proven against the old one.
LEMMA SetEmailKeeps ==
    ASSUME AccountsInv, NEW r \in Calls, set_user_oidc_link_email(r)
    PROVE  AccountsInv'
  <1> DEFINE i == request[r].id
             e == request[r].email
  <1>0. AccountsTypeOK /\ IdentitiesUnique
    BY DEF AccountsInv
  <1>1. i \in Ids /\ e \in Contacts /\ Done(r)
    BY <1>0, Kinds DEF set_user_oidc_link_email, Settles
  <1>2. /\ tokens' = tokens /\ revoked' = revoked /\ lapses' = lapses
        /\ \/ /\ users' = [users EXCEPT ![i].email = e, ![i].sub = Null]
              /\ pinned' = LinksOfOthers(pinned, i) /\ proven' = LinksOfOthers(proven, i)
           \/ /\ e = users[i].email
              /\ users' = [users EXCEPT ![i].email = e, ![i].sub = @]
              /\ pinned' = pinned /\ proven' = proven
    BY DEF set_user_oidc_link_email
  <1> HIDE DEF i, e
  <1>3. users[i] \in User /\ users \in [Ids -> User]
    BY <1>0, <1>1 DEF AccountsTypeOK
  <1>4. CASE /\ users' = [users EXCEPT ![i].email = e, ![i].sub = Null]
             /\ pinned' = LinksOfOthers(pinned, i) /\ proven' = LinksOfOthers(proven, i)
    <2>1. /\ users' \in [Ids -> User]
          /\ \A j \in Ids \ {i} : users'[j] = users[j]
          /\ users'[i].name = users[i].name /\ users'[i].sub = Null
          /\ users'[i].source = users[i].source /\ users'[i].ver = users[i].ver
      BY <1>1, <1>3, <1>4 DEF User, Linked
    <2>2. IdentitiesUnique'
      BY <1>0, <1>1, <2>1 DEF IdentitiesUnique
    <2>3. /\ \A p \in pinned : p[1] # i => p \in pinned'
          /\ \A p \in proven : p[1] # i => p \in proven'
      BY <1>4 DEF LinksOfOthers
    <2> QED BY <1>1, <1>2, <2>1, <2>2, <2>3, ChangeKeeps
  <1>5. CASE /\ e = users[i].email
             /\ users' = [users EXCEPT ![i].email = e, ![i].sub = @]
             /\ pinned' = pinned /\ proven' = proven
    <2>1. users'[i] = users[i] /\ \A j \in Ids \ {i} : users'[j] = users[j]
      BY <1>1, <1>3, <1>5 DEF User
    <2>2. users' \in [Ids -> User] /\ DOMAIN users' = Ids
      BY <1>1, <1>3, <1>5 DEF User
    <2>3. users' = users
      BY <1>3, <2>1, <2>2
    <2>4. IdentitiesUnique'
      BY <1>0, <2>3 DEF IdentitiesUnique
    <2> QED BY <1>1, <1>2, <1>3, <1>5, <2>3, <2>4, ChangeKeeps
  <1> QED BY <1>2, <1>4, <1>5

\* A subject is linked to one account (the unique index behind link_user_oidc_sub).
LEMMA LinkSubKeeps ==
    ASSUME AccountsInv, NEW r \in Calls, link_user_oidc_sub(r)
    PROVE  AccountsInv'
  <1> DEFINE i == request[r].id
             s == request[r].sub
             row == [users[i] EXCEPT !.sub = s]
  <1>0. AccountsTypeOK /\ IdentitiesUnique
    BY DEF AccountsInv
  <1>1. i \in Ids /\ s \in Linked /\ Done(r)
    BY <1>0, Kinds DEF link_user_oidc_sub, Settles
  <1>2. /\ tokens' = tokens /\ revoked' = revoked /\ lapses' = lapses
        /\ Write(i, row)
        /\ IF MayHold(i, row)
           THEN /\ pinned' = LinksOfOthers(pinned, i) \cup ({<<i, s>>} \ {<<i, Null>>})
                /\ proven' = LinksOfOthers(proven, i)
           ELSE UNCHANGED <<pinned, proven>>
    BY DEF link_user_oidc_sub
  <1> HIDE DEF i, s
  <1>3. users[i] \in User
    BY <1>0, <1>1 DEF AccountsTypeOK
  <1>4. /\ row \in User /\ row.sub = s
        /\ row.source = users[i].source /\ row.ver = users[i].ver
    BY <1>1, <1>3 DEF User
  <1> HIDE DEF row
  <1>5. /\ users' \in [Ids -> User] /\ IdentitiesUnique'
        /\ \A j \in Ids \ {i} : users'[j] = users[j]
        /\ MayHold(i, row) => users'[i] = row
        /\ ~MayHold(i, row) => users' = users
    BY <1>0, <1>1, <1>2, <1>4, WriteOne
  <1>6. /\ \A p \in pinned : p[1] # i => p \in pinned'
        /\ \A p \in proven : p[1] # i => p \in proven'
    BY <1>2 DEF LinksOfOthers
  <1>7. CASE MayHold(i, row)
    <2>1. users'[i].sub = Null \/ <<i, users'[i].sub>> \in pinned'
      BY <1>2, <1>4, <1>5, <1>7
    <2> QED BY <1>1, <1>2, <1>4, <1>5, <1>6, <1>7, <2>1, ChangeKeeps
  <1>8. CASE ~MayHold(i, row)
    <2>1. users' = users /\ pinned' = pinned /\ proven' = proven
      BY <1>2, <1>5, <1>8
    <2> QED BY <1>1, <1>2, <1>5, <1>6, <2>1, ChangeKeeps
  <1> QED BY <1>7, <1>8

\* A login by a known subject refreshes its own account and no other.
LEMMA SyncKnownKeeps ==
    ASSUME AccountsInv, NEW r \in Calls, SyncKnown(r)
    PROVE  AccountsInv'
  <1> DEFINE i == request[r].id
             c == request[r].claims
  <1>0. AccountsTypeOK /\ IdentitiesUnique
    BY DEF AccountsInv
  <1>1. i \in Ids /\ c \in Claims /\ Done(r)
    BY <1>0, Kinds DEF SyncKnown, Settles
  <1>2. /\ tokens' = tokens /\ revoked' = revoked
        /\ pinned' = pinned /\ proven' = proven /\ lapses' = lapses
        /\ users' = [users EXCEPT ![i].email = coalesce(c.email, @), ![i].role = c.role]
    BY DEF SyncKnown
  <1> HIDE DEF i, c
  <1>3. users[i] \in User /\ users \in [Ids -> User] /\ c.email \in Contacts /\ c.role \in Ranks
    BY <1>0, <1>1 DEF AccountsTypeOK, Claims, Contacts, Ranks
  <1>4. /\ users' \in [Ids -> User]
        /\ \A j \in Ids \ {i} : users'[j] = users[j]
        /\ users'[i].name = users[i].name /\ users'[i].sub = users[i].sub
        /\ users'[i].source = users[i].source /\ users'[i].ver = users[i].ver
    BY <1>1, <1>2, <1>3 DEF User, coalesce
  <1>5. IdentitiesUnique'
    BY <1>0, <1>4 DEF IdentitiesUnique
  <1> QED BY <1>1, <1>2, <1>4, <1>5, ChangeKeeps

\* A login that adopts an account by verified address takes one nobody else holds.
LEMMA SyncAdoptKeeps ==
    ASSUME AccountsInv, NEW r \in Calls, SyncAdopt(r)
    PROVE  AccountsInv'
  <1> DEFINE i == request[r].id
             c == request[r].claims
             row == [users[i] EXCEPT !.sub = c.sub, !.email = c.email, !.role = c.role]
             right == StillLinkable(i, c.email)
  <1>0. AccountsTypeOK /\ IdentitiesUnique
    BY DEF AccountsInv
  <1>1. i \in Ids /\ c \in Claims /\ Done(r) /\ c.verified
    BY <1>0, Kinds DEF SyncAdopt, Settles, AccountsInv, ChecksHold
  <1>2. /\ tokens' = tokens /\ revoked' = revoked /\ pinned' = pinned
        /\ Write(i, row)
        /\ proven' = IF right /\ MayHold(i, row) THEN proven \cup {<<i, c.sub>>} ELSE proven
        /\ lapses' = IF right THEN lapses ELSE lapses \cup {i}
    BY <1>1 DEF SyncAdopt
  <1> HIDE DEF i, c
  <1>3. users[i] \in User /\ c.sub \in Linked /\ c.email \in Contacts /\ c.role \in Ranks
    BY <1>0, <1>1 DEF AccountsTypeOK, Claims, Contacts, Ranks, Linked
  <1>4. /\ row \in User /\ row.sub = c.sub
        /\ row.source = users[i].source /\ row.ver = users[i].ver
    BY <1>3 DEF User
  <1> HIDE DEF row, right
  <1>5. /\ users' \in [Ids -> User] /\ IdentitiesUnique'
        /\ \A j \in Ids \ {i} : users'[j] = users[j]
        /\ MayHold(i, row) => users'[i] = row
        /\ ~MayHold(i, row) => users' = users
    BY <1>0, <1>1, <1>2, <1>4, WriteOne
  <1>6. /\ lapses \subseteq lapses'
        /\ \A p \in pinned : p[1] # i => p \in pinned'
        /\ \A p \in proven : p[1] # i => p \in proven'
    BY <1>2
  <1>7. CASE right /\ MayHold(i, row)
    <2>1. <<i, users'[i].sub>> \in pinned' \cup proven'
      BY <1>2, <1>4, <1>5, <1>7
    <2> QED BY <1>1, <1>2, <1>4, <1>5, <1>6, <1>7, <2>1, ChangeKeeps
  <1>8. CASE ~right
    <2>1. i \in lapses'
      BY <1>2, <1>8
    <2>2. users'[i].source = users[i].source /\ users'[i].ver = users[i].ver
      BY <1>4, <1>5
    <2> QED BY <1>1, <1>2, <1>5, <1>6, <2>1, <2>2, ChangeKeeps
  <1>9. CASE ~MayHold(i, row) /\ right
    <2>1. users' = users /\ pinned' = pinned /\ proven' = proven
      BY <1>2, <1>5, <1>9
    <2> QED BY <1>1, <1>2, <1>5, <1>6, <2>1, ChangeKeeps
  <1> QED BY <1>7, <1>8, <1>9

----------------------------------------------------------------------------
(* The theorems.                                                           *)

\* The expiry of a token takes rights away and gives none.
LEMMA ExpiryKeeps ==
    ASSUME AccountsInv, NEW t \in tokens, Expires(t)
    PROVE  AccountsInv'
  BY DEF AccountsInv, Expires, AccountsTypeOK, SessionsAge, ChecksHold, IdentitiesUnique,
     LinkIsProven, IsRow

\* One step per handler.
LEMMA NextKeeps ==
    ASSUME AccountsInv, [AccountsNext]_accountsVars
    PROVE  AccountsInv'
  <1>1. ASSUME NEW r \in Calls, insert_user(r) PROVE AccountsInv'
    <2>1. request[r].row \in User /\ request[r].row.sub = Null
      BY <1>1, Kinds DEF insert_user, AccountsInv, ChecksHold
    <2>2. request[r].row.source = "local"
      BY <1>1 DEF insert_user, AccountsInv, ChecksHold
    <2> QED BY <1>1, <2>1, <2>2, InsertKeeps DEF insert_user, Settles
  <1>2. ASSUME NEW r \in Calls, SyncCreate(r) PROVE AccountsInv'
    <2> DEFINE c  == request[r].claims
               it == [NoUser EXCEPT !.sub = c.sub, !.email = c.email, !.role = c.role,
                                    !.source = "oidc"]
    <2>1. c \in Claims
      BY <1>2, Kinds DEF SyncCreate, AccountsInv
    <2>2. it \in User /\ it.source = "oidc"
      BY <2>1 DEF Claims, NoUser, User, Names, Linked, Contacts, Ranks
    <2>3. Insert(it)
      BY <1>2 DEF SyncCreate
    <2>4. /\ Done(r) /\ tokens' = tokens /\ revoked' = revoked /\ proven' = proven
          /\ pinned' = pinned /\ lapses' = lapses
      BY <1>2 DEF SyncCreate, Settles
    <2> HIDE DEF it
    <2> QED BY <1>2, <2>2, <2>3, <2>4, InsertKeeps
  <1>3. CASE UNCHANGED accountsVars
    BY <1>3 DEF accountsVars, AccountsInv, AccountsTypeOK, SessionsAge, ChecksHold,
       IdentitiesUnique, LinkIsProven, IsRow
  <1>4. CASE \E r \in Calls : Reads(r)
    BY <1>4, ReadsKeep
  <1>5. ASSUME NEW r \in Calls,
               \/ issue_session_token(r) \/ bump_session_version(r)
               \/ set_user_oidc_link_email(r) \/ link_user_oidc_sub(r)
               \/ SyncKnown(r) \/ SyncAdopt(r)
        PROVE  AccountsInv'
    BY <1>5, IssueKeeps, BumpKeeps, SetEmailKeeps, LinkSubKeeps, SyncKnownKeeps, SyncAdoptKeeps
  <1> QED BY <1>1, <1>2, <1>3, <1>4, <1>5, ExpiryKeeps
          DEF AccountsNext, Reads, Contacts, Linked

\* The bootstrap administrator is the only account of a new directory.
LEMMA InitKeeps == AccountsInit => AccountsInv
  <1> SUFFICES ASSUME AccountsInit PROVE AccountsInv
    OBVIOUS
  <1>1. PICK n \in Usernames : users = ensure_bootstrap_admin(n)
    BY DEF AccountsInit
  <1> DEFINE admin == [NoUser EXCEPT !.name = n, !.role = Max(Roles), !.source = "local"]
  <1>2. admin \in User /\ NoUser \in User /\ admin.sub = Null /\ NoUser.sub = Null
        /\ NoUser.name = Null
    BY HighestIsRole DEF NoUser, User, Names, Linked, Contacts, Ranks
  <1>3. users = [i \in Ids |-> IF i = Min(Ids) THEN admin ELSE NoUser]
    BY <1>1 DEF ensure_bootstrap_admin
  <1> HIDE DEF admin
  <1>4. \A i \in Ids : users[i].sub = Null
    BY <1>2, <1>3
  <1>5. AccountsTypeOK
    BY <1>2, <1>3 DEF AccountsInit, AccountsTypeOK, Unused, Held
  <1>6. IdentitiesUnique
    BY <1>2, <1>3 DEF IdentitiesUnique
  <1>7. LinkIsProven
    BY <1>4 DEF LinkIsProven
  <1>8. SessionsAge /\ ChecksHold
    BY DEF AccountsInit, SessionsAge, ChecksHold, Unused
  <1> QED BY <1>5, <1>6, <1>7, <1>8 DEF AccountsInv

\* The directory's invariant: its shape, the versions of the sessions, and what
\* every request has checked of the row it is about to write.
THEOREM DirectoryInvariance == AccountsSpec => []AccountsInv
  <1> QED BY InitKeeps, NextKeeps, PTL DEF AccountsSpec

\* Logout is final (Accounts.RevokedStaysOut): a session that
\* bump_session_version has revoked is never accepted by resolve_auth_principal
\* again, although logins read session_version before the bump and sign their
\* token after it, and the admin and the sync rewrite the row meanwhile.
THEOREM RevokedSessionsStayOut == AccountsSpec => []RevokedStaysOut
  <1>1. AccountsInv => RevokedStaysOut
    <2> SUFFICES ASSUME AccountsInv, NEW t \in revoked PROVE users[t.uid].ver # t.ver
      BY DEF RevokedStaysOut, session_accepted
    <2>1. t.ver \in Nat /\ users[t.uid].ver \in Nat /\ t.ver < users[t.uid].ver
      BY DEF AccountsInv, AccountsTypeOK, SessionsAge, Session, User
    <2> QED BY <2>1
  <1> QED BY <1>1, DirectoryInvariance, PTL

\* One name or subject is one account, and the right one
\* (Accounts.IdentityHolds), although create_user, link_user_oidc and
\* upsert_oidc_user all look first and write later: the UNIQUE constraints keep
\* names and subjects apart, and a local account answers only to a subject that an
\* admin linked or that adopted it with the verified address it had, and no longer
\* once an admin has re-pointed it.  Excluded: an adoption whose row had been linked
\* or re-addressed since its SELECT (lapses).
THEOREM IdentityAlwaysHolds == AccountsSpec => []IdentityHolds
  <1>1. AccountsInv => IdentityHolds
    BY DEF AccountsInv, IdentityHolds
  <1> QED BY <1>1, DirectoryInvariance, PTL

----------------------------------------------------------------------------
(* Organizations: numbers and sequences.                                   *)

\* What holds of 1, and of each number when it holds of the one before, holds.
LEMMA StepByStep ==
    ASSUME NEW n \in Nat, NEW Good,
           1 \in Good, \A m \in 2..n : m - 1 \in Good => m \in Good
    PROVE  1..n \subseteq Good
  <1> DEFINE Bad == (1..n) \ Good
  <1>1. SUFFICES ASSUME Bad # {} PROVE FALSE
    OBVIOUS
  <1>2. Bad \in SUBSET Nat
    OBVIOUS
  <1>3. PICK m \in Bad : \A k \in Bad : m <= k
    <2> HIDE DEF Bad
    <2> QED BY <1>1, <1>2, LeastOf
  <1>4. m \in 2..n /\ m - 1 \in 1..n
    BY <1>3
  <1>5. m - 1 \notin Bad
    BY <1>3, <1>4
  <1> QED BY <1>3, <1>4, <1>5

\* A list is empty when nothing is in it.
LEMMA EmptyList ==
    ASSUME NEW S, NEW s \in Seq(S)
    PROVE  s = <<>> <=> ToSet(s) = {}
  <1>1. ASSUME s = <<>> PROVE ToSet(s) = {}
    <2>1. DOMAIN s = {}
      BY <1>1
    <2> QED BY <2>1 DEF ToSet
  <1>2. ASSUME s # <<>> PROVE ToSet(s) # {}
    <2>1. 1 \in DOMAIN s
      BY <1>2
    <2> QED BY <2>1 DEF ToSet
  <1> QED BY <1>1, <1>2

\* FlattenSeq joins sequences: what is in the whole is in one of them.
LEMMA JoinedHolds ==
    ASSUME NEW S, NEW seqs \in Seq(Seq(S)), seqs # <<>>
    PROVE  /\ FlattenSeq(seqs) \in Seq(S)
           /\ ToSet(FlattenSeq(seqs)) = UNION {ToSet(seqs[i]) : i \in DOMAIN seqs}
  <1> DEFINE n == Len(seqs)
             Joins(f, m) == f = [i \in 1..m |-> IF i = 1 THEN seqs[i] ELSE f[i - 1] \o seqs[i]]
             whole == CHOOSE f : Joins(f, n)
  <1>1. n \in Nat \ {0} /\ DOMAIN seqs = 1..n /\ \A i \in 1..n : seqs[i] \in Seq(S)
    OBVIOUS
  <1>2. FlattenSeq(seqs) = whole[n]
    BY <1>1 DEF FlattenSeq
  <1>3. \A m, f : Joins(f, m) =>
          \A i \in 1..m : f[i] = IF i = 1 THEN seqs[i] ELSE f[i - 1] \o seqs[i]
    OBVIOUS
  <1>4. \E f : Joins(f, 1)
    <2> DEFINE g == [i \in 1..1 |-> seqs[i]]
    <2>1. Joins(g, 1)
      OBVIOUS
    <2> HIDE DEF g, Joins
    <2> QED BY <2>1
  <1>5. ASSUME NEW m \in 2..n, NEW f, Joins(f, m - 1) PROVE \E g : Joins(g, m)
    <2> DEFINE g == [i \in 1..m |-> IF i = m THEN f[m - 1] \o seqs[m] ELSE f[i]]
    <2>1. \A i \in 1..(m - 1) : f[i] = IF i = 1 THEN seqs[i] ELSE f[i - 1] \o seqs[i]
      BY <1>3, <1>5
    <2>2. \A i \in 1..m : g[i] = IF i = 1 THEN seqs[i] ELSE g[i - 1] \o seqs[i]
      BY <2>1
    <2>3. g = [i \in 1..m |-> g[i]]
      OBVIOUS
    <2> HIDE DEF g
    <2>4. Joins(g, m)
      BY <2>2, <2>3
    <2> HIDE DEF Joins
    <2> QED BY <2>4
  <1>6. \E f : Joins(f, n)
    <2> DEFINE Good == {m \in 1..n : \E f : Joins(f, m)}
    <2>1. 1 \in Good
      <3> HIDE DEF Joins
      <3> QED BY <1>1, <1>4
    <2>2. \A m \in 2..n : m - 1 \in Good => m \in Good
      <3> HIDE DEF Joins
      <3> QED BY <1>1, <1>5
    <2>3. n \in Good
      <3> HIDE DEF Good, n
      <3>1. 1..n \subseteq Good
        BY <1>1, <2>1, <2>2, StepByStep
      <3> QED BY <1>1, <3>1
    <2> HIDE DEF Joins
    <2> QED BY <2>3
  <1>7. Joins(whole, n)
    <2> HIDE DEF Joins
    <2> QED BY <1>6
  <1>8. \A i \in 1..n : whole[i] = IF i = 1 THEN seqs[i] ELSE whole[i - 1] \o seqs[i]
    <2> HIDE DEF whole
    <2> QED BY <1>3, <1>7
  <1> HIDE DEF whole, Joins
  <1> DEFINE Upto(m) == UNION {ToSet(seqs[i]) : i \in 1..m}
             Good == {m \in 1..n : whole[m] \in Seq(S) /\ ToSet(whole[m]) = Upto(m)}
  <1>9. 1 \in Good
    <2>1. whole[1] = seqs[1]
      BY <1>1, <1>8
    <2>2. Upto(1) = ToSet(seqs[1])
      <3>1. 1..1 = {1}
        OBVIOUS
      <3> QED BY <3>1
    <2> HIDE DEF Upto
    <2> QED BY <1>1, <2>1, <2>2
  <1>10. ASSUME NEW m \in 2..n, m - 1 \in Good PROVE m \in Good
    <2> HIDE DEF n
    <2>0. m \in 1..n /\ m # 1
      BY <1>1
    <2>1. whole[m] = whole[m - 1] \o seqs[m] /\ seqs[m] \in Seq(S)
      BY <1>1, <1>8, <2>0
    <2>2. ASSUME NEW s \in Seq(S), NEW t \in Seq(S)
          PROVE  s \o t \in Seq(S) /\ ToSet(s \o t) = ToSet(s) \cup ToSet(t)
      <3> DEFINE u == s \o t
      <3>1. \A i \in DOMAIN s : u[i] = s[i] /\ i \in DOMAIN u
        OBVIOUS
      <3>2. \A i \in DOMAIN t : u[i + Len(s)] = t[i] /\ i + Len(s) \in DOMAIN u
        OBVIOUS
      <3>3. \A i \in DOMAIN u :
              \/ i \in DOMAIN s /\ u[i] = s[i]
              \/ i - Len(s) \in DOMAIN t /\ u[i] = t[i - Len(s)]
        OBVIOUS
      <3>4. u \in Seq(S)
        OBVIOUS
      <3> HIDE DEF u
      <3>5. ToSet(u) = ToSet(s) \cup ToSet(t)
        BY <3>1, <3>2, <3>3 DEF ToSet
      <3> QED BY <3>4, <3>5 DEF u
    <2>3. Upto(m) = Upto(m - 1) \cup ToSet(seqs[m])
      <3>1. 1..m = (1..(m - 1)) \cup {m}
        OBVIOUS
      <3> QED BY <3>1
    <2>4. whole[m - 1] \in Seq(S) /\ ToSet(whole[m - 1]) = Upto(m - 1)
      BY <1>10
    <2> HIDE DEF Upto
    <2> QED BY <2>0, <2>1, <2>2, <2>3, <2>4
  <1>11. n \in Good
    <2>1. \A m \in 2..n : m - 1 \in Good => m \in Good
      BY <1>10
    <2> HIDE DEF Good, n
    <2>2. 1..n \subseteq Good
      BY <1>1, <1>9, <2>1, StepByStep
    <2> QED BY <1>1, <2>2
  <1> QED BY <1>1, <1>2, <1>11

----------------------------------------------------------------------------
(* Names.                                                                  *)

\* The organizations are the catalogue's entries, and there is one.
LEMMA TenantNames == Tenant \subseteq Word /\ Len(Catalogue) \in Nat \ {0}
                     /\ DOMAIN Catalogue = 1..Len(Catalogue)
                     /\ Tenant = {Catalogue[i] : i \in DOMAIN Catalogue}
  BY TenantsAssumption DEF Tenant, ToSet

\* A scoped name is its organization's, and scoping it again changes nothing.
LEMMA ScopedIs ==
    ASSUME NEW S, NEW org \in S, NEW name \in Seq(S)
    PROVE  LET scoped == namespace_scoped(org, name) IN
           /\ scoped \in Seq(S) /\ Own(scoped) /\ Head(scoped) = org
           /\ name # <<>> => Len(scoped) > 1 /\ namespace_scoped(org, scoped) = scoped
  <1> DEFINE longer == <<org>> \o name
  <1>1. longer \in Seq(S) /\ longer # <<>> /\ Head(longer) = org
        /\ (name # <<>> => Len(longer) > 1)
    <2>1. <<org>> \in Seq(S) /\ Len(<<org>>) = 1 /\ name \in Seq(S)
      OBVIOUS
    <2>2. longer \in Seq(S) /\ Len(longer) = 1 + Len(name) /\ longer[1] = org
      BY <2>1
    <2>3. name # <<>> => Len(name) \in Nat \ {0}
      BY <2>1
    <2>4. Len(name) \in Nat
      BY <2>1
    <2> HIDE DEF longer
    <2> QED BY <2>2, <2>3, <2>4
  <1>2. Len(name) > 1 => name # <<>>
    OBVIOUS
  <1> HIDE DEF longer
  <1>3. namespace_scoped(org, name) = IF Len(name) > 1 /\ Head(name) = org THEN name ELSE longer
    BY DEF namespace_scoped, longer
  <1>4. CASE Len(name) > 1 /\ Head(name) = org
    BY <1>2, <1>3, <1>4 DEF Own, namespace_scoped
  <1>5. CASE ~(Len(name) > 1 /\ Head(name) = org)
    BY <1>1, <1>3, <1>5 DEF Own, namespace_scoped
  <1> QED BY <1>4, <1>5

\* Names that are not scoped yet stay apart.
LEMMA ScopedApart ==
    ASSUME NEW org \in Word, NEW a \in Name, NEW b \in Name,
           ~(Len(a) > 1 /\ Head(a) = org), ~(Len(b) > 1 /\ Head(b) = org),
           namespace_scoped(org, a) = namespace_scoped(org, b)
    PROVE  a = b
  <1>1. <<org>> \o a = <<org>> \o b
    BY DEF namespace_scoped
  <1>2. \A s \in Name : Tail(<<org>> \o s) = s
    BY DEF Name
  <1> QED BY <1>1, <1>2

----------------------------------------------------------------------------
(* Documents as they are held.                                             *)
HeldDocument(doc) ==
    /\ Document(doc)
    /\ \A i \in DOMAIN doc.sources : doc.sources[i].at = <<"alone", i>>

\* A source, field by field.
Fields(kind, name, id, tag, preset, interval, when, pattern, at) ==
    [kind : {kind}, name : {name}, id : {id}, tag : {tag}, preset : {preset},
     interval : {interval}, when : {when}, pattern : {pattern}, at : {at}]
Shaped(s) == s \in Fields(s.kind, s.name, s.id, s.tag, s.preset, s.interval, s.when, s.pattern, s.at)

\* A source of a document has the fields and the names the code reads.
LEMMA SourceFields ==
    ASSUME NEW s \in Source
    PROVE  /\ Shaped(s) /\ s.id \in Name /\ s.tag \in Name /\ s.preset \in Name
           /\ s.interval \in Nat
  BY DEF Source, Shaped, Fields

\* What is in a set of records with one value a field has these values.
LEMMA FieldsSay ==
    ASSUME NEW kind, NEW name, NEW id, NEW tag, NEW preset, NEW interval, NEW when, NEW pattern, NEW at,
           NEW s \in Fields(kind, name, id, tag, preset, interval, when, pattern, at)
    PROVE  /\ s.kind = kind /\ s.name = name /\ s.id = id /\ s.tag = tag /\ s.preset = preset
           /\ s.interval = interval /\ s.when = when /\ s.pattern = pattern /\ s.at = at
           /\ Shaped(s)
  BY DEF Fields, Shaped

\* What the sources, sinks and defaults of a document are.
LEMMA DocumentTypes ==
    ASSUME NEW doc, Document(doc)
    PROVE  /\ doc.sources \in Seq(Source) /\ doc.interval \in Nat \ {0} /\ doc.ops \in Name
           /\ DOMAIN doc.sinks = 1..Len(doc.sinks) /\ Len(doc.sinks) \in Nat
           /\ \A i \in DOMAIN doc.sinks : doc.sinks[i].tags \subseteq Name
           /\ doc.when \in Word /\ \A s \in ToSet(doc.sources) : s \in Source
  <1>1. /\ doc.sources \in Seq(Source) /\ doc.interval \in Nat \ {0} /\ doc.ops \in Name
        /\ doc.sinks \in Seq(Notifier) /\ doc.when \in Word
    BY DEF Document
  <1>2. \A i \in DOMAIN doc.sinks : doc.sinks[i] \in Notifier
    BY <1>1
  <1>3. \A i \in DOMAIN doc.sinks : doc.sinks[i].tags \subseteq Name
    BY <1>2 DEF Notifier
  <1>4. \A s \in ToSet(doc.sources) : s \in Source
    BY <1>1 DEF ToSet
  <1> QED BY <1>1, <1>3, <1>4

\* Numbering the sources of a document leaves a document.
LEMMA AloneIsHeld ==
    ASSUME NEW doc, Document(doc)
    PROVE  HeldDocument(Alone(doc))
  <1> DEFINE place(i) == [doc.sources[i] EXCEPT !.at = <<"alone", i>>]
             sources == [i \in DOMAIN doc.sources |-> place(i)]
  <1>1. DOMAIN doc.sources = 1..Len(doc.sources) /\ Len(doc.sources) \in Nat
        /\ \A i \in DOMAIN doc.sources : doc.sources[i] \in Source
    BY DEF Document
  <1>2. ASSUME NEW i \in DOMAIN doc.sources
        PROVE  place(i) \in Source /\ place(i).at = <<"alone", i>>
    <2> DEFINE s == doc.sources[i]
    <2>1. "alone" \in Word
      BY DEF Word
    <2>2. s \in Source /\ <<"alone", i>> \in Word \X Nat
      <3>1. s \in Source /\ i \in Nat
        BY <1>1
      <3>2. \A x \in Word : <<x, i>> \in Word \X Nat
        BY <3>1
      <3> QED BY <2>1, <3>1, <3>2
    <2> HIDE DEF s
    <2>3. ASSUME NEW x \in Word \X Nat
          PROVE  [s EXCEPT !.at = x] \in Source /\ [s EXCEPT !.at = x].at = x
      BY <2>2 DEF Source
    <2>4. [s EXCEPT !.at = <<"alone", i>>] \in Source
          /\ [s EXCEPT !.at = <<"alone", i>>].at = <<"alone", i>>
      BY <2>2, <2>3
    <2> QED BY <2>4 DEF s
  <1>3. sources \in Seq(Source) /\ \A i \in DOMAIN sources : sources[i].at = <<"alone", i>>
    <2> HIDE DEF place
    <2> QED BY <1>1, <1>2
  <1>4. Alone(doc) = [doc EXCEPT !.sources = sources]
    BY DEF Alone
  <1> HIDE DEF sources
  <1> QED BY <1>3, <1>4 DEF Document, HeldDocument

----------------------------------------------------------------------------
(* What an organization contributes.                                       *)
LEMMA PreparedSource ==
    ASSUME NEW org \in Word, NEW doc, Document(doc), NEW i \in DOMAIN doc.sources
    PROVE  LET p == prepare_organization_sources(org, doc)[i]
               s == doc.sources[i]
           IN  /\ p.id = namespace_scoped(org, OrElse(bare_source_id(s.id), <<>>, default_source_id(s)))
               /\ p.tag = namespace_scoped(org, OrElse(s.tag, <<>>, Broadcast))
               /\ p.preset = IF s.preset \in DOMAIN doc.presets
                             THEN namespace_scoped(org, s.preset) ELSE s.preset
               /\ p.interval = OrElse(s.interval, 0, doc.interval)
               /\ p.when = OrElse(s.when, "unset", doc.when)
               /\ p.pattern = s.pattern
               /\ p.at = <<org, i>>
               /\ Shaped(p)
  <1> DEFINE s == doc.sources[i]
  <1>1. s \in Source
    BY DEF Document
  <1> HIDE DEF s
  <1>2. ASSUME NEW a, NEW b, NEW c, NEW d, NEW e, NEW f
        PROVE  [s EXCEPT !.id = a, !.interval = b, !.when = c, !.tag = d, !.preset = e, !.at = f]
                 \in Fields(s.kind, s.name, a, d, e, b, c, s.pattern, f)
    BY <1>1 DEF Source, Fields
  <1> DEFINE p == prepare_organization_sources(org, doc)[i]
             scope(x) == namespace_scoped(org, x)
             id == scope(OrElse(bare_source_id(s.id), <<>>, default_source_id(s)))
             preset == IF s.preset \in DOMAIN doc.presets THEN scope(s.preset) ELSE s.preset
             tag == scope(OrElse(s.tag, <<>>, Broadcast))
  <1>3. p = [s EXCEPT !.id = id, !.interval = OrElse(s.interval, 0, doc.interval),
                      !.when = OrElse(s.when, "unset", doc.when),
                      !.tag = tag, !.preset = preset, !.at = <<org, i>>]
    BY <1>1 DEF prepare_organization_sources, Source, s
  <1> HIDE DEF p, id, preset, tag
  <1>4. p \in Fields(s.kind, s.name, id, tag, preset, OrElse(s.interval, 0, doc.interval),
                     OrElse(s.when, "unset", doc.when), s.pattern, <<org, i>>)
    BY <1>2, <1>3
  <1>5. /\ p.id = id /\ p.tag = tag /\ p.preset = preset /\ Shaped(p)
        /\ p.interval = OrElse(s.interval, 0, doc.interval)
        /\ p.when = OrElse(s.when, "unset", doc.when)
        /\ p.pattern = s.pattern /\ p.at = <<org, i>>
    BY <1>4, FieldsSay
  <1> QED BY <1>5 DEF s, p, id, preset, tag

\* The contributions joined: sources and sinks are somebody's.
LEMMA MergedLists ==
    ASSUME NEW docs, \A org \in Tenant : Document(docs[org])
    PROVE  LET all == compose_organizations(docs) IN
           /\ ToSet(all.sources) = UNION {ToSet(prepare_organization_sources(org, docs[org])) : org \in Tenant}
           /\ ToSet(all.sinks) = UNION {ToSet(namespaced_sinks(org, docs[org])) : org \in Tenant}
           /\ all.sinks = <<>> <=> ToSet(all.sinks) = {}
  <1> DEFINE all == compose_organizations(docs)
             own(i) == docs[Catalogue[i]]
             sources == [i \in DOMAIN Catalogue |-> prepare_organization_sources(Catalogue[i], own(i))]
             sinks == [i \in DOMAIN Catalogue |-> namespaced_sinks(Catalogue[i], own(i))]
             Joined(seqs) == ToSet(FlattenSeq(seqs)) = UNION {ToSet(seqs[i]) : i \in DOMAIN Catalogue}
  <1>1. all.sources = FlattenSeq(sources) /\ all.sinks = FlattenSeq(sinks)
    BY DEF compose_organizations, namespace_organization_desired
  <1>2. \A i \in DOMAIN Catalogue : Document(own(i))
    BY TenantNames
  <1>3. ASSUME NEW seqs, seqs = [i \in DOMAIN Catalogue |-> seqs[i]],
               \A i \in DOMAIN Catalogue : \E m \in Nat : seqs[i] = [k \in 1..m |-> seqs[i][k]]
        PROVE  Joined(seqs) /\ \E S : FlattenSeq(seqs) \in Seq(S)
    <2> DEFINE S == UNION {ToSet(seqs[i]) : i \in DOMAIN Catalogue}
    <2>1. ASSUME NEW i \in DOMAIN Catalogue PROVE seqs[i] \in Seq(S)
      <3>1. PICK m \in Nat : seqs[i] = [k \in 1..m |-> seqs[i][k]]
        BY <1>3
      <3>2. DOMAIN seqs[i] = 1..m
        BY <3>1
      <3>3. \A k \in 1..m : seqs[i][k] \in S
        BY <3>2 DEF ToSet
      <3> HIDE DEF S
      <3> QED BY <3>1, <3>3
    <2>2. seqs \in Seq(Seq(S)) /\ seqs # <<>> /\ DOMAIN seqs = DOMAIN Catalogue
      <3> HIDE DEF S
      <3> QED BY <1>3, <2>1, TenantNames
    <2> HIDE DEF S
    <2> QED BY <2>2, JoinedHolds
  <1>4. Joined(sources)
    <2>1. sources = [i \in DOMAIN Catalogue |-> sources[i]]
      OBVIOUS
    <2>2. ASSUME NEW i \in DOMAIN Catalogue
          PROVE  \E m \in Nat : sources[i] = [k \in 1..m |-> sources[i][k]]
      <3>1. DOMAIN own(i).sources = 1..Len(own(i).sources) /\ Len(own(i).sources) \in Nat
        BY <1>2 DEF Document
      <3>2. sources[i] = [k \in 1..Len(own(i).sources) |-> sources[i][k]]
        BY <3>1 DEF prepare_organization_sources
      <3> QED BY <3>1, <3>2
    <2> HIDE DEF sources, Joined
    <2> QED BY <2>1, <2>2, <1>3
  <1>5. Joined(sinks) /\ \E S : FlattenSeq(sinks) \in Seq(S)
    <2>1. sinks = [i \in DOMAIN Catalogue |-> sinks[i]]
      OBVIOUS
    <2>2. ASSUME NEW i \in DOMAIN Catalogue
          PROVE  \E m \in Nat : sinks[i] = [k \in 1..m |-> sinks[i][k]]
      <3>1. DOMAIN own(i).sinks = 1..Len(own(i).sinks) /\ Len(own(i).sinks) \in Nat
        BY <1>2 DEF Document
      <3>2. sinks[i] = [k \in 1..Len(own(i).sinks) |-> sinks[i][k]]
        BY <3>1 DEF namespaced_sinks
      <3> QED BY <3>1, <3>2
    <2> HIDE DEF sinks, Joined
    <2> QED BY <2>1, <2>2, <1>3
  <1>6. \A s : (\E S : s \in Seq(S)) => (s = <<>> <=> ToSet(s) = {})
    BY EmptyList
  <1>7. UNION {ToSet(sources[i]) : i \in DOMAIN Catalogue}
          = UNION {ToSet(prepare_organization_sources(org, docs[org])) : org \in Tenant}
    BY TenantNames
  <1>8. UNION {ToSet(sinks[i]) : i \in DOMAIN Catalogue}
          = UNION {ToSet(namespaced_sinks(org, docs[org])) : org \in Tenant}
    BY TenantNames
  <1> HIDE DEF sources, sinks, all
  <1> QED BY <1>1, <1>4, <1>5, <1>6, <1>7, <1>8 DEF all

\* An organization is in the catalogue once.
LEMMA OnlyOnePlace ==
    ASSUME NEW i \in DOMAIN Catalogue, NEW j \in DOMAIN Catalogue, Catalogue[i] = Catalogue[j]
    PROVE  i = j
  BY TenantsAssumption

\* Presets get names of two parts or more that begin with their organization
\* (namespace_preset_name).
LEMMA PresetNames ==
    ASSUME NEW org \in Word, NEW doc, Document(doc)
    PROVE  /\ DOMAIN namespaced_presets(org, doc) = {namespace_scoped(org, name) : name \in DOMAIN doc.presets}
           /\ \A n \in DOMAIN namespaced_presets(org, doc) : n \in Name /\ Len(n) > 1 /\ Head(n) = org
           /\ namespaced_presets(org, doc) \in [DOMAIN namespaced_presets(org, doc) -> Preset]
  <1>1. \A name \in DOMAIN doc.presets : name \in Name /\ name # <<>> /\ doc.presets[name] \in Preset
    BY DEF Document
  <1>2. DOMAIN namespaced_presets(org, doc) = {namespace_scoped(org, name) : name \in DOMAIN doc.presets}
    BY DEF namespaced_presets
  <1>3. \A name \in DOMAIN doc.presets :
          LET scoped == namespace_scoped(org, name) IN
          scoped \in Name /\ Len(scoped) > 1 /\ Head(scoped) = org
    BY <1>1, ScopedIs DEF Name
  <1>4. \A n \in DOMAIN namespaced_presets(org, doc) :
          namespaced_presets(org, doc)[n] \in Preset
    BY <1>1, <1>2 DEF namespaced_presets
  <1>5. namespaced_presets(org, doc) = [n \in DOMAIN namespaced_presets(org, doc) |-> namespaced_presets(org, doc)[n]]
    BY DEF namespaced_presets
  <1> QED BY <1>2, <1>3, <1>4, <1>5

\* Presets joined: a name is found with the organization it begins with.
LEMMA MergedPresets ==
    ASSUME NEW docs, \A org \in Tenant : Document(docs[org])
    PROVE  LET presets == compose_organizations(docs).presets IN
           /\ DOMAIN presets = UNION {DOMAIN namespaced_presets(org, docs[org]) : org \in Tenant}
           /\ \A org \in Tenant : \A n \in DOMAIN namespaced_presets(org, docs[org]) :
                 presets[n] = namespaced_presets(org, docs[org])[n]
  <1> DEFINE of(i) == namespaced_presets(Catalogue[i], docs[Catalogue[i]])
             each == [i \in DOMAIN Catalogue |->
                        namespace_organization_desired(Catalogue[i], docs[Catalogue[i]])]
             presets == compose_organizations(docs).presets
             names == UNION {DOMAIN each[i].presets : i \in DOMAIN each}
             holding(n) == {i \in DOMAIN each : n \in DOMAIN each[i].presets}
  <1>1. presets = [n \in names |-> each[Max(holding(n))].presets[n]]
    BY DEF compose_organizations
  <1>2. \A i \in DOMAIN Catalogue : each[i].presets = of(i)
    BY DEF namespace_organization_desired
  <1>3. DOMAIN each = DOMAIN Catalogue
    OBVIOUS
  <1> HIDE DEF each
  <1>4. names = UNION {DOMAIN of(i) : i \in DOMAIN Catalogue}
    BY <1>2, <1>3
  <1>5. UNION {DOMAIN of(i) : i \in DOMAIN Catalogue}
          = UNION {DOMAIN namespaced_presets(org, docs[org]) : org \in Tenant}
    BY TenantNames
  <1>6. ASSUME NEW org \in Tenant, NEW n \in DOMAIN namespaced_presets(org, docs[org])
        PROVE  presets[n] = namespaced_presets(org, docs[org])[n]
    <2>1. PICK i \in DOMAIN Catalogue : Catalogue[i] = org
      BY TenantNames
    <2>2. \A j \in DOMAIN Catalogue : Catalogue[j] \in Word /\ Document(docs[Catalogue[j]])
      BY TenantNames
    <2>3. ASSUME NEW j \in DOMAIN Catalogue, n \in DOMAIN of(j) PROVE j = i
      <3>1. Head(n) = Catalogue[j]
        BY <2>2, <2>3, PresetNames
      <3>2. Head(n) = Catalogue[i]
        BY <2>1, <2>2, PresetNames
      <3> QED BY <3>1, <3>2, OnlyOnePlace
    <2>4. holding(n) = {i}
      BY <1>2, <1>3, <2>1, <2>3
    <2>5. Max({i}) = i
      BY TenantNames DEF Max
    <2>6. n \in names
      BY <1>4, <1>5
    <2>7. presets[n] = each[i].presets[n]
      BY <1>1, <2>4, <2>5, <2>6
    <2> QED BY <1>2, <2>1, <2>7
  <1> QED BY <1>1, <1>4, <1>5, <1>6

----------------------------------------------------------------------------
(* Sinks.                                                                  *)
LEMMA BroadcastIsName == Broadcast \in Name
  <1>1. "__org__" \in Word
    BY DEF Word
  <1>2. \A x \in Word : <<x>> \in Seq(Word)
    OBVIOUS
  <1> QED BY <1>1, <1>2 DEF Broadcast, Name

\* A sink of an organization listens to its tags, and never to every tag.
LEMMA SinkIsNamed ==
    ASSUME NEW org \in Word, NEW doc, Document(doc), NEW k \in ToSet(namespaced_sinks(org, doc))
    PROVE  k.of = org /\ k.tags # {} /\ \A tag \in k.tags : Head(tag) = org
  <1> DEFINE sinks == namespaced_sinks(org, doc)
  <1>1. PICK i \in DOMAIN doc.sinks : k = sinks[i]
    <2>1. DOMAIN sinks = DOMAIN doc.sinks
      BY DEF namespaced_sinks
    <2> HIDE DEF sinks
    <2> QED BY <2>1 DEF ToSet, sinks
  <1>2. /\ k.tags = IF doc.sinks[i].tags = {} THEN catch_all(org, doc)
                    ELSE {namespace_scoped(org, tag) : tag \in doc.sinks[i].tags}
        /\ k.of = org
    BY <1>1 DEF namespaced_sinks
  <1>3. \A name \in Name : Head(namespace_scoped(org, name)) = org
    BY ScopedIs DEF Name
  <1>4. catch_all(org, doc) # {} /\ \A tag \in catch_all(org, doc) : Head(tag) = org
    <2>1. \A s \in ToSet(doc.sources) : s.tag \in Name
      BY DocumentTypes, SourceFields
    <2>2. doc.ops \in Name
      BY DocumentTypes
    <2> QED BY <2>1, <2>2, <1>3, BroadcastIsName DEF catch_all
  <1>5. doc.sinks[i].tags \subseteq Name
    BY <1>1, DocumentTypes
  <1> QED BY <1>2, <1>3, <1>4, <1>5

\* A tag that begins with an organization is heard by that organization's sinks only.
LEMMA AudienceIs ==
    ASSUME NEW docs, \A org \in Tenant : Document(docs[org]),
           NEW org \in Tenant, NEW tag, Own(tag), Head(tag) = org
    PROVE  Audience(compose_organizations(docs).sinks, tag)
             = {k \in ToSet(namespaced_sinks(org, docs[org])) : tag \in k.tags}
  <1>1. ToSet(compose_organizations(docs).sinks)
          = UNION {ToSet(namespaced_sinks(o, docs[o])) : o \in Tenant}
    BY MergedLists
  <1>2. \A o \in Tenant : \A k \in ToSet(namespaced_sinks(o, docs[o])) :
          k.of = o /\ k.tags # {} /\ (tag \in k.tags => o = org)
    <2>1. ASSUME NEW o \in Tenant, NEW k \in ToSet(namespaced_sinks(o, docs[o]))
          PROVE  k.of = o /\ k.tags # {} /\ \A t \in k.tags : Head(t) = o
      <3>1. o \in Word /\ Document(docs[o])
        BY TenantNames
      <3> QED BY <3>1, SinkIsNamed
    <2> QED BY <2>1
  <1> QED BY <1>1, <1>2 DEF Audience, matches_routing_tags

----------------------------------------------------------------------------
(* Watches.                                                                *)
LEMMA WatchFields ==
    ASSUME NEW s, Shaped(s), NEW doc, NEW presets
    PROVE  LET w == into_watch(s, doc, presets)
               preset == presets[s.preset]
               when == IF Own(s.preset) THEN OrElse(s.when, "unset", preset.when) ELSE s.when
               interval == IF Own(s.preset) THEN OrElse(s.interval, 0, preset.interval) ELSE s.interval
           IN  w = [id |-> OrElse(s.id, <<>>, own_id(s)),
                    tag |-> IF Own(s.preset) THEN OrElse(s.tag, <<>>, preset.tag) ELSE s.tag,
                    pattern |-> IF Own(s.preset) THEN OrElse(s.pattern, "", preset.pattern) ELSE s.pattern,
                    interval |-> OrElse(interval, 0, doc.interval),
                    when |-> IF when = "unset" THEN OrElse(doc.when, "unset", "") ELSE when,
                    at |-> s.at]
  <1>1. ASSUME NEW a, NEW b, NEW c, NEW d
        PROVE  [s EXCEPT !.tag = a, !.interval = b, !.when = c, !.pattern = d]
                 \in Fields(s.kind, s.name, s.id, a, s.preset, b, c, d, s.at)
    BY DEF Shaped, Fields
  <1>2. CASE Own(s.preset)
    <2> DEFINE c == with_preset_resolved(presets, s)
               preset == presets[s.preset]
               tag == OrElse(s.tag, <<>>, preset.tag)
               interval == OrElse(s.interval, 0, preset.interval)
               when == OrElse(s.when, "unset", preset.when)
               pattern == OrElse(s.pattern, "", preset.pattern)
    <2>1. c = [s EXCEPT !.tag = tag, !.interval = interval, !.when = when, !.pattern = pattern]
      BY <1>2 DEF with_preset_resolved, merge_into, Shaped, Fields
    <2> HIDE DEF c, tag, interval, when, pattern
    <2>2. c \in Fields(s.kind, s.name, s.id, tag, s.preset, interval, when, pattern, s.at)
      BY <1>1, <2>1
    <2>3. c.tag = tag /\ c.interval = interval /\ c.when = when /\ c.pattern = pattern
      BY <2>2, FieldsSay
    <2>4. into_watch(s, doc, presets) =
            [id |-> OrElse(s.id, <<>>, own_id(s)), tag |-> tag, pattern |-> pattern,
             interval |-> OrElse(interval, 0, doc.interval),
             when |-> IF when = "unset" THEN OrElse(doc.when, "unset", "") ELSE when, at |-> s.at]
      BY <2>3 DEF into_watch, resolve_notify_schedule, c
    <2> QED BY <1>2, <2>4 DEF tag, interval, when, pattern
  <1>3. CASE ~Own(s.preset)
    BY <1>3 DEF into_watch, resolve_notify_schedule, with_preset_resolved
  <1> QED BY <1>2, <1>3

Placed(docs, org, i) ==
    LET all == compose_organizations(docs) IN
    into_watch(prepare_organization_sources(org, docs[org])[i], all,
               effective_source_presets(all.presets))

\* What is watched is each source of each organization.
LEMMA MergedWatches ==
    ASSUME NEW docs, \A org \in Tenant : Document(docs[org])
    PROVE  LET watches == to_watches(compose_organizations(docs)) IN
           /\ \A w \in watches :
                \E org \in Tenant : \E i \in DOMAIN docs[org].sources : w = Placed(docs, org, i)
           /\ \A org \in Tenant : \A i \in DOMAIN docs[org].sources : Placed(docs, org, i) \in watches
  <1> DEFINE all == compose_organizations(docs)
  <1>1. ToSet(all.sources) = UNION {ToSet(prepare_organization_sources(org, docs[org])) : org \in Tenant}
    BY MergedLists
  <1> HIDE DEF all
  <1>2. \A s : s \in ToSet(all.sources) <=>
          \E org \in Tenant : \E i \in DOMAIN docs[org].sources :
              s = prepare_organization_sources(org, docs[org])[i]
    <2>1. \A org \in Tenant : DOMAIN prepare_organization_sources(org, docs[org]) = DOMAIN docs[org].sources
      BY DEF prepare_organization_sources
    <2> QED BY <1>1, <2>1 DEF ToSet
  <1>3. to_watches(all) = {into_watch(s, all, effective_source_presets(all.presets)) : s \in ToSet(all.sources)}
    BY DEF to_watches
  <1>4. \A org, i : Placed(docs, org, i) =
          into_watch(prepare_organization_sources(org, docs[org])[i], all, effective_source_presets(all.presets))
    BY DEF Placed, all
  <1>5. \A w \in to_watches(all) :
          \E org \in Tenant : \E i \in DOMAIN docs[org].sources : w = Placed(docs, org, i)
    BY <1>2, <1>3, <1>4
  <1>6. \A org \in Tenant : \A i \in DOMAIN docs[org].sources : Placed(docs, org, i) \in to_watches(all)
    BY <1>2, <1>3, <1>4
  <1> QED BY <1>5, <1>6 DEF all

\* A default id has one part.
LEMMA DefaultIds ==
    ASSUME NEW s
    PROVE  \E x : default_source_id(s) = <<x>>
  BY DEF default_source_id

\* The names of a watch, and what its document settles.
LEMMA PlacedIs ==
    ASSUME NEW docs, \A org \in Tenant : Document(docs[org]),
           NEW org \in Tenant, NEW i \in DOMAIN docs[org].sources
    PROVE  LET w == Placed(docs, org, i)
               p == prepare_organization_sources(org, docs[org])[i]
           IN  /\ w.id = p.id /\ w.tag = p.tag /\ w.interval = p.interval
               /\ w.at = <<org, i>>
               /\ Own(w.id) /\ Head(w.id) = org
               /\ Own(w.tag) /\ Head(w.tag) = org /\ w.tag \in Name
               /\ w.interval \in Nat \ {0}
  <1> DEFINE all == compose_organizations(docs)
             presets == effective_source_presets(all.presets)
             w == Placed(docs, org, i)
             p == prepare_organization_sources(org, docs[org])[i]
             s == docs[org].sources[i]
             scope(x) == namespace_scoped(org, x)
             id == OrElse(bare_source_id(s.id), <<>>, default_source_id(s))
             tag == OrElse(s.tag, <<>>, Broadcast)
  <1>1. org \in Word /\ Document(docs[org]) /\ s \in Source
    BY TenantNames, DocumentTypes
  <1>2. /\ p.id = scope(id) /\ p.tag = scope(tag) /\ Shaped(p) /\ p.at = <<org, i>>
        /\ p.interval = OrElse(s.interval, 0, docs[org].interval)
    BY <1>1, PreparedSource
  <1>3. tag \in Name
    BY <1>1, SourceFields, BroadcastIsName DEF OrElse
  <1>4. Own(scope(tag)) /\ Head(scope(tag)) = org /\ scope(tag) \in Name
    <2> HIDE DEF tag
    <2> QED BY <1>1, <1>3, ScopedIs DEF Name
  <1>5. Own(scope(id)) /\ Head(scope(id)) = org
    <2>1. PICK x : default_source_id(s) = <<x>>
      BY DefaultIds
    <2>2. CASE bare_source_id(s.id) # <<>>
      <3>1. bare_source_id(s.id) \in Name
        BY <1>1, SourceFields DEF bare_source_id, Name
      <3>2. id = bare_source_id(s.id)
        BY <2>2 DEF OrElse
      <3> HIDE DEF id
      <3>3. \A name \in Name : Own(scope(name)) /\ Head(scope(name)) = org
        BY <1>1, ScopedIs DEF Name
      <3> HIDE DEF scope
      <3> QED BY <3>1, <3>2, <3>3
    <2>3. CASE bare_source_id(s.id) = <<>>
      <3>1. id = <<x>>
        BY <2>1, <2>3 DEF OrElse
      <3> HIDE DEF id
      <3>2. <<x>> \in Seq({org, x})
        OBVIOUS
      <3> QED BY <3>1, <3>2, ScopedIs
    <2> QED BY <2>2, <2>3
  <1>6. OrElse(s.interval, 0, docs[org].interval) \in Nat \ {0}
    BY <1>1, SourceFields, DocumentTypes DEF OrElse
  <1>7. /\ w.id = OrElse(p.id, <<>>, own_id(p)) /\ w.at = p.at
        /\ w.tag = IF Own(p.preset) THEN OrElse(p.tag, <<>>, presets[p.preset].tag) ELSE p.tag
        /\ w.interval = OrElse(IF Own(p.preset) THEN OrElse(p.interval, 0, presets[p.preset].interval)
                               ELSE p.interval, 0, all.interval)
    <2>1. w = into_watch(p, all, presets)
      BY DEF Placed
    <2>2. Shaped(p)
      BY <1>2
    <2> HIDE DEF w, p, all, presets
    <2> DEFINE preset == presets[p.preset]
               found == IF Own(p.preset) THEN OrElse(p.tag, <<>>, preset.tag) ELSE p.tag
               pattern == IF Own(p.preset) THEN OrElse(p.pattern, "", preset.pattern) ELSE p.pattern
               said == IF Own(p.preset) THEN OrElse(p.when, "unset", preset.when) ELSE p.when
               when == IF said = "unset" THEN OrElse(all.when, "unset", "") ELSE said
               interval == IF Own(p.preset) THEN OrElse(p.interval, 0, preset.interval) ELSE p.interval
    <2>3. into_watch(p, all, presets) =
            [id |-> OrElse(p.id, <<>>, own_id(p)), tag |-> found, pattern |-> pattern,
             interval |-> OrElse(interval, 0, all.interval), when |-> when, at |-> p.at]
      BY <2>2, WatchFields
    <2> HIDE DEF found, pattern, when, interval
    <2>4. w.id = OrElse(p.id, <<>>, own_id(p)) /\ w.at = p.at /\ w.tag = found
          /\ w.interval = OrElse(interval, 0, all.interval)
      BY <2>1, <2>3
    <2> QED BY <2>4 DEF found, interval
  <1> HIDE DEF w, p, all, presets, id, tag, scope, s
  <1>8. w.id = p.id /\ w.tag = p.tag /\ w.interval = p.interval
    BY <1>2, <1>4, <1>5, <1>6, <1>7 DEF OrElse, Own
  <1> QED BY <1>2, <1>4, <1>5, <1>6, <1>7, <1>8 DEF w, p

----------------------------------------------------------------------------
\* The inductive invariant: what runs is composed of the documents held, and
\* every preset in it is found.
TenantsInv ==
    /\ held = [org \in Tenant |-> held[org]]
    /\ \A org \in Tenant : HeldDocument(held[org])
    /\ merged = compose_organizations(held)
    /\ Resolvable(merged)

\* Organizations without documents make a configuration without sources.
LEMMA InitTenants == TenantsInit => TenantsInv
  <1> SUFFICES ASSUME TenantsInit PROVE TenantsInv
    OBVIOUS
  <1>1. Document(NoDocument)
    <2>1. <<>> \in Seq(Source) /\ <<>> \in Seq(Notifier) /\ <<>> \in Name
      BY DEF Name
    <2>2. NoDocument.presets = <<>> /\ DOMAIN NoDocument.presets = {}
      BY DEF NoDocument
    <2>3. "unset" \in Word
      BY DEF Word
    <2> QED BY <2>1, <2>2, <2>3 DEF Document, NoDocument
  <1>2. HeldDocument(Alone(NoDocument))
    BY <1>1, AloneIsHeld
  <1>3. held = [org \in Tenant |-> held[org]] /\ \A org \in Tenant : held[org] = Alone(NoDocument)
    BY DEF TenantsInit
  <1>4. \A org \in Tenant : HeldDocument(held[org]) /\ Document(held[org])
    BY <1>2, <1>3 DEF HeldDocument
  <1>5. merged = compose_organizations(held)
    BY DEF TenantsInit
  <1>6. Resolvable(merged)
    <2>1. ASSUME NEW org \in Tenant PROVE DOMAIN held[org].sources = {}
      <3>1. Alone(NoDocument).sources =
              [i \in DOMAIN NoDocument.sources |-> [NoDocument.sources[i] EXCEPT !.at = <<"alone", i>>]]
        BY DEF Alone, NoDocument
      <3>2. DOMAIN NoDocument.sources = {}
        BY DEF NoDocument
      <3> QED BY <1>3, <3>1, <3>2
    <2>2. ASSUME NEW org \in Tenant PROVE ToSet(prepare_organization_sources(org, held[org])) = {}
      <3>1. DOMAIN prepare_organization_sources(org, held[org]) = {}
        BY <2>1 DEF prepare_organization_sources
      <3> QED BY <3>1 DEF ToSet
    <2>3. ToSet(merged.sources) =
            UNION {ToSet(prepare_organization_sources(org, held[org])) : org \in Tenant}
      BY <1>4, <1>5, MergedLists
    <2>4. ToSet(merged.sources) = {}
      BY <2>2, <2>3
    <2> QED BY <2>4 DEF Resolvable
  <1> QED BY <1>3, <1>4, <1>5, <1>6 DEF TenantsInv

\* An apply keeps the invariant: the candidate has passed validate_sources.
LEMMA PushIsHeld ==
    ASSUME TenantsInv, NEW org \in Tenant, NEW doc \in Drafts, PushDocument(org, doc)
    PROVE  TenantsInv'
  <1>1. Document(doc)
    BY TenantsAssumption
  <1>2. HeldDocument(Alone(doc))
    BY <1>1, AloneIsHeld
  <1>3. held' = [held EXCEPT ![org] = Alone(doc)] /\ merged' = compose_organizations(held')
    BY DEF PushDocument
  <1>4. held' = [o \in Tenant |-> held'[o]] /\ \A o \in Tenant : HeldDocument(held'[o])
    BY <1>2, <1>3 DEF TenantsInv
  <1>5. validate_tenant(merged').errors = {}
    BY DEF PushDocument
  <1>6. validate_sources(merged').errors = {}
    BY <1>5 DEF validate_tenant
  <1>7. Resolvable(merged')
    BY <1>6 DEF validate_sources
  <1> QED BY <1>3, <1>4, <1>7 DEF TenantsInv

\* The only step is an apply.
LEMMA NextTenants == TenantsInv /\ [TenantsNext]_tenantsVars => TenantsInv'
  <1> SUFFICES ASSUME TenantsInv, [TenantsNext]_tenantsVars PROVE TenantsInv'
    OBVIOUS
  <1>1. ASSUME NEW org \in Tenant, NEW doc \in Drafts, PushDocument(org, doc) PROVE TenantsInv'
    BY <1>1, PushIsHeld
  <1>2. CASE UNCHANGED tenantsVars
    BY <1>2 DEF tenantsVars, TenantsInv
  <1> QED BY <1>1, <1>2 DEF TenantsNext

\* After any documents for any organizations, in any order, the process runs the
\* composition of those it holds (compose_organizations), and every preset that a
\* source of it names is found.
THEOREM TenantsInvariance == TenantsSpec => []TenantsInv
  BY InitTenants, NextTenants, PTL DEF TenantsSpec

----------------------------------------------------------------------------
(* The parts of TenantsApart.                                              *)
LEMMA HeldIs ==
    ASSUME TenantsInv
    PROVE  /\ \A org \in Tenant : Document(held[org]) /\ org \in Word
           /\ merged = compose_organizations(held)
  BY TenantNames DEF TenantsInv, HeldDocument

\* Every tag of a watch begins with its organization, and so does every tag an
\* organization's sink listens to, wildcards included (catch_all).
LEMMA IsolationHolds ==
    ASSUME TenantsInv PROVE Isolation
  <1> SUFFICES ASSUME NEW w \in Watched, NEW k \in Audience(merged.sinks, w.tag) PROVE k.of = OwnerOf(w)
    BY DEF Isolation
  <1>1. PICK org \in Tenant : \E i \in DOMAIN held[org].sources : w = Placed(held, org, i)
    BY HeldIs, MergedWatches DEF Watched
  <1>2. OwnerOf(w) = org /\ Own(w.tag) /\ Head(w.tag) = org
    BY <1>1, HeldIs, PlacedIs DEF OwnerOf
  <1>3. k \in ToSet(namespaced_sinks(org, held[org]))
    BY <1>2, HeldIs, AudienceIs
  <1> QED BY <1>2, <1>3, HeldIs, SinkIsNamed

\* A name that does not hold the organization's is given it once.
LEMMA ScopedOnce ==
    ASSUME NEW S, NEW org \in S, NEW name \in Seq(S), name # <<>>,
           org \notin ToSet(bare_source_id(name))
    PROVE  Head(Tail(namespace_scoped(org, name))) # org
  <1>1. Len(name) \in Nat \ {0} /\ name[1] = Head(name)
    OBVIOUS
  <1>2. CASE Len(name) = 1
    <2>1. Head(name) # org
      BY <1>1, <1>2 DEF bare_source_id, ToSet
    <2>2. Tail(<<org>> \o name) = name
      OBVIOUS
    <2> QED BY <1>2, <2>1, <2>2 DEF namespace_scoped
  <1>3. CASE Len(name) > 1
    <2> DEFINE rest == Tail(name)
    <2>1. rest \in Seq(S) /\ rest # <<>>
      <3>1. rest \in Seq(S) /\ Len(rest) = Len(name) - 1
        BY <1>1
      <3>2. Len(<<>>) = 0
        OBVIOUS
      <3> HIDE DEF rest
      <3> QED BY <1>1, <1>3, <3>1, <3>2
    <2>2. rest = bare_source_id(name)
      BY <1>3 DEF bare_source_id
    <2>3. Head(rest) \in ToSet(rest)
      <3> HIDE DEF rest
      <3> QED BY <2>1 DEF ToSet
    <2>4. Head(rest) # org
      BY <2>2, <2>3
    <2>5. CASE Head(name) = org
      BY <1>3, <2>4, <2>5 DEF namespace_scoped
    <2>6. CASE Head(name) # org
      <3>1. Tail(<<org>> \o name) = name
        OBVIOUS
      <3>2. namespace_scoped(org, name) = <<org>> \o name
        BY <2>6 DEF namespace_scoped
      <3>3. Tail(namespace_scoped(org, name)) = name
        BY <3>1, <3>2, Zenon
      <3> QED BY <2>6, <3>3, Zenon
    <2> QED BY <2>5, <2>6
  <1>4. Len(name) = 1 \/ Len(name) > 1
    <2> DEFINE n == Len(name)
    <2>1. n \in Nat \ {0}
      BY <1>1
    <2> HIDE DEF n
    <2>2. n = 1 \/ n > 1
      BY <2>1
    <2> QED BY <2>2 DEF n
  <1> QED BY <1>2, <1>3, <1>4, Zenon

\* Removing a prefix twice leaves nothing that removing it once does not.
LEMMA BareOfBare ==
    ASSUME NEW S, NEW name \in Seq(S)
    PROVE  /\ bare_source_id(name) \in Seq(S)
           /\ ToSet(bare_source_id(bare_source_id(name))) \subseteq ToSet(bare_source_id(name))
  <1>1. \A s \in Seq(S) : bare_source_id(s) \in Seq(S) /\ ToSet(bare_source_id(s)) \subseteq ToSet(s)
    <2> SUFFICES ASSUME NEW s \in Seq(S)
                 PROVE  bare_source_id(s) \in Seq(S) /\ ToSet(bare_source_id(s)) \subseteq ToSet(s)
      OBVIOUS
    <2>1. CASE Len(s) > 1
      <3>1. Tail(s) \in Seq(S) /\ \A i \in DOMAIN Tail(s) : i + 1 \in DOMAIN s /\ Tail(s)[i] = s[i + 1]
        BY <2>1
      <3> QED BY <2>1, <3>1 DEF bare_source_id, ToSet
    <2>2. CASE ~(Len(s) > 1)
      BY <2>2 DEF bare_source_id
    <2> QED BY <2>1, <2>2
  <1> QED BY <1>1

\* namespace_source_id and namespace_routing_tag put the organization's name first,
\* and bare_source_id has removed an old one.
LEMMA NamedOnceHolds ==
    ASSUME TenantsInv PROVE NamedOnce
  <1> SUFFICES ASSUME NEW w \in Watched
               PROVE  /\ Head(w.id) = OwnerOf(w) /\ Head(w.tag) = OwnerOf(w)
                      /\ ~NamesItself(OwnerOf(w), held[OwnerOf(w)]) =>
                           Head(Tail(w.id)) # OwnerOf(w) /\ Head(Tail(w.tag)) # OwnerOf(w)
                      /\ w.interval > 0
    BY DEF NamedOnce
  <1>1. PICK org \in Tenant : \E i \in DOMAIN held[org].sources : w = Placed(held, org, i)
    BY HeldIs, MergedWatches DEF Watched
  <1>2. PICK i \in DOMAIN held[org].sources : w = Placed(held, org, i)
    BY <1>1
  <1> DEFINE p == prepare_organization_sources(org, held[org])[i]
             s == held[org].sources[i]
  <1>3. /\ w.id = p.id /\ w.tag = p.tag /\ OwnerOf(w) = org
        /\ Head(w.id) = org /\ Head(w.tag) = org /\ w.interval > 0
    BY <1>2, HeldIs, PlacedIs DEF OwnerOf
  <1>4. /\ p.id = namespace_scoped(org, OrElse(bare_source_id(s.id), <<>>, default_source_id(s)))
        /\ p.tag = namespace_scoped(org, OrElse(s.tag, <<>>, Broadcast))
    BY HeldIs, PreparedSource
  <1>5. s \in Source /\ s \in ToSet(held[org].sources) /\ org \in Word
    BY HeldIs, DocumentTypes DEF ToSet
  <1>6. s.id \in Name /\ s.tag \in Name
    BY <1>5, SourceFields
  <1> HIDE DEF p, s
  <1>7. ASSUME ~NamesItself(org, held[org])
        PROVE  Head(Tail(p.id)) # org /\ Head(Tail(p.tag)) # org
    <2>1. \A name \in {s.id, default_source_id(s), s.tag, Broadcast} : org \notin ToSet(bare_source_id(name))
      BY <1>5, <1>7 DEF NamesItself
    <2>2. Head(Tail(p.tag)) # org
      <3> DEFINE tag == OrElse(s.tag, <<>>, Broadcast)
      <3>1. tag \in Seq(Word) /\ tag # <<>> /\ org \notin ToSet(bare_source_id(tag))
        BY <1>6, <2>1, BroadcastIsName DEF OrElse, Name, Broadcast
      <3> HIDE DEF tag
      <3>2. Head(Tail(namespace_scoped(org, tag))) # org
        BY <1>5, <3>1, ScopedOnce
      <3> QED BY <1>4, <3>2 DEF tag
    <2>3. CASE bare_source_id(s.id) # <<>>
      <3> DEFINE id == bare_source_id(s.id)
      <3>1. id \in Seq(Word) /\ org \notin ToSet(bare_source_id(id))
        BY <1>6, <2>1, BareOfBare DEF Name
      <3>2. p.id = namespace_scoped(org, id)
        BY <1>4, <2>3 DEF OrElse
      <3> HIDE DEF id
      <3>3. id # <<>>
        BY <2>3 DEF id
      <3>4. Head(Tail(namespace_scoped(org, id))) # org
        BY <1>5, <3>1, <3>3, ScopedOnce
      <3> QED BY <2>2, <3>2, <3>4
    <2>4. CASE bare_source_id(s.id) = <<>>
      <3>1. PICK x : default_source_id(s) = <<x>>
        BY DefaultIds
      <3>2. p.id = namespace_scoped(org, <<x>>) /\ org \notin ToSet(bare_source_id(<<x>>))
        BY <1>4, <2>1, <2>4, <3>1 DEF OrElse
      <3>3. <<x>> \in Seq({org, x}) /\ <<x>> # <<>>
        OBVIOUS
      <3>4. Head(Tail(namespace_scoped(org, <<x>>))) # org
        BY <3>2, <3>3, ScopedOnce
      <3> QED BY <2>2, <3>2, <3>4
    <2> QED BY <2>3, <2>4
  <1> QED BY <1>3, <1>7

\* What validation does not complain of is heard.
LEMMA HeardIs ==
    ASSUME NEW doc, Quiet(doc), doc.sinks = <<>> <=> ToSet(doc.sinks) = {}, NEW w \in to_watches(doc)
    PROVE  Audience(doc.sinks, w.tag) # {}
  <1>1. /\ validate_notifiers(doc).warnings = {}
        /\ validate_team_routing(doc).errors = {} /\ validate_team_routing(doc).warnings = {}
        /\ validate_sources(doc).errors = {}
    BY DEF Quiet, validate_tenant
  <1>2. doc.sinks # <<>> /\ ToSet(doc.sinks) # {}
    BY <1>1 DEF validate_notifiers
  <1>3. unmatched(doc) = {} /\ (Wildcard(doc) \/ SinkTags(doc) = {} \/ untagged(doc) = {})
    BY <1>1, <1>2 DEF validate_team_routing
  <1>4. Resolvable(doc)
    BY <1>1 DEF validate_sources
  <1>5. PICK s \in ToSet(doc.sources) : w.tag = EffectiveTag(doc, s)
    BY <1>4 DEF to_watches, Resolvable, into_watch, EffectiveTag
  <1>6. CASE Wildcard(doc)
    BY <1>6 DEF Wildcard, Audience, matches_routing_tags
  <1>7. CASE ~Wildcard(doc)
    <2>1. SinkTags(doc) # {}
      BY <1>2, <1>7 DEF SinkTags, Wildcard
    <2>2. Own(w.tag)
      BY <1>3, <1>5, <1>7, <2>1 DEF untagged
    <2>3. w.tag \in SinkTags(doc)
      BY <1>3, <1>5, <1>7, <2>2 DEF unmatched
    <2> QED BY <2>2, <2>3 DEF SinkTags, Audience, matches_routing_tags
  <1> QED BY <1>6, <1>7

\* Both the running configuration and the documents held are configurations, so
\* what validation says of a configuration is true of each.
LEMMA NothingUnheard ==
    ASSUME TenantsInv PROVE NothingGoesUnheard
  <1>1. merged.sinks = <<>> <=> ToSet(merged.sinks) = {}
    BY HeldIs, MergedLists
  <1>2. ASSUME NEW org \in Tenant
        PROVE  held[org].sinks = <<>> <=> ToSet(held[org].sinks) = {}
    <2>1. Document(held[org])
      BY HeldIs
    <2>2. held[org].sinks \in Seq(Notifier)
      BY <2>1 DEF Document
    <2> QED BY <2>2, EmptyList
  <1> QED BY <1>1, <1>2, HeardIs DEF NothingGoesUnheard

----------------------------------------------------------------------------
(* A document beside others, and the same document alone.                  *)

\* The watch of a source, where its document is the whole configuration.
Lone(doc, i) == into_watch(doc.sources[i], doc, effective_source_presets(doc.presets))

\* Alone, source i of a document is the watch into_watch makes of it.
LEMMA LoneIs ==
    ASSUME NEW doc, HeldDocument(doc), NEW i \in DOMAIN doc.sources
    PROVE  (CHOOSE w \in to_watches(doc) : w.at = <<"alone", i>>) = Lone(doc, i)
  <1>1. ASSUME NEW j \in DOMAIN doc.sources PROVE Lone(doc, j).at = <<"alone", j>>
    <2>1. Shaped(doc.sources[j]) /\ doc.sources[j].at = <<"alone", j>>
      BY DocumentTypes, SourceFields DEF HeldDocument, ToSet
    <2> DEFINE s == doc.sources[j]
               presets == effective_source_presets(doc.presets)
    <2> HIDE DEF s, presets
    <2>2. into_watch(s, doc, presets).at = s.at
      BY DEF into_watch
    <2> QED BY <2>1, <2>2 DEF Lone, s, presets
  <1>2. to_watches(doc) = {Lone(doc, j) : j \in DOMAIN doc.sources}
    BY DEF to_watches, Lone, ToSet
  <1> DEFINE w == CHOOSE x \in to_watches(doc) : x.at = <<"alone", i>>
  <1>3. w \in to_watches(doc) /\ w.at = <<"alone", i>>
    BY <1>1, <1>2
  <1> HIDE DEF w
  <1>4. PICK j \in DOMAIN doc.sources : w = Lone(doc, j)
    BY <1>2, <1>3
  <1>5. j = i
    BY <1>1, <1>3, <1>4
  <1> QED BY <1>4, <1>5 DEF w

\* Beside others, source i of an organization is the one watch that comes from it.
LEMMA HereIs ==
    ASSUME TenantsInv, NEW org \in Tenant, NEW i \in DOMAIN held[org].sources
    PROVE  (CHOOSE w \in Watched : w.at = <<org, i>>) = Placed(held, org, i)
  <1>1. /\ \A w \in Watched : \E o \in Tenant : \E j \in DOMAIN held[o].sources : w = Placed(held, o, j)
        /\ Placed(held, org, i) \in Watched
    BY HeldIs, MergedWatches DEF Watched
  <1>2. \A o \in Tenant : \A j \in DOMAIN held[o].sources : Placed(held, o, j).at = <<o, j>>
    BY HeldIs, PlacedIs
  <1> DEFINE w == CHOOSE x \in Watched : x.at = <<org, i>>
  <1>3. w \in Watched /\ w.at = <<org, i>>
    BY <1>1, <1>2
  <1> HIDE DEF w
  <1>4. PICK o \in Tenant : \E j \in DOMAIN held[o].sources : w = Placed(held, o, j)
    BY <1>1, <1>3
  <1>5. PICK j \in DOMAIN held[o].sources : w = Placed(held, o, j)
    BY <1>4
  <1>6. o = org /\ j = i
    BY <1>2, <1>3, <1>5
  <1> QED BY <1>5, <1>6 DEF w

\* A preset is the same one under the name it has in the merged configuration.
LEMMA SamePreset ==
    ASSUME TenantsInv, NEW org \in Tenant, NEW i \in DOMAIN held[org].sources,
           Resolvable(held[org]), ~KnowsTheMerge(org, held[org])
    PROVE  LET s == held[org].sources[i]
               p == prepare_organization_sources(org, held[org])[i]
           IN  /\ Own(p.preset) <=> Own(s.preset)
               /\ Own(s.preset) => effective_source_presets(merged.presets)[p.preset]
                                     = effective_source_presets(held[org].presets)[s.preset]
  <1> DEFINE doc == held[org]
             s == doc.sources[i]
             p == prepare_organization_sources(org, doc)[i]
  <1>1. Document(doc) /\ org \in Word /\ s \in ToSet(doc.sources) /\ s \in Source
    BY HeldIs, DocumentTypes DEF ToSet
  <1>2. p.preset = IF s.preset \in DOMAIN doc.presets THEN namespace_scoped(org, s.preset) ELSE s.preset
    BY <1>1, PreparedSource
  <1>3. /\ DOMAIN merged.presets = UNION {DOMAIN namespaced_presets(o, held[o]) : o \in Tenant}
        /\ \A n \in DOMAIN namespaced_presets(org, doc) : merged.presets[n] = namespaced_presets(org, doc)[n]
    BY HeldIs, MergedPresets
  <1> HIDE DEF s, p, doc
  <1>4. CASE s.preset \in DOMAIN doc.presets
    <2> DEFINE scoped == namespace_scoped(org, s.preset)
    <2>1. \A n \in DOMAIN doc.presets : n \in Name /\ n # <<>> /\ ~(Len(n) > 1 /\ Head(n) = org)
      BY <1>1 DEF Document, KnowsTheMerge, doc
    <2>2. \A n \in DOMAIN doc.presets : namespace_scoped(org, n) = scoped => n = s.preset
      BY <1>1, <1>4, <2>1, ScopedApart
    <2>3. Own(scoped)
      BY <1>1, <1>4, <2>1, ScopedIs DEF Name
    <2>4. scoped \in DOMAIN namespaced_presets(org, doc)
      <3>1. DOMAIN namespaced_presets(org, doc) = {namespace_scoped(org, name) : name \in DOMAIN doc.presets}
        BY <1>1, PresetNames
      <3>2. scoped \in {namespace_scoped(org, name) : name \in DOMAIN doc.presets}
        BY <1>4
      <3> HIDE DEF scoped
      <3> QED BY <3>1, <3>2
    <2>5. namespaced_presets(org, doc)[scoped] =
            doc.presets[CHOOSE n \in DOMAIN doc.presets : namespace_scoped(org, n) = scoped]
      BY <2>4 DEF namespaced_presets
    <2>6. (CHOOSE n \in DOMAIN doc.presets : namespace_scoped(org, n) = scoped) = s.preset
      BY <1>4, <2>2
    <2>7. namespaced_presets(org, doc)[scoped] = doc.presets[s.preset]
      BY <2>5, <2>6
    <2>8. p.preset = scoped /\ Own(s.preset)
      BY <1>2, <1>4, <2>1 DEF Own
    <2> HIDE DEF scoped
    <2>9. scoped \in DOMAIN merged.presets /\ merged.presets[scoped] = doc.presets[s.preset]
      <3>1. scoped \in DOMAIN merged.presets
        BY <1>3, <2>4 DEF doc
      <3>2. merged.presets[scoped] = namespaced_presets(org, doc)[scoped]
        BY <1>3, <2>4
      <3> QED BY <2>7, <3>1, <3>2
    <2>10. effective_source_presets(merged.presets)[scoped] = doc.presets[s.preset]
      BY <2>9 DEF effective_source_presets
    <2>11. effective_source_presets(doc.presets)[s.preset] = doc.presets[s.preset]
      BY <1>4 DEF effective_source_presets
    <2> QED BY <2>3, <2>8, <2>10, <2>11 DEF s, p, doc
  <1>5. CASE s.preset \notin DOMAIN doc.presets
    <2>1. p.preset = s.preset
      BY <1>2, <1>5
    <2>2. ASSUME Own(s.preset)
          PROVE  effective_source_presets(merged.presets)[s.preset]
                   = effective_source_presets(doc.presets)[s.preset]
      <3>1. s.preset \in DOMAIN Builtin
        BY <1>1, <1>5, <2>2 DEF Resolvable, Known, effective_source_presets, doc
      <3>2. Len(s.preset) = 1
        BY <3>1, TenantsAssumption
      <3>3. s.preset \notin DOMAIN merged.presets
        <4>1. \A o \in Tenant : \A n \in DOMAIN namespaced_presets(o, held[o]) : Len(n) > 1
          BY HeldIs, PresetNames
        <4>2. ~(1 > 1)
          OBVIOUS
        <4> QED BY <1>3, <3>2, <4>1, <4>2
      <3>4. effective_source_presets(merged.presets)[s.preset] = Builtin[s.preset]
        BY <3>1, <3>3 DEF effective_source_presets
      <3>5. effective_source_presets(doc.presets)[s.preset] = Builtin[s.preset]
        BY <1>5, <3>1 DEF effective_source_presets
      <3> QED BY <3>4, <3>5
    <2> QED BY <2>1, <2>2 DEF s, p, doc
  <1> QED BY <1>4, <1>5

\* What a source leaves to its preset is what the preset says.
LEMMA PresetOfIs ==
    ASSUME TenantsInv, NEW org \in Tenant, NEW i \in DOMAIN held[org].sources
    PROVE  LET s == held[org].sources[i]
               preset == effective_source_presets(held[org].presets)[s.preset]
           IN  /\ PresetOf(org, i).tag = IF Own(s.preset) THEN preset.tag ELSE <<>>
               /\ PresetOf(org, i).interval = IF Own(s.preset) THEN preset.interval ELSE 0
               /\ PresetOf(org, i).when = IF Own(s.preset) THEN preset.when ELSE "unset"
  <1> DEFINE s == held[org].sources[i]
             presets == effective_source_presets(held[org].presets)
             bare == [s EXCEPT !.tag = <<>>, !.interval = 0, !.when = "unset"]
  <1>1. Shaped(s)
    BY HeldIs, DocumentTypes, SourceFields DEF ToSet
  <1>2. PresetOf(org, i) = with_preset_resolved(presets, bare)
    BY DEF PresetOf
  <1> HIDE DEF s, presets
  <1>3. bare \in Fields(s.kind, s.name, s.id, <<>>, s.preset, 0, "unset", s.pattern, s.at)
    BY <1>1 DEF Shaped, Fields
  <1> HIDE DEF bare
  <1>4. bare.tag = <<>> /\ bare.interval = 0 /\ bare.when = "unset" /\ bare.preset = s.preset /\ Shaped(bare)
    BY <1>3, FieldsSay
  <1>5. CASE ~Own(s.preset)
    BY <1>2, <1>4, <1>5 DEF with_preset_resolved, s
  <1>6. CASE Own(s.preset)
    <2> DEFINE preset == presets[s.preset]
               tag == OrElse(bare.tag, <<>>, preset.tag)
               interval == OrElse(bare.interval, 0, preset.interval)
               when == OrElse(bare.when, "unset", preset.when)
               pattern == OrElse(bare.pattern, "", preset.pattern)
               c == [bare EXCEPT !.tag = tag, !.interval = interval, !.when = when, !.pattern = pattern]
    <2>1. merge_into(preset, bare) = c
      BY <1>4 DEF merge_into, Shaped, Fields
    <2>2. with_preset_resolved(presets, bare) = c
      BY <1>4, <1>6, <2>1 DEF with_preset_resolved
    <2>3. tag = preset.tag /\ interval = preset.interval /\ when = preset.when
      BY <1>4 DEF OrElse
    <2> HIDE DEF tag, interval, when, pattern, preset
    <2>4. c \in Fields(bare.kind, bare.name, bare.id, tag, bare.preset, interval, when, pattern, bare.at)
      BY <1>4 DEF Shaped, Fields
    <2> HIDE DEF c
    <2>5. c.tag = tag /\ c.interval = interval /\ c.when = when
      BY <2>4, FieldsSay
    <2> QED BY <1>2, <1>6, <2>2, <2>3, <2>5 DEF preset, s, presets
  <1> QED BY <1>5, <1>6

\* A source with a tag of its own, or with none at all, reaches the same sinks.
LEMMA SameAudience ==
    ASSUME TenantsInv, NEW org \in Tenant, NEW i \in DOMAIN held[org].sources,
           ~KnowsTheMerge(org, held[org])
    PROVE  LET s == held[org].sources[i] IN
           NamesOf(Audience(merged.sinks, namespace_scoped(org, OrElse(s.tag, <<>>, Broadcast))))
             = NamesOf(Audience(held[org].sinks, s.tag))
  <1> DEFINE doc == held[org]
             s == doc.sources[i]
             tag == OrElse(s.tag, <<>>, Broadcast)
             scoped == namespace_scoped(org, tag)
             sinks == namespaced_sinks(org, doc)
             unprefixed(name) == ~(Len(name) > 1 /\ Head(name) = org)
             Hears(j) == doc.sinks[j].tags = {} \/ (Own(s.tag) /\ s.tag \in doc.sinks[j].tags)
  <1>1. Document(doc) /\ org \in Word /\ s \in ToSet(doc.sources) /\ s \in Source
    BY HeldIs, DocumentTypes DEF ToSet
  <1>2. s.tag \in Name /\ tag \in Name
    BY <1>1, SourceFields, BroadcastIsName DEF OrElse
  <1>3. unprefixed(tag)
    <2>1. unprefixed(s.tag)
      BY <1>1 DEF KnowsTheMerge
    <2>2. unprefixed(Broadcast)
      BY DEF Broadcast
    <2> QED BY <2>1, <2>2 DEF OrElse
  <1>4. \A j \in DOMAIN doc.sinks : doc.sinks[j].tags \subseteq Name
    BY <1>1, DocumentTypes
  <1>5. \A j \in DOMAIN doc.sinks : doc.sinks[j].tags \subseteq SinkTags(doc)
    BY DEF SinkTags, ToSet
  <1>6. \A x \in SinkTags(doc) : unprefixed(x) /\ x # Broadcast
    BY DEF KnowsTheMerge
  <1>7. Audience(merged.sinks, scoped) = {k \in ToSet(sinks) : scoped \in k.tags}
    <2>1. Own(scoped) /\ Head(scoped) = org
      <3> HIDE DEF tag
      <3> QED BY <1>1, <1>2, ScopedIs DEF Name
    <2> HIDE DEF scoped
    <2>2. Audience(compose_organizations(held).sinks, scoped)
            = {k \in ToSet(namespaced_sinks(org, held[org])) : scoped \in k.tags}
      BY <2>1, HeldIs, AudienceIs
    <2> QED BY <2>2, HeldIs
  <1>8. /\ DOMAIN sinks = DOMAIN doc.sinks
        /\ \A j \in DOMAIN doc.sinks :
              /\ sinks[j].name = doc.sinks[j].name
              /\ doc.sinks[j].tags = {} => sinks[j].tags = catch_all(org, doc)
              /\ doc.sinks[j].tags # {} =>
                    sinks[j].tags = {namespace_scoped(org, x) : x \in doc.sinks[j].tags}
    BY DEF namespaced_sinks
  <1>9. scoped \in catch_all(org, doc)
    <2>1. CASE Own(s.tag)
      <3>1. tag = s.tag
        BY <2>1 DEF OrElse, Own
      <3> QED BY <1>1, <2>1, <3>1 DEF catch_all
    <2>2. CASE ~Own(s.tag)
      <3>1. tag = Broadcast
        BY <2>2 DEF OrElse, Own
      <3> QED BY <3>1 DEF catch_all
    <2> QED BY <2>1, <2>2
  <1>10. ASSUME NEW j \in DOMAIN doc.sinks PROVE scoped \in sinks[j].tags <=> Hears(j)
    <2>1. CASE doc.sinks[j].tags = {}
      BY <1>8, <1>9, <2>1
    <2>2. CASE doc.sinks[j].tags # {}
      <3>1. sinks[j].tags = {namespace_scoped(org, x) : x \in doc.sinks[j].tags}
        BY <1>8, <2>2
      <3>2. \A x \in doc.sinks[j].tags : x \in Name /\ unprefixed(x) /\ x # Broadcast
        BY <1>4, <1>5, <1>6
      <3> HIDE DEF tag, sinks, doc, s
      <3>3. \A x \in doc.sinks[j].tags : namespace_scoped(org, x) = scoped => x = tag
        BY <1>1, <1>2, <1>3, <3>2, ScopedApart
      <3>4. scoped \in sinks[j].tags <=> tag \in doc.sinks[j].tags
        BY <3>1, <3>3
      <3>5. tag \in doc.sinks[j].tags <=> (Own(s.tag) /\ s.tag \in doc.sinks[j].tags)
        <4>1. tag = IF Own(s.tag) THEN s.tag ELSE Broadcast
          BY DEF OrElse, Own, tag
        <4> QED BY <3>2, <4>1
      <3> QED BY <2>2, <3>4, <3>5
    <2> QED BY <2>1, <2>2
  <1> HIDE DEF sinks, scoped, tag
  <1>11. NamesOf(Audience(merged.sinks, scoped)) = {sinks[j].name : j \in {x \in DOMAIN sinks : scoped \in sinks[x].tags}}
    BY <1>7 DEF NamesOf, ToSet
  <1>12. NamesOf(Audience(doc.sinks, s.tag)) = {doc.sinks[j].name : j \in {x \in DOMAIN doc.sinks : Hears(x)}}
    BY DEF NamesOf, ToSet, Audience, matches_routing_tags
  <1> HIDE DEF Hears
  <1>13. NamesOf(Audience(merged.sinks, scoped)) = NamesOf(Audience(doc.sinks, s.tag))
    <2> HIDE DEF doc, s
    <2> QED BY <1>8, <1>10, <1>11, <1>12
  <1> QED BY <1>13 DEF scoped, tag, sinks

\* Filter, interval, schedule and audience of a watch are those it has alone, where
\* prepare_organization_sources does not settle them before the preset is merged.
LEMMA MeansTheSameHolds ==
    ASSUME TenantsInv PROVE MeansTheSame
  <1> SUFFICES ASSUME NEW org \in Tenant, Resolvable(held[org]), ~KnowsTheMerge(org, held[org]),
                      NEW i \in DOMAIN held[org].sources
               PROVE  SameAsAlone(org, i, Kept(org, i))
    BY DEF MeansTheSame
  <1> DEFINE doc == held[org]
             s == doc.sources[i]
             p == prepare_organization_sources(org, doc)[i]
             alone == effective_source_presets(doc.presets)[s.preset]
             mixed == effective_source_presets(merged.presets)[p.preset]
             own == Lone(doc, i)
             here == Placed(held, org, i)
             from == PresetOf(org, i)
  <1>1. Document(doc) /\ HeldDocument(doc) /\ org \in Word /\ s \in Source /\ Shaped(s)
    BY HeldIs, DocumentTypes, SourceFields DEF ToSet, TenantsInv
  <1>2. /\ p.tag = namespace_scoped(org, OrElse(s.tag, <<>>, Broadcast))
        /\ p.interval = OrElse(s.interval, 0, doc.interval)
        /\ p.when = OrElse(s.when, "unset", doc.when) /\ p.pattern = s.pattern /\ Shaped(p)
    BY <1>1, PreparedSource
  <1>3. (Own(p.preset) <=> Own(s.preset)) /\ (Own(s.preset) => mixed = alone)
    BY SamePreset
  <1>4. /\ from.tag = IF Own(s.preset) THEN alone.tag ELSE <<>>
        /\ from.interval = IF Own(s.preset) THEN alone.interval ELSE 0
        /\ from.when = IF Own(s.preset) THEN alone.when ELSE "unset"
    BY PresetOfIs
  <1>5. here.tag = p.tag /\ here.interval = p.interval
    BY HeldIs, PlacedIs
  <1>6. /\ here.pattern = IF Own(p.preset) THEN OrElse(p.pattern, "", mixed.pattern) ELSE p.pattern
        /\ p.when # "unset" => here.when = p.when
    <2> DEFINE presets == effective_source_presets(merged.presets)
               tag == IF Own(p.preset) THEN OrElse(p.tag, <<>>, mixed.tag) ELSE p.tag
               pattern == IF Own(p.preset) THEN OrElse(p.pattern, "", mixed.pattern) ELSE p.pattern
               said == IF Own(p.preset) THEN OrElse(p.when, "unset", mixed.when) ELSE p.when
               when == IF said = "unset" THEN OrElse(merged.when, "unset", "") ELSE said
               interval == IF Own(p.preset) THEN OrElse(p.interval, 0, mixed.interval) ELSE p.interval
    <2>1. here = into_watch(p, merged, presets)
      BY HeldIs DEF Placed
    <2> HIDE DEF here, p
    <2>2. into_watch(p, merged, presets) =
            [id |-> OrElse(p.id, <<>>, own_id(p)), tag |-> tag, pattern |-> pattern,
             interval |-> OrElse(interval, 0, merged.interval), when |-> when, at |-> p.at]
      BY <1>2, WatchFields
    <2>3. p.when # "unset" => when = p.when
      BY DEF OrElse
    <2> HIDE DEF tag, pattern, when, interval
    <2>4. here.pattern = pattern /\ here.when = when
      BY <2>1, <2>2
    <2> QED BY <2>3, <2>4 DEF pattern
  <1>7. /\ own.tag = IF Own(s.preset) THEN OrElse(s.tag, <<>>, alone.tag) ELSE s.tag
        /\ own.pattern = IF Own(s.preset) THEN OrElse(s.pattern, "", alone.pattern) ELSE s.pattern
        /\ own.interval = OrElse(IF Own(s.preset) THEN OrElse(s.interval, 0, alone.interval) ELSE s.interval,
                                 0, doc.interval)
        /\ own.when = LET said == IF Own(s.preset) THEN OrElse(s.when, "unset", alone.when) ELSE s.when
                      IN  IF said = "unset" THEN OrElse(doc.when, "unset", "") ELSE said
    <2> DEFINE presets == effective_source_presets(doc.presets)
               tag == IF Own(s.preset) THEN OrElse(s.tag, <<>>, alone.tag) ELSE s.tag
               pattern == IF Own(s.preset) THEN OrElse(s.pattern, "", alone.pattern) ELSE s.pattern
               said == IF Own(s.preset) THEN OrElse(s.when, "unset", alone.when) ELSE s.when
               when == IF said = "unset" THEN OrElse(doc.when, "unset", "") ELSE said
               interval == OrElse(IF Own(s.preset) THEN OrElse(s.interval, 0, alone.interval)
                                  ELSE s.interval, 0, doc.interval)
    <2>1. own = into_watch(s, doc, presets)
      BY DEF Lone
    <2> HIDE DEF own, s, doc
    <2>2. into_watch(s, doc, presets) =
            [id |-> OrElse(s.id, <<>>, own_id(s)), tag |-> tag, pattern |-> pattern,
             interval |-> interval, when |-> when, at |-> s.at]
      BY <1>1, WatchFields
    <2> HIDE DEF tag, pattern, when, interval
    <2>3. own.tag = tag /\ own.pattern = pattern /\ own.interval = interval /\ own.when = when
      BY <2>1, <2>2
    <2> QED BY <2>3 DEF tag, pattern, when, interval
  <1>8. NamesOf(Audience(merged.sinks, p.tag)) = NamesOf(Audience(doc.sinks, s.tag))
    <2>1. NamesOf(Audience(merged.sinks, namespace_scoped(org, OrElse(s.tag, <<>>, Broadcast))))
            = NamesOf(Audience(doc.sinks, s.tag))
      BY SameAudience
    <2> HIDE DEF p, s
    <2> QED BY <1>2, <2>1
  <1>9. /\ "interval" \in Kept(org, i) <=> s.interval # 0 \/ from.interval = 0
        /\ "tag" \in Kept(org, i) <=> Own(s.tag) \/ ~Own(from.tag)
        /\ "when" \in Kept(org, i) <=> s.when # "unset" \/ (doc.when # "unset" /\ from.when = "unset")
    BY DEF Kept
  <1> HIDE DEF here, own, from, p, s, doc, alone, mixed
  <1>10. here.pattern = own.pattern
    BY <1>2, <1>3, <1>6, <1>7
  <1>11. "interval" \in Kept(org, i) => here.interval = own.interval
    BY <1>2, <1>4, <1>5, <1>7, <1>9 DEF OrElse
  <1>12. "when" \in Kept(org, i) => here.when = own.when
    BY <1>2, <1>4, <1>6, <1>7, <1>9 DEF OrElse
  <1>13. "tag" \in Kept(org, i) => own.tag = s.tag
    BY <1>4, <1>7, <1>9 DEF OrElse, Own
  <1>14. "tag" \in Kept(org, i) =>
           NamesOf(Audience(merged.sinks, here.tag)) = NamesOf(Audience(doc.sinks, own.tag))
    BY <1>5, <1>8, <1>13
  <1>15. (CHOOSE w \in to_watches(doc) : w.at = <<"alone", i>>) = own
         /\ (CHOOSE w \in Watched : w.at = <<org, i>>) = here
    BY <1>1, LoneIs, HereIs DEF own, here, doc
  <1> QED BY <1>10, <1>11, <1>12, <1>14, <1>15 DEF SameAsAlone, doc

\* Organizations stay apart and whole (Tenants.TenantsApart), for any catalogue and
\* any documents: watches carry their organization's name in id and tag, no sink
\* hears of another's sources, a document means beside others what it means alone
\* save for what prepare_organization_sources settles before its preset has a say,
\* and what validate_tenant passes in silence is heard.
THEOREM TenantsStayApart == TenantsSpec => []TenantsApart
  <1>1. TenantsInv => TenantsApart
    BY NamedOnceHolds, IsolationHolds, MeansTheSameHolds, NothingUnheard DEF TenantsApart
  <1> QED BY <1>1, TenantsInvariance, PTL

----------------------------------------------------------------------------
(* What others do leaves an organization's watches as they are.            *)
OwnPreset(org, doc, name) ==
    IF name \in DOMAIN namespaced_presets(org, doc)
    THEN namespaced_presets(org, doc)[name] ELSE Builtin[name]

\* An organization that names its own presets or built-in ones finds them whatever
\* the others' documents declare.
LEMMA PresetIs ==
    ASSUME NEW docs, \A org \in Tenant : Document(docs[org]),
           NEW org \in Tenant, NEW i \in DOMAIN docs[org].sources,
           ~Borrows(org, docs), Resolvable(compose_organizations(docs)),
           Own(prepare_organization_sources(org, docs[org])[i].preset)
    PROVE  LET p == prepare_organization_sources(org, docs[org])[i] IN
           effective_source_presets(compose_organizations(docs).presets)[p.preset]
             = OwnPreset(org, docs[org], p.preset)
  <1> DEFINE all == compose_organizations(docs)
             p == prepare_organization_sources(org, docs[org])[i]
             s == docs[org].sources[i]
  <1>1. Document(docs[org]) /\ org \in Word /\ s \in ToSet(docs[org].sources)
    BY TenantNames DEF ToSet
  <1>2. p \in ToSet(all.sources)
    <2>1. p \in ToSet(prepare_organization_sources(org, docs[org]))
      BY DEF ToSet, prepare_organization_sources
    <2>2. ToSet(all.sources) = UNION {ToSet(prepare_organization_sources(o, docs[o])) : o \in Tenant}
      BY MergedLists
    <2> QED BY <2>1, <2>2
  <1>3. p.preset = IF s.preset \in DOMAIN docs[org].presets
                   THEN namespace_scoped(org, s.preset) ELSE s.preset
    BY <1>1, PreparedSource
  <1>4. DOMAIN all.presets = UNION {DOMAIN namespaced_presets(o, docs[o]) : o \in Tenant}
        /\ \A n \in DOMAIN namespaced_presets(org, docs[org]) :
              all.presets[n] = namespaced_presets(org, docs[org])[n]
    BY MergedPresets
  <1> HIDE DEF p, s, all
  <1>5. p.preset \in DOMAIN all.presets \cup DOMAIN Builtin
    BY <1>2 DEF Resolvable, Known, effective_source_presets, all, p
  <1>6. /\ p.preset \in DOMAIN all.presets =>
             effective_source_presets(all.presets)[p.preset] = all.presets[p.preset]
        /\ p.preset \notin DOMAIN all.presets =>
             effective_source_presets(all.presets)[p.preset] = Builtin[p.preset]
    BY <1>5 DEF effective_source_presets
  <1>7. effective_source_presets(all.presets)[p.preset] = OwnPreset(org, docs[org], p.preset)
    <2>1. CASE p.preset \in DOMAIN namespaced_presets(org, docs[org])
      <3>1. p.preset \in DOMAIN all.presets
        BY <1>4, <2>1
      <3>2. all.presets[p.preset] = namespaced_presets(org, docs[org])[p.preset]
        BY <1>4, <2>1
      <3>3. OwnPreset(org, docs[org], p.preset) = namespaced_presets(org, docs[org])[p.preset]
        BY <2>1 DEF OwnPreset
      <3>4. effective_source_presets(all.presets)[p.preset] = all.presets[p.preset]
        BY <1>6, <3>1
      <3> QED BY <3>2, <3>3, <3>4, Zenon
    <2>2. CASE p.preset \notin DOMAIN namespaced_presets(org, docs[org])
      <3>1. s.preset \notin DOMAIN docs[org].presets
        <4>1. DOMAIN namespaced_presets(org, docs[org]) =
                {namespace_scoped(org, name) : name \in DOMAIN docs[org].presets}
          BY <1>1, PresetNames
        <4>2. s.preset \in DOMAIN docs[org].presets => p.preset = namespace_scoped(org, s.preset)
          BY <1>3
        <4> QED BY <2>2, <4>1, <4>2
      <3>2. \A o \in Tenant : p.preset \notin DOMAIN namespaced_presets(o, docs[o])
        BY <1>1, <1>3, <2>2, <3>1 DEF Borrows
      <3>3. p.preset \notin DOMAIN all.presets
        BY <1>4, <3>2
      <3> QED BY <1>6, <2>2, <3>3 DEF OwnPreset
    <2> QED BY <2>1, <2>2
  <1> QED BY <1>7 DEF all, p

\* A watch but for a schedule that its document leaves open.
Settled(org, doc, i) ==
    LET p == prepare_organization_sources(org, doc)[i]
        preset == OwnPreset(org, doc, p.preset)
    IN  [id |-> p.id, tag |-> p.tag,
         pattern |-> IF Own(p.preset) THEN OrElse(p.pattern, "", preset.pattern) ELSE p.pattern,
         interval |-> p.interval, when |-> IF doc.when = "unset" THEN "" ELSE p.when,
         at |-> p.at]

Plain(doc, w) == [w EXCEPT !.when = IF doc.when = "unset" THEN "" ELSE @]

\* All of a watch but an unset schedule is settled by its own document.
LEMMA SettledIs ==
    ASSUME NEW docs, \A org \in Tenant : Document(docs[org]),
           NEW org \in Tenant, NEW i \in DOMAIN docs[org].sources,
           ~Borrows(org, docs), Resolvable(compose_organizations(docs))
    PROVE  Plain(docs[org], Placed(docs, org, i)) = Settled(org, docs[org], i)
  <1> DEFINE all == compose_organizations(docs)
             presets == effective_source_presets(all.presets)
             p == prepare_organization_sources(org, docs[org])[i]
             s == docs[org].sources[i]
             w == Placed(docs, org, i)
             preset == presets[p.preset]
             said == IF Own(p.preset) THEN OrElse(p.when, "unset", preset.when) ELSE p.when
             found == IF Own(p.preset) THEN OrElse(p.tag, <<>>, preset.tag) ELSE p.tag
             pattern == IF Own(p.preset) THEN OrElse(p.pattern, "", preset.pattern) ELSE p.pattern
             interval == IF Own(p.preset) THEN OrElse(p.interval, 0, preset.interval) ELSE p.interval
             when == IF said = "unset" THEN OrElse(all.when, "unset", "") ELSE said
  <1>1. Document(docs[org]) /\ org \in Word
    BY TenantNames
  <1>2. Shaped(p) /\ p.when = OrElse(s.when, "unset", docs[org].when)
    BY <1>1, PreparedSource
  <1>3. Own(p.preset) => preset = OwnPreset(org, docs[org], p.preset)
    BY PresetIs
  <1>4. w = into_watch(p, all, presets)
    BY DEF Placed
  <1>5. w.id = p.id /\ w.tag = p.tag /\ w.interval = p.interval
    BY PlacedIs
  <1> HIDE DEF w, p, all, presets, s
  <1>6. w = [id |-> OrElse(p.id, <<>>, own_id(p)), tag |-> found, pattern |-> pattern,
             interval |-> OrElse(interval, 0, all.interval), when |-> when, at |-> p.at]
    BY <1>2, <1>4, WatchFields
  <1>7. docs[org].when # "unset" => when = p.when
    BY <1>2 DEF OrElse
  <1> HIDE DEF found, pattern, interval, when, preset
  <1>8. w = [id |-> p.id, tag |-> p.tag, pattern |-> pattern, interval |-> p.interval,
             when |-> when, at |-> p.at]
    BY <1>5, <1>6
  <1>9. [w EXCEPT !.when = IF docs[org].when = "unset" THEN "" ELSE @]
          = [id |-> p.id, tag |-> p.tag, pattern |-> pattern, interval |-> p.interval,
             when |-> IF docs[org].when = "unset" THEN "" ELSE p.when, at |-> p.at]
    <2> DEFINE v == IF docs[org].when = "unset" THEN "" ELSE p.when
    <2>1. [w EXCEPT !.when = IF docs[org].when = "unset" THEN "" ELSE @] = [w EXCEPT !.when = v]
      BY <1>7, <1>8
    <2> HIDE DEF v
    <2>2. [w EXCEPT !.when = v] = [id |-> p.id, tag |-> p.tag, pattern |-> pattern,
                                   interval |-> p.interval, when |-> v, at |-> p.at]
      BY <1>8
    <2> QED BY <2>1, <2>2 DEF v
  <1>10. pattern = IF Own(p.preset) THEN OrElse(p.pattern, "", OwnPreset(org, docs[org], p.preset).pattern)
                   ELSE p.pattern
    BY <1>3 DEF pattern
  <1> QED BY <1>9, <1>10 DEF Settled, Plain, w, p

\* The watches of an organization are settled by its document.
LEMMA WatchesOf ==
    ASSUME NEW docs, \A org \in Tenant : Document(docs[org]),
           NEW org \in Tenant, ~Borrows(org, docs), Resolvable(compose_organizations(docs))
    PROVE  Of(org, docs[org], to_watches(compose_organizations(docs)))
             = {Settled(org, docs[org], i) : i \in DOMAIN docs[org].sources}
  <1> DEFINE watches == to_watches(compose_organizations(docs))
             plain(w) == Plain(docs[org], w)
  <1>1. /\ \A w \in watches : \E o \in Tenant : \E i \in DOMAIN docs[o].sources : w = Placed(docs, o, i)
        /\ \A i \in DOMAIN docs[org].sources : Placed(docs, org, i) \in watches
    BY MergedWatches
  <1>2. \A o \in Tenant : \A i \in DOMAIN docs[o].sources : OwnerOf(Placed(docs, o, i)) = o
    BY PlacedIs DEF OwnerOf
  <1>3. ASSUME NEW i \in DOMAIN docs[org].sources
        PROVE  plain(Placed(docs, org, i)) = Settled(org, docs[org], i)
    BY SettledIs
  <1> HIDE DEF watches, plain
  <1>4. {plain(w) : w \in {x \in watches : OwnerOf(x) = org}}
          = {Settled(org, docs[org], i) : i \in DOMAIN docs[org].sources}
    BY <1>1, <1>2, <1>3
  <1>5. Of(org, docs[org], watches) = {plain(w) : w \in {x \in watches : OwnerOf(x) = org}}
    BY DEF Of, Plain, plain
  <1> QED BY <1>4, <1>5 DEF watches

\* A step that keeps an organization's document keeps its watches and who hears of them.
LEMMA OthersKeep ==
    ASSUME TenantsInv, TenantsInv', NEW org \in Tenant, held'[org] = held[org],
           ~Borrows(org, held), ~Borrows(org, held')
    PROVE  /\ Of(org, held[org], Watched') = Of(org, held[org], Watched)
           /\ \A w \in Of(org, held[org], Watched) :
                 Audience(merged.sinks, w.tag)' = Audience(merged.sinks, w.tag)
  <1>1. /\ \A o \in Tenant : Document(held[o]) /\ Document(held'[o])
        /\ merged = compose_organizations(held) /\ merged' = compose_organizations(held')
        /\ Resolvable(merged) /\ Resolvable(merged') /\ org \in Word
    BY TenantNames DEF TenantsInv, HeldDocument
  <1>2. Of(org, held[org], Watched) = {Settled(org, held[org], i) : i \in DOMAIN held[org].sources}
    BY <1>1, WatchesOf DEF Watched
  <1>3. Of(org, held[org], Watched') = {Settled(org, held[org], i) : i \in DOMAIN held[org].sources}
    <2>1. Of(org, held'[org], to_watches(compose_organizations(held')))
            = {Settled(org, held'[org], i) : i \in DOMAIN held'[org].sources}
      BY <1>1, WatchesOf
    <2>2. Watched' = to_watches(merged')
      BY DEF Watched
    <2> QED BY <1>1, <2>1, <2>2
  <1>4. ASSUME NEW w \in Of(org, held[org], Watched)
        PROVE  Audience(merged.sinks, w.tag)' = Audience(merged.sinks, w.tag)
    <2>1. PICK i \in DOMAIN held[org].sources : w = Settled(org, held[org], i)
      BY <1>2
    <2>2. w.tag = prepare_organization_sources(org, held[org])[i].tag
      BY <2>1 DEF Settled
    <2>3. Own(w.tag) /\ Head(w.tag) = org
      BY <1>1, <2>2, PlacedIs
    <2>4. Audience(merged.sinks, w.tag) = {k \in ToSet(namespaced_sinks(org, held[org])) : w.tag \in k.tags}
      BY <1>1, <2>3, AudienceIs
    <2>5. Audience(merged'.sinks, w.tag) = {k \in ToSet(namespaced_sinks(org, held[org])) : w.tag \in k.tags}
      <3>1. Audience(compose_organizations(held').sinks, w.tag) =
              {k \in ToSet(namespaced_sinks(org, held'[org])) : w.tag \in k.tags}
        BY <1>1, <2>3, AudienceIs
      <3> QED BY <1>1, <3>1
    <2> QED BY <2>4, <2>5
  <1> QED BY <1>2, <1>3, <1>4

\* An apply for one organization changes neither the watches of the others nor who
\* hears of them (Tenants.OthersUnaffected), as long as they name their own presets
\* or built-in ones and have a schedule: presets, ids and tags of the merged
\* configuration are told apart by their first part.
THEOREM OthersStayUnaffected == TenantsSpec => OthersUnaffected
  <1>1. TenantsInv /\ [TenantsNext]_tenantsVars =>
          [\A org \in Tenant : held'[org] = held[org] /\ ~Borrows(org, held) /\ ~Borrows(org, held') =>
             /\ Of(org, held[org], Watched') = Of(org, held[org], Watched)
             /\ \A w \in Of(org, held[org], Watched) :
                   Audience(merged.sinks, w.tag)' = Audience(merged.sinks, w.tag)]_tenantsVars
    <2> SUFFICES ASSUME TenantsInv, [TenantsNext]_tenantsVars,
                        NEW org \in Tenant, held'[org] = held[org],
                        ~Borrows(org, held), ~Borrows(org, held')
                 PROVE  /\ Of(org, held[org], Watched') = Of(org, held[org], Watched)
                        /\ \A w \in Of(org, held[org], Watched) :
                              Audience(merged.sinks, w.tag)' = Audience(merged.sinks, w.tag)
      OBVIOUS
    <2>1. TenantsInv'
      BY NextTenants
    <2> QED BY <2>1, OthersKeep
  <1> QED BY <1>1, TenantsInvariance, PTL DEF TenantsSpec, OthersUnaffected

=============================================================================
