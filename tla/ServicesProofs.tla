---------------------------- MODULE ServicesProofs ----------------------------
(***************************************************************************)
(* Theorems about two services around the machines that share nothing with *)
(* each other: the accounts, and the list of serial ports.                 *)
(***************************************************************************)
EXTENDS Accounts, Devices, FiniteSetTheorems, TLAPS

-----------------------------------------------------------------------------
(***************************************************************************)
(* Theorems about the accounts, for any people, invites, number of         *)
(* requests under way at once and restarts.                                *)
(*                                                                         *)
(* A request acts on rows that it has read some time ago.  All that keeps  *)
(* it from undoing what others have committed is the version of the row,   *)
(* so that the invariant is about what the reads of the requests under way *)
(* have to do with the rows as they are.                                   *)
(***************************************************************************)
User == [who : People \cup {"local"}, live : BOOLEAN, admin : BOOLEAN,
         authorized : BOOLEAN, version : Nat]

Invite == [made : BOOLEAN, live : BOOLEAN, admin : BOOLEAN, by : Nat \cup {NoId},
           version : Nat]

LogIn == [op : {"login"}, step : {"user", "invite", "commit"}, who : People,
          code : Codes \cup {NoCode}, id : Nat, user : User, new : BOOLEAN, invite : Invite]

InviteEdit == [op : {"invite"}, step : {"commit"}, code : Codes, read : Invite, row : Invite]

UserEdit == [op : {"user"}, step : {"verify", "read", "commit"}, id : Nat,
             change : {"admin", "plain", "delete"}, read : User, others : SUBSET Nat]

AccountsTypeOK ==
  /\ DOMAIN users \subseteq 0 .. asked
  /\ users \in [DOMAIN users -> User]
  /\ LocalUser \in DOMAIN users
  /\ invites \in [Codes -> Invite]
  /\ sessions \subseteq [user : Nat, admin : BOOLEAN]
  /\ requests \in [Desks -> {Idle} \cup LogIn \cup InviteEdit \cup UserEdit]
  /\ asked \in Nat /\ restarts \in Nat
  /\ admitted \in [Codes -> SUBSET Nat]
  /\ unconsumed \subseteq Codes
  /\ hadAdmin \in BOOLEAN /\ excused \in BOOLEAN

-----------------------------------------------------------------------------
\* A read agrees with its row: it is the row, or the row has a later version.
Agrees(read, row) ==
  /\ read.version <= row.version
  /\ read.version = row.version => read = row

\* An invite, moreover, is consumed for good.
InviteAgrees(read, row) ==
  /\ Agrees(read, row)
  /\ read.made /\ row.made
  /\ read.by # NoId => row.by = read.by

LogInOK(r) ==
  /\ r.step = "user" => r.new
  /\ r.new => r.id \in (1 .. asked) \ DOMAIN users
  /\ ~r.new /\ r.step # "user" => r.id \in DOMAIN users /\ Agrees(r.user, users[r.id])
  /\ r.step = "commit" /\ r.code \in Codes =>
       InviteAgrees(r.invite, invites[r.code]) /\ Usable(r.invite, r.id)
  /\ r.step # "commit" \/ r.code \notin Codes => r.invite = NoInvite

InviteEditOK(r) ==
  /\ InviteAgrees(r.read, invites[r.code])
  /\ r.row.made /\ r.row.by = r.read.by

UserEditOK(r) ==
  /\ r.id \in DOMAIN users
  /\ r.step # "verify" /\ r.change # "admin" => r.others \ {r.id} # {}
  /\ r.change = "admin" => r.others = {}
  /\ r.step = "commit" => Agrees(r.read, users[r.id])
  /\ r.step = "commit" /\ r.change = "admin" => r.read.live

RequestOK(r) ==
  /\ r.op = "login" => LogInOK(r)
  /\ r.op = "invite" => InviteEditOK(r)
  /\ r.op = "user" => UserEditOK(r)

\* Users who are about to be inserted have ids of their own.
IdsDiffer ==
  \A d, e \in Desks :
    (/\ requests[d].op = "login" /\ requests[e].op = "login"
     /\ requests[d].new /\ requests[e].new /\ requests[d].id = requests[e].id) => d = e

\* Who came in by an invite is the one that has consumed it.
Admission(c) ==
  /\ invites[c].live => invites[c].made
  /\ ~invites[c].made => admitted[c] = {}
  /\ \/ c \in unconsumed
     \/ admitted[c] = {}
     \/ invites[c].by # NoId /\ admitted[c] = {invites[c].by}

Admissions == \A c \in Codes : Admission(c)

AccountsInv ==
  /\ AccountsTypeOK
  /\ \A d \in Desks : RequestOK(requests[d])
  /\ IdsDiffer
  /\ Admissions
  /\ AnAdminRemains

-----------------------------------------------------------------------------
\* Rows only ever go on to later versions, and nobody's read is overtaken twice.
LEMMA AgreesTransitive ==
  ASSUME NEW a, NEW b, NEW c, a.version \in Nat, b.version \in Nat, c.version \in Nat,
         Agrees(a, b), Agrees(b, c)
  PROVE  Agrees(a, c)
BY DEF Agrees

InvitesAdvance ==
  \A c \in Codes : /\ Agrees(invites[c], invites'[c])
                   /\ invites[c].made => invites'[c].made
                   /\ invites[c].by # NoId => invites'[c].by = invites[c].by

UsersAdvance(d) ==
  /\ DOMAIN users \subseteq DOMAIN users'
  /\ \A id \in DOMAIN users : Agrees(users[id], users'[id])
  /\ \A id \in DOMAIN users' \ DOMAIN users :
       requests[d].op = "login" /\ requests[d].new /\ requests[d].id = id

\* What the other requests have read stays as good as it was.
LEMMA OtherRequests ==
  ASSUME AccountsInv, AccountsTypeOK', NEW d \in Desks, UsersAdvance(d), asked <= asked',
         \A c \in Codes, e \in Desks \ {d} :
           (\/ requests[e].op = "login" /\ requests[e].step = "commit" /\ requests[e].code = c
            \/ requests[e].op = "invite" /\ requests[e].code = c)
           => /\ Agrees(invites[c], invites'[c])
              /\ invites[c].made => invites'[c].made
              /\ invites[c].by # NoId => invites'[c].by = invites[c].by,
         \A e \in Desks \ {d} : requests'[e] = requests[e],
         RequestOK(requests[d])',
         (requests'[d].op = "login" /\ requests'[d].new) =>
            \/ requests'[d].id = asked + 1
            \/ /\ requests[d].op = "login" /\ requests[d].new
               /\ requests'[d].id = requests[d].id
  PROVE  (\A e \in Desks : RequestOK(requests[e]))' /\ IdsDiffer'
<1>1. ASSUME NEW e \in Desks \ {d}
      PROVE  RequestOK(requests[e])'
  <2> DEFINE r == requests[e]
  <2>1. requests'[e] = r /\ RequestOK(r) /\ r \in {Idle} \cup LogIn \cup InviteEdit \cup UserEdit
    BY DEF AccountsInv, AccountsTypeOK
  <2>2. CASE r.op = "login"
    <3>1. r \in LogIn /\ LogInOK(r)
      BY <2>1, <2>2 DEF RequestOK, Idle, InviteEdit, UserEdit
    <3>2. r.new => r.id \in (1 .. asked') \ DOMAIN users'
      <4>1. SUFFICES ASSUME r.new PROVE r.id \in (1 .. asked') \ DOMAIN users'
        OBVIOUS
      <4>2. r.id \in (1 .. asked) \ DOMAIN users
        BY <3>1, <4>1 DEF LogInOK
      <4>3. r.id \notin DOMAIN users' \ DOMAIN users
        BY <2>2, <4>1 DEF UsersAdvance, AccountsInv, IdsDiffer
      <4>4. QED BY <4>2, <4>3 DEF AccountsTypeOK, AccountsInv
    <3>3. ~r.new /\ r.step # "user" => r.id \in DOMAIN users' /\ Agrees(r.user, users'[r.id])
      <4>1. SUFFICES ASSUME ~r.new, r.step # "user"
                     PROVE  r.id \in DOMAIN users' /\ Agrees(r.user, users'[r.id])
        OBVIOUS
      <4>2. r.id \in DOMAIN users /\ Agrees(r.user, users[r.id])
        BY <3>1, <4>1 DEF LogInOK
      <4>3. r.id \in DOMAIN users' /\ Agrees(users[r.id], users'[r.id])
        BY <4>2 DEF UsersAdvance
      <4>4. users[r.id].version \in Nat /\ users'[r.id].version \in Nat /\ r.user.version \in Nat
        BY <3>1, <4>2, <4>3 DEF AccountsInv, AccountsTypeOK, LogIn, User
      <4>5. QED BY <4>2, <4>3, <4>4, AgreesTransitive
    <3>4. r.step = "commit" /\ r.code \in Codes =>
            InviteAgrees(r.invite, invites'[r.code]) /\ Usable(r.invite, r.id)
      <4>1. SUFFICES ASSUME r.step = "commit", r.code \in Codes
                     PROVE  InviteAgrees(r.invite, invites'[r.code]) /\ Usable(r.invite, r.id)
        OBVIOUS
      <4>2. InviteAgrees(r.invite, invites[r.code]) /\ Usable(r.invite, r.id)
        BY <3>1, <4>1 DEF LogInOK
      <4>3. /\ Agrees(invites[r.code], invites'[r.code])
            /\ invites[r.code].made => invites'[r.code].made
            /\ invites[r.code].by # NoId => invites'[r.code].by = invites[r.code].by
        BY <2>2, <4>1
      <4>4. invites[r.code].version \in Nat /\ invites'[r.code].version \in Nat
            /\ r.invite.version \in Nat
        BY <3>1, <4>1 DEF AccountsInv, AccountsTypeOK, LogIn, Invite
      <4>5. Agrees(r.invite, invites'[r.code])
        BY <4>2, <4>3, <4>4, AgreesTransitive DEF InviteAgrees
      <4>6. QED BY <4>2, <4>3, <4>5 DEF InviteAgrees
    <3>5. (RequestOK(r) /\ r.op = "login" => LogInOK(r))'
      BY DEF RequestOK
    <3>6. QED BY <2>1, <2>2, <3>1, <3>2, <3>3, <3>4 DEF RequestOK, LogInOK
  <2>3. CASE r.op = "invite"
    <3>1. r \in InviteEdit /\ InviteEditOK(r)
      BY <2>1, <2>3 DEF RequestOK, Idle, LogIn, UserEdit
    <3>2. /\ Agrees(invites[r.code], invites'[r.code])
          /\ invites[r.code].made => invites'[r.code].made
          /\ invites[r.code].by # NoId => invites'[r.code].by = invites[r.code].by
      BY <2>3, <3>1 DEF InviteEdit
    <3>3. invites[r.code].version \in Nat /\ invites'[r.code].version \in Nat
          /\ r.read.version \in Nat
      BY <3>1 DEF AccountsInv, AccountsTypeOK, InviteEdit, Invite
    <3>4. Agrees(r.read, invites'[r.code])
      BY <3>1, <3>2, <3>3, AgreesTransitive DEF InviteEditOK, InviteAgrees
    <3>5. QED BY <2>1, <2>3, <3>1, <3>2, <3>4 DEF RequestOK, InviteEditOK, InviteAgrees
  <2>4. CASE r.op = "user"
    <3>1. r \in UserEdit /\ UserEditOK(r)
      BY <2>1, <2>4 DEF RequestOK, Idle, LogIn, InviteEdit
    <3>2. r.id \in DOMAIN users' /\ Agrees(users[r.id], users'[r.id])
      BY <3>1 DEF UserEditOK, UsersAdvance
    <3>3. users[r.id].version \in Nat /\ users'[r.id].version \in Nat /\ r.read.version \in Nat
      BY <3>1, <3>2 DEF AccountsInv, AccountsTypeOK, UserEdit, User, UserEditOK
    <3>4. r.step = "commit" => Agrees(r.read, users'[r.id])
      BY <3>1, <3>2, <3>3, AgreesTransitive DEF UserEditOK
    <3>5. QED BY <2>1, <2>4, <3>1, <3>2, <3>4 DEF RequestOK, UserEditOK
  <2>5. CASE r.op = "none"
    BY <2>1, <2>5 DEF RequestOK
  <2>6. r.op \in {"none", "login", "invite", "user"}
    BY <2>1 DEF Idle, LogIn, InviteEdit, UserEdit
  <2>7. QED BY <2>2, <2>3, <2>4, <2>5, <2>6
<1>2. IdsDiffer'
  <2>1. SUFFICES ASSUME NEW e \in Desks, NEW f \in Desks,
                        requests'[e].op = "login", requests'[f].op = "login",
                        requests'[e].new, requests'[f].new,
                        requests'[e].id = requests'[f].id
                 PROVE  e = f
    BY DEF IdsDiffer
  <2>2. \A g \in Desks \ {d} : requests'[g].op = "login" /\ requests'[g].new =>
          /\ requests[g].op = "login" /\ requests[g].new /\ requests[g].id = requests'[g].id
          /\ requests[g].id \in 1 .. asked
    BY DEF AccountsInv, RequestOK, LogInOK
  <2>3. asked \in Nat
    BY DEF AccountsInv, AccountsTypeOK
  <2>4. QED BY <2>1, <2>2, <2>3 DEF AccountsInv, IdsDiffer
<1>3. QED BY <1>1, <1>2

-----------------------------------------------------------------------------
\* What a guarded update does to a row: the row of its reader, one version later,
\* or nothing.
LEMMA GuardedUpdate ==
  ASSUME NEW rows, NEW id \in DOMAIN rows, NEW read, NEW row,
         rows[id].version \in Nat, read.version \in Nat, row.version = read.version,
         row = [row EXCEPT !.version = row.version]
  PROVE  LET new == Guarded(rows, id, read, row) IN
         /\ DOMAIN new = DOMAIN rows
         /\ \A i \in DOMAIN rows \ {id} : new[i] = rows[i]
         /\ \/ new = rows /\ rows[id].version # read.version
            \/ /\ rows[id].version = read.version
               /\ new = Put(rows, id, [row EXCEPT !.version = read.version + 1])
               /\ new[id] = [row EXCEPT !.version = read.version + 1]
BY DEF Guarded, Put

\* A request that only goes on, or ends, leaves the rows as they are.
LEMMA GoOnSafe ==
  ASSUME AccountsInv, NEW d \in Desks,
         \A e \in Desks \ {d} : requests'[e] = requests[e],
         requests' \in [Desks -> {Idle} \cup LogIn \cup InviteEdit \cup UserEdit],
         UNCHANGED <<users, invites, sessions, restarts, admitted, unconsumed, hadAdmin>>,
         asked' \in Nat, asked <= asked',
         excused' \in BOOLEAN, excused => excused',
         RequestOK(requests[d])',
         (requests'[d].op = "login" /\ requests'[d].new) =>
            \/ requests'[d].id = asked + 1
            \/ /\ requests[d].op = "login" /\ requests[d].new
               /\ requests'[d].id = requests[d].id
  PROVE  AccountsInv'
<1>1. AccountsTypeOK'
  BY DEF AccountsInv, AccountsTypeOK
<1>2. UsersAdvance(d)
  BY DEF UsersAdvance, AccountsInv, AccountsTypeOK, User, Agrees
<1>3. \A c \in Codes : Agrees(invites[c], invites'[c])
  BY DEF AccountsInv, AccountsTypeOK, Invite, Agrees
<1>4. (\A e \in Desks : RequestOK(requests[e]))' /\ IdsDiffer'
  BY <1>1, <1>2, <1>3, OtherRequests
<1>5. Admissions' /\ AnAdminRemains'
  BY DEF AccountsInv, Admissions, Admission, AnAdminRemains, LiveAdmins, Admins
<1>6. QED BY <1>1, <1>4, <1>5 DEF AccountsInv

LEMMA IdleIsOK == RequestOK(Idle) /\ Idle.op = "none"
BY DEF RequestOK, Idle

LEMMA RefuseSafe ==
  ASSUME AccountsInv, NEW d \in Desks, Refuse(d)
  PROVE  AccountsInv'
<1>1. requests' = [requests EXCEPT ![d] = Idle]
  BY DEF Refuse, GoOn
<1>2. requests' \in [Desks -> {Idle} \cup LogIn \cup InviteEdit \cup UserEdit] /\ requests'[d] = Idle
  BY <1>1 DEF AccountsInv, AccountsTypeOK
<1>3. RequestOK(requests[d])' /\ requests'[d].op = "none"
  BY <1>2 DEF RequestOK, Idle
<1>4. \A e \in Desks \ {d} : requests'[e] = requests[e]
  BY <1>1 DEF AccountsInv, AccountsTypeOK
<1>5. UNCHANGED <<users, invites, sessions, asked, restarts, admitted, unconsumed, hadAdmin,
                  excused>>
  BY DEF Refuse, GoOn
<1>6. QED
  BY <1>2, <1>3, <1>4, <1>5, GoOnSafe DEF AccountsInv, AccountsTypeOK

\* A new request, which has read what it was made from just now.
LEMMA AskSafe ==
  ASSUME AccountsInv, NEW d \in Desks, NEW STATE request, Ask(d, request),
         request \in LogIn \cup InviteEdit \cup UserEdit,
         RequestOK(requests[d])',
         request.op = "login" => request.id = asked + 1
  PROVE  AccountsInv'
<1>1. requests' = [requests EXCEPT ![d] = request]
  BY DEF Ask
<1>2. /\ requests' \in [Desks -> {Idle} \cup LogIn \cup InviteEdit \cup UserEdit]
      /\ requests'[d] = request
  BY <1>1 DEF AccountsInv, AccountsTypeOK
<1>3. \A e \in Desks \ {d} : requests'[e] = requests[e]
  BY <1>1 DEF AccountsInv, AccountsTypeOK
<1>4. asked' \in Nat /\ asked <= asked'
  BY DEF Ask, AccountsInv, AccountsTypeOK
<1>5. UNCHANGED <<users, invites, sessions, restarts, admitted, unconsumed, hadAdmin, excused>>
  BY DEF Ask
<1>6. excused' \in BOOLEAN /\ (excused => excused')
  BY <1>5 DEF AccountsInv, AccountsTypeOK
<1>7. QED BY <1>2, <1>3, <1>4, <1>5, <1>6, GoOnSafe

-----------------------------------------------------------------------------
\* Logging in

LEMMA AskToLogInSafe ==
  ASSUME AccountsInv, NEW d \in Desks, NEW who \in People, NEW code \in Codes \cup {NoCode},
         AskToLogIn(d, who, code)
  PROVE  AccountsInv'
<1> DEFINE r == [op |-> "login", step |-> "user", who |-> who, code |-> code,
                 id |-> asked + 1, user |-> NewUser(who, FALSE), new |-> TRUE,
                 invite |-> NoInvite]
<1>1. Ask(d, r)
  BY DEF AskToLogIn
<1>2. r \in LogIn
  BY DEF LogIn, NewUser, User, NoInvite, Invite, AccountsInv, AccountsTypeOK
<1>3. requests'[d] = r /\ asked' = asked + 1 /\ users' = users /\ invites' = invites
  BY <1>1 DEF Ask, AccountsInv, AccountsTypeOK
<1>4. r.id \in (1 .. asked') \ DOMAIN users'
  BY <1>3 DEF AccountsInv, AccountsTypeOK
<1>5. RequestOK(requests[d])'
  BY <1>3, <1>4 DEF RequestOK, LogInOK
<1>6. QED BY <1>1, <1>2, <1>5, AskSafe

\* What is known of a request that logs in.
LEMMA DoingLogIn ==
  ASSUME AccountsInv, NEW d \in Desks, requests[d].op = "login"
  PROVE  requests[d] \in LogIn /\ LogInOK(requests[d])
BY DEF AccountsInv, AccountsTypeOK, RequestOK, Idle, InviteEdit, UserEdit

LEMMA FindUserSafe ==
  ASSUME AccountsInv, NEW d \in Desks, FindUser(d)
  PROVE  AccountsInv'
<1> DEFINE r == requests[d]
           found == {id \in DOMAIN users \ {LocalUser} : users[id].who = r.who}
<1>1. r \in LogIn /\ LogInOK(r) /\ r.step = "user" /\ r.op = "login"
  BY DoingLogIn DEF FindUser, Doing
<1>2. UNCHANGED <<users, invites, sessions, asked, restarts, admitted, unconsumed, hadAdmin,
                  excused>>
  BY DEF FindUser, GoOn
<1>3. \/ requests' = [requests EXCEPT ![d] = [r EXCEPT !.step = "invite"]] /\ found = {}
      \/ \E id \in found : requests' = [requests EXCEPT
           ![d] = [r EXCEPT !.step = "invite", !.id = id, !.user = users[id], !.new = FALSE]]
  BY DEF FindUser, GoOn
<1>4. CASE requests' = [requests EXCEPT ![d] = [r EXCEPT !.step = "invite"]] /\ r.new
  <2>1. requests'[d] = [r EXCEPT !.step = "invite"] /\ requests'[d] \in LogIn
    BY <1>1, <1>4 DEF AccountsInv, AccountsTypeOK, LogIn
  <2>2. RequestOK(requests[d])'
    BY <1>1, <1>2, <1>4, <2>1 DEF RequestOK, LogInOK, LogIn
  <2>3. requests' \in [Desks -> {Idle} \cup LogIn \cup InviteEdit \cup UserEdit]
    BY <1>4, <2>1 DEF AccountsInv, AccountsTypeOK
  <2>4. \A e \in Desks \ {d} : requests'[e] = requests[e]
    BY <1>4 DEF AccountsInv, AccountsTypeOK
  <2>5. requests'[d].id = r.id
    BY <1>1, <2>1 DEF LogIn
  <2>6. QED BY <1>1, <1>2, <1>4, <2>2, <2>3, <2>4, <2>5, GoOnSafe DEF AccountsInv, AccountsTypeOK
<1>5. ASSUME NEW id \in found,
             requests' = [requests EXCEPT
               ![d] = [r EXCEPT !.step = "invite", !.id = id, !.user = users[id], !.new = FALSE]]
      PROVE  AccountsInv'
  <2>1. users[id] \in User /\ id \in Nat
    BY DEF AccountsInv, AccountsTypeOK
  <2>2. /\ requests'[d] = [r EXCEPT !.step = "invite", !.id = id, !.user = users[id],
                                    !.new = FALSE]
        /\ requests'[d] \in LogIn
    BY <1>1, <1>5, <2>1 DEF AccountsInv, AccountsTypeOK, LogIn
  <2> ~requests'[d].new
    BY <2>2, <1>1 DEF LogIn
  <2>3. Agrees(users[id], users[id])
    BY <2>1 DEF Agrees, User
  <2>4. RequestOK(requests[d])'
    BY <1>1, <1>2, <2>2, <2>3 DEF RequestOK, LogInOK, LogIn
  <2>5. requests' \in [Desks -> {Idle} \cup LogIn \cup InviteEdit \cup UserEdit]
    BY <1>5, <2>2 DEF AccountsInv, AccountsTypeOK
  <2>6. \A e \in Desks \ {d} : requests'[e] = requests[e]
    BY <1>5 DEF AccountsInv, AccountsTypeOK
  <2>7. asked' \in Nat /\ asked <= asked' /\ excused' \in BOOLEAN /\ (excused => excused')
    BY <1>2 DEF AccountsInv, AccountsTypeOK
  <2>8. QED BY <1>2, <2>2, <2>4, <2>5, <2>6, <2>7, GoOnSafe
<1>6. r.new
  BY <1>1 DEF LogInOK
<1>7. QED BY <1>3, <1>4, <1>5, <1>6

LEMMA FindInviteSafe ==
  ASSUME AccountsInv, NEW d \in Desks, FindInvite(d)
  PROVE  AccountsInv'
<1> DEFINE r == requests[d]
           row == invites[r.code]
<1>1. r \in LogIn /\ LogInOK(r) /\ r.step = "invite" /\ r.op = "login"
  BY DoingLogIn DEF FindInvite, Doing
<1>2. CASE Refuse(d)
  BY <1>2, RefuseSafe
<1>3. ASSUME NEW STATE new, requests' = [requests EXCEPT ![d] = new], new \in LogIn,
             UNCHANGED <<users, invites, sessions, asked, restarts, admitted, unconsumed,
                         hadAdmin, excused>>,
             LogInOK(requests[d])', new.new = r.new, new.id = r.id
      PROVE  AccountsInv'
  <2>1. requests'[d] = new
    BY <1>3 DEF AccountsInv, AccountsTypeOK
  <2>2. RequestOK(requests[d])'
    BY <1>3, <2>1 DEF RequestOK, LogIn
  <2>3. requests' \in [Desks -> {Idle} \cup LogIn \cup InviteEdit \cup UserEdit]
    BY <1>3 DEF AccountsInv, AccountsTypeOK
  <2>4. \A e \in Desks \ {d} : requests'[e] = requests[e]
    BY <1>3 DEF AccountsInv, AccountsTypeOK
  <2>5. asked' \in Nat /\ asked <= asked' /\ excused' \in BOOLEAN /\ (excused => excused')
    BY <1>3 DEF AccountsInv, AccountsTypeOK
  <2>6. requests'[d].new => /\ requests[d].op = "login" /\ requests[d].new
                            /\ requests'[d].id = requests[d].id
    BY <1>1, <1>3, <2>1
  <2>7. QED BY <1>3, <2>2, <2>3, <2>4, <2>5, <2>6, GoOnSafe
<1>4. CASE r.code = NoCode /\ ~r.new /\ GoOn(d, [r EXCEPT !.step = "commit"])
  <2> DEFINE new == [r EXCEPT !.step = "commit"]
  <2>1. new \in LogIn /\ new.new = r.new /\ new.id = r.id /\ new.code = NoCode
        /\ new.invite = r.invite /\ new.user = r.user /\ new.step = "commit"
    BY <1>1, <1>4 DEF LogIn
  <2>2. /\ requests' = [requests EXCEPT ![d] = new]
        /\ UNCHANGED <<users, invites, sessions, asked, restarts, admitted, unconsumed,
                       hadAdmin, excused>>
    BY <1>4 DEF GoOn, FindInvite
  <2>3. requests'[d] = new
    BY <2>2 DEF AccountsInv, AccountsTypeOK
  <2>4. LogInOK(requests[d])'
    BY <1>1, <1>4, <2>1, <2>2, <2>3, AccountsAssumption DEF LogInOK
  <2>5. QED BY <1>3, <2>1, <2>2, <2>4
<1>5. CASE /\ r.code # NoCode /\ Usable(row, r.id)
           /\ GoOn(d, [r EXCEPT !.step = "commit", !.invite = row])
  <2> DEFINE new == [r EXCEPT !.step = "commit", !.invite = row]
  <2>1. r.code \in Codes /\ row \in Invite
    BY <1>1, <1>5 DEF LogIn, AccountsInv, AccountsTypeOK
  <2>2. new \in LogIn /\ new.new = r.new /\ new.id = r.id /\ new.code = r.code
        /\ new.invite = row /\ new.user = r.user /\ new.step = "commit"
    BY <1>1, <2>1 DEF LogIn
  <2>3. /\ requests' = [requests EXCEPT ![d] = new]
        /\ UNCHANGED <<users, invites, sessions, asked, restarts, admitted, unconsumed,
                       hadAdmin, excused>>
    BY <1>5 DEF GoOn, FindInvite
  <2>4. requests'[d] = new
    BY <2>3 DEF AccountsInv, AccountsTypeOK
  <2>5. InviteAgrees(row, row)
    BY <1>5, <2>1 DEF InviteAgrees, Agrees, Usable, Invite
  <2>6. LogInOK(requests[d])'
    BY <1>1, <1>5, <2>1, <2>2, <2>3, <2>4, <2>5 DEF LogInOK
  <2>7. QED BY <1>3, <2>2, <2>3, <2>6
<1>6. QED BY <1>2, <1>4, <1>5 DEF FindInvite

\* What the log in writes of the user: nothing but rights that are added.
LEMMA LoggedInRow ==
  ASSUME NEW r \in LogIn
  PROVE  /\ LoggedIn(r) \in User
         /\ LoggedIn(r).version = r.user.version
         /\ LoggedIn(r).live = r.user.live
         /\ r.user.admin => LoggedIn(r).admin
BY DEF LoggedIn, LogIn, User, Invite

\* Users stay administrators, and rows of users agree with their readers.
LEMMA LogInUsers ==
  ASSUME AccountsInv, NEW d \in Desks, requests[d].op = "login", requests[d].step = "commit",
         users' = IF requests[d].new THEN Put(users, requests[d].id, LoggedIn(requests[d]))
                  ELSE Guarded(users, requests[d].id, requests[d].user, LoggedIn(requests[d]))
  PROVE  /\ DOMAIN users' \subseteq 0 .. asked
         /\ users' \in [DOMAIN users' -> User]
         /\ UsersAdvance(d)
         /\ LiveAdmins(users) \subseteq LiveAdmins(users')
<1> DEFINE r == requests[d]
           row == LoggedIn(r)
<1>1. r \in LogIn /\ LogInOK(r)
  BY DoingLogIn
<1>2. row \in User /\ row.version = r.user.version /\ row.live = r.user.live
      /\ (r.user.admin => row.admin)
  BY <1>1, LoggedInRow
<1>3. \A id \in DOMAIN users : users[id] \in User
  BY DEF AccountsInv, AccountsTypeOK
<1>4. CASE r.new
  <2>1. r.id \in (1 .. asked) \ DOMAIN users
    BY <1>1, <1>4 DEF LogInOK
  <2>2. users' = [i \in DOMAIN users \cup {r.id} |-> IF i = r.id THEN row ELSE users[i]]
    BY <1>4 DEF Put
  <2>3. DOMAIN users' = DOMAIN users \cup {r.id} /\ users' \in [DOMAIN users' -> User]
        /\ \A i \in DOMAIN users : users'[i] = users[i]
    BY <1>2, <1>3, <2>1, <2>2
  <2>4. UsersAdvance(d)
    BY <1>3, <1>4, <2>3 DEF UsersAdvance, Agrees, User
  <2>5. LiveAdmins(users) \subseteq LiveAdmins(users')
    BY <2>3 DEF LiveAdmins, Admins
  <2>6. QED BY <2>1, <2>3, <2>4, <2>5 DEF AccountsInv, AccountsTypeOK
<1>5. CASE ~r.new
  <2>1. r.id \in DOMAIN users /\ Agrees(r.user, users[r.id])
    BY <1>1, <1>5 DEF LogInOK
  <2>2. r.user \in User
    BY <1>1 DEF LogIn
  <2>3. users' = IF users[r.id].version = r.user.version
                 THEN Put(users, r.id, [row EXCEPT !.version = r.user.version + 1]) ELSE users
    BY <1>5 DEF Guarded
  <2>4. CASE users' = users
    BY <1>3, <2>4 DEF UsersAdvance, Agrees, User, AccountsInv, AccountsTypeOK
  <2>5. CASE users[r.id].version = r.user.version
    <3> DEFINE new == [row EXCEPT !.version = r.user.version + 1]
    <3>1. users[r.id] = r.user
      BY <2>1, <2>5 DEF Agrees
    <3>2. new \in User /\ new.version = r.user.version + 1 /\ new.live = r.user.live
          /\ (r.user.admin => new.admin)
      BY <1>2, <2>2 DEF User
    <3>3. users' = [i \in DOMAIN users \cup {r.id} |-> IF i = r.id THEN new ELSE users[i]]
      BY <2>3, <2>5 DEF Put
    <3>4. /\ DOMAIN users' = DOMAIN users /\ users'[r.id] = new
          /\ \A i \in DOMAIN users \ {r.id} : users'[i] = users[i]
          /\ users' \in [DOMAIN users' -> User]
      BY <1>3, <2>1, <3>2, <3>3
    <3>5. Agrees(users[r.id], users'[r.id])
      BY <2>2, <3>1, <3>2, <3>4 DEF Agrees, User
    <3>6. UsersAdvance(d)
      <4>1. ASSUME NEW i \in DOMAIN users \ {r.id} PROVE Agrees(users[i], users'[i])
        BY <1>3, <3>4 DEF Agrees, User
      <4>2. QED BY <3>4, <3>5, <4>1 DEF UsersAdvance
    <3>7. LiveAdmins(users) \subseteq LiveAdmins(users')
      <4>1. ASSUME NEW i \in DOMAIN users, users[i].admin, users[i].live
            PROVE  i \in DOMAIN users' /\ users'[i].admin /\ users'[i].live
        <5>1. CASE i = r.id
          BY <3>1, <3>2, <3>4, <4>1, <5>1
        <5>2. CASE i # r.id
          BY <3>4, <4>1, <5>2
        <5>3. QED BY <5>1, <5>2
      <4>2. QED BY <4>1 DEF LiveAdmins, Admins
    <3>8. QED BY <3>4, <3>6, <3>7 DEF AccountsInv, AccountsTypeOK
  <2>6. QED BY <2>3, <2>4, <2>5
<1>6. QED BY <1>4, <1>5

\* An invite that is consumed was not consumed before, as it is what was read.
LEMMA LogInInvites ==
  ASSUME AccountsInv, NEW d \in Desks, requests[d].op = "login", requests[d].step = "commit",
         invites' = Consumed(invites, requests[d]),
         admitted' = [c \in Codes |-> admitted[c] \cup
                        (IF c = requests[d].code THEN {requests[d].id} ELSE {})],
         unconsumed' = IF Unused(requests[d].invite) /\ invites' = invites
                       THEN unconsumed \cup {requests[d].code} ELSE unconsumed
  PROVE  /\ invites' \in [Codes -> Invite]
         /\ admitted' \in [Codes -> SUBSET Nat]
         /\ unconsumed' \subseteq Codes
         /\ InvitesAdvance
         /\ Admissions'
<1> DEFINE r == requests[d]
           c == r.code
<1>1. r \in LogIn /\ LogInOK(r)
  BY DoingLogIn
<1>2. \A x \in Codes : invites[x] \in Invite
  BY DEF AccountsInv, AccountsTypeOK
<1>3. CASE c = NoCode
  <2>1. r.invite = NoInvite /\ c \notin Codes
    BY <1>1, <1>3, AccountsAssumption DEF LogInOK
  <2>2. ~Unused(r.invite)
    BY <2>1 DEF Unused, NoInvite
  <2>3. invites' = invites /\ unconsumed' = unconsumed
    BY <2>2 DEF Consumed
  <2>4. \A x \in Codes : admitted'[x] = admitted[x]
    BY <2>1 DEF AccountsInv, AccountsTypeOK
  <2>5. admitted' \in [Codes -> SUBSET Nat]
    BY <2>1 DEF AccountsInv, AccountsTypeOK
  <2>6. Admissions'
    BY <2>3, <2>4 DEF AccountsInv, Admissions, Admission
  <2>7. InvitesAdvance
    BY <1>2, <2>3 DEF InvitesAdvance, Agrees, Invite
  <2>8. QED BY <2>3, <2>5, <2>6, <2>7 DEF AccountsInv, AccountsTypeOK
<1>4. CASE c \in Codes
  <2>1. InviteAgrees(r.invite, invites[c]) /\ Usable(r.invite, r.id)
    BY <1>1, <1>4 DEF LogInOK
  <2>2. r.invite \in Invite /\ r.id \in Nat
    BY <1>1 DEF LogIn
  <2>3. admitted' \in [Codes -> SUBSET Nat] /\ unconsumed' \subseteq Codes
    BY <1>4, <2>2 DEF AccountsInv, AccountsTypeOK
  <2>4. /\ admitted'[c] = admitted[c] \cup {r.id}
        /\ \A x \in Codes \ {c} : admitted'[x] = admitted[x]
    BY <1>4 DEF AccountsInv, AccountsTypeOK
  <2>5. unconsumed \subseteq unconsumed'
    OBVIOUS
  <2>6. \A x \in Codes \ {c} : invites'[x] = invites[x] => Admission(x)'
    BY <2>4, <2>5 DEF AccountsInv, Admissions, Admission
  <2>7. CASE invites' = invites
    <3>1. \A x \in Codes : x = c => Admission(x)'
      <4>1. invites[c].made /\ (invites[c].live => invites[c].made)
        BY <2>1 DEF InviteAgrees
      <4>2. CASE Unused(r.invite)
        BY <1>4, <2>7, <4>1, <4>2 DEF Admission
      <4>3. CASE ~Unused(r.invite)
        <5>1. r.invite.by = r.id /\ r.id # NoId
          BY <2>1, <2>2, <4>3 DEF Usable, NoId
        <5>2. invites[c].by = r.id
          BY <2>1, <5>1 DEF InviteAgrees
        <5>3. \/ c \in unconsumed
              \/ admitted[c] = {}
              \/ admitted[c] = {r.id}
          BY <1>4, <5>2 DEF AccountsInv, Admissions, Admission
        <5>4. c \in unconsumed' \/ admitted'[c] = {r.id}
          BY <2>4, <2>5, <5>3
        <5>5. QED BY <2>7, <4>1, <5>1, <5>2, <5>4 DEF Admission
      <4>4. QED BY <4>2, <4>3
    <3>2. Admissions'
      BY <2>6, <2>7, <3>1 DEF Admissions
    <3>3. InvitesAdvance
      BY <1>2, <2>7 DEF InvitesAdvance, Agrees, Invite
    <3>4. QED BY <2>3, <2>7, <3>2, <3>3 DEF AccountsInv, AccountsTypeOK
  <2>8. CASE Unused(r.invite) /\ invites[c].version = r.invite.version
    <3> DEFINE row == [[r.invite EXCEPT !.by = r.id, !.live = FALSE]
                         EXCEPT !.version = r.invite.version + 1]
    <3>1. invites[c] = r.invite /\ r.invite.by = NoId
      BY <2>1, <2>8 DEF InviteAgrees, Agrees, Unused
    <3>2. invites' = Put(invites, c, row)
      BY <2>8 DEF Consumed, Guarded
    <3>3. /\ invites' \in [Codes -> Invite] /\ invites'[c] = row
          /\ \A x \in Codes \ {c} : invites'[x] = invites[x]
      <4>1. row \in Invite
        <5>1. [r.invite EXCEPT !.by = r.id, !.live = FALSE] \in Invite
          BY <2>2 DEF Invite
        <5>2. r.invite.version + 1 \in Nat
          BY <2>2 DEF Invite
        <5>3. QED BY <5>1, <5>2 DEF Invite
      <4>2. Codes \cup {c} = Codes /\ DOMAIN invites = Codes
        BY <1>4 DEF AccountsInv, AccountsTypeOK
      <4>3. invites' = [i \in Codes |-> IF i = c THEN row ELSE invites[i]]
        BY <3>2, <4>2 DEF Put
      <4>4. QED BY <1>2, <1>4, <4>1, <4>3
    <3>4. row.by = r.id /\ row.made /\ ~row.live /\ row.version = r.invite.version + 1
          /\ r.id # NoId /\ r.invite.made
      <4>1. [r.invite EXCEPT !.by = r.id, !.live = FALSE] \in Invite
        BY <2>2 DEF Invite
      <4>2. QED BY <2>1, <2>2, <4>1 DEF Invite, InviteAgrees, NoId
    <3>5. admitted'[c] = {r.id} \/ c \in unconsumed'
      BY <1>4, <2>4, <2>5, <3>1 DEF AccountsInv, Admissions, Admission
    <3>6. \A x \in Codes : x = c => Admission(x)'
      <4>1. SUFFICES ASSUME NEW x \in Codes, x = c PROVE Admission(x)'
        OBVIOUS
      <4>2. invites'[x].made /\ ~invites'[x].live /\ invites'[x].by = r.id
        BY <3>3, <3>4, <4>1
      <4>3. admitted'[x] = {r.id} \/ x \in unconsumed'
        BY <3>5, <4>1
      <4>4. QED BY <3>4, <4>2, <4>3 DEF Admission
    <3>7. InvitesAdvance
      <4>1. Agrees(invites[c], invites'[c])
        BY <2>2, <3>1, <3>3, <3>4 DEF Agrees, Invite
      <4>2. \A x \in Codes \ {c} : Agrees(invites[x], invites'[x])
        BY <1>2, <3>3 DEF Agrees, Invite
      <4>3. QED BY <3>1, <3>3, <3>4, <4>1, <4>2 DEF InvitesAdvance
    <3>8. Admissions'
      BY <2>6, <3>3, <3>6 DEF Admissions
    <3>9. QED BY <2>3, <3>3, <3>7, <3>8
  <2>9. QED BY <2>7, <2>8 DEF Consumed, Guarded
<1>5. QED BY <1>1, <1>3, <1>4 DEF LogIn

LEMMA CommitLogInSafe ==
  ASSUME AccountsInv, NEW d \in Desks, CommitLogIn(d)
  PROVE  AccountsInv'
<1> DEFINE r == requests[d]
<1>1. CASE Refuse(d)
  BY <1>1, RefuseSafe
<1>2. CASE ~Refuse(d)
  <2>1. r.op = "login" /\ r.step = "commit"
    BY DEF CommitLogIn, Doing
  <2>2. r \in LogIn /\ LogInOK(r)
    BY <2>1, DoingLogIn
  <2>3. /\ users' = IF r.new THEN Put(users, r.id, LoggedIn(r))
                    ELSE Guarded(users, r.id, r.user, LoggedIn(r))
        /\ invites' = Consumed(invites, r)
        /\ sessions' = sessions \cup {SessionOf(r.id, LoggedIn(r))}
        /\ requests' = [requests EXCEPT ![d] = Idle]
        /\ admitted' = [c \in Codes |-> admitted[c] \cup (IF c = r.code THEN {r.id} ELSE {})]
        /\ unconsumed' = IF Unused(r.invite) /\ invites' = invites
                         THEN unconsumed \cup {r.code} ELSE unconsumed
        /\ hadAdmin' = (hadAdmin \/ LiveAdmins(users') # {})
        /\ UNCHANGED <<asked, restarts, excused>>
    BY <1>2 DEF CommitLogIn
  <2>4. /\ DOMAIN users' \subseteq 0 .. asked /\ users' \in [DOMAIN users' -> User]
        /\ UsersAdvance(d) /\ LiveAdmins(users) \subseteq LiveAdmins(users')
    BY <2>1, <2>3, LogInUsers
  <2>5. /\ invites' \in [Codes -> Invite] /\ admitted' \in [Codes -> SUBSET Nat]
        /\ unconsumed' \subseteq Codes /\ InvitesAdvance /\ Admissions'
    BY <2>1, <2>3, LogInInvites
  <2>6. SessionOf(r.id, LoggedIn(r)) \in [user : Nat, admin : BOOLEAN]
    BY <2>2, LoggedInRow DEF SessionOf, LogIn, User
  <2>7. requests' \in [Desks -> {Idle} \cup LogIn \cup InviteEdit \cup UserEdit]
        /\ requests'[d] = Idle /\ \A e \in Desks \ {d} : requests'[e] = requests[e]
    BY <2>3 DEF AccountsInv, AccountsTypeOK
  <2>8. AccountsTypeOK'
    BY <2>3, <2>4, <2>5, <2>6, <2>7 DEF AccountsInv, AccountsTypeOK, UsersAdvance
  <2>9. RequestOK(requests[d])' /\ requests'[d].op = "none"
    BY <2>7 DEF RequestOK, Idle
  <2>10. asked <= asked'
    BY <2>3 DEF AccountsInv, AccountsTypeOK
  <2>11. (\A e \in Desks : RequestOK(requests[e]))' /\ IdsDiffer'
    BY <2>4, <2>5, <2>7, <2>8, <2>9, <2>10, OtherRequests DEF InvitesAdvance
  <2>12. AnAdminRemains'
    BY <2>3, <2>4 DEF AccountsInv, AnAdminRemains
  <2>13. QED BY <2>5, <2>8, <2>11, <2>12 DEF AccountsInv
<1>3. QED BY <1>1, <1>2

-----------------------------------------------------------------------------
\* Invites

\* Nobody has read an invite that was not made.
LEMMA MakeInviteSafe ==
  ASSUME AccountsInv, NEW c \in Codes, NEW admin \in BOOLEAN, MakeInvite(c, admin)
  PROVE  AccountsInv'
<1> DEFINE row == [NoInvite EXCEPT !.made = TRUE, !.live = TRUE, !.admin = admin]
<1>1. row \in Invite /\ row.made /\ row.by = NoId
  BY DEF NoInvite, Invite, NoId
<1>2. /\ invites' = [invites EXCEPT ![c] = row]
      /\ UNCHANGED <<users, sessions, requests, asked, restarts, admitted, unconsumed,
                     hadAdmin, excused>>
      /\ ~invites[c].made
  BY DEF MakeInvite
<1>3. /\ invites' \in [Codes -> Invite] /\ invites'[c] = row
      /\ \A x \in Codes \ {c} : invites'[x] = invites[x]
  BY <1>1, <1>2 DEF AccountsInv, AccountsTypeOK
<1>4. AccountsTypeOK'
  BY <1>2, <1>3 DEF AccountsInv, AccountsTypeOK
<1>5. ASSUME NEW e \in Desks
      PROVE  RequestOK(requests[e])'
  <2>1. requests'[e] = requests[e] /\ users' = users /\ asked' = asked /\ RequestOK(requests[e])
    BY <1>2 DEF AccountsInv
  <2>2. requests[e].op = "login" /\ requests[e].step = "commit" /\ requests[e].code \in Codes
          => invites'[requests[e].code] = invites[requests[e].code]
    BY <1>2, <1>3, <2>1 DEF RequestOK, LogInOK, InviteAgrees
  <2>3. requests[e].op = "invite" => invites'[requests[e].code] = invites[requests[e].code]
    <3>1. SUFFICES ASSUME requests[e].op = "invite"
                   PROVE  invites'[requests[e].code] = invites[requests[e].code]
      OBVIOUS
    <3>2. requests[e] \in InviteEdit
      BY <3>1 DEF AccountsInv, AccountsTypeOK, Idle, LogIn, UserEdit
    <3>3. requests[e].code \in Codes
      BY <3>2 DEF InviteEdit
    <3>4. invites[requests[e].code].made
      BY <2>1, <3>1 DEF RequestOK, InviteEditOK, InviteAgrees
    <3>5. QED BY <1>2, <1>3, <3>3, <3>4
  <2>4. requests[e].op = "login" => LogInOK(requests[e])'
    BY <2>1, <2>2 DEF RequestOK, LogInOK
  <2>5. requests[e].op = "invite" => InviteEditOK(requests[e])'
    BY <2>1, <2>3 DEF RequestOK, InviteEditOK
  <2>6. requests[e].op = "user" => UserEditOK(requests[e])'
    BY <2>1 DEF RequestOK, UserEditOK
  <2>7. QED BY <2>1, <2>4, <2>5, <2>6 DEF RequestOK
<1>6. IdsDiffer'
  BY <1>2 DEF AccountsInv, IdsDiffer
<1>7. ASSUME NEW x \in Codes
      PROVE  Admission(x)'
  <2>1. Admission(x)
    BY DEF AccountsInv, Admissions
  <2>2. CASE x = c
    BY <1>1, <1>2, <1>3, <2>1, <2>2 DEF Admission
  <2>3. CASE x # c
    BY <1>2, <1>3, <2>1, <2>3 DEF Admission
  <2>4. QED BY <2>2, <2>3
<1>8. AnAdminRemains'
  BY <1>2 DEF AccountsInv, AnAdminRemains
<1>9. QED BY <1>4, <1>5, <1>6, <1>7, <1>8 DEF AccountsInv, Admissions

\* An edit of an invite does not change who has consumed it.
LEMMA AskInviteSafe ==
  ASSUME AccountsInv, NEW d \in Desks, NEW c \in Codes, NEW STATE row,
         invites[c].made, row \in Invite, row.made, row.by = invites[c].by,
         Ask(d, [op |-> "invite", step |-> "commit", code |-> c, read |-> invites[c],
                 row |-> row])
  PROVE  AccountsInv'
<1> DEFINE r == [op |-> "invite", step |-> "commit", code |-> c, read |-> invites[c],
                 row |-> row]
<1>1. invites[c] \in Invite /\ r \in InviteEdit
  BY DEF InviteEdit, AccountsInv, AccountsTypeOK
<1>2. requests'[d] = r /\ invites' = invites
  BY DEF Ask, AccountsInv, AccountsTypeOK
<1>3. InviteAgrees(invites[c], invites[c])
  BY <1>1 DEF InviteAgrees, Agrees, Invite
<1>4. RequestOK(requests[d])'
  BY <1>2, <1>3 DEF RequestOK, InviteEditOK
<1>5. QED BY <1>1, <1>4, AskSafe

LEMMA AskToEditInviteSafe ==
  ASSUME AccountsInv, NEW d \in Desks, NEW c \in Codes, NEW admin \in BOOLEAN,
         AskToEditInvite(d, c, admin)
  PROVE  AccountsInv'
<1> DEFINE row == [invites[c] EXCEPT !.admin = admin]
<1>1. invites[c] \in Invite /\ invites[c].made
  BY DEF AskToEditInvite, AccountsInv, AccountsTypeOK, Admissions, Admission
<1>2. row \in Invite /\ row.made /\ row.by = invites[c].by
  BY <1>1 DEF Invite
<1>3. QED BY <1>1, <1>2, AskInviteSafe DEF AskToEditInvite

LEMMA AskToDeleteInviteSafe ==
  ASSUME AccountsInv, NEW d \in Desks, NEW c \in Codes, AskToDeleteInvite(d, c)
  PROVE  AccountsInv'
<1> DEFINE row == [invites[c] EXCEPT !.live = FALSE]
<1>1. invites[c] \in Invite /\ invites[c].made
  BY DEF AskToDeleteInvite, AccountsInv, AccountsTypeOK
<1>2. row \in Invite /\ row.made /\ row.by = invites[c].by
  BY <1>1 DEF Invite
<1>3. QED BY <1>1, <1>2, AskInviteSafe DEF AskToDeleteInvite

LEMMA CommitInviteSafe ==
  ASSUME AccountsInv, NEW d \in Desks, CommitInvite(d)
  PROVE  AccountsInv'
<1> DEFINE r == requests[d]
           c == r.code
           row == [r.row EXCEPT !.version = r.read.version + 1]
<1>1. r \in InviteEdit /\ InviteEditOK(r)
  BY DEF CommitInvite, Doing, AccountsInv, AccountsTypeOK, RequestOK, Idle, LogIn, UserEdit
<1>2. c \in Codes /\ r.read \in Invite /\ r.row \in Invite /\ invites[c] \in Invite
  BY <1>1 DEF InviteEdit, AccountsInv, AccountsTypeOK
<1>3. /\ invites' = Guarded(invites, c, r.read, r.row)
      /\ requests' = [requests EXCEPT ![d] = Idle]
      /\ UNCHANGED <<users, sessions, asked, restarts, admitted, unconsumed, hadAdmin, excused>>
  BY DEF CommitInvite
<1>4. row \in Invite /\ row.made /\ row.by = r.read.by /\ row.version = r.read.version + 1
  BY <1>1, <1>2 DEF Invite, InviteEditOK
<1>5. /\ invites' \in [Codes -> Invite]
      /\ \A x \in Codes \ {c} : invites'[x] = invites[x]
      /\ \/ invites'[c] = invites[c]
         \/ invites'[c] = row /\ r.read = invites[c]
  <2>1. Codes \cup {c} = Codes /\ DOMAIN invites = Codes
    BY <1>2 DEF AccountsInv, AccountsTypeOK
  <2>2. invites' = IF invites[c].version = r.read.version
                   THEN [i \in Codes |-> IF i = c THEN row ELSE invites[i]] ELSE invites
    BY <1>3, <2>1 DEF Guarded, Put
  <2>3. invites[c].version = r.read.version => r.read = invites[c]
    BY <1>1 DEF InviteEditOK, InviteAgrees, Agrees
  <2>4. QED BY <1>2, <1>4, <2>2, <2>3 DEF AccountsInv, AccountsTypeOK
<1>6. InvitesAdvance
  <2>1. /\ Agrees(invites[c], invites'[c])
        /\ invites[c].made => invites'[c].made
        /\ invites[c].by # NoId => invites'[c].by = invites[c].by
    BY <1>2, <1>4, <1>5 DEF Agrees, Invite
  <2>2. \A x \in Codes \ {c} : Agrees(invites[x], invites'[x])
    BY <1>5 DEF Agrees, Invite, AccountsInv, AccountsTypeOK
  <2>3. QED BY <1>5, <2>1, <2>2 DEF InvitesAdvance
<1>7. ASSUME NEW x \in Codes
      PROVE  Admission(x)'
  <2>1. Admission(x) /\ admitted'[x] = admitted[x] /\ unconsumed' = unconsumed
    BY <1>3 DEF AccountsInv, Admissions
  <2>2. CASE x = c /\ invites'[c] = row /\ r.read = invites[c]
    <3>1. invites'[x].made /\ invites'[x].by = invites[x].by
      BY <1>4, <2>2
    <3>2. QED BY <2>1, <3>1 DEF Admission
  <2>3. CASE invites'[x] = invites[x]
    BY <2>1, <2>3 DEF Admission
  <2>4. QED BY <1>5, <2>2, <2>3
<1>8. requests' \in [Desks -> {Idle} \cup LogIn \cup InviteEdit \cup UserEdit]
      /\ requests'[d] = Idle /\ \A e \in Desks \ {d} : requests'[e] = requests[e]
  BY <1>3 DEF AccountsInv, AccountsTypeOK
<1>9. AccountsTypeOK'
  BY <1>3, <1>5, <1>8 DEF AccountsInv, AccountsTypeOK
<1>10. RequestOK(requests[d])' /\ requests'[d].op = "none"
  BY <1>8 DEF RequestOK, Idle
<1>11. UsersAdvance(d) /\ asked <= asked'
  BY <1>3 DEF UsersAdvance, AccountsInv, AccountsTypeOK, User, Agrees
<1>12. (\A e \in Desks : RequestOK(requests[e]))' /\ IdsDiffer'
  BY <1>6, <1>8, <1>9, <1>10, <1>11, OtherRequests DEF InvitesAdvance
<1>13. AnAdminRemains'
  BY <1>3 DEF AccountsInv, AnAdminRemains
<1>14. QED BY <1>7, <1>9, <1>12, <1>13 DEF AccountsInv, Admissions

-----------------------------------------------------------------------------
\* Edits of users

LEMMA AskToChangeUserSafe ==
  ASSUME AccountsInv, NEW d \in Desks, NEW id \in DOMAIN users,
         NEW change \in {"admin", "plain", "delete"}, AskToChangeUser(d, id, change)
  PROVE  AccountsInv'
<1> DEFINE r == [op |-> "user", step |-> "verify", id |-> id, change |-> change,
                 read |-> users[id], others |-> {}]
<1>1. r \in UserEdit
  BY DEF UserEdit, AccountsInv, AccountsTypeOK
<1>2. requests'[d] = r /\ users' = users
  BY DEF AskToChangeUser, Ask, AccountsInv, AccountsTypeOK
<1>3. RequestOK(requests[d])'
  BY <1>2 DEF RequestOK, UserEditOK
<1>4. QED BY <1>1, <1>3, AskSafe DEF AskToChangeUser

LEMMA DoingUserEdit ==
  ASSUME AccountsInv, NEW d \in Desks, requests[d].op = "user"
  PROVE  requests[d] \in UserEdit /\ UserEditOK(requests[d]) /\ users[requests[d].id] \in User
BY DEF AccountsInv, AccountsTypeOK, RequestOK, Idle, InviteEdit, LogIn, UserEditOK

\* A step of an edit that writes nothing yet.
LEMMA EditGoesOn ==
  ASSUME AccountsInv, NEW d \in Desks, NEW STATE new, new \in UserEdit,
         GoOn(d, new), excused' \in BOOLEAN, excused => excused', UserEditOK(requests[d])'
  PROVE  AccountsInv'
<1>1. requests' = [requests EXCEPT ![d] = new]
      /\ UNCHANGED <<users, invites, sessions, asked, restarts, admitted, unconsumed, hadAdmin>>
  BY DEF GoOn
<1>2. requests' \in [Desks -> {Idle} \cup LogIn \cup InviteEdit \cup UserEdit]
      /\ requests'[d] = new /\ \A e \in Desks \ {d} : requests'[e] = requests[e]
  BY <1>1 DEF AccountsInv, AccountsTypeOK
<1>3. RequestOK(requests[d])' /\ requests'[d].op = "user"
  BY <1>2 DEF RequestOK, UserEdit
<1>4. asked' \in Nat /\ asked <= asked'
  BY <1>1 DEF AccountsInv, AccountsTypeOK
<1>5. QED BY <1>1, <1>2, <1>3, <1>4, GoOnSafe

LEMMA VerifyOthersSafe ==
  ASSUME AccountsInv, NEW d \in Desks, VerifyOthers(d)
  PROVE  AccountsInv'
<1> DEFINE r == requests[d]
           others == OtherAdmins(r.id)
           checked == r.change # "admin"
           new == [r EXCEPT !.step = "read", !.others = IF checked THEN others ELSE {}]
<1>1. r \in UserEdit /\ UserEditOK(r)
  BY DoingUserEdit DEF VerifyOthers, Doing
<1>2. CASE Refuse(d)
  BY <1>2, RefuseSafe
<1>3. CASE ~Refuse(d)
  <2>1. (checked => others # {}) /\ GoOn(d, new)
        /\ excused' = (excused \/ (checked /\ others \cap LiveAdmins(users) = {}
                                   /\ others \ {r.id} # {}))
    BY <1>3 DEF VerifyOthers
  <2>2. others \subseteq Nat /\ others \ {r.id} = others
    BY DEF OtherAdmins, Admins, AccountsInv, AccountsTypeOK
  <2>3. new \in UserEdit /\ new.id = r.id /\ new.change = r.change /\ new.step = "read"
        /\ new.others = IF checked THEN others ELSE {}
    BY <1>1, <2>2 DEF UserEdit
  <2>4. requests'[d] = new /\ users' = users
    BY <2>1 DEF GoOn, AccountsInv, AccountsTypeOK
  <2>5. UserEditOK(requests[d])'
    BY <1>1, <2>1, <2>2, <2>3, <2>4 DEF UserEditOK
  <2>6. excused' \in BOOLEAN /\ (excused => excused')
    BY <2>1 DEF AccountsInv, AccountsTypeOK
  <2>7. QED BY <2>1, <2>3, <2>5, <2>6, EditGoesOn
<1>4. QED BY <1>2, <1>3

LEMMA ReadUserSafe ==
  ASSUME AccountsInv, NEW d \in Desks, ReadUser(d)
  PROVE  AccountsInv'
<1> DEFINE r == requests[d]
           row == users[r.id]
           new == [r EXCEPT !.step = "commit", !.read = row]
<1>1. r \in UserEdit /\ UserEditOK(r) /\ row \in User /\ r.step = "read"
  BY DoingUserEdit DEF ReadUser, Doing
<1>2. CASE Refuse(d)
  BY <1>2, RefuseSafe
<1>3. CASE ~Refuse(d)
  <2>1. GoOn(d, new) /\ excused' = excused /\ (r.change = "admin" => row.live)
    BY <1>3 DEF ReadUser, FoundWithVersion, Refuse
  <2>2. new \in UserEdit /\ new.id = r.id /\ new.change = r.change /\ new.step = "commit"
        /\ new.others = r.others /\ new.read = row
    BY <1>1 DEF UserEdit
  <2>3. requests'[d] = new /\ users' = users
    BY <2>1 DEF GoOn, AccountsInv, AccountsTypeOK
  <2>4. Agrees(row, row)
    BY <1>1 DEF Agrees, User
  <2>5. UserEditOK(requests[d])'
    BY <1>1, <2>1, <2>2, <2>3, <2>4 DEF UserEditOK
  <2>6. excused' \in BOOLEAN /\ (excused => excused')
    BY <2>1 DEF AccountsInv, AccountsTypeOK
  <2>7. QED BY <2>1, <2>2, <2>5, <2>6, EditGoesOn
<1>4. QED BY <1>2, <1>3

\* A user who stops to be an administrator leaves the others that were counted, and
\* if none of these is one any more, the request is an excused one.
LEMMA CommitUserAdmins ==
  ASSUME AccountsInv, NEW d \in Desks, requests[d] \in UserEdit, UserEditOK(requests[d]),
         requests[d].step = "commit",
         users' = users \/
           /\ DOMAIN users' = DOMAIN users
           /\ \A i \in DOMAIN users \ {requests[d].id} : users'[i] = users[i]
           /\ users'[requests[d].id] =
                [Changed(requests[d]) EXCEPT !.version = requests[d].read.version + 1],
         hadAdmin' = (hadAdmin \/ LiveAdmins(users') # {}),
         excused' = (excused \/ (requests[d].others \ {requests[d].id} # {}
                       /\ requests[d].others \cap LiveAdmins(users) \subseteq {requests[d].id}))
  PROVE  AnAdminRemains'
<1> DEFINE r == requests[d]
<1>1. CASE users' = users
  BY <1>1 DEF AccountsInv, AnAdminRemains
<1>2. CASE users' # users /\ r.change = "admin"
  <2>1. users'[r.id] = [Changed(r) EXCEPT !.version = r.read.version + 1]
        /\ r.id \in DOMAIN users' /\ r.read.live /\ r.read \in User
    BY <1>2 DEF UserEditOK, UserEdit
  <2>2. Changed(r) = [r.read EXCEPT !.admin = TRUE]
    BY <1>2 DEF Changed
  <2>3. users'[r.id].admin /\ users'[r.id].live
    BY <2>1, <2>2 DEF User
  <2>4. r.id \in LiveAdmins(users')
    BY <2>1, <2>3 DEF LiveAdmins, Admins
  <2>5. QED BY <2>4 DEF AnAdminRemains
<1>3. CASE users' # users /\ r.change # "admin"
  <2>1. r.others \ {r.id} # {}
    BY <1>3 DEF UserEditOK
  <2>2. CASE r.others \cap LiveAdmins(users) \subseteq {r.id}
    BY <2>1, <2>2 DEF AnAdminRemains
  <2>3. ASSUME NEW i \in LiveAdmins(users), i # r.id
        PROVE  AnAdminRemains'
    <3>1. i \in DOMAIN users' /\ users'[i] = users[i]
      BY <1>3, <2>3 DEF LiveAdmins, Admins
    <3>2. i \in LiveAdmins(users')
      BY <3>1, <2>3 DEF LiveAdmins, Admins
    <3>3. QED BY <3>2 DEF AnAdminRemains
  <2>4. QED BY <2>2, <2>3
<1>4. QED BY <1>1, <1>2, <1>3

LEMMA CommitUserSafe ==
  ASSUME AccountsInv, NEW d \in Desks, CommitUser(d)
  PROVE  AccountsInv'
<1> DEFINE r == requests[d]
           row == [Changed(r) EXCEPT !.version = r.read.version + 1]
<1>1. r \in UserEdit /\ UserEditOK(r) /\ users[r.id] \in User /\ r.step = "commit"
      /\ r.id \in DOMAIN users /\ r.read \in User
  BY DoingUserEdit DEF CommitUser, Doing, UserEditOK, UserEdit
<1>2. row \in User /\ row.version = r.read.version + 1
  <2>1. Changed(r) \in User
    BY <1>1 DEF Changed, User
  <2>2. QED BY <1>1, <2>1 DEF User
<1>3. /\ users' = Guarded(users, r.id, r.read, Changed(r)) \/ users' = users
      /\ requests' = [requests EXCEPT ![d] = Idle]
      /\ hadAdmin' = (hadAdmin \/ LiveAdmins(users') # {})
      /\ excused' = (excused \/ (r.others \ {r.id} # {}
                                 /\ r.others \cap LiveAdmins(users) \subseteq {r.id}))
      /\ UNCHANGED <<invites, sessions, asked, restarts, admitted, unconsumed>>
  BY DEF CommitUser
<1>4. \/ users' = users
      \/ /\ users' = [i \in DOMAIN users |-> IF i = r.id THEN row ELSE users[i]]
         /\ users[r.id].version = r.read.version
  <2>1. DOMAIN users \cup {r.id} = DOMAIN users
    BY <1>1
  <2>2. QED BY <1>3, <2>1 DEF Guarded, Put
<1>5. \/ users' = users
      \/ /\ DOMAIN users' = DOMAIN users /\ users'[r.id] = row
         /\ \A i \in DOMAIN users \ {r.id} : users'[i] = users[i]
         /\ users[r.id].version = r.read.version
  BY <1>1, <1>4
<1>6. AnAdminRemains'
  BY <1>1, <1>3, <1>5, CommitUserAdmins
<1>7. users' \in [DOMAIN users' -> User] /\ DOMAIN users' = DOMAIN users
  BY <1>1, <1>2, <1>4 DEF AccountsInv, AccountsTypeOK
<1>8. UsersAdvance(d)
  <2>1. Agrees(users[r.id], users'[r.id])
    BY <1>1, <1>2, <1>5 DEF Agrees, User
  <2>2. \A i \in DOMAIN users \ {r.id} : Agrees(users[i], users'[i])
    BY <1>5 DEF Agrees, User, AccountsInv, AccountsTypeOK
  <2>3. QED BY <1>7, <2>1, <2>2 DEF UsersAdvance
<1>9. requests' \in [Desks -> {Idle} \cup LogIn \cup InviteEdit \cup UserEdit]
      /\ requests'[d] = Idle /\ \A e \in Desks \ {d} : requests'[e] = requests[e]
  BY <1>3 DEF AccountsInv, AccountsTypeOK
<1>10. excused' \in BOOLEAN /\ hadAdmin' \in BOOLEAN
  BY <1>3 DEF AccountsInv, AccountsTypeOK
<1>11. AccountsTypeOK'
  BY <1>3, <1>7, <1>9, <1>10 DEF AccountsInv, AccountsTypeOK
<1>12. RequestOK(requests[d])' /\ requests'[d].op = "none"
  BY <1>9 DEF RequestOK, Idle
<1>13. InvitesAdvance /\ asked <= asked'
  BY <1>3 DEF InvitesAdvance, AccountsInv, AccountsTypeOK, Invite, Agrees
<1>14. (\A e \in Desks : RequestOK(requests[e]))' /\ IdsDiffer'
  BY <1>8, <1>9, <1>11, <1>12, <1>13, OtherRequests DEF InvitesAdvance
<1>15. Admissions'
  BY <1>3 DEF AccountsInv, Admissions, Admission
<1>16. QED BY <1>6, <1>11, <1>14, <1>15 DEF AccountsInv

-----------------------------------------------------------------------------
LEMMA RestartSafe ==
  ASSUME AccountsInv, RestartServer
  PROVE  AccountsInv'
<1>1. /\ sessions' = {LocalSession(users)}
      /\ requests' = [d \in Desks |-> Idle]
      /\ restarts' = restarts + 1
      /\ UNCHANGED <<users, invites, asked, admitted, unconsumed, hadAdmin, excused>>
  BY DEF RestartServer
<1>2. users[LocalUser] \in User
  BY DEF AccountsInv, AccountsTypeOK
<1>3. LocalSession(users) \in [user : Nat, admin : BOOLEAN]
  BY <1>2 DEF LocalSession, SessionOf, User, LocalUser
<1>4. AccountsTypeOK'
  BY <1>1, <1>3 DEF AccountsInv, AccountsTypeOK
<1>5. \A d \in Desks : requests'[d] = Idle
  BY <1>1
<1>6. (\A d \in Desks : RequestOK(requests[d]))' /\ IdsDiffer'
  BY <1>5 DEF RequestOK, IdsDiffer, Idle
<1>7. Admissions' /\ AnAdminRemains'
  BY <1>1 DEF AccountsInv, Admissions, Admission, AnAdminRemains
<1>8. QED BY <1>4, <1>6, <1>7 DEF AccountsInv

LEMMA AccountsInitSafe == AccountsInit => AccountsInv
<1> SUFFICES ASSUME AccountsInit PROVE AccountsInv
  OBVIOUS
<1>1. NewUser("local", TRUE) \in User /\ NoInvite \in Invite
  BY DEF NewUser, User, NoInvite, Invite
<1>2. /\ users = [id \in {LocalUser} |-> NewUser("local", TRUE)]
      /\ users \in [DOMAIN users -> User] /\ DOMAIN users = {LocalUser}
  BY <1>1 DEF AccountsInit
<1>3. LocalSession(users) \in [user : Nat, admin : BOOLEAN]
  BY <1>2 DEF LocalSession, SessionOf, User, LocalUser
<1>4. AccountsTypeOK
  <2>1. DOMAIN users \subseteq 0 .. asked
    BY <1>2 DEF AccountsInit, LocalUser
  <2>2. requests \in [Desks -> {Idle} \cup LogIn \cup InviteEdit \cup UserEdit]
    BY DEF AccountsInit
  <2>3. invites \in [Codes -> Invite] /\ admitted \in [Codes -> SUBSET Nat]
    BY <1>1 DEF AccountsInit
  <2>4. sessions \subseteq [user : Nat, admin : BOOLEAN]
    BY <1>3 DEF AccountsInit
  <2>5. QED BY <1>2, <2>1, <2>2, <2>3, <2>4 DEF AccountsInit, AccountsTypeOK
<1>5. \A d \in Desks : requests[d] = Idle
  BY DEF AccountsInit
<1>6. (\A d \in Desks : RequestOK(requests[d])) /\ IdsDiffer
  BY <1>5 DEF RequestOK, IdsDiffer, Idle
<1>7. Admissions /\ AnAdminRemains
  BY DEF AccountsInit, Admissions, Admission, AnAdminRemains, NoInvite
<1>8. QED BY <1>4, <1>6, <1>7 DEF AccountsInv

LEMMA RequestStepSafe ==
  ASSUME AccountsInv, NEW d \in Desks, RequestStep(d)
  PROVE  AccountsInv'
<1>1. CASE \E who \in People, code \in Codes \cup {NoCode} : AskToLogIn(d, who, code)
  BY <1>1, AskToLogInSafe
<1>2. CASE FindUser(d) \/ FindInvite(d) \/ CommitLogIn(d)
  BY <1>2, FindUserSafe, FindInviteSafe, CommitLogInSafe
<1>3. CASE \E c \in Codes : \/ \E admin \in BOOLEAN : AskToEditInvite(d, c, admin)
                            \/ AskToDeleteInvite(d, c)
  BY <1>3, AskToEditInviteSafe, AskToDeleteInviteSafe
<1>4. CASE CommitInvite(d)
  BY <1>4, CommitInviteSafe
<1>5. CASE \E id \in DOMAIN users, change \in {"admin", "plain", "delete"} :
             AskToChangeUser(d, id, change)
  BY <1>5, AskToChangeUserSafe
<1>6. CASE VerifyOthers(d) \/ ReadUser(d) \/ CommitUser(d)
  BY <1>6, VerifyOthersSafe, ReadUserSafe, CommitUserSafe
<1>7. QED BY <1>1, <1>2, <1>3, <1>4, <1>5, <1>6 DEF RequestStep

\* The invariant: types, what the reads of the requests under way are worth, who
\* came in by each invite, and that an administrator remains.
THEOREM AccountsCorrect == AccountsSpec => []AccountsInv
<1>1. AccountsInv /\ [AccountsNext]_accountsVars => AccountsInv'
  <2> SUFFICES ASSUME AccountsInv, [AccountsNext]_accountsVars PROVE AccountsInv'
    OBVIOUS
  <2>1. ASSUME NEW d \in Desks, RequestStep(d) PROVE AccountsInv'
    BY <2>1, RequestStepSafe
  <2>2. ASSUME NEW c \in Codes, NEW admin \in BOOLEAN, MakeInvite(c, admin)
        PROVE  AccountsInv'
    BY <2>2, MakeInviteSafe
  <2>3. CASE RestartServer
    BY <2>3, RestartSafe
  <2>4. CASE UNCHANGED accountsVars
    <3>1. UNCHANGED <<users, invites, sessions, requests, asked, restarts, admitted,
                      unconsumed, hadAdmin, excused>>
      BY <2>4 DEF accountsVars
    <3>2. AccountsTypeOK' /\ IdsDiffer' /\ Admissions' /\ AnAdminRemains'
      BY <3>1 DEF AccountsInv, AccountsTypeOK, IdsDiffer, Admissions, Admission, AnAdminRemains
    <3>3. (\A d \in Desks : RequestOK(requests[d]))'
      BY <3>1 DEF AccountsInv, RequestOK, LogInOK, InviteEditOK, UserEditOK
    <3>4. QED BY <3>2, <3>3 DEF AccountsInv
  <2>5. QED BY <2>1, <2>2, <2>3, <2>4 DEF AccountsNext
<1>2. QED BY <1>1, AccountsInitSafe, PTL DEF AccountsSpec

\* An invite lets one user in (User::authenticate), whatever other requests do to
\* it meanwhile, if the update that consumes it finds the version that was read.
THEOREM InviteCorrect == AccountsSpec => []InviteAdmitsOnce
<1>1. AccountsInv => InviteAdmitsOnce
  <2> SUFFICES ASSUME AccountsInv, NEW c \in Codes
               PROVE  c \in unconsumed \/ Cardinality(admitted[c]) <= 1
    BY DEF InviteAdmitsOnce
  <2>1. c \in unconsumed \/ admitted[c] = {} \/ admitted[c] = {invites[c].by}
    BY DEF AccountsInv, Admissions, Admission
  <2>2. Cardinality({}) = 0 /\ Cardinality({invites[c].by}) = 1
    BY FS_EmptySet, FS_Singleton
  <2>3. QED BY <2>1, <2>2
<1>2. QED BY <1>1, AccountsCorrect, PTL

\* Once there is an administrator there stays one (verify_other_admins_exist), but
\* where the other that was counted was none any more.
THEOREM AdminsCorrect == AccountsSpec => []AnAdminRemains
<1>1. AccountsInv => AnAdminRemains
  BY DEF AccountsInv
<1>2. QED BY <1>1, AccountsCorrect, PTL

-----------------------------------------------------------------------------
(***************************************************************************)
(* Theorems about the list of serial ports, for any files, long names and  *)
(* number of changes.                                                      *)
(*                                                                         *)
(* What a queue will do to the list is decided by the last that it holds   *)
(* about a port.  The invariant says so of each of them: of a directory's  *)
(* events (Awaited, Dropped), of the manager's mailbox (InHand), and of    *)
(* both with the broker in between (Coming).                               *)
(***************************************************************************)
FileNames == {g[2] : g \in Files}

Event == [kind : {"create", "delete", "self"}, file : FileNames \cup {"none"}]

Ports == {p \in Directories \X FileNames : p[2] \in NamesIn(p[1])}

Message == [add : Ports] \cup [port : Ports] \cup [directory : Directories]

DevicesTypeOK ==
  /\ present \in [Directories -> SUBSET FileNames]
  /\ \A d \in Directories : present[d] \subseteq NamesIn(d)
  /\ watchers \in [Directories -> {"off", "listing", "listed", "watching", "ended"}]
  /\ events \in [Directories -> Seq(Event)]
  /\ \A d \in Directories : \A i \in 1 .. Len(events[d]) :
       events[d][i].kind # "self" => events[d][i].file \in NamesIn(d)
  /\ broker \in Seq(Ports) /\ inbox \in Seq(Message) /\ devices \subseteq Ports

-----------------------------------------------------------------------------
\* The manager's mailbox: the last message about the port, if there is one, adds
\* it, or else the port is listed.
Removal(message, p) == message = [port |-> p] \/ message = [directory |-> p[1]]

Added(p) ==
  \E i \in 1 .. Len(inbox) : /\ inbox[i] = [add |-> p]
                             /\ \A j \in i + 1 .. Len(inbox) : ~Removal(inbox[j], p)

Kept(p) == p \in devices /\ \A j \in 1 .. Len(inbox) : ~Removal(inbox[j], p)

InHand(p) == Added(p) \/ Kept(p)

\* The port will be listed, if nothing else happens.
Coming(p) == p \in ToSet(broker) \/ InHand(p)

\* The events of a directory: a creation of the file with no deletion behind it.
Creates(event, f) == event.kind = "create" /\ event.file = f
Deletes(event, f) == event.kind = "delete" /\ event.file = f

Awaited(d, f) ==
  \E i \in 1 .. Len(events[d]) :
    /\ Creates(events[d][i], f)
    /\ \A j \in i + 1 .. Len(events[d]) : ~Deletes(events[d][j], f)

Dropped(d, f) == \E i \in 1 .. Len(events[d]) : Deletes(events[d][i], f)

Listed(d) == watchers[d] \in {"listed", "watching"}

\* The events that wait lead to the files as they are.
EventsOK(d, f) ==
  Watched(d) => IF f \in present[d] THEN Dropped(d, f) => Awaited(d, f)
                ELSE ~Awaited(d, f)

\* A file that is there will be listed.
MissedOK(d, f) ==
  Listed(d) /\ f \in present[d] /\ IsPort(d, f) => Awaited(d, f) \/ Coming(Port(d, f))

\* A port that will be listed is there, or its deletion waits to be read.
LeftOK(d, f) ==
  d \notin gaps /\ Port(d, f) \notin overtaken /\ Coming(Port(d, f)) =>
    Listed(d) /\ IsPort(d, f) /\ (f \in present[d] \/ Dropped(d, f))

PortOK(d, f) == EventsOK(d, f) /\ MissedOK(d, f) /\ LeftOK(d, f)

DevicesInv ==
  /\ DevicesTypeOK
  /\ \A d \in Directories : \A f \in NamesIn(d) : PortOK(d, f)

-----------------------------------------------------------------------------
(***************************************************************************)
(* The queues.                                                             *)
(***************************************************************************)
LEMMA MessagesDiffer ==
  ASSUME NEW p, NEW q
  PROVE  /\ ~Removal([add |-> q], p)
         /\ [add |-> q] = [add |-> p] <=> q = p
         /\ [port |-> q] = [port |-> p] <=> q = p
         /\ [port |-> q] # [add |-> p] /\ [directory |-> q] # [add |-> p]
         /\ [directory |-> q] = [directory |-> p] <=> q = p
         /\ [port |-> q] # [directory |-> p]
<1>1. /\ DOMAIN [add |-> q] = {"add"} /\ DOMAIN [port |-> q] = {"port"}
      /\ DOMAIN [directory |-> q] = {"directory"} /\ DOMAIN [add |-> p] = {"add"}
      /\ DOMAIN [port |-> p] = {"port"} /\ DOMAIN [directory |-> p] = {"directory"}
      /\ DOMAIN [directory |-> p[1]] = {"directory"}
  OBVIOUS
<1>2. /\ [add |-> q].add = q /\ [add |-> p].add = p /\ [port |-> q].port = q
      /\ [port |-> p].port = p /\ [directory |-> q].directory = q
      /\ [directory |-> p].directory = p
  OBVIOUS
<1>3. /\ [add |-> q] # [port |-> p] /\ [add |-> q] # [directory |-> p[1]]
      /\ [port |-> q] # [add |-> p] /\ [directory |-> q] # [add |-> p]
      /\ [port |-> q] # [directory |-> p]
  BY <1>1
<1>4. QED BY <1>2, <1>3 DEF Removal

\* What a message to the manager means.
LEMMA MailSent ==
  ASSUME DevicesTypeOK, NEW m \in Message, inbox' = Append(inbox, m), devices' = devices, NEW p
  PROVE  InHand(p)' <=> m = [add |-> p] \/ (InHand(p) /\ ~Removal(m, p))
<1>1. inbox \in Seq(Message)
  BY DEF DevicesTypeOK
<1>2. Len(inbox) \in Nat /\ Len(inbox') = Len(inbox) + 1 /\ inbox'[Len(inbox) + 1] = m
      /\ \A i \in 1 .. Len(inbox) : inbox'[i] = inbox[i]
  BY <1>1
<1>3. m = [add |-> p] => ~Removal(m, p)
  BY MessagesDiffer
<1>4. ASSUME m = [add |-> p]
      PROVE  InHand(p)'
  BY <1>2, <1>4 DEF InHand, Added
<1>5. ASSUME InHand(p), ~Removal(m, p)
      PROVE  InHand(p)'
  <2>1. CASE Added(p)
    <3>1. PICK i \in 1 .. Len(inbox) :
            inbox[i] = [add |-> p] /\ \A j \in i + 1 .. Len(inbox) : ~Removal(inbox[j], p)
      BY <2>1 DEF Added
    <3>2. i \in 1 .. Len(inbox') /\ inbox'[i] = [add |-> p]
      BY <1>2, <3>1
    <3>3. \A j \in i + 1 .. Len(inbox') : ~Removal(inbox'[j], p)
      <4>1. TAKE j \in i + 1 .. Len(inbox')
      <4>2. CASE j = Len(inbox) + 1
        BY <1>2, <1>5, <4>2
      <4>3. CASE j # Len(inbox) + 1
        <5>1. j \in 1 .. Len(inbox) /\ j \in i + 1 .. Len(inbox)
          BY <1>2, <3>1, <4>1, <4>3
        <5>2. QED BY <1>2, <3>1, <5>1
      <4>4. QED BY <4>2, <4>3
    <3>4. QED BY <3>2, <3>3 DEF InHand, Added
  <2>2. CASE Kept(p)
    <3>1. \A j \in 1 .. Len(inbox') : ~Removal(inbox'[j], p)
      <4>1. TAKE j \in 1 .. Len(inbox')
      <4>2. j = Len(inbox) + 1 \/ j \in 1 .. Len(inbox)
        BY <1>2
      <4>3. QED BY <1>2, <1>5, <2>2, <4>2 DEF Kept
    <3>2. QED BY <2>2, <3>1 DEF InHand, Kept
  <2>3. QED BY <1>5, <2>1, <2>2 DEF InHand
<1>6. ASSUME InHand(p)', m # [add |-> p]
      PROVE  InHand(p) /\ ~Removal(m, p)
  <2>1. CASE Added(p)'
    <3>1. PICK i \in 1 .. Len(inbox') :
            inbox'[i] = [add |-> p] /\ \A j \in i + 1 .. Len(inbox') : ~Removal(inbox'[j], p)
      BY <2>1 DEF Added
    <3>2. i \in 1 .. Len(inbox)
      BY <1>2, <1>6, <3>1
    <3>3. inbox[i] = [add |-> p] /\ ~Removal(m, p)
      BY <1>2, <3>1, <3>2
    <3>4. \A j \in i + 1 .. Len(inbox) : ~Removal(inbox[j], p)
      <4>1. TAKE j \in i + 1 .. Len(inbox)
      <4>2. j \in 1 .. Len(inbox) /\ j \in i + 1 .. Len(inbox')
        BY <1>2, <3>2
      <4>3. QED BY <1>2, <3>1, <4>2
    <3>5. QED BY <3>2, <3>3, <3>4 DEF InHand, Added
  <2>2. CASE Kept(p)'
    <3>1. p \in devices /\ \A j \in 1 .. Len(inbox') : ~Removal(inbox'[j], p)
      BY <2>2 DEF Kept
    <3>2. ~Removal(m, p)
      BY <1>2, <3>1
    <3>3. \A j \in 1 .. Len(inbox) : ~Removal(inbox[j], p)
      <4>1. TAKE j \in 1 .. Len(inbox)
      <4>2. j \in 1 .. Len(inbox')
        BY <1>2
      <4>3. QED BY <1>2, <3>1, <4>2
    <3>4. QED BY <3>1, <3>2, <3>3 DEF InHand, Kept
  <2>3. QED BY <1>6, <2>1, <2>2 DEF InHand
<1>7. QED BY <1>3, <1>4, <1>5, <1>6

\* What the manager does with a message is what it was going to do.
LEMMA MailRead ==
  ASSUME DevicesTypeOK, ManageDevice, NEW p
  PROVE  InHand(p)' <=> InHand(p)
<1> DEFINE m == Head(inbox)
<1>1. inbox \in Seq(Message) /\ inbox # << >> /\ inbox' = Tail(inbox)
  BY DEF DevicesTypeOK, ManageDevice
<1>2. /\ Len(inbox) \in Nat /\ Len(inbox) >= 1 /\ Len(inbox') = Len(inbox) - 1
      /\ m = inbox[1] /\ m \in Message
      /\ \A i \in 1 .. Len(inbox') : inbox'[i] = inbox[i + 1]
  BY <1>1
<1>3. /\ p \in devices' <=> m = [add |-> p] \/ (p \in devices /\ ~Removal(m, p))
      /\ m = [add |-> p] => ~Removal(m, p)
  <2>1. m = [add |-> p] => ~Removal(m, p)
    BY MessagesDiffer
  <2>2. devices' = CASE "add" \in DOMAIN m -> AddsDevice(m.add)
                     [] "port" \in DOMAIN m -> RemovesDevice(m.port)
                     [] OTHER -> RemovesDirectory(m.directory)
    BY DEF ManageDevice
  <2>3. CASE m \in [add : Ports]
    <3>1. PICK q : m = [add |-> q]
      BY <2>3
    <3>2. DOMAIN m = {"add"} /\ m.add = q
      BY <3>1
    <3>3. devices' = devices \cup {q}
      BY <2>2, <3>2 DEF AddsDevice
    <3>4. ~Removal(m, p) /\ (m = [add |-> p] <=> q = p)
      <4>1. ~Removal([add |-> q], p) /\ ([add |-> q] = [add |-> p] <=> q = p)
        BY MessagesDiffer
      <4>2. QED BY <3>1, <4>1
    <3>5. QED BY <2>1, <3>3, <3>4
  <2>4. CASE m \in [port : Ports]
    <3>1. PICK q : m = [port |-> q]
      BY <2>4
    <3>2. DOMAIN m = {"port"} /\ m.port = q
      BY <3>1
    <3>3. devices' = devices \ {q}
      BY <2>2, <3>2 DEF RemovesDevice
    <3>4. m # [add |-> p] /\ (Removal(m, p) <=> q = p)
      <4>1. /\ [port |-> q] # [add |-> p] /\ [port |-> q] # [directory |-> p[1]]
            /\ [port |-> q] = [port |-> p] <=> q = p
        BY MessagesDiffer
      <4>2. QED BY <3>1, <4>1 DEF Removal
    <3>5. QED BY <2>1, <3>3, <3>4
  <2>5. CASE m \in [directory : Directories]
    <3>1. PICK d : m = [directory |-> d]
      BY <2>5
    <3>2. DOMAIN m = {"directory"} /\ m.directory = d
      BY <3>1
    <3>3. devices' = {q \in devices : q[1] # d}
      BY <2>2, <3>2 DEF RemovesDirectory
    <3>4. m # [add |-> p] /\ (Removal(m, p) <=> p[1] = d)
      <4>1. /\ [directory |-> d] # [add |-> p] /\ [port |-> p] # [directory |-> d]
            /\ [directory |-> d] = [directory |-> p[1]] <=> p[1] = d
        BY MessagesDiffer
      <4>2. QED BY <3>1, <4>1 DEF Removal
    <3>5. QED BY <2>1, <3>3, <3>4
  <2>6. QED BY <1>2, <2>3, <2>4, <2>5 DEF Message
<1>4. ASSUME InHand(p)
      PROVE  InHand(p)'
  <2>1. CASE \E i \in 2 .. Len(inbox) :
               inbox[i] = [add |-> p] /\ \A j \in i + 1 .. Len(inbox) : ~Removal(inbox[j], p)
    <3>1. PICK i \in 2 .. Len(inbox) :
            inbox[i] = [add |-> p] /\ \A j \in i + 1 .. Len(inbox) : ~Removal(inbox[j], p)
      BY <2>1
    <3>2. i - 1 \in 1 .. Len(inbox') /\ inbox'[i - 1] = [add |-> p]
      BY <1>2, <3>1
    <3>3. \A j \in i - 1 + 1 .. Len(inbox') : ~Removal(inbox'[j], p)
      <4>1. TAKE j \in i - 1 + 1 .. Len(inbox')
      <4>2. j \in 1 .. Len(inbox') /\ j + 1 \in i + 1 .. Len(inbox)
        BY <1>2, <3>1, <4>1
      <4>3. QED BY <1>2, <3>1, <4>2
    <3>4. QED BY <3>2, <3>3 DEF InHand, Added
  <2>2. CASE ~ \E i \in 2 .. Len(inbox) :
               inbox[i] = [add |-> p] /\ \A j \in i + 1 .. Len(inbox) : ~Removal(inbox[j], p)
    <3>1. p \in devices' /\ \A j \in 2 .. Len(inbox) : ~Removal(inbox[j], p)
      <4>1. CASE Added(p)
        <5>1. inbox[1] = [add |-> p] /\ \A j \in 1 + 1 .. Len(inbox) : ~Removal(inbox[j], p)
          BY <1>2, <2>2, <4>1 DEF Added
        <5>2. QED BY <1>2, <1>3, <5>1
      <4>2. CASE Kept(p)
        BY <1>2, <1>3, <4>2 DEF Kept
      <4>3. QED BY <1>4, <4>1, <4>2 DEF InHand
    <3>2. \A j \in 1 .. Len(inbox') : ~Removal(inbox'[j], p)
      <4>1. TAKE j \in 1 .. Len(inbox')
      <4>2. j + 1 \in 2 .. Len(inbox)
        BY <1>2, <4>1
      <4>3. QED BY <1>2, <3>1, <4>1, <4>2
    <3>3. QED BY <3>1, <3>2 DEF InHand, Kept
  <2>3. QED BY <2>1, <2>2
<1>5. ASSUME InHand(p)'
      PROVE  InHand(p)
  <2>1. CASE Added(p)'
    <3>1. PICK i \in 1 .. Len(inbox') :
            inbox'[i] = [add |-> p] /\ \A j \in i + 1 .. Len(inbox') : ~Removal(inbox'[j], p)
      BY <2>1 DEF Added
    <3>2. i + 1 \in 1 .. Len(inbox) /\ inbox[i + 1] = [add |-> p]
      BY <1>2, <3>1
    <3>3. \A j \in i + 1 + 1 .. Len(inbox) : ~Removal(inbox[j], p)
      <4>1. TAKE j \in i + 1 + 1 .. Len(inbox)
      <4>2. j - 1 \in i + 1 .. Len(inbox') /\ inbox'[j - 1] = inbox[j]
        BY <1>2, <3>1, <4>1
      <4>3. QED BY <3>1, <4>2
    <3>4. QED BY <3>2, <3>3 DEF InHand, Added
  <2>2. CASE Kept(p)'
    <3>1. p \in devices' /\ \A j \in 1 .. Len(inbox') : ~Removal(inbox'[j], p)
      BY <2>2 DEF Kept
    <3>2. \A j \in 2 .. Len(inbox) : ~Removal(inbox[j], p)
      <4>1. TAKE j \in 2 .. Len(inbox)
      <4>2. j - 1 \in 1 .. Len(inbox') /\ inbox'[j - 1] = inbox[j]
        BY <1>2, <4>1
      <4>3. QED BY <3>1, <4>2
    <3>3. CASE m = [add |-> p]
      <4>1. 1 \in 1 .. Len(inbox) /\ inbox[1] = [add |-> p]
        BY <1>2, <3>3
      <4>2. \A j \in 1 + 1 .. Len(inbox) : ~Removal(inbox[j], p)
        BY <3>2
      <4>3. QED BY <4>1, <4>2 DEF InHand, Added
    <3>4. CASE m # [add |-> p]
      <4>1. p \in devices /\ ~Removal(inbox[1], p)
        BY <1>2, <1>3, <3>1, <3>4
      <4>2. \A j \in 1 .. Len(inbox) : ~Removal(inbox[j], p)
        <5>1. TAKE j \in 1 .. Len(inbox)
        <5>2. j = 1 \/ j \in 2 .. Len(inbox)
          BY <1>2, <5>1
        <5>3. QED BY <3>2, <4>1, <5>2
      <4>3. QED BY <4>1, <4>2 DEF InHand, Kept
    <3>5. QED BY <3>3, <3>4
  <2>3. QED BY <1>5, <2>1, <2>2 DEF InHand
<1>6. QED BY <1>4, <1>5

\* What an event adds to those that wait, and what is left when it has been read.
LEMMA EventSent ==
  ASSUME DevicesTypeOK, NEW d \in Directories, NEW e \in Event,
         events'[d] = Append(events[d], e), NEW f
  PROVE  /\ Awaited(d, f)' <=> Creates(e, f) \/ (Awaited(d, f) /\ ~Deletes(e, f))
         /\ Dropped(d, f)' <=> Dropped(d, f) \/ Deletes(e, f)
<1> DEFINE s == events[d]
           t == events'[d]
<1>1. s \in Seq(Event)
  BY DEF DevicesTypeOK
<1>2. Len(s) \in Nat /\ Len(t) = Len(s) + 1 /\ t[Len(s) + 1] = e
      /\ \A i \in 1 .. Len(s) : t[i] = s[i]
  BY <1>1
<1>3. Creates(e, f) => ~Deletes(e, f)
  BY DEF Creates, Deletes
<1>4. Dropped(d, f)' <=> Dropped(d, f) \/ Deletes(e, f)
  <2>1. ASSUME Dropped(d, f)
        PROVE  Dropped(d, f)'
    <3>1. PICK i \in 1 .. Len(s) : Deletes(s[i], f)
      BY <2>1 DEF Dropped
    <3>2. i \in 1 .. Len(t) /\ Deletes(t[i], f)
      BY <1>2, <3>1
    <3>3. QED BY <3>2 DEF Dropped
  <2>2. ASSUME Deletes(e, f)
        PROVE  Dropped(d, f)'
    <3>1. Len(s) + 1 \in 1 .. Len(t) /\ Deletes(t[Len(s) + 1], f)
      BY <1>2, <2>2
    <3>2. QED BY <3>1 DEF Dropped
  <2>3. ASSUME Dropped(d, f)', ~Deletes(e, f)
        PROVE  Dropped(d, f)
    <3>1. PICK i \in 1 .. Len(t) : Deletes(t[i], f)
      BY <2>3 DEF Dropped
    <3>2. i # Len(s) + 1
      BY <1>2, <2>3, <3>1
    <3>3. i \in 1 .. Len(s) /\ Deletes(s[i], f)
      BY <1>2, <3>1, <3>2
    <3>4. QED BY <3>3 DEF Dropped
  <2>4. QED BY <2>1, <2>2, <2>3
<1>5. ASSUME Creates(e, f)
      PROVE  Awaited(d, f)'
  <2>1. Len(s) + 1 \in 1 .. Len(t) /\ Creates(t[Len(s) + 1], f)
        /\ Len(s) + 1 + 1 .. Len(t) = {}
    BY <1>2, <1>5
  <2>2. QED BY <2>1 DEF Awaited
<1>6. ASSUME Awaited(d, f), ~Deletes(e, f)
      PROVE  Awaited(d, f)'
  <2>1. PICK i \in 1 .. Len(s) :
          Creates(s[i], f) /\ \A j \in i + 1 .. Len(s) : ~Deletes(s[j], f)
    BY <1>6 DEF Awaited
  <2>2. i \in 1 .. Len(t) /\ Creates(t[i], f)
    BY <1>2, <2>1
  <2>3. \A j \in i + 1 .. Len(t) : ~Deletes(t[j], f)
    <3>1. TAKE j \in i + 1 .. Len(t)
    <3>2. j = Len(s) + 1 \/ (j \in 1 .. Len(s) /\ j \in i + 1 .. Len(s))
      BY <1>2, <2>1, <3>1
    <3>3. QED BY <1>2, <1>6, <2>1, <3>2
  <2>4. QED BY <2>2, <2>3 DEF Awaited
<1>7. ASSUME Awaited(d, f)', ~Creates(e, f)
      PROVE  Awaited(d, f) /\ ~Deletes(e, f)
  <2>1. PICK i \in 1 .. Len(t) :
          Creates(t[i], f) /\ \A j \in i + 1 .. Len(t) : ~Deletes(t[j], f)
    BY <1>7 DEF Awaited
  <2>2. i \in 1 .. Len(s)
    <3>1. i # Len(s) + 1
      BY <1>2, <1>7, <2>1
    <3>2. QED BY <1>2, <2>1, <3>1
  <2>3. Creates(s[i], f) /\ ~Deletes(e, f)
    <3>1. Len(s) + 1 \in i + 1 .. Len(t)
      BY <1>2, <2>2
    <3>2. QED BY <1>2, <2>1, <2>2, <3>1
  <2>4. \A j \in i + 1 .. Len(s) : ~Deletes(s[j], f)
    <3>1. TAKE j \in i + 1 .. Len(s)
    <3>2. j \in 1 .. Len(s) /\ j \in i + 1 .. Len(t)
      BY <1>2, <2>2, <3>1
    <3>3. QED BY <1>2, <2>1, <3>2
  <2>5. QED BY <2>2, <2>3, <2>4 DEF Awaited
<1>8. QED BY <1>3, <1>4, <1>5, <1>6, <1>7

LEMMA EventRead ==
  ASSUME DevicesTypeOK, NEW d \in Directories, events[d] # << >>,
         events'[d] = Tail(events[d]), NEW f
  PROVE  /\ Head(events[d]) \in Event
         /\ Awaited(d, f) <=>
              Awaited(d, f)' \/ (Creates(Head(events[d]), f) /\ ~Dropped(d, f)')
         /\ Dropped(d, f) <=> Dropped(d, f)' \/ Deletes(Head(events[d]), f)
<1> DEFINE s == events[d]
           t == events'[d]
           e == Head(events[d])
<1>1. s \in Seq(Event) /\ s # << >>
  BY DEF DevicesTypeOK
<1>2. /\ Len(s) \in Nat /\ Len(s) >= 1 /\ Len(t) = Len(s) - 1 /\ e = s[1] /\ e \in Event
      /\ \A i \in 1 .. Len(t) : t[i] = s[i + 1]
  BY <1>1
<1>3. Dropped(d, f) <=> Dropped(d, f)' \/ Deletes(e, f)
  <2>1. ASSUME Dropped(d, f)'
        PROVE  Dropped(d, f)
    <3>1. PICK i \in 1 .. Len(t) : Deletes(t[i], f)
      BY <2>1 DEF Dropped
    <3>2. i + 1 \in 1 .. Len(s) /\ Deletes(s[i + 1], f)
      BY <1>2, <3>1
    <3>3. QED BY <3>2 DEF Dropped
  <2>2. ASSUME Deletes(e, f)
        PROVE  Dropped(d, f)
    <3>1. 1 \in 1 .. Len(s) /\ Deletes(s[1], f)
      BY <1>2, <2>2
    <3>2. QED BY <3>1 DEF Dropped
  <2>3. ASSUME Dropped(d, f), ~Deletes(e, f)
        PROVE  Dropped(d, f)'
    <3>1. PICK i \in 1 .. Len(s) : Deletes(s[i], f)
      BY <2>3 DEF Dropped
    <3>2. i - 1 \in 1 .. Len(t) /\ t[i - 1] = s[i]
      BY <1>2, <2>3, <3>1
    <3>3. QED BY <3>1, <3>2 DEF Dropped
  <2>4. QED BY <2>1, <2>2, <2>3
<1>4. ASSUME Awaited(d, f)'
      PROVE  Awaited(d, f)
  <2>1. PICK i \in 1 .. Len(t) :
          Creates(t[i], f) /\ \A j \in i + 1 .. Len(t) : ~Deletes(t[j], f)
    BY <1>4 DEF Awaited
  <2>2. i + 1 \in 1 .. Len(s) /\ Creates(s[i + 1], f)
    BY <1>2, <2>1
  <2>3. \A j \in i + 1 + 1 .. Len(s) : ~Deletes(s[j], f)
    <3>1. TAKE j \in i + 1 + 1 .. Len(s)
    <3>2. j - 1 \in i + 1 .. Len(t) /\ t[j - 1] = s[j]
      BY <1>2, <2>1, <3>1
    <3>3. QED BY <2>1, <3>2
  <2>4. QED BY <2>2, <2>3 DEF Awaited
<1>5. ASSUME Creates(e, f), ~Dropped(d, f)'
      PROVE  Awaited(d, f)
  <2>1. 1 \in 1 .. Len(s) /\ Creates(s[1], f)
    BY <1>2, <1>5
  <2>2. \A j \in 1 + 1 .. Len(s) : ~Deletes(s[j], f)
    <3>1. TAKE j \in 1 + 1 .. Len(s)
    <3>2. j - 1 \in 1 .. Len(t) /\ t[j - 1] = s[j]
      BY <1>2, <3>1
    <3>3. QED BY <1>5, <3>2 DEF Dropped
  <2>3. QED BY <2>1, <2>2 DEF Awaited
<1>6. ASSUME Awaited(d, f), ~Awaited(d, f)'
      PROVE  Creates(e, f) /\ ~Dropped(d, f)'
  <2>1. PICK i \in 1 .. Len(s) :
          Creates(s[i], f) /\ \A j \in i + 1 .. Len(s) : ~Deletes(s[j], f)
    BY <1>6 DEF Awaited
  <2>2. i = 1
    <3>1. SUFFICES ASSUME i # 1
                   PROVE  FALSE
      OBVIOUS
    <3>2. i - 1 \in 1 .. Len(t) /\ Creates(t[i - 1], f)
      BY <1>2, <2>1, <3>1
    <3>3. \A j \in i - 1 + 1 .. Len(t) : ~Deletes(t[j], f)
      <4>1. TAKE j \in i - 1 + 1 .. Len(t)
      <4>2. j + 1 \in i + 1 .. Len(s) /\ t[j] = s[j + 1]
        BY <1>2, <2>1, <3>1, <4>1
      <4>3. QED BY <2>1, <4>2
    <3>4. QED BY <1>6, <3>2, <3>3 DEF Awaited
  <2>3. ~Dropped(d, f)'
    <3>1. SUFFICES ASSUME NEW j \in 1 .. Len(t)
                   PROVE  ~Deletes(t[j], f)
      BY DEF Dropped
    <3>2. j + 1 \in i + 1 .. Len(s) /\ t[j] = s[j + 1]
      BY <1>2, <2>2, <3>1
    <3>3. QED BY <2>1, <3>2
  <2>4. QED BY <1>2, <2>1, <2>2, <2>3
<1>7. QED BY <1>2, <1>3, <1>4, <1>5, <1>6

LEMMA NoEvents ==
  ASSUME NEW d, NEW f, events[d] = << >>
  PROVE  ~Awaited(d, f) /\ ~Dropped(d, f)
<1>1. 1 .. Len(events[d]) = {}
  OBVIOUS
<1>2. QED BY <1>1 DEF Awaited, Dropped

\* Additions are handed on in some order, and none is lost.
LEMMA Ordered ==
  ASSUME NEW S, IsFiniteSet(S)
  PROVE  SetToSeq(S) \in Seq(S) /\ ToSet(SetToSeq(S)) = S
<1> DEFINE n == Cardinality(S)
           s == SetToSeq(S)
<1>1. n \in Nat /\ ExistsBijection(1 .. n, S)
  BY FS_CardinalityType
<1>2. \E b \in [1 .. n -> S] : IsInjective(b)
  BY <1>1 DEF ExistsBijection, Bijection, Injection, IsInjective
<1>3. s \in [1 .. n -> S] /\ IsInjective(s)
  BY <1>2 DEF SetToSeq
<1>4. s \in Injection(1 .. n, S)
  BY <1>3 DEF Injection
<1>5. IsFiniteSet(1 .. n) /\ Cardinality(1 .. n) = n
  BY <1>1, FS_Interval
<1>6. s \in Surjection(1 .. n, S)
  BY <1>4, <1>5, FS_Injection
<1>7. \A x \in S : \E i \in 1 .. n : s[i] = x
  BY <1>6 DEF Surjection
<1>8. DOMAIN s = 1 .. n /\ ToSet(s) = S
  BY <1>3, <1>7 DEF ToSet
<1>9. s \in Seq(S)
  BY <1>1, <1>3
<1>10. QED BY <1>8, <1>9

LEMMA Sets ==
  ASSUME NEW S, NEW s \in Seq(S), NEW t \in Seq(S)
  PROVE  /\ ToSet(s) \subseteq S
         /\ \A x \in S : ToSet(Append(s, x)) = ToSet(s) \cup {x}
         /\ ToSet(s \o t) = ToSet(s) \cup ToSet(t)
         /\ s # << >> => /\ Head(s) \in S /\ Tail(s) \in Seq(S)
                         /\ ToSet(s) = ToSet(Tail(s)) \cup {Head(s)}
<1>1. ToSet(s) \subseteq S /\ DOMAIN s = 1 .. Len(s) /\ DOMAIN t = 1 .. Len(t)
      /\ Len(s) \in Nat /\ Len(t) \in Nat
  BY DEF ToSet
<1>2. ASSUME NEW x \in S
      PROVE  ToSet(Append(s, x)) = ToSet(s) \cup {x}
  <2> DEFINE r == Append(s, x)
  <2>1. DOMAIN r = 1 .. Len(s) + 1 /\ r[Len(s) + 1] = x
        /\ \A i \in 1 .. Len(s) : r[i] = s[i]
    OBVIOUS
  <2>2. \A i \in 1 .. Len(s) + 1 : i \in 1 .. Len(s) \/ i = Len(s) + 1
    BY <1>1
  <2>3. \A i \in 1 .. Len(s) : i \in 1 .. Len(s) + 1
    BY <1>1
  <2>4. Len(s) + 1 \in 1 .. Len(s) + 1
    BY <1>1
  <2>5. QED BY <1>1, <2>1, <2>2, <2>3, <2>4 DEF ToSet
<1>3. ToSet(s \o t) = ToSet(s) \cup ToSet(t)
  <2> DEFINE r == s \o t
  <2>1. /\ DOMAIN r = 1 .. Len(s) + Len(t)
        /\ \A i \in 1 .. Len(s) : r[i] = s[i]
        /\ \A i \in 1 .. Len(t) : r[Len(s) + i] = t[i]
    BY <1>1
  <2>2. \A i \in 1 .. Len(s) + Len(t) :
          i \in 1 .. Len(s) \/ (i - Len(s) \in 1 .. Len(t) /\ i = Len(s) + (i - Len(s)))
    BY <1>1
  <2>3. /\ \A i \in 1 .. Len(s) : i \in 1 .. Len(s) + Len(t)
        /\ \A i \in 1 .. Len(t) : Len(s) + i \in 1 .. Len(s) + Len(t)
    BY <1>1
  <2>4. ToSet(r) \subseteq ToSet(s) \cup ToSet(t)
    <3>1. SUFFICES ASSUME NEW i \in 1 .. Len(s) + Len(t)
                   PROVE  r[i] \in ToSet(s) \cup ToSet(t)
      BY <2>1 DEF ToSet
    <3>2. CASE i \in 1 .. Len(s)
      BY <1>1, <2>1, <3>2 DEF ToSet
    <3>3. CASE i - Len(s) \in 1 .. Len(t) /\ i = Len(s) + (i - Len(s))
      BY <1>1, <2>1, <3>3 DEF ToSet
    <3>4. QED BY <2>2, <3>2, <3>3
  <2>5. ToSet(s) \subseteq ToSet(r)
    BY <1>1, <2>1, <2>3 DEF ToSet
  <2>6. ToSet(t) \subseteq ToSet(r)
    <3>1. SUFFICES ASSUME NEW i \in 1 .. Len(t)
                   PROVE  t[i] \in ToSet(r)
      BY <1>1 DEF ToSet
    <3>2. QED BY <2>1, <2>3 DEF ToSet
  <2>7. QED BY <2>4, <2>5, <2>6
<1>4. ASSUME s # << >>
      PROVE  /\ Head(s) \in S /\ Tail(s) \in Seq(S)
             /\ ToSet(s) = ToSet(Tail(s)) \cup {Head(s)}
  <2> DEFINE r == Tail(s)
  <2>1. /\ Head(s) \in S /\ r \in Seq(S) /\ Head(s) = s[1] /\ Len(s) >= 1
        /\ DOMAIN r = 1 .. Len(s) - 1 /\ \A i \in 1 .. Len(s) - 1 : r[i] = s[i + 1]
    BY <1>4
  <2>2. /\ \A i \in 1 .. Len(s) : i = 1 \/ (i - 1 \in 1 .. Len(s) - 1 /\ i - 1 + 1 = i)
        /\ \A i \in 1 .. Len(s) - 1 : i + 1 \in 1 .. Len(s)
        /\ 1 \in 1 .. Len(s)
    BY <1>1, <2>1
  <2>3. ToSet(s) \subseteq ToSet(r) \cup {s[1]}
    <3>1. SUFFICES ASSUME NEW i \in 1 .. Len(s)
                   PROVE  s[i] \in ToSet(r) \cup {s[1]}
      BY <1>1 DEF ToSet
    <3>2. CASE i - 1 \in 1 .. Len(s) - 1 /\ i - 1 + 1 = i
      BY <2>1, <3>2 DEF ToSet
    <3>3. QED BY <2>2, <3>2
  <2>4. ToSet(r) \subseteq ToSet(s)
    <3>1. SUFFICES ASSUME NEW i \in 1 .. Len(s) - 1
                   PROVE  r[i] \in ToSet(s)
      BY <2>1 DEF ToSet
    <3>2. QED BY <1>1, <2>1, <2>2 DEF ToSet
  <2>5. s[1] \in ToSet(s)
    BY <1>1, <2>2 DEF ToSet
  <2>6. QED BY <2>1, <2>3, <2>4, <2>5
<1>5. QED BY <1>1, <1>2, <1>3, <1>4

LEMMA PortsFinite ==
  ASSUME DevicesTypeOK, NEW d \in Directories
  PROVE  IsFiniteSet(PortsIn(d)) /\ PortsIn(d) \subseteq Ports
<1> DEFINE names == {f \in present[d] : IsPort(d, f)}
<1>1. IsFiniteSet(FileNames)
  <2> DEFINE second == [g \in Files |-> g[2]]
  <2>1. second \in Surjection(Files, FileNames)
    BY DEF Surjection, FileNames
  <2>2. QED BY <2>1, FS_Surjection, DevicesAssumption
<1>2. names \in SUBSET FileNames /\ names \subseteq NamesIn(d)
  BY DEF DevicesTypeOK
<1>3. IsFiniteSet(names)
  BY <1>1, <1>2, FS_Subset
<1>4. PortsIn(d) = {Port(d, f) : f \in names}
  BY DEF PortsIn
<1>5. IsFiniteSet(PortsIn(d))
  <2> DEFINE port == [f \in names |-> Port(d, f)]
  <2>1. port \in Surjection(names, PortsIn(d))
    BY <1>4 DEF Surjection
  <2>2. QED BY <1>3, <2>1, FS_Surjection
<1>6. PortsIn(d) \subseteq Ports
  <2>1. SUFFICES ASSUME NEW f \in names
                 PROVE  Port(d, f) \in Ports
    BY <1>4
  <2>2. QED BY <1>2 DEF Ports, Port
<1>7. QED BY <1>5, <1>6

LEMMA PortFacts ==
  ASSUME NEW d \in Directories, NEW f \in NamesIn(d)
  PROVE  /\ f \in FileNames /\ Port(d, f) \in Ports /\ Port(d, f)[1] = d
         /\ \A e, g : Port(e, g) = Port(d, f) <=> e = d /\ g = f
<1>1. f \in FileNames
  BY DEF NamesIn, FileNames
<1>2. QED BY <1>1 DEF Port, Ports

LEMMA SameEvents ==
  ASSUME NEW d, NEW f, events'[d] = events[d]
  PROVE  (Awaited(d, f)' <=> Awaited(d, f)) /\ (Dropped(d, f)' <=> Dropped(d, f))
BY DEF Awaited, Dropped

LEMMA SameMail ==
  ASSUME NEW p, UNCHANGED <<inbox, devices>>
  PROVE  InHand(p)' <=> InHand(p)
BY DEF InHand, Added, Kept

-----------------------------------------------------------------------------
(***************************************************************************)
(* Types.                                                                  *)
(***************************************************************************)
EventsTyped(es) ==
  /\ es \in [Directories -> Seq(Event)]
  /\ \A d \in Directories : \A i \in 1 .. Len(es[d]) :
       es[d][i].kind # "self" => es[d][i].file \in NamesIn(d)

LEMMA NotifyTyped ==
  ASSUME EventsTyped(events), NEW d \in Directories, NEW kind \in {"create", "delete", "self"},
         NEW f, f \in NamesIn(d) \/ (kind = "self" /\ f = "none")
  PROVE  EventsTyped(Notify(d, kind, f))
<1> DEFINE e == [kind |-> kind, file |-> f]
           es == Notify(d, kind, f)
<1>1. e \in Event
  BY DEF Event, NamesIn, FileNames
<1>2. events \in [Directories -> Seq(Event)]
  BY DEF EventsTyped
<1>3. es \in [Directories -> Seq(Event)]
  BY <1>1, <1>2 DEF Notify
<1>4. ASSUME NEW c \in Directories, NEW i \in 1 .. Len(es[c]), es[c][i].kind # "self"
      PROVE  es[c][i].file \in NamesIn(c)
  <2>1. CASE es[c] = events[c]
    BY <1>4, <2>1 DEF EventsTyped
  <2>2. CASE c = d /\ es[c] = Append(events[d], e)
    <3>1. /\ events[d] \in Seq(Event) /\ Len(events[d]) \in Nat
          /\ i = Len(events[d]) + 1 \/ i \in 1 .. Len(events[d])
          /\ es[c][Len(events[d]) + 1] = e
          /\ \A j \in 1 .. Len(events[d]) : es[c][j] = events[d][j]
      BY <1>1, <1>2, <2>2
    <3>2. CASE i = Len(events[d]) + 1
      BY <1>4, <2>2, <3>1, <3>2
    <3>3. CASE i \in 1 .. Len(events[d])
      BY <1>4, <2>2, <3>1, <3>3 DEF EventsTyped
    <3>4. QED BY <3>1, <3>2, <3>3
  <2>3. QED BY <1>2, <2>1, <2>2 DEF Notify
<1>5. QED BY <1>3, <1>4 DEF EventsTyped

LEMMA EventsEmptied ==
  ASSUME EventsTyped(events), events' \in [Directories -> Seq(Event)],
         \A d \in Directories : events'[d] \in {events[d], << >>}
  PROVE  EventsTyped(events')
<1>1. \A d \in Directories : events'[d] = << >> => 1 .. Len(events'[d]) = {}
  OBVIOUS
<1>2. QED BY <1>1 DEF EventsTyped

LEMMA TypeStep ==
  ASSUME DevicesTypeOK, DevicesNext
  PROVE  DevicesTypeOK'
<1>1. EventsTyped(events)
  BY DEF DevicesTypeOK, EventsTyped
<1>2. ASSUME NEW d \in Directories, NEW f \in NamesIn(d), CreatePort(d, f)
      PROVE  DevicesTypeOK'
  <2>1. EventsTyped(events')
    BY <1>1, <1>2, NotifyTyped DEF CreatePort
  <2>2. QED BY <1>2, <2>1, PortFacts DEF CreatePort, DevicesTypeOK, EventsTyped
<1>3. ASSUME NEW d \in Directories, NEW f \in NamesIn(d), DeletePort(d, f)
      PROVE  DevicesTypeOK'
  <2>1. EventsTyped(events')
    BY <1>1, <1>3, NotifyTyped DEF DeletePort
  <2>2. QED BY <1>3, <2>1 DEF DeletePort, DevicesTypeOK, EventsTyped
<1>4. ASSUME NEW d \in Directories, MakeDirectory(d)
      PROVE  DevicesTypeOK'
  BY <1>4 DEF MakeDirectory, DevicesTypeOK
<1>5. ASSUME NEW d \in Directories, DeleteDirectory(d)
      PROVE  DevicesTypeOK'
  <2>1. EventsTyped(events')
    BY <1>1, <1>5, NotifyTyped DEF DeleteDirectory
  <2>2. QED BY <1>5, <2>1 DEF DeleteDirectory, DevicesTypeOK, EventsTyped
<1>6. ASSUME NEW d \in Directories, ListDirectory(d)
      PROVE  DevicesTypeOK'
  <2>1. UNCHANGED <<present, events, inbox, devices>>
    BY <1>6 DEF ListDirectory
  <2>2. watchers' \in [Directories -> {"off", "listing", "listed", "watching", "ended"}]
    BY <1>6 DEF ListDirectory, DevicesTypeOK
  <2>3. broker' \in Seq(Ports)
    <3>1. SetToSeq(PortsIn(d)) \in Seq(Ports)
      <4>1. SetToSeq(PortsIn(d)) \in Seq(PortsIn(d)) /\ PortsIn(d) \subseteq Ports
        BY PortsFinite, Ordered
      <4>2. QED BY <4>1
    <3>2. broker \in Seq(Ports)
      BY DEF DevicesTypeOK
    <3>3. broker \o SetToSeq(PortsIn(d)) \in Seq(Ports)
      BY <3>1, <3>2
    <3>4. broker' \in {broker, broker \o SetToSeq(PortsIn(d))}
      BY <1>6 DEF ListDirectory
    <3>5. QED BY <3>2, <3>3, <3>4
  <2>4. QED BY <2>1, <2>2, <2>3 DEF DevicesTypeOK
<1>7. ASSUME NEW d \in Directories, FinishListing(d)
      PROVE  DevicesTypeOK'
  BY <1>7 DEF FinishListing, DevicesTypeOK
<1>8. ASSUME NEW d \in Directories, ReadEvent(d)
      PROVE  DevicesTypeOK'
  <2> DEFINE event == Head(events[d])
             port == Port(d, event.file)
  <2>1. /\ events \in [Directories -> Seq(Event)] /\ broker \in Seq(Ports)
        /\ inbox \in Seq(Message) /\ events[d] # << >> /\ events[d] \in Seq(Event)
    BY <1>8 DEF ReadEvent, DevicesTypeOK
  <2>2. /\ event \in Event /\ event = events[d][1] /\ 1 \in 1 .. Len(events[d])
        /\ event.kind # "self" => event.file \in NamesIn(d)
    <3>1. event \in Event /\ event = events[d][1] /\ 1 \in 1 .. Len(events[d])
      BY <2>1
    <3>2. QED BY <3>1 DEF DevicesTypeOK
  <2>3. event.kind # "self" => port \in Ports
    BY <2>2, PortFacts
  <2>4. UNCHANGED <<present, devices>>
    BY <1>8 DEF ReadEvent
  <2>5. CASE event.kind = "self" \/ Unreadable(event)
    <3>1. /\ watchers' = [watchers EXCEPT ![d] = "ended"]
          /\ events' = [events EXCEPT ![d] = << >>]
          /\ inbox' = Append(inbox, [directory |-> d])
          /\ UNCHANGED broker
      BY <1>8, <2>5 DEF ReadEvent, SendRemoval
    <3>2. [directory |-> d] \in Message
      BY DEF Message
    <3>3. inbox' \in Seq(Message)
      BY <2>1, <3>1, <3>2
    <3>4. EventsTyped(events')
      BY <1>1, <2>1, <3>1, EventsEmptied
    <3>5. QED BY <2>4, <3>1, <3>3, <3>4 DEF DevicesTypeOK, EventsTyped
  <2>6. CASE ~(event.kind = "self" \/ Unreadable(event))
    <3>1. /\ events' = [events EXCEPT ![d] = Tail(@)]
          /\ broker' = IF event.kind = "create" THEN Append(broker, port) ELSE broker
          /\ inbox' = Append(inbox, [port |-> port]) \/ UNCHANGED inbox
          /\ UNCHANGED watchers
      BY <1>8, <2>6 DEF ReadEvent, SendRemoval
    <3>2. port \in Ports /\ [port |-> port] \in Message
      BY <2>3, <2>6 DEF Message
    <3>3. inbox' \in Seq(Message)
      <4>1. Append(inbox, [port |-> port]) \in Seq(Message)
        BY <2>1, <3>2
      <4>2. QED BY <2>1, <3>1, <4>1
    <3>4. broker' \in Seq(Ports)
      BY <2>1, <3>1, <3>2
    <3>5. EventsTyped(events')
      <4>1. /\ events' \in [Directories -> Seq(Event)]
            /\ \A c \in Directories : events'[c] = IF c = d THEN Tail(events[d]) ELSE events[c]
        BY <2>1, <3>1
      <4>2. /\ Len(Tail(events[d])) = Len(events[d]) - 1 /\ Len(events[d]) \in Nat
            /\ \A i \in 1 .. Len(Tail(events[d])) : Tail(events[d])[i] = events[d][i + 1]
        BY <2>1
      <4>3. \A i \in 1 .. Len(Tail(events[d])) : i + 1 \in 1 .. Len(events[d])
        BY <4>2
      <4>4. ASSUME NEW c \in Directories, NEW i \in 1 .. Len(events'[c]),
                   events'[c][i].kind # "self"
            PROVE  events'[c][i].file \in NamesIn(c)
        <5>1. CASE c = d
          <6>1. events'[c][i] = events[d][i + 1] /\ i + 1 \in 1 .. Len(events[d])
            BY <4>1, <4>2, <4>3, <4>4, <5>1
          <6>2. QED BY <1>1, <4>4, <5>1, <6>1 DEF EventsTyped
        <5>2. CASE c # d
          BY <1>1, <4>1, <4>4, <5>2 DEF EventsTyped
        <5>3. QED BY <5>1, <5>2
      <4>5. QED BY <4>1, <4>4 DEF EventsTyped
    <3>6. QED BY <2>4, <3>1, <3>3, <3>4, <3>5 DEF DevicesTypeOK, EventsTyped
  <2>7. QED BY <2>5, <2>6
<1>9. ASSUME WatchSerial \/ WatchKlipper
      PROVE  DevicesTypeOK'
  <2>1. PICK S \in {Serial, {"tmp"}} : AddWatches(S)
    BY <1>9 DEF WatchSerial, WatchKlipper
  <2>2. /\ watchers' \in [Directories -> {"off", "listing", "listed", "watching", "ended"}]
        /\ events' \in [Directories -> Seq(Event)]
        /\ \A d \in Directories : events'[d] \in {events[d], << >>}
    BY <2>1 DEF AddWatches, DevicesTypeOK
  <2>3. EventsTyped(events')
    BY <1>1, <2>2, EventsEmptied
  <2>4. QED BY <1>9, <2>2, <2>3 DEF WatchSerial, WatchKlipper, DevicesTypeOK, EventsTyped
<1>10. ASSUME Publish
       PROVE  DevicesTypeOK'
  <2>1. broker \in Seq(Ports) /\ broker # << >> /\ inbox \in Seq(Message)
    BY <1>10 DEF Publish, DevicesTypeOK
  <2>2. Tail(broker) \in Seq(Ports) /\ [add |-> Head(broker)] \in Message
    <3>1. Tail(broker) \in Seq(Ports) /\ Head(broker) \in Ports
      BY <2>1
    <3>2. QED BY <3>1 DEF Message
  <2>3. Append(inbox, [add |-> Head(broker)]) \in Seq(Message)
    BY <2>1, <2>2
  <2>4. QED BY <1>10, <2>2, <2>3 DEF Publish, DevicesTypeOK
<1>11. ASSUME ManageDevice
       PROVE  DevicesTypeOK'
  <2> DEFINE m == Head(inbox)
  <2>1. inbox \in Seq(Message) /\ inbox # << >> /\ inbox' = Tail(inbox)
    BY <1>11 DEF ManageDevice, DevicesTypeOK
  <2>2. Tail(inbox) \in Seq(Message) /\ m \in Message
    BY <2>1
  <2>3. devices' = CASE "add" \in DOMAIN m -> AddsDevice(m.add)
                     [] "port" \in DOMAIN m -> RemovesDevice(m.port)
                     [] OTHER -> RemovesDirectory(m.directory)
    BY <1>11 DEF ManageDevice
  <2>4. devices' \subseteq Ports
    <3>1. CASE m \in [add : Ports]
      <4>1. DOMAIN m = {"add"} /\ m.add \in Ports
        BY <3>1
      <4>2. QED BY <2>3, <4>1 DEF AddsDevice, DevicesTypeOK
    <3>2. CASE m \in [port : Ports]
      <4>1. DOMAIN m = {"port"}
        BY <3>2
      <4>2. QED BY <2>3, <4>1 DEF RemovesDevice, DevicesTypeOK
    <3>3. CASE m \in [directory : Directories]
      <4>1. DOMAIN m = {"directory"}
        BY <3>3
      <4>2. QED BY <2>3, <4>1 DEF RemovesDirectory, DevicesTypeOK
    <3>4. QED BY <2>2, <3>1, <3>2, <3>3 DEF Message
  <2>5. QED BY <1>11, <2>1, <2>2, <2>4 DEF ManageDevice, DevicesTypeOK
<1>12. QED
  BY <1>2, <1>3, <1>4, <1>5, <1>6, <1>7, <1>8, <1>9, <1>10, <1>11
     DEF DevicesNext, DirectoryStep

-----------------------------------------------------------------------------
(***************************************************************************)
(* The steps.                                                              *)
(***************************************************************************)
LEMMA Untouched ==
  ASSUME NEW d, NEW f, PortOK(d, f),
         f \in present'[d] <=> f \in present[d],
         Awaited(d, f)' <=> Awaited(d, f), Dropped(d, f)' <=> Dropped(d, f),
         Coming(Port(d, f))' <=> Coming(Port(d, f)),
         Watched(d)' <=> Watched(d), Listed(d)' <=> Listed(d),
         gaps \subseteq gaps', overtaken \subseteq overtaken'
  PROVE  PortOK(d, f)'
<1>1. EventsOK(d, f)'
  BY DEF PortOK, EventsOK
<1>2. MissedOK(d, f)'
  BY DEF PortOK, MissedOK, IsPort
<1>3. LeftOK(d, f)'
  BY DEF PortOK, LeftOK, IsPort, Port
<1>4. QED BY <1>1, <1>2, <1>3 DEF PortOK

LEMMA SameFlow ==
  ASSUME NEW d, NEW f, UNCHANGED <<watchers, broker, inbox, devices>>
  PROVE  /\ Coming(Port(d, f))' <=> Coming(Port(d, f))
         /\ Watched(d)' <=> Watched(d)
         /\ Listed(d)' <=> Listed(d)
<1>1. InHand(Port(d, f))' <=> InHand(Port(d, f))
  BY DEF InHand, Added, Kept, Port
<1>2. QED BY <1>1 DEF Coming, Watched, Listed, Port

LEMMA ListedIsWatched == ASSUME NEW d, Listed(d) PROVE Watched(d)
BY DEF Listed, Watched

\* Notify tells who watches, and nobody else.
LEMMA Notified ==
  ASSUME DevicesTypeOK, NEW d \in Directories, NEW kind \in {"create", "delete", "self"},
         NEW g, g \in NamesIn(d) \/ (kind = "self" /\ g = "none"),
         events' = Notify(d, kind, g), NEW e \in Directories, NEW f
  PROVE  LET heard == e = d /\ Watched(d) /\ g = f IN
         /\ Awaited(e, f)' <=> (heard /\ kind = "create")
                                 \/ (Awaited(e, f) /\ ~(heard /\ kind = "delete"))
         /\ Dropped(e, f)' <=> Dropped(e, f) \/ (heard /\ kind = "delete")
<1> DEFINE event == [kind |-> kind, file |-> g]
<1>1. event \in Event /\ event.kind = kind /\ event.file = g
  BY DEF Event, NamesIn, FileNames
<1>2. CASE e = d /\ Watched(d)
  <2>1. events'[e] = Append(events[e], event)
    BY <1>2 DEF Notify, DevicesTypeOK
  <2>2. /\ Awaited(e, f)' <=> Creates(event, f) \/ (Awaited(e, f) /\ ~Deletes(event, f))
        /\ Dropped(e, f)' <=> Dropped(e, f) \/ Deletes(event, f)
    BY <1>1, <2>1, EventSent
  <2>3. QED BY <1>1, <1>2, <2>2 DEF Creates, Deletes
<1>3. CASE ~(e = d /\ Watched(d))
  <2>1. events'[e] = events[e]
    BY <1>3 DEF Notify, DevicesTypeOK
  <2>2. QED BY <1>3, <2>1, SameEvents
<1>4. QED BY <1>2, <1>3

LEMMA CreateSafe ==
  ASSUME DevicesInv, NEW d \in Directories, NEW g \in NamesIn(d), CreatePort(d, g),
         NEW e \in Directories, NEW f \in NamesIn(e)
  PROVE  PortOK(e, f)'
<1>1. DevicesTypeOK /\ PortOK(e, f)
  BY DEF DevicesInv
<1>2. /\ events' = Notify(d, "create", g) /\ g \notin present[d]
      /\ present' = [present EXCEPT ![d] = @ \cup {g}]
      /\ UNCHANGED <<watchers, broker, inbox, devices, overtaken, gaps>>
  BY DEF CreatePort
<1>3. /\ f \in present'[e] <=> f \in present[e] \/ (e = d /\ f = g)
  BY <1>1, <1>2 DEF DevicesTypeOK
<1>4. /\ Awaited(e, f)' <=> (e = d /\ Watched(d) /\ g = f) \/ Awaited(e, f)
      /\ Dropped(e, f)' <=> Dropped(e, f)
  BY <1>1, <1>2, Notified
<1>5. /\ Coming(Port(e, f))' <=> Coming(Port(e, f))
      /\ Watched(e)' <=> Watched(e)
      /\ Listed(e)' <=> Listed(e)
  BY <1>2, SameFlow
<1>6. CASE e = d /\ f = g
  <2>1. EventsOK(e, f)'
    BY <1>3, <1>4, <1>5, <1>6 DEF EventsOK
  <2>2. MissedOK(e, f)'
    BY <1>3, <1>4, <1>5, <1>6, ListedIsWatched DEF MissedOK
  <2>3. LeftOK(e, f)'
    BY <1>1, <1>2, <1>3, <1>5, <1>6 DEF PortOK, LeftOK, IsPort, Port
  <2>4. QED BY <2>1, <2>2, <2>3 DEF PortOK
<1>7. CASE ~(e = d /\ f = g)
  <2>1. f \in present'[e] <=> f \in present[e]
    BY <1>3, <1>7
  <2>2. Awaited(e, f)' <=> Awaited(e, f)
    BY <1>4, <1>7
  <2>3. gaps \subseteq gaps' /\ overtaken \subseteq overtaken'
    BY <1>2
  <2>4. QED BY <1>1, <1>4, <1>5, <2>1, <2>2, <2>3, Untouched
<1>8. QED BY <1>6, <1>7

LEMMA DeleteSafe ==
  ASSUME DevicesInv, NEW d \in Directories, NEW g \in NamesIn(d), DeletePort(d, g),
         NEW e \in Directories, NEW f \in NamesIn(e)
  PROVE  PortOK(e, f)'
<1>1. DevicesTypeOK /\ PortOK(e, f)
  BY DEF DevicesInv
<1>2. /\ events' = Notify(d, "delete", g)
      /\ present' = [present EXCEPT ![d] = @ \ {g}]
      /\ UNCHANGED <<watchers, broker, inbox, devices, overtaken, gaps>>
  BY DEF DeletePort
<1>3. f \in present'[e] <=> f \in present[e] /\ ~(e = d /\ f = g)
  BY <1>1, <1>2 DEF DevicesTypeOK
<1>4. /\ Awaited(e, f)' <=> Awaited(e, f) /\ ~(e = d /\ Watched(d) /\ g = f)
      /\ Dropped(e, f)' <=> Dropped(e, f) \/ (e = d /\ Watched(d) /\ g = f)
  BY <1>1, <1>2, Notified
<1>5. /\ Coming(Port(e, f))' <=> Coming(Port(e, f))
      /\ Watched(e)' <=> Watched(e)
      /\ Listed(e)' <=> Listed(e)
  BY <1>2, SameFlow
<1>6. CASE e = d /\ f = g
  <2>1. EventsOK(e, f)'
    BY <1>3, <1>4, <1>5, <1>6 DEF EventsOK
  <2>2. MissedOK(e, f)'
    BY <1>3, <1>6 DEF MissedOK
  <2>3. LeftOK(e, f)'
    <3>1. Listed(e) => Dropped(e, f)'
      BY <1>4, <1>6, ListedIsWatched
    <3>2. QED BY <1>1, <1>2, <1>5, <3>1 DEF PortOK, LeftOK, IsPort, Port
  <2>4. QED BY <2>1, <2>2, <2>3 DEF PortOK
<1>7. CASE ~(e = d /\ f = g)
  <2>1. f \in present'[e] <=> f \in present[e]
    BY <1>3, <1>7
  <2>2. (Awaited(e, f)' <=> Awaited(e, f)) /\ (Dropped(e, f)' <=> Dropped(e, f))
    BY <1>4, <1>7
  <2>3. gaps \subseteq gaps' /\ overtaken \subseteq overtaken'
    BY <1>2
  <2>4. QED BY <1>1, <1>5, <2>1, <2>2, <2>3, Untouched
<1>8. QED BY <1>6, <1>7

LEMMA DirectorySafe ==
  ASSUME DevicesInv, NEW d \in Directories, MakeDirectory(d) \/ DeleteDirectory(d),
         NEW e \in Directories, NEW f \in NamesIn(e)
  PROVE  PortOK(e, f)'
<1>1. DevicesTypeOK /\ PortOK(e, f)
  BY DEF DevicesInv
<1>2. /\ events' = Notify(d, "self", "none") \/ UNCHANGED events
      /\ UNCHANGED <<present, watchers, broker, inbox, devices, overtaken, gaps>>
  BY DEF MakeDirectory, DeleteDirectory
<1>3. (Awaited(e, f)' <=> Awaited(e, f)) /\ (Dropped(e, f)' <=> Dropped(e, f))
  <2>1. CASE UNCHANGED events
    BY <2>1, SameEvents
  <2>2. CASE events' = Notify(d, "self", "none")
    BY <1>1, <2>2, Notified
  <2>3. QED BY <1>2, <2>1, <2>2
<1>4. /\ Coming(Port(e, f))' <=> Coming(Port(e, f))
      /\ Watched(e)' <=> Watched(e)
      /\ Listed(e)' <=> Listed(e)
  BY <1>2, SameFlow
<1>5. QED BY <1>1, <1>2, <1>3, <1>4, Untouched

LEMMA WatchSafe ==
  ASSUME DevicesInv, WatchSerial \/ WatchKlipper,
         NEW e \in Directories, NEW f \in NamesIn(e)
  PROVE  PortOK(e, f)'
<1>1. DevicesTypeOK /\ PortOK(e, f)
  BY DEF DevicesInv
<1>2. PICK S \in SUBSET Directories :
        AddWatches(S) /\ \A d \in S : watchers[d] \in {"off", "ended"}
  <2>1. CASE WatchSerial
    BY <2>1 DEF WatchSerial, Directories
  <2>2. CASE WatchKlipper
    <3>1. {"tmp"} \in SUBSET Directories
      BY DEF Directories
    <3>2. QED BY <2>2, <3>1 DEF WatchKlipper
  <2>3. QED BY <2>1, <2>2
<1>3. UNCHANGED <<present, broker, inbox, devices, overtaken, gaps>>
  BY DEF WatchSerial, WatchKlipper
<1>4. Coming(Port(e, f))' <=> Coming(Port(e, f))
  BY <1>3 DEF Coming, InHand, Added, Kept, Port
<1>5. CASE e \in S
  <2>1. watchers'[e] = "listing" /\ events'[e] = << >>
    BY <1>2, <1>5 DEF AddWatches
  <2>2. ~Awaited(e, f)' /\ ~Dropped(e, f)' /\ ~Listed(e)' /\ ~Listed(e)
    <3>1. 1 .. Len(events'[e]) = {}
      BY <2>1
    <3>2. QED BY <1>2, <1>5, <2>1, <3>1 DEF Awaited, Dropped, Listed
  <2>3. EventsOK(e, f)' /\ MissedOK(e, f)'
    BY <2>2 DEF EventsOK, MissedOK
  <2>4. LeftOK(e, f)'
    BY <1>1, <1>3, <1>4, <2>2 DEF PortOK, LeftOK, Port
  <2>5. QED BY <2>3, <2>4 DEF PortOK
<1>6. CASE e \notin S
  <2>1. watchers'[e] = watchers[e] /\ events'[e] = events[e]
    BY <1>2, <1>6 DEF AddWatches
  <2>2. (Awaited(e, f)' <=> Awaited(e, f)) /\ (Dropped(e, f)' <=> Dropped(e, f))
    BY <2>1, SameEvents
  <2>3. (Watched(e)' <=> Watched(e)) /\ (Listed(e)' <=> Listed(e))
    BY <2>1 DEF Watched, Listed
  <2>4. QED BY <1>1, <1>3, <1>4, <2>2, <2>3, Untouched
<1>7. QED BY <1>5, <1>6

LEMMA ListSafe ==
  ASSUME DevicesInv, NEW d \in Directories, ListDirectory(d),
         NEW e \in Directories, NEW f \in NamesIn(e)
  PROVE  PortOK(e, f)'
<1> DEFINE p == Port(e, f)
<1>1. DevicesTypeOK /\ PortOK(e, f)
  BY DEF DevicesInv
<1>2. UNCHANGED <<present, events, inbox, devices, overtaken>> /\ watchers[d] = "listing"
  BY DEF ListDirectory
<1>3. /\ Awaited(e, f)' <=> Awaited(e, f)
      /\ Dropped(e, f)' <=> Dropped(e, f)
      /\ InHand(Port(e, f))' <=> InHand(Port(e, f))
  BY <1>2 DEF Awaited, Dropped, InHand, Added, Kept, Port
<1>4. p \in PortsIn(d) <=> e = d /\ f \in present[d] /\ IsPort(d, f)
  BY DEF PortsIn, Port
<1>5. CASE d \in exists
  <2>1. /\ watchers' = [watchers EXCEPT ![d] = "listed"] /\ UNCHANGED gaps
        /\ broker' = broker \o SetToSeq(PortsIn(d))
    BY <1>5 DEF ListDirectory
  <2>2. ToSet(broker') = ToSet(broker) \cup PortsIn(d)
    <3>1. /\ IsFiniteSet(PortsIn(d)) /\ PortsIn(d) \subseteq Ports
          /\ SetToSeq(PortsIn(d)) \in Seq(PortsIn(d))
          /\ ToSet(SetToSeq(PortsIn(d))) = PortsIn(d)
      BY <1>1, PortsFinite, Ordered
    <3>2. SetToSeq(PortsIn(d)) \in Seq(Ports) /\ broker \in Seq(Ports)
      BY <1>1, <3>1 DEF DevicesTypeOK
    <3>3. QED BY <2>1, <3>1, <3>2, Sets
  <2>3. Coming(Port(e, f))' <=> Coming(Port(e, f)) \/ p \in PortsIn(d)
    BY <1>3, <2>2 DEF Coming, Port
  <2>4. CASE e = d
    <3>1. watchers'[e] = "listed"
      BY <1>1, <2>1, <2>4 DEF DevicesTypeOK
    <3>2. Watched(e)' /\ Watched(e) /\ Listed(e)' /\ ~Listed(e)
      BY <1>2, <2>4, <3>1 DEF Watched, Listed
    <3>3. EventsOK(e, f)'
      BY <1>1, <1>2, <1>3, <3>2 DEF PortOK, EventsOK
    <3>4. MissedOK(e, f)'
      BY <1>2, <1>4, <2>3, <2>4 DEF MissedOK, IsPort
    <3>5. LeftOK(e, f)'
      BY <1>1, <1>2, <1>4, <2>1, <2>3, <2>4, <3>2 DEF PortOK, LeftOK, IsPort, Port
    <3>6. QED BY <3>3, <3>4, <3>5 DEF PortOK
  <2>5. CASE e # d
    <3>1. watchers'[e] = watchers[e]
      BY <1>1, <2>1, <2>5 DEF DevicesTypeOK
    <3>2. (Watched(e)' <=> Watched(e)) /\ (Listed(e)' <=> Listed(e))
      BY <3>1 DEF Watched, Listed
    <3>3. Coming(Port(e, f))' <=> Coming(Port(e, f))
      BY <1>4, <2>3, <2>5
    <3>4. QED BY <1>1, <1>2, <1>3, <2>1, <3>2, <3>3, Untouched
  <2>6. QED BY <2>4, <2>5
<1>6. CASE d \notin exists
  <2>1. /\ watchers' = [c \in Directories |-> IF c \in Serial THEN "off" ELSE watchers[c]]
        /\ gaps' = gaps \cup Serial /\ UNCHANGED broker
    BY <1>6 DEF ListDirectory
  <2>2. Coming(Port(e, f))' <=> Coming(Port(e, f))
    BY <1>3, <2>1 DEF Coming, Port
  <2>3. CASE e \in Serial
    <3>1. ~Watched(e)' /\ ~Listed(e)'
      BY <2>1, <2>3 DEF Watched, Listed
    <3>2. QED BY <2>1, <2>3, <3>1 DEF PortOK, EventsOK, MissedOK, LeftOK
  <2>4. CASE e \notin Serial
    <3>1. (Watched(e)' <=> Watched(e)) /\ (Listed(e)' <=> Listed(e))
      BY <2>1, <2>4 DEF Watched, Listed
    <3>2. QED BY <1>1, <1>2, <1>3, <2>1, <2>2, <3>1, Untouched
  <2>5. QED BY <2>3, <2>4
<1>7. QED BY <1>5, <1>6

LEMMA ReadSafe ==
  ASSUME DevicesInv, NEW d \in Directories, ReadEvent(d),
         NEW e \in Directories, NEW f \in NamesIn(e)
  PROVE  PortOK(e, f)'
<1> DEFINE event == Head(events[d])
           port == Port(d, event.file)
           p == Port(e, f)
<1>1. DevicesTypeOK /\ PortOK(e, f)
  BY DEF DevicesInv
<1>2. /\ events \in [Directories -> Seq(Event)] /\ broker \in Seq(Ports)
      /\ inbox \in Seq(Message) /\ events[d] # << >> /\ events[d] \in Seq(Event)
      /\ watchers[d] = "watching"
      /\ UNCHANGED <<present, devices, gaps>>
  BY <1>1 DEF ReadEvent, DevicesTypeOK
<1>3. /\ event \in Event
      /\ event.kind # "self" => event.file \in NamesIn(d)
  <2>1. event \in Event /\ event = events[d][1] /\ 1 \in 1 .. Len(events[d])
    BY <1>2
  <2>2. QED BY <1>1, <2>1 DEF DevicesTypeOK
<1>4. p \in Ports /\ p[1] = e /\ \A c, g : Port(c, g) = p <=> c = e /\ g = f
  BY PortFacts
<1>5. Watched(d) /\ Listed(d)
  BY <1>2 DEF Watched, Listed
<1>6. CASE event.kind = "self" \/ Unreadable(event)
  <2>1. /\ watchers' = [watchers EXCEPT ![d] = "ended"]
        /\ events' = [events EXCEPT ![d] = << >>]
        /\ inbox' = Append(inbox, [directory |-> d])
        /\ overtaken' = overtaken \cup ({Port(d, g) : g \in NamesIn(d)} \cap ToSet(broker))
        /\ UNCHANGED broker
    BY <1>6 DEF ReadEvent, SendRemoval
  <2>2. InHand(Port(e, f))' <=> InHand(Port(e, f)) /\ e # d
    <3>1. [directory |-> d] \in Message
      BY DEF Message
    <3>2. /\ [directory |-> d] # [add |-> p]
          /\ Removal([directory |-> d], p) <=> e = d
      <4>1. /\ [directory |-> d] # [add |-> p] /\ [port |-> p] # [directory |-> d]
            /\ [directory |-> d] = [directory |-> p[1]] <=> p[1] = d
        BY MessagesDiffer
      <4>2. QED BY <1>4, <4>1 DEF Removal
    <3>3. InHand(p)' <=> [directory |-> d] = [add |-> p]
                           \/ (InHand(p) /\ ~Removal([directory |-> d], p))
      BY <1>1, <1>2, <2>1, <3>1, MailSent DEF Port
    <3>4. QED BY <3>2, <3>3
  <2>3. CASE e = d
    <3>1. watchers'[e] = "ended"
      BY <1>1, <2>1, <2>3 DEF DevicesTypeOK
    <3>2. ~Watched(e)' /\ ~Listed(e)'
      BY <3>1 DEF Watched, Listed
    <3>3. Coming(Port(e, f))' => p \in overtaken'
      BY <2>1, <2>2, <2>3 DEF Coming, Port
    <3>4. QED BY <3>2, <3>3 DEF PortOK, EventsOK, MissedOK, LeftOK, Port
  <2>4. CASE e # d
    <3>1. watchers'[e] = watchers[e] /\ events'[e] = events[e]
      BY <1>1, <2>1, <2>4 DEF DevicesTypeOK
    <3>2. (Watched(e)' <=> Watched(e)) /\ (Listed(e)' <=> Listed(e))
      BY <3>1 DEF Watched, Listed
    <3>3. (Awaited(e, f)' <=> Awaited(e, f)) /\ (Dropped(e, f)' <=> Dropped(e, f))
      BY <3>1, SameEvents
    <3>4. Coming(Port(e, f))' <=> Coming(Port(e, f))
      BY <2>1, <2>2, <2>4 DEF Coming, Port
    <3>5. gaps \subseteq gaps' /\ overtaken \subseteq overtaken'
      BY <1>2, <2>1
    <3>6. QED BY <1>1, <1>2, <3>2, <3>3, <3>4, <3>5, Untouched
  <2>5. QED BY <2>3, <2>4
<1>7. CASE ~(event.kind = "self" \/ Unreadable(event))
  <2>1. /\ events' = [events EXCEPT ![d] = Tail(@)]
        /\ broker' = IF event.kind = "create" THEN Append(broker, port) ELSE broker
        /\ IF event.kind = "delete"
           THEN inbox' = Append(inbox, [port |-> port])
                /\ overtaken' = overtaken \cup ({port} \cap ToSet(broker))
           ELSE UNCHANGED <<inbox, overtaken>>
        /\ UNCHANGED watchers
    BY <1>7 DEF ReadEvent, SendRemoval, Removes
  <2>2. /\ port \in Ports /\ [port |-> port] \in Message
        /\ event.kind \in {"create", "delete"} /\ event.file \notin LongNames
    <3>1. port \in Ports
      BY <1>3, <1>7, PortFacts
    <3>2. [port |-> port] \in Message
      BY <3>1 DEF Message
    <3>3. QED BY <1>3, <1>7, <3>1, <3>2 DEF Event, Unreadable
  <2>3. (Watched(e)' <=> Watched(e)) /\ (Listed(e)' <=> Listed(e))
    BY <2>1 DEF Watched, Listed
  <2>4. gaps \subseteq gaps' /\ overtaken \subseteq overtaken'
    BY <1>2, <2>1
  <2>5. p \in ToSet(broker') <=> p \in ToSet(broker) \/ (event.kind = "create" /\ port = p)
    <3>1. ToSet(Append(broker, port)) = ToSet(broker) \cup {port}
      BY <1>2, <2>2, Sets
    <3>2. QED BY <2>1, <3>1
  <2>6. InHand(p)' <=> InHand(p) /\ ~(event.kind = "delete" /\ port = p)
    <3>1. CASE event.kind = "delete"
      <4>1. [port |-> port] # [add |-> p] /\ (Removal([port |-> port], p) <=> port = p)
        <5>1. /\ [port |-> port] # [add |-> p] /\ [port |-> port] # [directory |-> p[1]]
              /\ [port |-> port] = [port |-> p] <=> port = p
          BY MessagesDiffer
        <5>2. QED BY <5>1 DEF Removal
      <4>2. inbox' = Append(inbox, [port |-> port]) /\ devices' = devices
        BY <1>2, <2>1, <3>1
      <4>3. InHand(p)' <=> [port |-> port] = [add |-> p]
                             \/ (InHand(p) /\ ~Removal([port |-> port], p))
        BY <1>1, <2>2, <4>2, MailSent DEF Port
      <4>4. QED BY <3>1, <4>1, <4>3
    <3>2. CASE event.kind # "delete"
      <4>1. UNCHANGED <<inbox, devices>>
        BY <1>2, <2>1, <3>2
      <4>2. QED BY <3>2, <4>1 DEF InHand, Added, Kept, Port
    <3>3. QED BY <3>1, <3>2
  <2>7. port = p <=> d = e /\ event.file = f
    BY <1>4
  <2>8. CASE e # d
    <3>1. events'[e] = events[e]
      BY <1>2, <2>1, <2>8
    <3>2. (Awaited(e, f)' <=> Awaited(e, f)) /\ (Dropped(e, f)' <=> Dropped(e, f))
      BY <3>1, SameEvents
    <3>3. Coming(Port(e, f))' <=> Coming(Port(e, f))
      BY <2>5, <2>6, <2>7, <2>8 DEF Coming, Port
    <3>4. QED BY <1>1, <1>2, <2>3, <2>4, <3>2, <3>3, Untouched
  <2>9. CASE e = d
    <3>1. /\ Awaited(e, f) <=> Awaited(e, f)' \/ (Creates(event, f) /\ ~Dropped(e, f)')
          /\ Dropped(e, f) <=> Dropped(e, f)' \/ Deletes(event, f)
      <4>1. events'[d] = Tail(events[d])
        BY <1>2, <2>1
      <4>2. QED BY <1>1, <1>2, <2>9, <4>1, EventRead
    <3>2. CASE event.file # f
      <4>1. (Awaited(e, f)' <=> Awaited(e, f)) /\ (Dropped(e, f)' <=> Dropped(e, f))
        BY <3>1, <3>2 DEF Creates, Deletes
      <4>2. Coming(Port(e, f))' <=> Coming(Port(e, f))
        BY <2>5, <2>6, <2>7, <3>2 DEF Coming, Port
      <4>3. QED BY <1>1, <1>2, <2>3, <2>4, <4>1, <4>2, Untouched
    <3>3. CASE event.file = f /\ event.kind = "create"
      <4>1. /\ Awaited(e, f) <=> Awaited(e, f)' \/ ~Dropped(e, f)'
            /\ Dropped(e, f) <=> Dropped(e, f)'
        BY <3>1, <3>3 DEF Creates, Deletes
      <4>2. Coming(Port(e, f))'
        BY <2>5, <2>7, <2>9, <3>3 DEF Coming, Port
      <4>3. EventsOK(e, f)'
        BY <1>1, <1>2, <2>3, <4>1 DEF PortOK, EventsOK
      <4>4. MissedOK(e, f)'
        BY <4>2 DEF MissedOK
      <4>5. LeftOK(e, f)'
        <5>1. IsPort(e, f)
          BY <2>2, <3>3 DEF IsPort
        <5>2. f \in present[e] \/ Dropped(e, f)'
          BY <1>1, <1>5, <2>9, <4>1 DEF PortOK, EventsOK
        <5>3. QED BY <1>2, <1>5, <2>3, <2>9, <5>1, <5>2 DEF LeftOK, IsPort
      <4>6. QED BY <4>3, <4>4, <4>5 DEF PortOK
    <3>4. CASE event.file = f /\ event.kind = "delete"
      <4>1. (Awaited(e, f) <=> Awaited(e, f)') /\ Dropped(e, f)
        BY <3>1, <3>4 DEF Creates, Deletes
      <4>2. EventsOK(e, f)'
        BY <1>1, <1>2, <2>3, <4>1 DEF PortOK, EventsOK
      <4>3. MissedOK(e, f)'
        BY <1>1, <1>2, <1>5, <2>9, <4>1 DEF PortOK, EventsOK, MissedOK
      <4>4. LeftOK(e, f)'
        <5>1. p = port
          BY <2>7, <2>9, <3>4
        <5>2. Coming(Port(e, f))' => p \in overtaken'
          BY <2>1, <2>5, <2>6, <3>4, <5>1 DEF Coming, Port
        <5>3. QED BY <5>2 DEF LeftOK, Port
      <4>5. QED BY <4>2, <4>3, <4>4 DEF PortOK
    <3>5. QED BY <2>2, <3>2, <3>3, <3>4
  <2>10. QED BY <2>8, <2>9
<1>8. QED BY <1>6, <1>7

LEMMA MailSafe ==
  ASSUME DevicesInv, Publish \/ ManageDevice, NEW e \in Directories, NEW f \in NamesIn(e)
  PROVE  PortOK(e, f)'
<1> DEFINE p == Port(e, f)
<1>1. DevicesTypeOK /\ PortOK(e, f)
  BY DEF DevicesInv
<1>2. UNCHANGED <<present, watchers, events, gaps, overtaken>>
  BY DEF Publish, ManageDevice
<1>3. (Awaited(e, f)' <=> Awaited(e, f)) /\ (Dropped(e, f)' <=> Dropped(e, f))
  BY <1>2, SameEvents
<1>4. (Watched(e)' <=> Watched(e)) /\ (Listed(e)' <=> Listed(e))
  BY <1>2 DEF Watched, Listed
<1>5. Coming(Port(e, f))' <=> Coming(Port(e, f))
  <2>1. CASE Publish
    <3>1. /\ broker \in Seq(Ports) /\ broker # << >>
          /\ broker' = Tail(broker) /\ inbox' = Append(inbox, [add |-> Head(broker)])
          /\ devices' = devices
      BY <1>1, <2>1 DEF Publish, DevicesTypeOK
    <3>2. Head(broker) \in Ports /\ ToSet(broker) = ToSet(broker') \cup {Head(broker)}
      BY <3>1, Sets
    <3>3. InHand(p)' <=> Head(broker) = p \/ InHand(p)
      <4>1. [add |-> Head(broker)] \in Message
        BY <3>2 DEF Message
      <4>2. InHand(p)' <=> [add |-> Head(broker)] = [add |-> p]
                             \/ (InHand(p) /\ ~Removal([add |-> Head(broker)], p))
        BY <1>1, <3>1, <4>1, MailSent DEF Port
      <4>3. /\ ~Removal([add |-> Head(broker)], p)
            /\ [add |-> Head(broker)] = [add |-> p] <=> Head(broker) = p
        BY MessagesDiffer
      <4>4. QED BY <4>2, <4>3
    <3>4. QED BY <3>2, <3>3 DEF Coming, Port
  <2>2. CASE ManageDevice
    <3>1. InHand(p)' <=> InHand(p)
      BY <1>1, <2>2, MailRead DEF Port
    <3>2. UNCHANGED broker
      BY <2>2 DEF ManageDevice
    <3>3. QED BY <3>1, <3>2 DEF Coming, Port
  <2>3. QED BY <2>1, <2>2
<1>6. QED BY <1>1, <1>2, <1>3, <1>4, <1>5, Untouched

LEMMA FinishSafe ==
  ASSUME DevicesInv, NEW d \in Directories, FinishListing(d),
         NEW e \in Directories, NEW f \in NamesIn(e)
  PROVE  PortOK(e, f)'
<1>1. DevicesTypeOK /\ PortOK(e, f)
  BY DEF DevicesInv
<1>2. /\ UNCHANGED <<present, events, broker, inbox, devices, gaps, overtaken>>
      /\ watchers[d] = "listed" /\ watchers' = [watchers EXCEPT ![d] = "watching"]
  BY DEF FinishListing
<1>3. watchers'[e] = IF e = d THEN "watching" ELSE watchers[e]
  BY <1>1, <1>2 DEF DevicesTypeOK
<1>4. (Watched(e)' <=> Watched(e)) /\ (Listed(e)' <=> Listed(e))
  BY <1>2, <1>3 DEF Watched, Listed
<1>5. (Awaited(e, f)' <=> Awaited(e, f)) /\ (Dropped(e, f)' <=> Dropped(e, f))
  BY <1>2, SameEvents
<1>6. Coming(Port(e, f))' <=> Coming(Port(e, f))
  BY <1>2 DEF Coming, InHand, Added, Kept, Port
<1>7. QED BY <1>1, <1>2, <1>4, <1>5, <1>6, Untouched

LEMMA DevicesInitSafe == ASSUME DevicesInit PROVE DevicesInv
<1>1. DevicesTypeOK
  <2>1. << >> \in Seq(Ports) /\ << >> \in Seq(Message) /\ << >> \in Seq(Event)
    OBVIOUS
  <2>2. events \in [Directories -> Seq(Event)]
    BY <2>1 DEF DevicesInit
  <2>3. \A d \in Directories : 1 .. Len(events[d]) = {}
    BY DEF DevicesInit
  <2>4. QED BY <2>1, <2>2, <2>3 DEF DevicesInit, DevicesTypeOK
<1>2. ASSUME NEW d \in Directories, NEW f \in NamesIn(d)
      PROVE  PortOK(d, f)
  <2>1. ~Watched(d) /\ ~Listed(d)
    BY DEF DevicesInit, Watched, Listed
  <2>2. ~Coming(Port(d, f))
    <3>1. 1 .. Len(inbox) = {} /\ ToSet(broker) = {} /\ devices = {}
      BY DEF DevicesInit, ToSet
    <3>2. QED BY <3>1 DEF Coming, InHand, Added, Kept
  <2>3. QED BY <2>1, <2>2 DEF PortOK, EventsOK, MissedOK, LeftOK
<1>3. QED BY <1>1, <1>2 DEF DevicesInv

LEMMA DevicesStepSafe == DevicesInv /\ [DevicesNext]_devicesVars => DevicesInv'
<1>1. ASSUME DevicesInv, DevicesNext
      PROVE  DevicesInv'
  <2>1. DevicesTypeOK'
    BY <1>1, TypeStep DEF DevicesInv
  <2>2. ASSUME NEW e \in Directories, NEW f \in NamesIn(e)
        PROVE  PortOK(e, f)'
    BY <1>1, CreateSafe, DeleteSafe, DirectorySafe, ListSafe, FinishSafe, ReadSafe,
       WatchSafe, MailSafe
       DEF DevicesNext, DirectoryStep
  <2>3. QED BY <2>1, <2>2 DEF DevicesInv, NamesIn
<1>2. ASSUME DevicesInv, UNCHANGED devicesVars
      PROVE  DevicesInv'
  <2>1. DevicesTypeOK'
    BY <1>2 DEF DevicesInv, DevicesTypeOK, devicesVars
  <2>2. ASSUME NEW e \in Directories, NEW f \in NamesIn(e)
        PROVE  PortOK(e, f)'
    <3>1. PortOK(e, f)
      BY <1>2 DEF DevicesInv
    <3>2. QED
      BY <1>2, <3>1 DEF devicesVars, PortOK, EventsOK, MissedOK, LeftOK, Awaited, Dropped,
         Coming, InHand, Added, Kept, Listed, Watched, IsPort, Port
  <2>3. QED BY <2>1, <2>2 DEF DevicesInv, NamesIn
<1>3. QED BY <1>1, <1>2

\* What waits in the events of a directory, at the broker and in the manager's
\* mailbox leads to the list as it should be.
THEOREM DevicesInvariant == DevicesSpec => []DevicesInv
<1>1. QED BY DevicesInitSafe, DevicesStepSafe, PTL DEF DevicesSpec

\* No port is missed, however it came while the watch was set up, for any files in
\* any of the directories.
THEOREM MissedCorrect == DevicesSpec => []NoPortMissed
<1>1. ASSUME DevicesInv
      PROVE  NoPortMissed
  <2>1. SUFFICES ASSUME NEW d \in Directories, Quiet(d), watchers[d] = "watching",
                        NEW f \in present[d], IsPort(d, f)
                 PROVE  Port(d, f) \in devices
    BY DEF NoPortMissed, PortsIn
  <2>2. f \in NamesIn(d)
    BY <1>1 DEF DevicesInv, DevicesTypeOK
  <2>3. MissedOK(d, f) /\ Listed(d)
    BY <1>1, <2>1, <2>2 DEF DevicesInv, PortOK, Listed
  <2>4. ~Awaited(d, f)
    BY <2>1, NoEvents DEF Quiet
  <2>5. Coming(Port(d, f))
    BY <2>1, <2>3, <2>4 DEF MissedOK
  <2>6. 1 .. Len(inbox) = {} /\ ToSet(broker) = {}
    BY <2>1 DEF Quiet, ToSet
  <2>7. QED BY <2>5, <2>6 DEF Coming, InHand, Added, Kept
<1>2. QED BY <1>1, DevicesInvariant, PTL

\* No port stays listed that is gone, unless its removal overtook its addition, or
\* its watcher was ended by the failure of the other.
THEOREM LeftCorrect == DevicesSpec => []NoPortLeft
<1>1. ASSUME DevicesInv
      PROVE  NoPortLeft
  <2>1. SUFFICES ASSUME NEW d \in Directories, Quiet(d),
                        watchers[d] \in {"watching", "ended"}, d \notin gaps,
                        NEW p \in devices \ overtaken, p[1] = d
                 PROVE  watchers[d] = "watching" /\ p \in PortsIn(d)
    BY DEF NoPortLeft
  <2>2. PICK f \in NamesIn(d) : p = Port(d, f)
    BY <1>1, <2>1 DEF DevicesInv, DevicesTypeOK, Ports, Port
  <2>3. LeftOK(d, f)
    BY <1>1 DEF DevicesInv, PortOK
  <2>4. 1 .. Len(inbox) = {}
    BY <2>1 DEF Quiet
  <2>5. Coming(Port(d, f))
    BY <2>1, <2>2, <2>4 DEF Coming, InHand, Kept
  <2>6. Listed(d) /\ IsPort(d, f) /\ (f \in present[d] \/ Dropped(d, f))
    BY <2>1, <2>2, <2>3, <2>5 DEF LeftOK
  <2>7. ~Dropped(d, f)
    BY <2>1, NoEvents DEF Quiet
  <2>8. QED BY <2>1, <2>2, <2>6, <2>7 DEF Listed, PortsIn
<1>2. QED BY <1>1, DevicesInvariant, PTL
===============================================================================
