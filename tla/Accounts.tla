------------------------------ MODULE Accounts ------------------------------
(***************************************************************************)
(* Users, the invites that make them, and the requests that change both    *)
(* (crates/auth).  A request reads rows and writes them later, in one      *)
(* transaction under READ COMMITTED or in none: others commit in between.  *)
(* A write is guarded by the version that was read, and one that finds     *)
(* another version changes nothing and says nothing.                       *)
(***************************************************************************)
EXTENDS Integers, FiniteSets

CONSTANTS
  People,        \* who the signalling server says its clients are
  Codes,         \* the secrets of invites
  Desks,         \* requests that may be under way at once
  MaxRequests,   \* how many requests are made
  MaxRestarts    \* how often the server is restarted

NoCode == "no code"

ASSUME AccountsAssumption ==
  /\ IsFiniteSet(People) /\ IsFiniteSet(Codes) /\ IsFiniteSet(Desks)
  /\ NoCode \notin Codes
  /\ MaxRequests \in Nat /\ MaxRestarts \in Nat

VARIABLES
  users,      \* rows by id; a row that is deleted stays, as one that is not live
  invites,    \* each code's row
  sessions,   \* copies of users: what each connection knows of its own
  requests,   \* each desk's request
  asked, restarts,
  admitted,   \* history: the users who came in by each invite
  unconsumed, \* history: invites whose consumption found another version
  hadAdmin,   \* history: there has been an administrator
  excused     \* history: the other administrators that a request counted on
              \* were deleted, or had stopped to be any when it committed

accountsVars == <<users, invites, sessions, requests, asked, restarts, admitted,
                  unconsumed, hadAdmin, excused>>

NoId == -1
LocalUser == 0      \* the id of the user of local connections
NoInvite == [made |-> FALSE, live |-> FALSE, admin |-> FALSE, by |-> NoId, version |-> 0]
Idle == [op |-> "none"]

NewUser(who, authorized) ==
  [who |-> who, live |-> TRUE, admin |-> FALSE, authorized |-> authorized, version |-> 0]

SessionOf(id, row) == [user |-> id, admin |-> row.admin]

\* At its first start the server inserts the user of local connections, later it
\* finds it; the session of the local connections is made once, from that row.
LocalSession(rows) == SessionOf(LocalUser, rows[LocalUser])

AccountsInit ==
  /\ users = [id \in {LocalUser} |-> NewUser("local", TRUE)]
  /\ invites = [c \in Codes |-> NoInvite]
  /\ sessions = {LocalSession(users)}
  /\ requests = [d \in Desks |-> Idle]
  /\ asked = 0 /\ restarts = 0
  /\ admitted = [c \in Codes |-> {}]
  /\ unconsumed = {} /\ hadAdmin = FALSE /\ excused = FALSE

Admins(rows) == {id \in DOMAIN rows : rows[id].admin}
LiveAdmins(rows) == {id \in Admins(rows) : rows[id].live}

\* The unique index on whether a row is live and on who it is of.
IndexHolds(rows) ==
  \A i, j \in DOMAIN rows \ {LocalUser} :
    rows[i].who = rows[j].who /\ rows[i].live = rows[j].live => i = j

\* Any request but a log in is for sessions that were an administrator's.
AdminSession == \E s \in sessions : s.admin

Put(rows, id, row) == [i \in DOMAIN rows \cup {id} |-> IF i = id THEN row ELSE rows[i]]

\* A guarded update: the row is written if its version is the one that was read.
Guarded(rows, id, read, row) ==
  IF rows[id].version = read.version
  THEN Put(rows, id, [row EXCEPT !.version = read.version + 1])
  ELSE rows

Ask(d, request) ==
  /\ requests[d] = Idle /\ asked < MaxRequests
  /\ asked' = asked + 1
  /\ requests' = [requests EXCEPT ![d] = request]
  /\ UNCHANGED <<users, invites, sessions, restarts, admitted, unconsumed, hadAdmin,
                 excused>>

Doing(d, op, step) == requests[d].op = op /\ requests[d].step = step

\* What a request read is kept with it; an error ends it, and nothing is written.
GoOn(d, request) ==
  /\ requests' = [requests EXCEPT ![d] = request]
  /\ UNCHANGED <<users, invites, sessions, asked, restarts, admitted, unconsumed,
                 hadAdmin>>

Refuse(d) == GoOn(d, Idle) /\ UNCHANGED excused

-----------------------------------------------------------------------------
\* User::authenticate, on every new connection

AskToLogIn(d, who, code) ==
  Ask(d, [op |-> "login", step |-> "user", who |-> who, code |-> code,
          id |-> asked + 1, user |-> NewUser(who, FALSE), new |-> TRUE,
          invite |-> NoInvite])

\* By who it is, whether the row is live or not.
FindUser(d) ==
  LET r == requests[d]
      found == {id \in DOMAIN users \ {LocalUser} : users[id].who = r.who}
  IN
  /\ Doing(d, "login", "user")
  /\ \/ /\ found = {}
        /\ GoOn(d, [r EXCEPT !.step = "invite"])
     \/ \E id \in found :
          GoOn(d, [r EXCEPT !.step = "invite", !.id = id, !.user = users[id], !.new = FALSE])
  /\ UNCHANGED excused

Unused(row) == row.live /\ row.by = NoId

\* mutant: an invite that somebody has consumed is good for others
UsableByAnyone(row, id) == row.made

\* An invite that was consumed by this very user is good for logging in again.
Usable(row, id) == row.made /\ (Unused(row) \/ row.by = id)

FindInvite(d) ==
  LET r == requests[d]  row == invites[r.code] IN
  /\ Doing(d, "login", "invite")
  /\ \/ r.code = NoCode /\ r.new /\ Refuse(d)
     \/ r.code = NoCode /\ ~r.new /\ GoOn(d, [r EXCEPT !.step = "commit"])
     \/ r.code # NoCode /\ ~Usable(row, r.id) /\ Refuse(d)
     \/ /\ r.code # NoCode /\ Usable(row, r.id)
        /\ GoOn(d, [r EXCEPT !.step = "commit", !.invite = row])
  /\ UNCHANGED excused

\* An invite that is consumed counts as deleted.
Consumed(rows, r) ==
  IF Unused(r.invite)
  THEN Guarded(rows, r.code, r.invite, [r.invite EXCEPT !.by = r.id, !.live = FALSE])
  ELSE rows

\* Whoever comes with an invite is authorized from then on, and an administrator
\* if the invite is for one.
LoggedIn(r) ==
  [r.user EXCEPT !.authorized = @ \/ r.invite.made,
                 !.admin = @ \/ (r.invite.made /\ r.invite.admin)]

CommitLogIn(d) ==
  LET r    == requests[d]
      row  == LoggedIn(r)
      rows == IF r.new THEN Put(users, r.id, row) ELSE Guarded(users, r.id, r.user, row)
  IN
  /\ Doing(d, "login", "commit")
  /\ \/ ~IndexHolds(rows) /\ Refuse(d)
     \/ /\ IndexHolds(rows)
        /\ users' = rows
        /\ invites' = Consumed(invites, r)
        /\ sessions' = sessions \cup {SessionOf(r.id, row)}
        /\ requests' = [requests EXCEPT ![d] = Idle]
        /\ admitted' = [c \in Codes |-> admitted[c] \cup (IF c = r.code THEN {r.id} ELSE {})]
        /\ unconsumed' = IF Unused(r.invite) /\ invites' = invites
                         THEN unconsumed \cup {r.code} ELSE unconsumed
        /\ hadAdmin' = (hadAdmin \/ LiveAdmins(rows) # {})
        /\ UNCHANGED <<asked, restarts, excused>>

-----------------------------------------------------------------------------
\* Invites: made by administrators and at the server's command line

MakeInvite(c, admin) ==
  /\ ~invites[c].made
  /\ invites' = [invites EXCEPT ![c] = [NoInvite EXCEPT !.made = TRUE, !.live = TRUE,
                                                        !.admin = admin]]
  /\ UNCHANGED <<users, sessions, requests, asked, restarts, admitted, unconsumed,
                 hadAdmin, excused>>

\* One that is deleted, or consumed, cannot be edited, but deleted once more.
AskToEditInvite(d, c, admin) ==
  /\ AdminSession /\ invites[c].live
  /\ Ask(d, [op |-> "invite", step |-> "commit", code |-> c, read |-> invites[c],
             row |-> [invites[c] EXCEPT !.admin = admin]])

AskToDeleteInvite(d, c) ==
  /\ AdminSession /\ invites[c].made
  /\ Ask(d, [op |-> "invite", step |-> "commit", code |-> c, read |-> invites[c],
             row |-> [invites[c] EXCEPT !.live = FALSE]])

CommitInvite(d) ==
  LET r == requests[d] IN
  /\ Doing(d, "invite", "commit")
  /\ invites' = Guarded(invites, r.code, r.read, r.row)
  /\ requests' = [requests EXCEPT ![d] = Idle]
  /\ UNCHANGED <<users, sessions, asked, restarts, admitted, unconsumed, hadAdmin, excused>>

-----------------------------------------------------------------------------
\* update_user and delete_user

\* mutant: the user that is to change is counted as well
OtherAdminsAndSelf(id) == Admins(users)

\* verify_other_admins_exist: of any row, deleted ones included.
OtherAdmins(id) == Admins(users) \ {id}

AskToChangeUser(d, id, change) ==
  /\ AdminSession
  /\ Ask(d, [op |-> "user", step |-> "verify", id |-> id, change |-> change,
             read |-> users[id], others |-> {}])

\* To make somebody an administrator needs no others.
VerifyOthers(d) ==
  LET r == requests[d]
      others == OtherAdmins(r.id)
      checked == r.change # "admin"
  IN
  /\ Doing(d, "user", "verify")
  /\ \/ checked /\ others = {} /\ Refuse(d)
     \/ /\ checked => others # {}
        /\ GoOn(d, [r EXCEPT !.step = "read", !.others = IF checked THEN others ELSE {}])
        /\ excused' = (excused \/ (checked /\ others \cap LiveAdmins(users) = {}
                                   /\ others \ {r.id} # {}))

\* get_with_version: the row is live, and of the version that the client has seen.
FoundWithVersion(row, read) == row.live /\ row.version = read.version

\* A user who is deleted, or of another version than the client has seen, is not
\* found for an update; for a deletion both are, but the local user stays.
ReadUser(d) ==
  LET r == requests[d]  row == users[r.id] IN
  /\ Doing(d, "user", "read")
  /\ IF IF r.change = "delete" THEN r.id # LocalUser
        ELSE FoundWithVersion(row, r.read)
     THEN GoOn(d, [r EXCEPT !.step = "commit", !.read = row]) ELSE Refuse(d)
  /\ UNCHANGED excused

Changed(r) ==
  IF r.change = "delete" THEN [r.read EXCEPT !.live = FALSE]
  ELSE [r.read EXCEPT !.admin = (r.change = "admin")]

\* A row that the index refuses takes the whole transaction back.
CommitUser(d) ==
  LET r == requests[d]
      rows == Guarded(users, r.id, r.read, Changed(r))
  IN
  /\ Doing(d, "user", "commit")
  /\ users' = IF IndexHolds(rows) THEN rows ELSE users
  /\ requests' = [requests EXCEPT ![d] = Idle]
  /\ hadAdmin' = (hadAdmin \/ LiveAdmins(users') # {})
  /\ excused' = (excused \/ (r.others \ {r.id} # {}
                             /\ r.others \cap LiveAdmins(users) \subseteq {r.id}))
  /\ UNCHANGED <<invites, sessions, asked, restarts, admitted, unconsumed>>

\* Connections and requests end with the process.
RestartServer ==
  /\ restarts < MaxRestarts /\ restarts' = restarts + 1
  /\ sessions' = {LocalSession(users)}
  /\ requests' = [d \in Desks |-> Idle]
  /\ UNCHANGED <<users, invites, asked, admitted, unconsumed, hadAdmin, excused>>

RequestStep(d) ==
  \/ \E who \in People, code \in Codes \cup {NoCode} : AskToLogIn(d, who, code)
  \/ FindUser(d) \/ FindInvite(d) \/ CommitLogIn(d)
  \/ \E c \in Codes : \/ \E admin \in BOOLEAN : AskToEditInvite(d, c, admin)
                      \/ AskToDeleteInvite(d, c)
  \/ CommitInvite(d)
  \/ \E id \in DOMAIN users, change \in {"admin", "plain", "delete"} :
       AskToChangeUser(d, id, change)
  \/ VerifyOthers(d) \/ ReadUser(d) \/ CommitUser(d)

AccountsNext ==
  \/ \E d \in Desks : RequestStep(d)
  \/ \E c \in Codes, admin \in BOOLEAN : MakeInvite(c, admin)
  \/ RestartServer

AccountsSpec == AccountsInit /\ [][AccountsNext]_accountsVars

-----------------------------------------------------------------------------
(* Properties *)

\* An invite lets one user in, however often it is used, unless the invite was
\* changed by another request while the one that used it was under way: the
\* update that consumes it then writes nothing, and the log in succeeds.
InviteAdmitsOnce ==
  \A c \in Codes : c \in unconsumed \/ Cardinality(admitted[c]) <= 1

\* Once there is an administrator there stays one, unless requests overlap or
\* the other administrator that was counted is one who had been deleted.
AnAdminRemains == hadAdmin => LiveAdmins(users) # {} \/ excused
=============================================================================
