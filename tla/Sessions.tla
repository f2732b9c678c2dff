------------------------------ MODULE Sessions ------------------------------
(***************************************************************************)
(* Accounts and sessions: app/routers/auth.py, app/deps.py, the tokens of  *)
(* app/security.py, the users table of app/db.py and the command line of   *)
(* manage.py.                                                              *)
(*                                                                         *)
(* No handler of these awaits anything, so the service runs one at a time; *)
(* the command line is another process on the same SQLite file and comes   *)
(* between any two of a handler's database calls.  Two calls are one       *)
(* action where nothing the command line does can tell them apart: it      *)
(* creates and disables accounts, and never deletes one, nor changes a     *)
(* password or a role.                                                     *)
(*                                                                         *)
(* A token is what create_token signs, without its clock: Expire is its    *)
(* `exp` passing.  Whether a caller knows a password is the caller's       *)
(* choice; what it costs to be wrong is in RateLimit.                      *)
(***************************************************************************)
EXTENDS Naturals, FiniteSets

CONSTANTS
  Names,        \* usernames
  First,        \* the admin the installer creates
  NoUser,       \* no row with that username
  MaxAccounts,  \* bound: accounts ever created
  MaxChanges    \* bound: changes of password, activity or existence

ASSUME NamesAssumption ==
  /\ First \in Names
  /\ IsFiniteSet(Names)
ASSUME BoundsAssumption ==
  /\ MaxAccounts \in Nat \ {0}
  /\ MaxChanges \in Nat

Roles == {"admin", "isp"}
Users == [id: 1..MaxAccounts, role: Roles, active: BOOLEAN, ver: 0..MaxChanges]
Tokens == [sub: Names, uid: 1..MaxAccounts, ver: 0..MaxChanges]

ASSUME NoUserAssumption == NoUser \notin Users

VARIABLES
  users,    \* the table, by username
  nextId,   \* its AUTOINCREMENT
  tokens,   \* tokens handed out and not expired
  work,     \* the handler being served, and what it has read
  changes,  \* changes so far (bound)
  revoked   \* history: tokens a change of their account has ended

vars == <<users, nextId, tokens, work, changes, revoked>>

-----------------------------------------------------------------------------
(* A token_version added to the table without its default.                 *)
NewUserNullVersion(id, role) == [id |-> id, role |-> role, active |-> TRUE, ver |-> NoUser]

(* create_user: what an INSERT leaves to the defaults of the table.        *)
NewUser(id, role) == [id |-> id, role |-> role, active |-> TRUE, ver |-> 0]

(* create_token.                                                           *)
TokenOf(n, u) == [sub |-> n, uid |-> u.id, ver |-> u.ver]

Of(n) == {t \in tokens : t.sub = n}

(* A check that trusts the name in the token.                              *)
AcceptedByName(t) ==
  /\ users[t.sub] # NoUser
  /\ users[t.sub].active
  /\ t.ver = users[t.sub].ver

(* current_user.                                                           *)
Accepted(t) ==
  /\ users[t.sub] # NoUser
  /\ users[t.sub].active
  /\ t.uid = users[t.sub].id
  /\ t.ver = users[t.sub].ver

(* count_active_admins counts these.                                       *)
ActiveAdmins ==
  {n \in Names : users[n] # NoUser /\ users[n].role = "admin" /\ users[n].active}

(* Between requests, and a request that has read its caller's row.         *)
Idle == [pc |-> "idle", caller |-> First, name |-> First, row |-> NoUser, disabled |-> {}]

Serving(pc, caller) ==
  [pc |-> pc, caller |-> caller, name |-> caller, row |-> users[caller], disabled |-> {}]

Init ==
  /\ users = [n \in Names |-> IF n = First THEN NewUser(1, "admin") ELSE NoUser]
  /\ nextId = 2
  /\ tokens = {}
  /\ work = Idle
  /\ changes = 0
  /\ revoked = {}

-----------------------------------------------------------------------------
(* Writes of the table.                                                    *)

CanChange ==
  /\ changes < MaxChanges
  /\ changes' = changes + 1

Revoke(n) == revoked' = revoked \cup Of(n)

(* An activation that leaves the tokens of before as they were.            *)
WriteRowKeepingTokens(n, active) ==
  /\ CanChange
  /\ users' = [users EXCEPT ![n].active = active]
  /\ Revoke(n)
  /\ UNCHANGED nextId

(* update_password and set_active: both start the account's tokens anew.   *)
WriteRow(n, active) ==
  /\ CanChange
  /\ users' = [users EXCEPT ![n].active = active, ![n].ver = @ + 1]
  /\ Revoke(n)
  /\ UNCHANGED nextId

InsertRow(n, role) ==
  /\ users[n] = NoUser
  /\ nextId <= MaxAccounts
  /\ users' = [users EXCEPT ![n] = NewUser(nextId, role)]
  /\ nextId' = nextId + 1

DeleteRow(n) ==
  /\ CanChange
  /\ users' = [users EXCEPT ![n] = NoUser]
  /\ Revoke(n)
  /\ UNCHANGED nextId

-----------------------------------------------------------------------------
(* login with the right password, up to its last read ...                  *)
Login(n) ==
  /\ work.pc = "idle"
  /\ users[n] # NoUser
  /\ users[n].active
  /\ work' = Serving("issue", n)
  /\ UNCHANGED <<users, nextId, tokens, changes, revoked>>

(* ... and create_token, of the row it read.                               *)
IssueToken ==
  /\ work.pc = "issue"
  /\ LET t == TokenOf(work.caller, work.row)
     IN  /\ tokens' = tokens \cup {t}
         /\ revoked' = IF work.caller \in work.disabled THEN revoked \cup {t} ELSE revoked
  /\ work' = Idle
  /\ UNCHANGED <<users, nextId, changes>>

(* current_user, at the start of any other request.                        *)
Authenticate(t) ==
  /\ work.pc = "idle"
  /\ Accepted(t)
  /\ work' = Serving("in", t.sub)
  /\ UNCHANGED <<users, nextId, tokens, changes, revoked>>

(* A change that signs the new token with the row from before it.          *)
ChangeMyPasswordOfOldRow ==
  /\ work.pc = "in"
  /\ WriteRow(work.caller, users[work.caller].active)
  /\ work' = [work EXCEPT !.pc = "issue"]
  /\ UNCHANGED tokens

(* change_my_password: write, read the row again, answer with a new token. *)
ChangeMyPassword ==
  /\ work.pc = "in"
  /\ WriteRow(work.caller, users[work.caller].active)
  /\ work' = [work EXCEPT !.pc = "reread"]
  /\ UNCHANGED tokens

RereadRow ==
  /\ work.pc = "reread"
  /\ work' = [work EXCEPT !.pc = "issue", !.row = users[work.caller]]
  /\ UNCHANGED <<users, nextId, tokens, changes, revoked>>

(* require_admin goes by the role current_user read, never the token's.    *)
AsAdmin ==
  /\ work.pc = "in"
  /\ work.row.role = "admin"

SetPassword(n) ==
  /\ AsAdmin
  /\ users[n] # NoUser
  /\ WriteRow(n, users[n].active)
  /\ work' = Idle
  /\ UNCHANGED tokens

CreateUser(n, role) ==
  /\ AsAdmin
  /\ InsertRow(n, role)
  /\ work' = Idle
  /\ UNCHANGED <<tokens, changes, revoked>>

Activate(n) ==
  /\ AsAdmin
  /\ users[n] # NoUser
  /\ WriteRow(n, TRUE)
  /\ work' = Idle
  /\ UNCHANGED tokens

(* A guard that lets the last admin go.                                    *)
NotLastAdminOffByOne(n) ==
  users[n].role = "admin" => Cardinality(ActiveAdmins) >= 1

(* The guard of set_user_active and delete_user.                           *)
NotLastAdmin(n) ==
  users[n].role = "admin" => Cardinality(ActiveAdmins) > 1

CheckDeactivate(n) ==
  /\ AsAdmin
  /\ users[n] # NoUser
  /\ NotLastAdmin(n)
  /\ work' = [work EXCEPT !.pc = "deactivate", !.name = n, !.disabled = {}]
  /\ UNCHANGED <<users, nextId, tokens, changes, revoked>>

Deactivate ==
  /\ work.pc = "deactivate"
  /\ WriteRow(work.name, FALSE)
  /\ work' = Idle
  /\ UNCHANGED tokens

CheckDelete(n) ==
  /\ AsAdmin
  /\ users[n] # NoUser
  /\ n # work.caller
  /\ NotLastAdmin(n)
  /\ work' = [work EXCEPT !.pc = "delete", !.name = n, !.disabled = {}]
  /\ UNCHANGED <<users, nextId, tokens, changes, revoked>>

Delete ==
  /\ work.pc = "delete"
  /\ DeleteRow(work.name)
  /\ work' = Idle
  /\ UNCHANGED tokens

(* A request that only reads, or is refused: the handler ends.             *)
Finish ==
  /\ work.pc = "in"
  /\ work' = Idle
  /\ UNCHANGED <<users, nextId, tokens, changes, revoked>>

-----------------------------------------------------------------------------
(* manage.py, at any moment.                                               *)

CommandCreate(n, role) ==
  /\ InsertRow(n, role)
  /\ UNCHANGED <<tokens, work, changes, revoked>>

CommandDisable(n) ==
  /\ users[n] # NoUser
  /\ WriteRow(n, FALSE)
  /\ work' = IF work.pc = "idle" THEN work
             ELSE [work EXCEPT !.disabled = @ \cup {n}]
  /\ UNCHANGED tokens

Expire(t) ==
  /\ tokens' = tokens \ {t}
  /\ UNCHANGED <<users, nextId, work, changes, revoked>>

(* The service is killed and started again: the tokens stay good.          *)
Restart ==
  /\ work.pc # "idle"
  /\ work' = Idle
  /\ UNCHANGED <<users, nextId, tokens, changes, revoked>>

Next ==
  \/ IssueToken \/ ChangeMyPassword \/ RereadRow \/ Deactivate \/ Delete \/ Finish
  \/ \E n \in Names :
       \/ Login(n) \/ SetPassword(n) \/ Activate(n)
       \/ CheckDeactivate(n) \/ CheckDelete(n) \/ CommandDisable(n)
       \/ \E role \in Roles : CreateUser(n, role) \/ CommandCreate(n, role)
  \/ \E t \in tokens : Authenticate(t) \/ Expire(t)
  \/ Restart

Spec == Init /\ [][Next]_vars

-----------------------------------------------------------------------------
Works ==
  [pc: {"idle", "in", "issue", "reread", "deactivate", "delete"}, caller: Names,
   name: Names, row: Users \cup {NoUser}, disabled: SUBSET Names]

(* Type invariant: the tables, tokens and the handler keep their shape, and *)
(* a handler past its first read has read a row.                           *)
TypeOK ==
  /\ users \in [Names -> Users \cup {NoUser}]
  /\ nextId \in 1..(MaxAccounts + 1)
  /\ tokens \subseteq Tokens
  /\ work \in Works
  /\ work.pc # "idle" => work.row # NoUser /\ users[work.caller] # NoUser
  /\ work.pc \in {"deactivate", "delete"} => users[work.name] # NoUser
  /\ changes \in 0..MaxChanges
  /\ revoked \subseteq Tokens

(* README "cambiar la clave o desactivar al usuario lo revoca al instante": *)
(* a token from before a change of its account is never accepted again,     *)
(* not after the account is activated again, nor once another account has   *)
(* been created under the same name.                                        *)
RevokedStaysRevoked == \A t \in revoked : ~Accepted(t)

(* ... and nothing else closes a session: until it expires, every token no  *)
(* change has overtaken is accepted, the fresh one of change_my_password    *)
(* ("el panel sigue en sesión") included.                                   *)
OthersStayOpen == \A t \in tokens \ revoked : Accepted(t)

(* README "no el último admin": whatever the command line does meanwhile,   *)
(* the service takes the last active admin away only if the command line    *)
(* disabled another one after the handler had counted them.                 *)
ServiceKeepsAnAdmin ==
  [][ActiveAdmins # {} /\ ActiveAdmins' = {} /\ (Deactivate \/ Delete)
       => work.disabled \ {work.name} # {}]_vars

(* The sessions of this module are those of SessionPromise.                 *)
Promise == INSTANCE SessionPromise WITH
  Sessions <- Tokens,
  open <- {t \in tokens : Accepted(t)},
  closed <- revoked

(* What the instance promises of a session, whatever its handlers, the      *)
(* command line and restarts do.                                            *)
KeepsPromise == Promise!Spec
=============================================================================
