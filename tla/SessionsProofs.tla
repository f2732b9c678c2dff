--------------------------- MODULE SessionsProofs ---------------------------
(***************************************************************************)
(* Sessions keeps the promise of SessionPromise for any set of usernames   *)
(* and any number of accounts and changes.                                 *)
(*                                                                         *)
(* What makes it true is that a token can never be ahead of its account:   *)
(* the ids of accounts only grow, and under one id so does the version.    *)
(* The handler being served may hold an old row of its caller, and then    *)
(* the command line has left the account inactive.                         *)
(***************************************************************************)
EXTENDS Sessions, FiniteSetTheorems, TLAPS

(* A token with this id and version is not from the future of the table.   *)
NotAhead(n, id, ver) ==
  /\ id < nextId
  /\ users[n] # NoUser /\ users[n].id = id => ver <= users[n].ver

(* The part of TypeOK about the handler.                                   *)
WorkTyped ==
  /\ work \in Works
  /\ work.pc # "idle" => work.row # NoUser /\ users[work.caller] # NoUser
  /\ work.pc \in {"deactivate", "delete"} => users[work.name] # NoUser

RowsCounted ==
  \A n \in Names : users[n] # NoUser => users[n].id < nextId /\ users[n].ver <= changes

TokensNotAhead == \A t \in tokens \cup revoked : NotAhead(t.sub, t.uid, t.ver)

(* What the handler knows of its caller.                                   *)
CallerKnown ==
  /\ work.pc # "idle" =>
       /\ users[work.caller] # NoUser
       /\ work.row # NoUser
       /\ work.row.id = users[work.caller].id
       /\ work.row.ver <= users[work.caller].ver
  /\ work.pc \in {"in", "issue", "reread"} =>
       (work.caller \in work.disabled <=> ~users[work.caller].active)
  /\ work.pc \in {"in", "issue"} =>
       (work.caller \notin work.disabled => work.row = users[work.caller])

IInv ==
  /\ TypeOK
  /\ RowsCounted
  /\ TokensNotAhead
  /\ CallerKnown
  /\ RevokedStaysRevoked
  /\ OthersStayOpen

-----------------------------------------------------------------------------
(* The columns of a row that is there.                                     *)
LEMMA TypeOfRow ==
  ASSUME TypeOK, NEW n \in Names, users[n] # NoUser
  PROVE  /\ users[n] \in Users
         /\ users[n].id \in Nat
         /\ users[n].ver \in Nat
         /\ users[n].active \in BOOLEAN
  BY DEF TypeOK, Users

(* A write of a row ends every token of the account and no other.          *)
LEMMA WriteKeeps ==
  ASSUME IInv, NEW n \in Names, NEW active \in BOOLEAN, users[n] # NoUser,
         WriteRow(n, active), tokens' = tokens
  PROVE  /\ users'[n] # NoUser
         /\ users' \in [Names -> Users \cup {NoUser}]
         /\ changes' \in 0..MaxChanges
         /\ revoked' \subseteq Tokens
         /\ RowsCounted'
         /\ TokensNotAhead'
         /\ RevokedStaysRevoked'
         /\ OthersStayOpen'
<1> USE BoundsAssumption
<1>1. /\ users[n] \in Users
      /\ users' = [users EXCEPT ![n].active = active, ![n].ver = @ + 1]
      /\ users'[n] = [users[n] EXCEPT !.active = active, !.ver = @ + 1]
      /\ \A k \in Names \ {n} : users'[k] = users[k]
      /\ changes' = changes + 1 /\ changes < MaxChanges
      /\ changes \in 0..MaxChanges
      /\ revoked' = revoked \cup Of(n)
      /\ nextId' = nextId
      /\ users[n].ver <= changes
      /\ users[n].id < nextId
  BY DEF IInv, TypeOK, RowsCounted, WriteRow, CanChange, Revoke
<1>2. /\ users'[n].id = users[n].id
      /\ users'[n].ver = users[n].ver + 1
      /\ users'[n].ver \in 1..MaxChanges
      /\ users'[n].ver <= changes'
      /\ users'[n] \in Users
  <2>1. /\ users[n] = [id |-> users[n].id, role |-> users[n].role,
                      active |-> users[n].active, ver |-> users[n].ver]
        /\ users[n].id \in 1..MaxAccounts
        /\ users[n].role \in Roles
        /\ users[n].ver \in 0..MaxChanges
    BY <1>1 DEF Users
  <2>2. users'[n] = [id |-> users[n].id, role |-> users[n].role,
                     active |-> active, ver |-> users[n].ver + 1]
    BY <1>1, <2>1
  <2>3. users[n].ver + 1 \in 1..MaxChanges /\ users[n].ver + 1 <= changes'
    BY <2>1, <1>1
  <2>4. users[n].ver + 1 \in 0..MaxChanges
    BY <2>3
  <2>5. users'[n] \in Users
    BY <2>1, <2>2, <2>4 DEF Users
  <2> QED
    BY <2>2, <2>3, <2>5
<1>3. users' \in [Names -> Users \cup {NoUser}] /\ changes' \in 0..MaxChanges
  BY <1>1, <1>2 DEF IInv, TypeOK
<1>4. revoked' \subseteq Tokens
  BY <1>1 DEF IInv, TypeOK, Of
<1>5. RowsCounted'
  <2> SUFFICES ASSUME NEW k \in Names, users'[k] # NoUser
               PROVE  users'[k].id < nextId' /\ users'[k].ver <= changes'
    BY DEF RowsCounted
  <2>1. CASE k = n
    BY <2>1, <1>1, <1>2
  <2>2. CASE k # n
    <3>1. /\ users'[k] = users[k]
          /\ users[k].ver \in Nat
          /\ users[k].id < nextId
          /\ users[k].ver <= changes
      BY <2>2, <1>1, TypeOfRow DEF IInv, RowsCounted
    <3> QED
      BY <3>1, <1>1
  <2> QED
    BY <2>1, <2>2
<1>6. \A t \in tokens \cup revoked : /\ t \in Tokens
                                     /\ NotAhead(t.sub, t.uid, t.ver)
  BY DEF IInv, TypeOK, TokensNotAhead
<1>7. revoked' \subseteq tokens \cup revoked
  BY <1>1 DEF Of
<1>8. TokensNotAhead'
  <2> SUFFICES ASSUME NEW t \in tokens \cup revoked
               PROVE  NotAhead(t.sub, t.uid, t.ver)'
    BY <1>7 DEF TokensNotAhead
  <2>1. t \in Tokens /\ NotAhead(t.sub, t.uid, t.ver)
    BY <1>6
  <2>2. CASE t.sub = n
    BY <2>1, <2>2, <1>1, <1>2 DEF NotAhead, Tokens, Users
  <2>3. CASE t.sub # n
    BY <2>1, <2>3, <1>1 DEF NotAhead, Tokens
  <2> QED
    BY <2>2, <2>3
<1>9. RevokedStaysRevoked'
  <2> SUFFICES ASSUME NEW t \in revoked'
               PROVE  ~Accepted(t)'
    BY DEF RevokedStaysRevoked
  <2>1. t \in Tokens /\ NotAhead(t.sub, t.uid, t.ver)
    BY <1>6, <1>7
  <2>2. CASE t.sub = n
    BY <2>1, <2>2, <1>1, <1>2 DEF NotAhead, Tokens, Users, Accepted
  <2>3. CASE t.sub # n
    <3>1. t \in revoked
      BY <2>3, <1>1 DEF Of
    <3>2. ~Accepted(t)
      BY <3>1 DEF IInv, RevokedStaysRevoked
    <3> QED
      BY <3>2, <2>1, <2>3, <1>1 DEF Accepted, Tokens
  <2> QED
    BY <2>2, <2>3
<1>10. OthersStayOpen'
  <2> SUFFICES ASSUME NEW t \in tokens, t \notin revoked'
               PROVE  Accepted(t)'
    BY DEF OthersStayOpen
  <2>1. t \in Tokens /\ t.sub # n /\ t \notin revoked
    BY <1>1, <1>6 DEF Of
  <2>2. Accepted(t)
    BY <2>1 DEF IInv, OthersStayOpen
  <2> QED
    BY <2>1, <2>2, <1>1 DEF Accepted, Tokens
<1>11. users'[n] # NoUser
  BY <1>2, NoUserAssumption
<1> QED
  BY <1>3, <1>4, <1>5, <1>8, <1>9, <1>10, <1>11

(* Deleting an account keeps the table typed and its tokens behind its     *)
(* identifier.                                                             *)
LEMMA DeleteKeeps ==
  ASSUME IInv, NEW n \in Names, users[n] # NoUser, DeleteRow(n), tokens' = tokens
  PROVE  /\ users' \in [Names -> Users \cup {NoUser}]
         /\ changes' \in 0..MaxChanges
         /\ revoked' \subseteq Tokens
         /\ RowsCounted'
         /\ TokensNotAhead'
         /\ RevokedStaysRevoked'
         /\ OthersStayOpen'
<1> USE BoundsAssumption
<1>1. /\ users'[n] = NoUser
      /\ \A k \in Names \ {n} : users'[k] = users[k]
      /\ users' \in [Names -> Users \cup {NoUser}]
      /\ changes' = changes + 1 /\ changes < MaxChanges
      /\ changes \in 0..MaxChanges
      /\ revoked' = revoked \cup Of(n)
      /\ nextId' = nextId
  BY DEF IInv, TypeOK, DeleteRow, CanChange, Revoke
<1>2. revoked' \subseteq Tokens /\ revoked' \subseteq tokens \cup revoked
  BY <1>1 DEF IInv, TypeOK, Of
<1>3. \A t \in tokens \cup revoked : /\ t \in Tokens
                                     /\ NotAhead(t.sub, t.uid, t.ver)
  BY DEF IInv, TypeOK, TokensNotAhead
<1>4. RowsCounted'
  <2> SUFFICES ASSUME NEW k \in Names, users'[k] # NoUser
               PROVE  users'[k].id < nextId' /\ users'[k].ver <= changes'
    BY DEF RowsCounted
  <2>1. /\ users'[k] = users[k]
        /\ users[k].ver \in Nat
        /\ users[k].id < nextId
        /\ users[k].ver <= changes
    BY <1>1, TypeOfRow DEF IInv, RowsCounted
  <2> QED
    BY <2>1, <1>1
<1>5. TokensNotAhead'
  BY <1>1, <1>2, <1>3 DEF TokensNotAhead, NotAhead, Tokens
<1>6. RevokedStaysRevoked'
  <2> SUFFICES ASSUME NEW t \in revoked'
               PROVE  ~Accepted(t)'
    BY DEF RevokedStaysRevoked
  <2>1. t \in Tokens
    BY <1>2
  <2>2. CASE t.sub = n
    BY <2>2, <1>1 DEF Accepted
  <2>3. CASE t.sub # n
    <3>1. ~Accepted(t)
      BY <2>3, <1>1 DEF Of, IInv, RevokedStaysRevoked
    <3> QED
      BY <3>1, <2>1, <2>3, <1>1 DEF Accepted, Tokens
  <2> QED
    BY <2>2, <2>3
<1>7. OthersStayOpen'
  <2> SUFFICES ASSUME NEW t \in tokens, t \notin revoked'
               PROVE  Accepted(t)'
    BY DEF OthersStayOpen
  <2>1. t \in Tokens /\ t.sub # n /\ t \notin revoked
    BY <1>1, <1>3 DEF Of
  <2>2. Accepted(t)
    BY <2>1 DEF IInv, OthersStayOpen
  <2> QED
    BY <2>1, <2>2, <1>1 DEF Accepted, Tokens
<1> QED
  BY <1>1, <1>2, <1>4, <1>5, <1>6, <1>7

(* A new row has an id no token carries, so it brings none back.           *)
LEMMA InsertKeeps ==
  ASSUME IInv, NEW n \in Names, NEW role \in Roles, InsertRow(n, role),
         tokens' = tokens, revoked' = revoked, changes' = changes
  PROVE  /\ users' \in [Names -> Users \cup {NoUser}]
         /\ nextId' \in 1..(MaxAccounts + 1)
         /\ RowsCounted'
         /\ TokensNotAhead'
         /\ RevokedStaysRevoked'
         /\ OthersStayOpen'
<1> USE BoundsAssumption
<1>1. /\ users[n] = NoUser
      /\ nextId \in 1..MaxAccounts
      /\ nextId' = nextId + 1
      /\ changes \in 0..MaxChanges
      /\ users' = [users EXCEPT ![n] = NewUser(nextId, role)]
      /\ users'[n] = NewUser(nextId, role)
      /\ \A k \in Names \ {n} : users'[k] = users[k]
  BY DEF IInv, TypeOK, InsertRow
<1>2. NewUser(nextId, role) \in Users
  BY <1>1 DEF NewUser, Users
<1>3. NewUser(nextId, role).id = nextId /\ NewUser(nextId, role).ver = 0
  BY DEF NewUser
<1>4. users' \in [Names -> Users \cup {NoUser}]
  BY <1>1, <1>2 DEF IInv, TypeOK
<1>5. RowsCounted'
  <2> SUFFICES ASSUME NEW k \in Names, users'[k] # NoUser
               PROVE  users'[k].id < nextId' /\ users'[k].ver <= changes'
    BY DEF RowsCounted
  <2>1. CASE k = n
    BY <2>1, <1>1, <1>3
  <2>2. CASE k # n
    <3>1. /\ users'[k] = users[k]
          /\ users[k].id \in Nat
          /\ users[k].id < nextId
          /\ users[k].ver <= changes
      BY <2>2, <1>1, TypeOfRow DEF IInv, RowsCounted
    <3> QED
      BY <3>1, <1>1
  <2> QED
    BY <2>1, <2>2
<1>6. \A t \in tokens \cup revoked : /\ t \in Tokens
                                     /\ t.sub \in Names
                                     /\ t.uid \in Nat
                                     /\ NotAhead(t.sub, t.uid, t.ver)
  BY DEF IInv, TypeOK, TokensNotAhead, Tokens
<1>7. TokensNotAhead'
  <2> SUFFICES ASSUME NEW t \in tokens \cup revoked
               PROVE  NotAhead(t.sub, t.uid, t.ver)'
    BY DEF TokensNotAhead
  <2>1. CASE t.sub = n
    BY <2>1, <1>6, <1>1, <1>3 DEF NotAhead
  <2>2. CASE t.sub # n
    BY <2>2, <1>6, <1>1 DEF NotAhead
  <2> QED
    BY <2>1, <2>2
<1>8. \A t \in tokens \cup revoked : Accepted(t) <=> Accepted(t)'
  <2> SUFFICES ASSUME NEW t \in tokens \cup revoked
               PROVE  Accepted(t) <=> Accepted(t)'
    OBVIOUS
  <2>1. CASE t.sub = n
    BY <2>1, <1>6, <1>1, <1>3 DEF NotAhead, Accepted
  <2>2. CASE t.sub # n
    BY <2>2, <1>6, <1>1 DEF Accepted
  <2> QED
    BY <2>1, <2>2
<1> QED
  BY <1>1, <1>4, <1>5, <1>7, <1>8 DEF IInv, RevokedStaysRevoked, OthersStayOpen

-----------------------------------------------------------------------------
(* The handler, action by action.                                          *)

(* A handler that ends holds nothing.                                      *)
LEMMA IdleKeeps ==
  ASSUME IInv, work' = Idle
  PROVE  WorkTyped' /\ CallerKnown'
  BY NamesAssumption DEF Idle, WorkTyped, CallerKnown, Works

(* current_user and login read the caller's row.                           *)
LEMMA ServingKeeps ==
  ASSUME IInv, NEW n \in Names, NEW pc \in {"in", "issue"},
         users[n] # NoUser, users[n].active,
         work' = Serving(pc, n), users' = users
  PROVE  WorkTyped' /\ CallerKnown'
<1>1. /\ work' = [pc |-> pc, caller |-> n, name |-> n, row |-> users[n], disabled |-> {}]
      /\ users[n] \in Users
      /\ users[n].ver \in Nat
      /\ work'.pc = pc /\ work'.caller = n /\ work'.row = users[n] /\ work'.disabled = {}
  BY TypeOfRow DEF Serving, IInv
<1>2. work' \in Works
  BY <1>1 DEF Works
<1>3. WorkTyped'
  BY <1>1, <1>2 DEF WorkTyped
<1>4. CallerKnown'
  BY <1>1 DEF CallerKnown
<1> QED
  BY <1>3, <1>4

(* login reads the row again, as it is now.                                *)
LEMMA RereadKeeps ==
  ASSUME IInv, RereadRow
  PROVE  WorkTyped' /\ CallerKnown'
<1>1. /\ work \in Works
      /\ work.pc = "reread"
      /\ work' = [work EXCEPT !.pc = "issue", !.row = users[work.caller]]
      /\ users' = users
      /\ work.caller \in Names
      /\ users[work.caller] # NoUser
      /\ work.caller \in work.disabled <=> ~users[work.caller].active
  BY DEF IInv, TypeOK, CallerKnown, RereadRow, Works
<1>2. users[work.caller] \in Users /\ users[work.caller].ver \in Nat
  BY <1>1, TypeOfRow DEF IInv
<1>3. /\ work'.pc = "issue"
      /\ work'.row = users[work.caller]
      /\ work'.caller = work.caller
      /\ work'.disabled = work.disabled
      /\ work' \in Works
  BY <1>1, <1>2 DEF Works
<1>4. WorkTyped'
  BY <1>1, <1>3 DEF WorkTyped
<1>5. CallerKnown'
  BY <1>1, <1>2, <1>3 DEF CallerKnown
<1> QED
  BY <1>4, <1>5

(* The count of admins, before an account is deactivated or deleted.       *)
LEMMA CheckKeeps ==
  ASSUME IInv, NEW n \in Names, CheckDeactivate(n) \/ CheckDelete(n)
  PROVE  WorkTyped' /\ CallerKnown'
<1>1. /\ work \in Works
      /\ work.pc = "in"
      /\ users[n] # NoUser
      /\ users' = users
      /\ users[work.caller] # NoUser
      /\ work.row # NoUser
      /\ work.row.id = users[work.caller].id
      /\ work.row.ver <= users[work.caller].ver
  BY DEF IInv, TypeOK, CallerKnown, CheckDeactivate, CheckDelete, AsAdmin
<1>2. PICK pc \in {"deactivate", "delete"} :
        work' = [work EXCEPT !.pc = pc, !.name = n, !.disabled = {}]
  BY DEF CheckDeactivate, CheckDelete
<1>3. /\ work'.pc = pc
      /\ work'.name = n
      /\ work'.row = work.row
      /\ work'.caller = work.caller
      /\ work' \in Works
  BY <1>1, <1>2 DEF Works
<1>4. WorkTyped'
  BY <1>1, <1>3 DEF WorkTyped
<1>5. CallerKnown'
  BY <1>1, <1>3 DEF CallerKnown
<1> QED
  BY <1>4, <1>5

(* An account changes its own password.                                    *)
LEMMA ChangeKeeps ==
  ASSUME IInv, ChangeMyPassword
  PROVE  WorkTyped' /\ CallerKnown'
<1> DEFINE c == work.caller
<1>1. /\ work \in Works
      /\ work.pc = "in"
      /\ work.row # NoUser
      /\ c \in Names
      /\ users[c] # NoUser
      /\ work.row.id = users[c].id
      /\ work.row.ver <= users[c].ver
      /\ c \in work.disabled <=> ~users[c].active
      /\ work' = [work EXCEPT !.pc = "reread"]
      /\ users' = [users EXCEPT ![c].active = users[c].active, ![c].ver = @ + 1]
  BY DEF IInv, TypeOK, CallerKnown, ChangeMyPassword, WriteRow, Works
<1>2. /\ users[c] \in Users
      /\ users[c].ver \in Nat
      /\ users[c].active \in BOOLEAN
      /\ work.row \in Users
      /\ work.row.ver \in Nat
  BY <1>1, TypeOfRow DEF IInv, Users, Works
<1>3. users'[c] = [users[c] EXCEPT !.active = users[c].active, !.ver = @ + 1]
  BY <1>1 DEF IInv, TypeOK
<1>4. /\ users'[c].id = users[c].id
      /\ users'[c].ver = users[c].ver + 1
      /\ users'[c].active = users[c].active
  BY <1>2, <1>3 DEF Users
<1>5. users'[c] # NoUser
  <2>1. WriteRow(c, users[c].active) /\ tokens' = tokens
    BY DEF ChangeMyPassword
  <2> QED
    BY <2>1, <1>1, <1>2, WriteKeeps
<1>6. /\ work'.pc = "reread"
      /\ work'.row = work.row
      /\ work'.caller = c
      /\ work'.disabled = work.disabled
      /\ work' \in Works
  BY <1>1 DEF Works
<1>7. WorkTyped'
  BY <1>1, <1>5, <1>6 DEF WorkTyped
<1>8. CallerKnown'
  BY <1>1, <1>2, <1>4, <1>5, <1>6 DEF CallerKnown
<1> QED
  BY <1>7, <1>8

(* The command line only makes the caller's account inactive.              *)
LEMMA DisableKeeps ==
  ASSUME IInv, NEW n \in Names, CommandDisable(n)
  PROVE  WorkTyped' /\ CallerKnown'
<1> DEFINE c == work.caller
<1>1. /\ work \in Works
      /\ c \in Names
      /\ users[n] # NoUser
      /\ WriteRow(n, FALSE)
      /\ tokens' = tokens
      /\ users' = [users EXCEPT ![n].active = FALSE, ![n].ver = @ + 1]
      /\ \A k \in Names \ {n} : users'[k] = users[k]
      /\ users'[n] = [users[n] EXCEPT !.active = FALSE, !.ver = @ + 1]
  BY DEF IInv, TypeOK, CommandDisable, WriteRow, Works
<1>2. /\ users[n] \in Users
      /\ users[n].ver \in Nat
      /\ users'[n] # NoUser
  BY <1>1, TypeOfRow, WriteKeeps DEF IInv
<1>3. /\ users'[n].id = users[n].id
      /\ users'[n].ver = users[n].ver + 1
      /\ ~users'[n].active
  BY <1>1, <1>2 DEF Users
<1>4. CASE work.pc = "idle"
  <2>1. work' = work
    BY <1>4 DEF CommandDisable
  <2> QED
    BY <2>1, <1>1, <1>4 DEF WorkTyped, CallerKnown
<1>5. CASE work.pc # "idle"
  <2>1. /\ work'.pc = work.pc
        /\ work'.row = work.row
        /\ work'.caller = c
        /\ work'.name = work.name
        /\ work'.disabled = work.disabled \cup {n}
        /\ work' \in Works
    BY <1>1, <1>5 DEF CommandDisable, Works
  <2>2. /\ users[c] # NoUser
        /\ work.row # NoUser
        /\ work.row.id = users[c].id
        /\ work.row.ver <= users[c].ver
        /\ work.row.ver \in Nat
        /\ users[c].ver \in Nat
        /\ work.name \in Names
        /\ work.pc \in {"deactivate", "delete"} => users[work.name] # NoUser
    BY <1>1, <1>5, TypeOfRow DEF IInv, TypeOK, CallerKnown, Works, Users
  <2>3. WorkTyped'
    BY <1>1, <1>2, <2>1, <2>2 DEF WorkTyped
  <2>4. CallerKnown'
    <3>1. CASE c = n
      BY <3>1, <1>2, <1>3, <2>1, <2>2 DEF CallerKnown
    <3>2. CASE c # n
      <4>1. users'[c] = users[c]
        BY <3>2, <1>1
      <4>2. CallerKnown
        BY DEF IInv
      <4> QED
        BY <3>2, <4>1, <4>2, <2>1, <2>2 DEF CallerKnown
    <3> QED
      BY <3>1, <3>2
  <2> QED
    BY <2>3, <2>4
<1> QED
  BY <1>4, <1>5

(* The command line creates an account while a handler is under way.       *)
LEMMA CommandCreateKeeps ==
  ASSUME IInv, NEW n \in Names, NEW role \in Roles, CommandCreate(n, role)
  PROVE  WorkTyped' /\ CallerKnown'
<1>1. /\ work' = work
      /\ work \in Works
      /\ work.caller \in Names /\ work.name \in Names
      /\ users[n] = NoUser
      /\ \A k \in Names \ {n} : users'[k] = users[k]
  BY DEF IInv, TypeOK, CommandCreate, InsertRow, Works
<1>2. /\ work.pc # "idle" => work.caller # n
      /\ work.pc \in {"deactivate", "delete"} => work.name # n
  BY <1>1 DEF IInv, TypeOK
<1>3. WorkTyped'
  BY <1>1, <1>2 DEF WorkTyped, IInv, TypeOK
<1>4. CallerKnown'
  <2>1. CASE work.pc = "idle"
    BY <2>1, <1>1 DEF CallerKnown
  <2>2. CASE work.pc # "idle"
    <3>1. users'[work.caller] = users[work.caller]
      BY <2>2, <1>1, <1>2
    <3>2. CallerKnown
      BY DEF IInv
    <3> QED
      BY <3>1, <3>2, <1>1 DEF CallerKnown
  <2> QED
    BY <2>1, <2>2
<1> QED
  BY <1>3, <1>4

(* The token of a row read before the command line disabled the account    *)
(* is not accepted; any other one is.                                      *)
LEMMA IssueKeeps ==
  ASSUME IInv, IssueToken
  PROVE  /\ tokens' \subseteq Tokens
         /\ revoked' \subseteq Tokens
         /\ TokensNotAhead'
         /\ RevokedStaysRevoked'
         /\ OthersStayOpen'
<1> USE BoundsAssumption
<1> DEFINE c == work.caller
           t == TokenOf(c, work.row)
<1>1. /\ c \in Names
      /\ users[c] # NoUser
      /\ work.row # NoUser
      /\ work.row \in Users
      /\ work.row.id = users[c].id
      /\ work.row.ver <= users[c].ver
      /\ c \in work.disabled <=> ~users[c].active
      /\ c \notin work.disabled => work.row = users[c]
      /\ UNCHANGED <<users, nextId>>
      /\ tokens' = tokens \cup {t}
      /\ revoked' = IF c \in work.disabled THEN revoked \cup {t} ELSE revoked
  BY DEF IInv, TypeOK, CallerKnown, IssueToken, Works
<1>2. /\ t.sub = c
      /\ t.uid = users[c].id
      /\ t.ver = work.row.ver
      /\ t \in Tokens
  BY <1>1 DEF TokenOf, Tokens, Users
<1>3. NotAhead(t.sub, t.uid, t.ver)
  BY <1>1, <1>2 DEF NotAhead, IInv, RowsCounted
<1>4. Accepted(t) <=> c \notin work.disabled
  BY <1>1, <1>2 DEF Accepted
<1> HIDE DEF t
<1>5. \A k \in tokens' \cup revoked' : k = t \/ k \in tokens \cup revoked
  BY <1>1
<1>6. TokensNotAhead'
  <2> SUFFICES ASSUME NEW k \in tokens' \cup revoked'
               PROVE  NotAhead(k.sub, k.uid, k.ver)'
    BY DEF TokensNotAhead
  <2>1. NotAhead(k.sub, k.uid, k.ver)
    BY <1>3, <1>5 DEF IInv, TokensNotAhead
  <2> QED
    BY <2>1, <1>1 DEF NotAhead
<1>7. \A k : Accepted(k)' <=> Accepted(k)
  BY <1>1 DEF Accepted
<1>8. RevokedStaysRevoked'
  BY <1>1, <1>4, <1>7 DEF IInv, RevokedStaysRevoked
<1>9. OthersStayOpen'
  BY <1>1, <1>4, <1>7 DEF IInv, OthersStayOpen
<1>10. tokens' \subseteq Tokens /\ revoked' \subseteq Tokens
  BY <1>1, <1>2 DEF IInv, TypeOK
<1> QED
  BY <1>6, <1>8, <1>9, <1>10

-----------------------------------------------------------------------------
(* The invariant holds of the installation as it starts.                   *)
LEMMA InitInvariant == Init => IInv
<1> SUFFICES ASSUME Init PROVE IInv
  OBVIOUS
<1> USE NamesAssumption, BoundsAssumption
<1>1. NewUser(1, "admin") \in Users
  BY DEF NewUser, Users, Roles
<1>2. TypeOK
  BY <1>1 DEF Init, TypeOK, Idle, Works
<1>3. RowsCounted
  BY DEF Init, RowsCounted, NewUser
<1>4. TokensNotAhead /\ RevokedStaysRevoked /\ OthersStayOpen
  BY DEF Init, TokensNotAhead, RevokedStaysRevoked, OthersStayOpen
<1>5. CallerKnown
  BY DEF Init, Idle, CallerKnown
<1> QED
  BY <1>2, <1>3, <1>4, <1>5 DEF IInv

(* A step that leaves the tables and the tokens as they are.               *)
LEMMA QuietKeeps ==
  ASSUME IInv, UNCHANGED <<users, nextId, tokens, changes, revoked>>,
         WorkTyped', CallerKnown'
  PROVE  IInv'
<1>1. TypeOK'
  BY DEF IInv, TypeOK, WorkTyped
<1>2. RowsCounted'
  BY DEF IInv, RowsCounted
<1>3. TokensNotAhead'
  BY DEF IInv, TokensNotAhead, NotAhead
<1>4. RevokedStaysRevoked' /\ OthersStayOpen'
  BY DEF IInv, RevokedStaysRevoked, OthersStayOpen, Accepted
<1> QED
  BY <1>1, <1>2, <1>3, <1>4 DEF IInv

(* A step that writes one row keeps the invariant.                         *)
LEMMA RowWritten ==
  ASSUME IInv, NEW n \in Names, NEW active \in BOOLEAN, users[n] # NoUser,
         WriteRow(n, active), tokens' = tokens, WorkTyped', CallerKnown'
  PROVE  IInv'
<1>1. nextId' = nextId
  BY DEF WriteRow
<1>2. TypeOK'
  BY <1>1, WriteKeeps DEF IInv, TypeOK, WorkTyped
<1> QED
  BY <1>2, WriteKeeps DEF IInv

(* A step that inserts one row keeps the invariant.                        *)
LEMMA RowInserted ==
  ASSUME IInv, NEW n \in Names, NEW role \in Roles, InsertRow(n, role),
         UNCHANGED <<tokens, changes, revoked>>, WorkTyped', CallerKnown'
  PROVE  IInv'
<1>1. TypeOK'
  BY InsertKeeps DEF IInv, TypeOK, WorkTyped
<1> QED
  BY <1>1, InsertKeeps DEF IInv

(* The invariant is inductive.                                             *)
LEMMA NextInvariant == IInv /\ [Next]_vars => IInv'
<1> SUFFICES ASSUME IInv, [Next]_vars PROVE IInv'
  OBVIOUS
<1>1. CASE UNCHANGED vars
  <2>1. UNCHANGED <<users, nextId, tokens, changes, revoked>> /\ work' = work
    BY <1>1 DEF vars
  <2>2. WorkTyped' /\ CallerKnown'
    BY <2>1 DEF IInv, TypeOK, WorkTyped, CallerKnown
  <2> QED
    BY <2>1, <2>2, QuietKeeps
<1>2. CASE IssueToken
  <2>1. UNCHANGED <<users, nextId, changes>> /\ work' = Idle
    BY <1>2 DEF IssueToken
  <2>2. WorkTyped' /\ CallerKnown'
    BY <2>1, IdleKeeps
  <2>3. TypeOK'
    BY <1>2, <2>1, <2>2, IssueKeeps DEF IInv, TypeOK, WorkTyped
  <2>4. RowsCounted'
    BY <2>1 DEF IInv, RowsCounted
  <2> QED
    BY <1>2, <2>2, <2>3, <2>4, IssueKeeps DEF IInv
<1>3. CASE ChangeMyPassword
  <2>1. /\ work.caller \in Names
        /\ users[work.caller] # NoUser
        /\ WriteRow(work.caller, users[work.caller].active)
        /\ tokens' = tokens
    BY <1>3 DEF ChangeMyPassword, IInv, TypeOK, Works
  <2>2. users[work.caller].active \in BOOLEAN
    BY <2>1, TypeOfRow DEF IInv
  <2> QED
    BY <1>3, <2>1, <2>2, ChangeKeeps, RowWritten
<1>4. CASE RereadRow
  BY <1>4, RereadKeeps, QuietKeeps DEF RereadRow
<1>5. CASE Deactivate
  <2>1. /\ work.name \in Names
        /\ users[work.name] # NoUser
        /\ WriteRow(work.name, FALSE)
        /\ tokens' = tokens
        /\ work' = Idle
    BY <1>5 DEF Deactivate, IInv, TypeOK, Works
  <2> QED
    BY <2>1, IdleKeeps, RowWritten
<1>6. CASE Delete
  <2>1. /\ work.name \in Names
        /\ users[work.name] # NoUser
        /\ DeleteRow(work.name)
        /\ tokens' = tokens
        /\ nextId' = nextId
        /\ work' = Idle
    BY <1>6 DEF Delete, DeleteRow, IInv, TypeOK, Works
  <2>2. WorkTyped' /\ CallerKnown'
    BY <2>1, IdleKeeps
  <2>3. TypeOK'
    BY <2>1, <2>2, DeleteKeeps DEF IInv, TypeOK, WorkTyped
  <2> QED
    BY <2>1, <2>2, <2>3, DeleteKeeps DEF IInv
<1>7. CASE Finish \/ Restart
  BY <1>7, IdleKeeps, QuietKeeps DEF Finish, Restart
<1>8. ASSUME NEW n \in Names, Login(n)
      PROVE  IInv'
  <2>1. work' = Serving("issue", n) /\ users' = users /\ users[n] # NoUser /\ users[n].active
    BY <1>8 DEF Login
  <2> QED
    BY <1>8, <2>1, ServingKeeps, QuietKeeps DEF Login
<1>9. ASSUME NEW n \in Names, SetPassword(n)
      PROVE  IInv'
  <2>1. users[n] # NoUser /\ WriteRow(n, users[n].active) /\ tokens' = tokens /\ work' = Idle
    BY <1>9 DEF SetPassword
  <2>2. users[n].active \in BOOLEAN
    BY <2>1, TypeOfRow DEF IInv
  <2> QED
    BY <2>1, <2>2, IdleKeeps, RowWritten
<1>10. ASSUME NEW n \in Names, Activate(n)
       PROVE  IInv'
  <2>1. users[n] # NoUser /\ WriteRow(n, TRUE) /\ tokens' = tokens /\ work' = Idle
    BY <1>10 DEF Activate
  <2> QED
    BY <2>1, IdleKeeps, RowWritten
<1>11. ASSUME NEW n \in Names, CheckDeactivate(n) \/ CheckDelete(n)
       PROVE  IInv'
  BY <1>11, CheckKeeps, QuietKeeps DEF CheckDeactivate, CheckDelete
<1>12. ASSUME NEW n \in Names, CommandDisable(n)
       PROVE  IInv'
  <2>1. users[n] # NoUser /\ WriteRow(n, FALSE) /\ tokens' = tokens
    BY <1>12 DEF CommandDisable
  <2> QED
    BY <1>12, <2>1, DisableKeeps, RowWritten
<1>13. ASSUME NEW n \in Names, NEW role \in Roles, CreateUser(n, role)
       PROVE  IInv'
  BY <1>13, IdleKeeps, RowInserted DEF CreateUser
<1>14. ASSUME NEW n \in Names, NEW role \in Roles, CommandCreate(n, role)
       PROVE  IInv'
  BY <1>14, CommandCreateKeeps, RowInserted DEF CommandCreate
<1>15. ASSUME NEW t \in tokens, Authenticate(t)
       PROVE  IInv'
  <2>1. /\ work' = Serving("in", t.sub)
        /\ users' = users
        /\ t.sub \in Names
        /\ users[t.sub] # NoUser
        /\ users[t.sub].active
    BY <1>15 DEF Authenticate, Accepted, IInv, TypeOK, Tokens
  <2> QED
    BY <1>15, <2>1, ServingKeeps, QuietKeeps DEF Authenticate
<1>16. ASSUME NEW t \in tokens, Expire(t)
       PROVE  IInv'
  <2>1. /\ tokens' \subseteq tokens
        /\ UNCHANGED <<users, nextId, work, changes, revoked>>
    BY <1>16 DEF Expire
  <2>2. TypeOK'
    BY <2>1 DEF IInv, TypeOK
  <2>3. RowsCounted' /\ CallerKnown'
    BY <2>1 DEF IInv, RowsCounted, CallerKnown
  <2>4. TokensNotAhead'
    BY <2>1 DEF IInv, TokensNotAhead, NotAhead
  <2>5. RevokedStaysRevoked' /\ OthersStayOpen'
    BY <2>1 DEF IInv, RevokedStaysRevoked, OthersStayOpen, Accepted
  <2> QED
    BY <2>2, <2>3, <2>4, <2>5 DEF IInv
<1> QED
  BY <1>1, <1>2, <1>3, <1>4, <1>5, <1>6, <1>7, <1>8, <1>9, <1>10, <1>11, <1>12,
     <1>13, <1>14, <1>15, <1>16 DEF Next

(* The tables, the tokens and the handler agree in every state (auth.py,    *)
(* deps.py and db.py together), whatever manage.py does meanwhile.          *)
THEOREM Invariant == Spec => []IInv
  BY InitInvariant, NextInvariant, PTL DEF Spec

(* Every variable keeps its type.                                           *)
THEOREM TypeCorrect == Spec => []TypeOK
<1>1. IInv => TypeOK
  BY DEF IInv
<1> QED
  BY <1>1, Invariant, PTL

(* A token a change of its account has ended is never accepted again, for   *)
(* any number of deletions and creations under the same name (deps.py).     *)
THEOREM Revocation == Spec => []RevokedStaysRevoked
<1>1. IInv => RevokedStaysRevoked
  BY DEF IInv
<1> QED
  BY <1>1, Invariant, PTL

(* A session no change has overtaken stays open until it expires (deps.py). *)
THEOREM NoOtherClosed == Spec => []OthersStayOpen
<1>1. IInv => OthersStayOpen
  BY DEF IInv
<1> QED
  BY <1>1, Invariant, PTL

-----------------------------------------------------------------------------
(* Between a handler's count and its write, either another admin is still   *)
(* active or the command line has disabled one.                             *)
AnotherAdmin ==
  work.pc \in {"deactivate", "delete"} /\ users[work.name] # NoUser
    /\ users[work.name].role = "admin" =>
      ActiveAdmins \ {work.name} # {} \/ work.disabled \ {work.name} # {}

(* More than one active admin is one besides any given account.            *)
LEMMA CountedMeansAnother ==
  ASSUME NEW n \in Names, Cardinality(ActiveAdmins) > 1
  PROVE  ActiveAdmins \ {n} # {}
<1> SUFFICES ASSUME ActiveAdmins \subseteq {n} PROVE FALSE
  OBVIOUS
<1>1. IsFiniteSet({n}) /\ Cardinality({n}) = 1
  BY FS_Singleton
<1>2. Cardinality(ActiveAdmins) <= 1 /\ Cardinality(ActiveAdmins) \in Nat
  BY <1>1, FS_Subset, FS_CardinalityType
<1> QED
  BY <1>2

(* Every step keeps the other admin that the handler has counted.          *)
LEMMA AnotherKept ==
  ASSUME IInv, AnotherAdmin, [Next]_vars
  PROVE  AnotherAdmin'
<1> SUFFICES ASSUME work'.pc \in {"deactivate", "delete"}, users'[work'.name] # NoUser,
                    users'[work'.name].role = "admin"
             PROVE  \/ (ActiveAdmins \ {work.name} # {})'
                    \/ (work.disabled \ {work.name} # {})'
  BY DEF AnotherAdmin
<1>1. CASE UNCHANGED <<users, work>>
  BY <1>1 DEF AnotherAdmin, ActiveAdmins
<1>2. ASSUME NEW n \in Names, CheckDeactivate(n) \/ CheckDelete(n)
      PROVE  (ActiveAdmins \ {work.name} # {})'
  <2>1. users' = users /\ work'.name = n /\ NotLastAdmin(n)
    BY <1>2 DEF CheckDeactivate, CheckDelete, IInv, TypeOK, Works
  <2>2. ActiveAdmins \ {n} # {}
    BY <2>1, CountedMeansAnother DEF NotLastAdmin
  <2> QED
    BY <2>1, <2>2 DEF ActiveAdmins
<1>3. ASSUME NEW n \in Names, CommandDisable(n)
      PROVE  \/ (ActiveAdmins \ {work.name} # {})'
             \/ (work.disabled \ {work.name} # {})'
  <2>1. work.pc # "idle"
    BY <1>3 DEF CommandDisable
  <2>2. /\ work'.name = work.name
        /\ work'.pc = work.pc
        /\ work'.disabled = work.disabled \cup {n}
        /\ work.name \in Names
    BY <1>3, <2>1 DEF CommandDisable, IInv, TypeOK, Works
  <2>3. /\ users[n] \in Users
        /\ users'[n] = [users[n] EXCEPT !.active = FALSE, !.ver = @ + 1]
        /\ \A k \in Names \ {n} : users'[k] = users[k]
    BY <1>3, TypeOfRow DEF CommandDisable, WriteRow, IInv, TypeOK
  <2>4. CASE n # work.name
    BY <2>4, <2>2
  <2>5. CASE n = work.name
    <3>1. users[n].role = "admin" /\ users[n] # NoUser
      BY <2>2, <2>3, <2>5, NoUserAssumption DEF Users
    <3>2. ActiveAdmins \ {n} # {} \/ work.disabled \ {n} # {}
      BY <3>1, <2>2, <2>5 DEF AnotherAdmin
    <3>3. ActiveAdmins \ {n} \subseteq ActiveAdmins'
      BY <2>3 DEF ActiveAdmins
    <3> QED
      BY <3>2, <3>3, <2>2, <2>5
  <2> QED
    BY <2>4, <2>5
<1>4. ASSUME NEW n \in Names, NEW role \in Roles, CommandCreate(n, role)
      PROVE  \/ (ActiveAdmins \ {work.name} # {})'
             \/ (work.disabled \ {work.name} # {})'
  <2>1. /\ work' = work
        /\ users[n] = NoUser
        /\ \A k \in Names \ {n} : users'[k] = users[k]
        /\ work.name \in Names
        /\ users[work.name] # NoUser
    BY <1>4 DEF CommandCreate, InsertRow, IInv, TypeOK, Works
  <2>2. ActiveAdmins \subseteq ActiveAdmins'
    BY <2>1 DEF ActiveAdmins
  <2> QED
    BY <2>1, <2>2 DEF AnotherAdmin
<1>5. CASE IssueToken \/ ChangeMyPassword \/ RereadRow \/ Deactivate \/ Delete \/ Finish \/ Restart
  <2>1. Idle.pc = "idle"
    BY DEF Idle
  <2>2. CASE IssueToken \/ Deactivate \/ Delete \/ Finish \/ Restart
    BY <2>1, <2>2 DEF IssueToken, Deactivate, Delete, Finish, Restart
  <2>3. CASE ChangeMyPassword
    BY <2>3 DEF ChangeMyPassword, IInv, TypeOK, Works
  <2>4. CASE RereadRow
    BY <2>4 DEF RereadRow, IInv, TypeOK, Works
  <2> QED
    BY <1>5, <2>2, <2>3, <2>4
<1>6. ASSUME NEW n \in Names, Login(n) \/ SetPassword(n) \/ Activate(n)
      PROVE  FALSE
  <2>1. CASE Login(n)
    BY <2>1 DEF Login, Serving
  <2>2. CASE SetPassword(n) \/ Activate(n)
    <3>1. work' = Idle
      BY <2>2 DEF SetPassword, Activate
    <3> QED
      BY <3>1 DEF Idle
  <2> QED
    BY <1>6, <2>1, <2>2
<1>7. ASSUME NEW n \in Names, NEW role \in Roles, CreateUser(n, role)
      PROVE  FALSE
  BY <1>7 DEF CreateUser, Idle
<1>8. ASSUME NEW t \in tokens, Authenticate(t)
      PROVE  FALSE
  BY <1>8 DEF Authenticate, Serving
<1>9. ASSUME NEW t \in tokens, Expire(t)
       PROVE  UNCHANGED <<users, work>>
  BY <1>9 DEF Expire
<1> QED
  BY <1>1, <1>2, <1>3, <1>4, <1>5, <1>6, <1>7, <1>8, <1>9 DEF Next, vars

(* Whatever manage.py does meanwhile, a handler of auth.py takes the last   *)
(* active admin away only when manage.py disabled another one after the     *)
(* handler had counted them.                                                *)
THEOREM AnAdminIsKept == Spec => ServiceKeepsAnAdmin
<1>1. Init => AnotherAdmin
  BY DEF Init, Idle, AnotherAdmin
<1>2. ASSUME IInv, AnotherAdmin, ActiveAdmins # {}, ActiveAdmins' = {}, Deactivate \/ Delete
      PROVE  work.disabled \ {work.name} # {}
  <2>1. /\ work.name \in Names
        /\ users[work.name] # NoUser
        /\ \A k \in Names \ {work.name} : users'[k] = users[k]
        /\ work.pc \in {"deactivate", "delete"}
    BY <1>2 DEF Deactivate, Delete, WriteRow, DeleteRow, IInv, TypeOK, Works
  <2>2. ActiveAdmins \ {work.name} = {}
    BY <1>2, <2>1 DEF ActiveAdmins
  <2>3. work.name \in ActiveAdmins
    BY <1>2, <2>2
  <2> QED
    BY <1>2, <2>1, <2>2, <2>3 DEF AnotherAdmin, ActiveAdmins
<1>3. IInv /\ AnotherAdmin =>
        [ActiveAdmins # {} /\ ActiveAdmins' = {} /\ (Deactivate \/ Delete)
           => work.disabled \ {work.name} # {}]_vars
  BY <1>2
<1> QED
  BY <1>1, <1>3, Invariant, AnotherKept, PTL DEF Spec, ServiceKeepsAnAdmin

-----------------------------------------------------------------------------
(* Sessions implements SessionPromise: the open sessions are the tokens no  *)
(* change has ended.                                                        *)
OpenTokens == {t \in tokens : Accepted(t)}

(* The sessions that are open are those no change has revoked.             *)
LEMMA OpenAreUnrevoked == IInv => OpenTokens = tokens \ revoked
  BY DEF IInv, RevokedStaysRevoked, OthersStayOpen, OpenTokens

(* Every step is one of the promise, or a stutter of it.                   *)
LEMMA StepKeepsPromise ==
  ASSUME IInv, IInv', [Next]_vars
  PROVE  [Promise!Next]_(Promise!promise)
<1>1. OpenTokens = tokens \ revoked /\ OpenTokens' = tokens' \ revoked'
  <2>1. OpenTokens = tokens \ revoked
    BY OpenAreUnrevoked
  <2>2. OpenTokens' = tokens' \ revoked'
    BY DEF IInv, RevokedStaysRevoked, OthersStayOpen, OpenTokens
  <2> QED
    BY <2>1, <2>2
<1>2. ASSUME tokens' = tokens, revoked' = revoked
      PROVE  UNCHANGED Promise!promise
  BY <1>1, <1>2 DEF Promise!promise, OpenTokens
<1>3. ASSUME NEW n \in Names, tokens' = tokens, revoked' = revoked \cup Of(n)
      PROVE  Promise!Next
  <2>1. Promise!Of(n) = Of(n) \ revoked
    BY <1>1 DEF Promise!Of, Of, OpenTokens
  <2>2. /\ OpenTokens' = OpenTokens \ Promise!Of(n)
        /\ revoked' = revoked \cup Promise!Of(n)
    BY <1>1, <1>3, <2>1 DEF Of
  <2>3. Promise!Close(n)
    BY <2>2 DEF Promise!Close, OpenTokens
  <2> QED
    BY <2>3 DEF Promise!Next
<1>4. CASE IssueToken
  <2> DEFINE t == TokenOf(work.caller, work.row)
  <2>1. /\ tokens' = tokens \cup {t}
        /\ revoked' = IF work.caller \in work.disabled THEN revoked \cup {t} ELSE revoked
        /\ t \in Tokens
        /\ Accepted(t) <=> work.caller \notin work.disabled
    <3>1. /\ tokens' = tokens \cup {t}
          /\ revoked' = IF work.caller \in work.disabled THEN revoked \cup {t} ELSE revoked
      BY <1>4 DEF IssueToken
    <3>2. t \in Tokens
      BY <3>1 DEF IInv, TypeOK
    <3>3. /\ work.caller \in work.disabled <=> ~users[work.caller].active
          /\ work.caller \notin work.disabled => work.row = users[work.caller]
          /\ users[work.caller] # NoUser
      BY <1>4 DEF IssueToken, IInv, CallerKnown
    <3>4. Accepted(t) <=> work.caller \notin work.disabled
      BY <3>3 DEF Accepted, TokenOf
    <3> QED
      BY <3>1, <3>2, <3>4
  <2> HIDE DEF t
  <2>2. CASE work.caller \in work.disabled
    <3>1. t \notin OpenTokens /\ OpenTokens' = OpenTokens /\ revoked' = revoked \cup {t}
      BY <1>1, <2>1, <2>2 DEF OpenTokens
    <3>2. Promise!OpenTooLate(t)
      BY <3>1 DEF Promise!OpenTooLate, OpenTokens
    <3> QED
      BY <3>2, <2>1 DEF Promise!Next
  <2>3. CASE work.caller \notin work.disabled
    <3>1. t \notin revoked
      BY <2>1, <2>3 DEF IInv, RevokedStaysRevoked
    <3>2. OpenTokens' = OpenTokens \cup {t} /\ revoked' = revoked
      BY <1>1, <2>1, <2>3, <3>1
    <3>3. Promise!Open(t)
      BY <3>1, <3>2 DEF Promise!Open, OpenTokens
    <3> QED
      BY <3>3, <2>1 DEF Promise!Next
  <2> QED
    BY <2>2, <2>3
<1>5. ASSUME NEW t \in tokens, Expire(t)
      PROVE  Promise!Next
  <2>1. t \in Tokens
    BY DEF IInv, TypeOK
  <2>2. OpenTokens' = OpenTokens \ {t} /\ revoked' = revoked
    BY <1>1, <1>5 DEF Expire
  <2>3. Promise!Expire(t)
    BY <2>2 DEF Promise!Expire, OpenTokens
  <2> QED
    BY <2>1, <2>3 DEF Promise!Next
<1>6. CASE ChangeMyPassword \/ Deactivate \/ Delete
  <2>1. PICK n \in Names : tokens' = tokens /\ revoked' = revoked \cup Of(n)
    BY <1>6 DEF ChangeMyPassword, Deactivate, Delete, WriteRow, DeleteRow, Revoke,
                IInv, TypeOK, Works
  <2> QED
    BY <2>1, <1>3
<1>7. ASSUME NEW n \in Names, SetPassword(n) \/ Activate(n) \/ CommandDisable(n)
      PROVE  Promise!Next
  <2>1. tokens' = tokens /\ revoked' = revoked \cup Of(n)
    BY <1>7 DEF SetPassword, Activate, CommandDisable, WriteRow, Revoke
  <2> QED
    BY <2>1, <1>3
<1>8. CASE UNCHANGED vars \/ RereadRow \/ Finish \/ Restart
  <2>1. tokens' = tokens /\ revoked' = revoked
    BY <1>8 DEF vars, RereadRow, Finish, Restart
  <2> QED
    BY <2>1, <1>2
<1>9. ASSUME NEW n \in Names, Login(n) \/ CheckDeactivate(n) \/ CheckDelete(n)
      PROVE  UNCHANGED Promise!promise
  BY <1>9, <1>2 DEF Login, CheckDeactivate, CheckDelete
<1>10. ASSUME NEW n \in Names, NEW role \in Roles, CreateUser(n, role) \/ CommandCreate(n, role)
       PROVE  UNCHANGED Promise!promise
  BY <1>10, <1>2 DEF CreateUser, CommandCreate
<1>11. ASSUME NEW t \in tokens, Authenticate(t)
       PROVE  UNCHANGED Promise!promise
  BY <1>11, <1>2 DEF Authenticate
<1> QED
  BY <1>4, <1>5, <1>6, <1>7, <1>8, <1>9, <1>10, <1>11 DEF Next

(* The instance keeps what it promises of sessions: every step of the       *)
(* handlers, of manage.py and of time is a step of SessionPromise or none.  *)
THEOREM PromiseKept == Spec => KeepsPromise
<1>1. Init => Promise!Init
  BY DEF Init, Promise!Init
<1>2. IInv /\ IInv' /\ [Next]_vars => [Promise!Next]_(Promise!promise)
  BY StepKeepsPromise
<1> QED
  BY <1>1, <1>2, Invariant, PTL DEF Spec, KeepsPromise, Promise!Spec
=============================================================================
