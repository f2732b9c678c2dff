--------------------------- MODULE SessionPromise ---------------------------
(***************************************************************************)
(* What the instance promises of a session (README, "Sesiones revocables"; *)
(* the comments of app/deps.py and app/db.py): a session is open from its  *)
(* login until it expires or the credentials of its account change, a      *)
(* change closes every open session of the account at once, and a closed   *)
(* session never opens again.                                              *)
(***************************************************************************)
CONSTANTS
  Names,     \* usernames
  Sessions   \* every session there can be; `sub` is its account

VARIABLES
  open,     \* the sessions a request may be made with
  closed    \* those a change of credentials has ended

promise == <<open, closed>>

Of(n) == {s \in open : s.sub = n}

Init ==
  /\ open = {}
  /\ closed = {}

Open(s) ==
  /\ s \notin closed
  /\ open' = open \cup {s}
  /\ UNCHANGED closed

(* A login that a change of its account has overtaken.                     *)
OpenTooLate(s) ==
  /\ s \notin open
  /\ closed' = closed \cup {s}
  /\ UNCHANGED open

Close(n) ==
  /\ open' = open \ Of(n)
  /\ closed' = closed \cup Of(n)

Expire(s) ==
  /\ open' = open \ {s}
  /\ UNCHANGED closed

Next ==
  \/ \E n \in Names : Close(n)
  \/ \E s \in Sessions : Open(s) \/ OpenTooLate(s) \/ Expire(s)

Spec == Init /\ [][Next]_promise
=============================================================================
