----------------------------- MODULE RateLimit -----------------------------
(***************************************************************************)
(* The limit on failed logins: app/ratelimit.py and its use by login in    *)
(* app/routers/auth.py.                                                    *)
(*                                                                         *)
(* login awaits nothing, so an attempt is one action.  The clock is        *)
(* time.monotonic(): it counts in units finer than the seconds the windows *)
(* and Retry-After are in.  A queue that is empty and a key that is not in *)
(* the dictionary are the same: no branch of the code tells them apart.    *)
(***************************************************************************)
EXTENDS Naturals, Sequences, FiniteSets

CONSTANTS
  Ips,         \* client addresses
  Names,       \* usernames as typed
  Lower,       \* what str.lower makes of each
  IpWindow,    \* IP_WINDOW, in seconds
  UserWindow,  \* USER_WINDOW, in seconds
  MaxIp,       \* login_max_fails_ip
  MaxUser,     \* login_max_fails_user
  Second,      \* clock units in a second
  MaxTime,     \* bound: the clock
  MaxTries     \* bound: attempts that verify a password

ASSUME NamesAssumption ==
  /\ Lower \in [Names -> Names]
  /\ \A n \in Names : Lower[Lower[n]] = Lower[n]
ASSUME LimitsAssumption ==
  /\ IpWindow \in Nat \ {0} /\ UserWindow \in Nat \ {0}
  /\ MaxIp \in Nat \ {0} /\ MaxUser \in Nat \ {0}
  /\ Second \in Nat \ {0}
ASSUME BoundsAssumption ==
  /\ MaxTime \in Nat
  /\ MaxTries \in Nat

VARIABLES
  now,      \* time.monotonic()
  byIp,     \* _by_ip: times of the failures of each address, oldest first
  byUser,   \* _by_user, by username in lower case
  tries,    \* passwords verified so far (bound)
  failed,   \* history: every failure, in order
  cleared   \* history: how many of them came before the account's last login

vars == <<now, byIp, byUser, tries, failed, cleared>>

-----------------------------------------------------------------------------
(* _prune at time t: failures leave from the left, the oldest first, until *)
(* one of them is not too old.                                             *)
Dropped(q, window, t) ==
  CHOOSE k \in 0..Len(q) :
    /\ \A j \in 1..k : t - q[j] > window * Second
    /\ k < Len(q) => t - q[k + 1] <= window * Second
Pruned(q, window, t) == SubSeq(q, Dropped(q, window, t) + 1, Len(q))

(* A limit reached one failure too late.                                   *)
ReachedLate(q, limit) == Len(q) > limit

Reached(q, limit) == Len(q) >= limit

(* A wait that ends while the oldest failure is still in its window.       *)
WaitTooShort(q, window, limit, t) ==
  LET p == Pruned(q, window, t)
  IN  IF Reached(p, limit) THEN (window * Second - (t - Head(p))) \div Second ELSE 0

(* Seconds one queue asks for: int() drops the fraction, then one more.    *)
Wait(q, window, limit, t) ==
  LET p == Pruned(q, window, t)
  IN  IF Reached(p, limit) THEN (window * Second - (t - Head(p))) \div Second + 1 ELSE 0

Larger(a, b) == IF a >= b THEN a ELSE b

(* retry_after, asked at time t.                                           *)
RetryAfter(ip, name, t) ==
  Larger(Wait(byIp[ip], IpWindow, MaxIp, t),
         Wait(byUser[Lower[name]], UserWindow, MaxUser, t))

(* The queues as retry_after leaves them.                                  *)
PrunedIps(ip) == [byIp EXCEPT ![ip] = Pruned(@, IpWindow, now)]
PrunedUsers(name) == [byUser EXCEPT ![Lower[name]] = Pruned(@, UserWindow, now)]

Verifies ==
  /\ tries < MaxTries
  /\ tries' = tries + 1

Init ==
  /\ now = 0
  /\ byIp = [ip \in Ips |-> <<>>]
  /\ byUser = [n \in Names |-> <<>>]
  /\ tries = 0
  /\ failed = <<>>
  /\ cleared = [n \in Names |-> 0]

(* 429: neither the account nor the password is looked at.                 *)
Blocked(ip, name) ==
  /\ RetryAfter(ip, name, now) # 0
  /\ byIp' = PrunedIps(ip)
  /\ byUser' = PrunedUsers(name)
  /\ UNCHANGED <<now, tries, failed, cleared>>

(* A failure counted under the username as it was typed.                   *)
FailAsTyped(ip, name) ==
  /\ RetryAfter(ip, name, now) = 0
  /\ Verifies
  /\ byIp' = [PrunedIps(ip) EXCEPT ![ip] = Append(@, now)]
  /\ byUser' = [PrunedUsers(name) EXCEPT ![name] = Append(@, now)]
  /\ failed' = Append(failed, [ip |-> ip, account |-> Lower[name], at |-> now])
  /\ UNCHANGED <<now, cleared>>

(* 401: no such account, or not its password.                              *)
Fail(ip, name) ==
  /\ RetryAfter(ip, name, now) = 0
  /\ Verifies
  /\ byIp' = [PrunedIps(ip) EXCEPT ![ip] = Append(@, now)]
  /\ byUser' = [PrunedUsers(name) EXCEPT ![Lower[name]] = Append(@, now)]
  /\ failed' = Append(failed, [ip |-> ip, account |-> Lower[name], at |-> now])
  /\ UNCHANGED <<now, cleared>>

(* A login that also forgives the address.                                 *)
SucceedForgivingIp(ip, name) ==
  /\ RetryAfter(ip, name, now) = 0
  /\ Verifies
  /\ byIp' = [byIp EXCEPT ![ip] = <<>>]
  /\ byUser' = [byUser EXCEPT ![Lower[name]] = <<>>]
  /\ cleared' = [cleared EXCEPT ![Lower[name]] = Len(failed)]
  /\ UNCHANGED <<now, failed>>

(* 200: record_success clears the account, not the address.                *)
Succeed(ip, name) ==
  /\ RetryAfter(ip, name, now) = 0
  /\ Verifies
  /\ byIp' = PrunedIps(ip)
  /\ byUser' = [byUser EXCEPT ![Lower[name]] = <<>>]
  /\ cleared' = [cleared EXCEPT ![Lower[name]] = Len(failed)]
  /\ UNCHANGED <<now, failed>>

(* 403: the password of a disabled account counts for nothing.             *)
Inactive(ip, name) ==
  /\ RetryAfter(ip, name, now) = 0
  /\ Verifies
  /\ byIp' = PrunedIps(ip)
  /\ byUser' = PrunedUsers(name)
  /\ UNCHANGED <<now, failed, cleared>>

Tick ==
  /\ now < MaxTime
  /\ now' = now + 1
  /\ UNCHANGED <<byIp, byUser, tries, failed, cleared>>

(* The queues are in memory: a restart forgets every failure.              *)
Restart ==
  /\ failed # <<>>
  /\ byIp' = [ip \in Ips |-> <<>>]
  /\ byUser' = [n \in Names |-> <<>>]
  /\ failed' = <<>>
  /\ cleared' = [n \in Names |-> 0]
  /\ UNCHANGED <<now, tries>>

Next ==
  \/ \E ip \in Ips, name \in Names :
       Blocked(ip, name) \/ Fail(ip, name) \/ Succeed(ip, name) \/ Inactive(ip, name)
  \/ Tick
  \/ Restart

Spec == Init /\ [][Next]_vars

-----------------------------------------------------------------------------
(* Type invariant: times in the past, and no queue longer than its limit.  *)
TypeOK ==
  /\ now \in 0..MaxTime
  /\ byIp \in [Ips -> Seq(0..now)]
  /\ \A ip \in Ips : Len(byIp[ip]) <= MaxIp
  /\ byUser \in [Names -> Seq(0..now)]
  /\ \A n \in Names : Len(byUser[n]) <= MaxUser
  /\ tries \in 0..MaxTries
  /\ failed \in Seq([ip: Ips, account: Names, at: 0..now])
  /\ cleared \in [Names -> 0..MaxTries]

Recent(i, window) == now - failed[i].at <= window * Second

(* "para que entrar con una cuenta propia no sirva para resetear el        *)
(* contador de la IP": within any window an address has at most MaxIp      *)
(* passwords refused, whatever logins succeed in between.                  *)
IpBudget ==
  \A ip \in Ips :
    Cardinality({i \in DOMAIN failed : failed[i].ip = ip /\ Recent(i, IpWindow)}) <= MaxIp

(* "por usuario (frena ataques distribuidos contra una cuenta)": within    *)
(* any window an account has at most MaxUser passwords refused since its   *)
(* last login, from any addresses and however its name is capitalised.     *)
AccountBudget ==
  \A n \in Names :
    Cardinality({i \in DOMAIN failed : /\ failed[i].account = n
                                       /\ i > cleared[n]
                                       /\ Recent(i, UserWindow)}) <= MaxUser

(* "Espera {wait} s.": a client that waits as long as Retry-After says,    *)
(* and nobody else fails meanwhile, is let in; a second less is not enough.*)
RetryAfterExact ==
  \A ip \in Ips, name \in Names :
    LET wait == RetryAfter(ip, name, now)
    IN  wait # 0 => /\ RetryAfter(ip, name, now + wait * Second) = 0
                    /\ RetryAfter(ip, name, now + (wait - 1) * Second) # 0
=============================================================================
