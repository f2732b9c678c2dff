---------------------------- MODULE AutoRestore ----------------------------
(***************************************************************************)
(* The configuration backup of one CPE and the loop that puts it back      *)
(* (app/routers/backup.py, the writes of app/routers/config.py and         *)
(* app/routers/devices.py that feed it, the device_config table of         *)
(* app/db.py).                                                             *)
(*                                                                         *)
(* One process runs everything on one event loop and SQLite is called      *)
(* synchronously, so the code between two awaits is one action; an action  *)
(* ends where the code awaits the ACS.  The loop reads the rows of the     *)
(* whole fleet once per cycle, so any time may pass between the list and   *)
(* the turn of this device.                                                *)
(*                                                                         *)
(* A timestamp is kept as what the code can learn from it.  last_attempt   *)
(* is only ever compared with _lastInform: it is "null", "unanswered" (the *)
(* device has not informed since) or "answered".  suspended_until is only  *)
(* compared with the clock: "null", "future" or "past".                    *)
(***************************************************************************)
EXTENDS Naturals, FiniteSets

CONSTANTS
  Paths,        \* parameter paths of the device
  ConfigPaths,  \* those a snapshot takes (CONFIG_KEYS)
  WriteOnly,    \* those the device answers with "" (writeonly_paths)
  Stubborn,     \* those whose written value the device does not keep
  Values,       \* values a parameter can have
  Factory,      \* the value every parameter has after a factory reset
  Absent,       \* no value: a path missing from a document or a JSON object
  Blank,        \* the empty string a write-only parameter reads as
  NoConfig,     \* device_config.config IS NULL, or there is no row
  Requests,     \* HTTP requests being served
  Ops,          \* what the users of the instance do
  MaxAttempts,  \* settings.autorestore_max_attempts
  MaxOps,       \* bound: user operations and factory resets
  MaxFaults     \* bound: failed NBI calls, lost replies and restarts

ASSUME PathsAssumption ==
  /\ ConfigPaths \subseteq Paths
  /\ WriteOnly \subseteq ConfigPaths
  /\ Stubborn \subseteq Paths
ASSUME ValuesAssumption ==
  /\ Factory \in Values
  /\ Absent \notin Values
  /\ Blank \notin Values
  /\ Absent # Blank
ASSUME NoConfigAssumption == NoConfig \notin [Paths -> Values \cup {Absent}]
ASSUME BoundsAssumption ==
  /\ MaxAttempts \in Nat \ {0}
  /\ MaxOps \in Nat
  /\ MaxFaults \in Nat

VARIABLES
  row,      \* the device's row of device_config
  loop,     \* the enforcement loop: where it awaits, and what it read before
  req,      \* per request: where it awaits, and what it carries
  acs,      \* the ACS: its cached document, the tasks it holds, how many of
            \* them are the loop's, and (history) whether one of those slipped
            \* past the loop's records
  cpe,      \* the real values of the device
  ops,      \* operations so far (bound)
  faults,   \* faults so far (bound)
  issued,   \* history: restore tasks accepted since the count was last reset
  off,      \* history: restore tasks accepted since auto-restore was disabled
  wanted    \* history: the last change merged into the backup, per path

vars == <<row, loop, req, acs, cpe, ops, faults, issued, off, wanted>>

-----------------------------------------------------------------------------
Configs == [Paths -> Values \cup {Absent}]
Documents == [Paths -> Values \cup {Absent, Blank}]
Nothing == [p \in Paths |-> Absent]

Attempt == {"null", "unanswered", "answered"}
Pause == {"null", "future", "past"}

NewRow == [config |-> NoConfig, autorestore |-> FALSE, attempts |-> 0,
           last_attempt |-> "null", suspended_until |-> "null", last_error |-> "null"]

IdleLoop == [pc |-> "idle", row |-> NewRow, now |-> "null", drift |-> Nothing]
IdleRequest == [at |-> "idle", vals |-> Nothing]

(* What `f` becomes when the values of `g` are written over it.            *)
Overlay(f, g) == [p \in Paths |-> IF g[p] = Absent THEN f[p] ELSE g[p]]

(* How the device answers a read of its parameters.                        *)
Reported(values) == [p \in Paths |-> IF p \in WriteOnly THEN Blank ELSE values[p]]

(* list_autorestore: autorestore=1 AND config IS NOT NULL.                 *)
Monitored(r) == r.autorestore /\ r.config # NoConfig

(* set_autorestore_state: the columns of the retry policy, nothing else.   *)
RetryState(r, attempts, last_attempt, suspended_until, last_error) ==
  [r EXCEPT !.attempts = attempts, !.last_attempt = last_attempt,
            !.suspended_until = suspended_until, !.last_error = last_error]

(* set_autorestore: the switch; last_attempt survives it.                  *)
Switched(r, enabled) ==
  [r EXCEPT !.autorestore = enabled, !.attempts = 0,
            !.suspended_until = "null", !.last_error = "null"]

(* merge_device_config: only where there is a backup or a switch set.      *)
Merged(r, vals) ==
  IF r.config = NoConfig /\ ~r.autorestore THEN r
  ELSE [r EXCEPT !.config =
          Overlay(IF r.config = NoConfig THEN Nothing ELSE r.config, vals)]

(* A _snapshot that forgets what cannot be read back.                      *)
SnapshotOfDocumentOnly(r, doc) ==
  [p \in Paths |->
     IF p \in ConfigPaths /\ doc[p] \notin {Absent, Blank} THEN doc[p] ELSE Absent]

(* _snapshot, once the document has come: the write-only values of the     *)
(* backup as it is NOW are carried over, then what the document tells.     *)
Snapshot(r, doc) ==
  [p \in Paths |->
     IF p \in ConfigPaths /\ doc[p] \notin {Absent, Blank} THEN doc[p]
     ELSE IF p \in WriteOnly /\ r.config # NoConfig THEN r.config[p]
     ELSE Absent]

(* The parameters of `config` whose cached value is another one; a path    *)
(* the document does not have is not compared.                             *)
Drift(config, doc) ==
  [p \in Paths |->
     IF config[p] # Absent /\ doc[p] # Absent /\ doc[p] # config[p]
       THEN config[p] ELSE Absent]

(* What a passing inform, and passing time, do to the stored timestamps.   *)
Answered(t) == IF t = "unanswered" THEN "answered" ELSE t
Expired(t) == IF t = "future" THEN "past" ELSE t

-----------------------------------------------------------------------------
Init ==
  /\ row = NewRow
  /\ loop = IdleLoop
  /\ req = [r \in Requests |-> IdleRequest]
  /\ cpe = [p \in Paths |-> Factory]
  /\ acs \in [cache: {Nothing, Reported(cpe)}, pending: {Nothing}, restores: {0}, slipped: {FALSE}]
  /\ ops = 0
  /\ faults = 0
  /\ issued = 0
  /\ off = 0
  /\ wanted = Nothing

-----------------------------------------------------------------------------
(* A task joins the ones the ACS holds; they run in the order they came,   *)
(* so what they will leave behind is one configuration.                    *)
Enqueue(vals, restores, slipped) ==
  acs' = [cache |-> acs.cache, pending |-> Overlay(acs.pending, vals),
          restores |-> acs.restores + restores, slipped |-> slipped]

(* The pass ends without recording the attempt it may just have made.      *)
AttemptLost ==
  acs' = [acs EXCEPT !.slipped = @ \/ (loop.pc = "recording" /\ acs.restores > 0)]

(* The enforcement loop.                                                   *)

(* A list that forgets the switch.                                         *)
ListAnyBackup ==
  /\ loop.pc = "idle"
  /\ row.config # NoConfig
  /\ loop' = [IdleLoop EXCEPT !.pc = "listed", !.row = row]
  /\ UNCHANGED <<row, req, acs, cpe, ops, faults, issued, off, wanted>>

(* enforce_once: the rows are read once, before any of them is worked on.  *)
ListRows ==
  /\ loop.pc = "idle"
  /\ Monitored(row)
  /\ loop' = [IdleLoop EXCEPT !.pc = "listed", !.row = row]
  /\ UNCHANGED <<row, req, acs, cpe, ops, faults, issued, off, wanted>>

(* A pause that no clock ends.                                             *)
SkipEverSuspended ==
  /\ loop.pc = "listed"
  /\ loop.row.suspended_until # "null"
  /\ loop' = IdleLoop
  /\ UNCHANGED <<row, req, acs, cpe, ops, faults, issued, off, wanted>>

(* enforce_device up to its first await: `now`, and the pause.             *)
SkipSuspended ==
  /\ loop.pc = "listed"
  /\ loop.row.suspended_until = "future"
  /\ loop' = IdleLoop
  /\ UNCHANGED <<row, req, acs, cpe, ops, faults, issued, off, wanted>>

AskDevice ==
  /\ loop.pc = "listed"
  /\ loop.row.suspended_until # "future"
  /\ loop' = [loop EXCEPT !.pc = "reading", !.now = "unanswered"]
  /\ UNCHANGED <<row, req, acs, cpe, ops, faults, issued, off, wanted>>

(* The document has come: the device has not informed since last_attempt.  *)
WaitForInform ==
  /\ loop.pc = "reading"
  /\ loop.row.last_attempt = "unanswered"
  /\ loop' = IdleLoop
  /\ UNCHANGED <<row, req, acs, cpe, ops, faults, issued, off, wanted>>

FoundDrift == Drift(loop.row.config, acs.cache)

MayJudge ==
  /\ loop.pc = "reading"
  /\ loop.row.last_attempt # "unanswered"

(* No drift: the count starts again, unless there is nothing to clear.     *)
InSync ==
  /\ MayJudge
  /\ FoundDrift = Nothing
  /\ IF \/ loop.row.attempts # 0
        \/ loop.row.suspended_until # "null"
        \/ loop.row.last_attempt # "null"
       THEN /\ row' = RetryState(row, 0, "null", "null", "null")
            /\ issued' = 0
       ELSE UNCHANGED <<row, issued>>
  /\ loop' = IdleLoop
  /\ UNCHANGED <<req, acs, cpe, ops, faults, off, wanted>>

(* Drift after MaxAttempts attempts: pause, and start counting again.      *)
Suspend ==
  /\ MayJudge
  /\ FoundDrift # Nothing
  /\ loop.row.attempts >= MaxAttempts
  /\ row' = RetryState(row, 0, "null", "future", "reason")
  /\ issued' = 0
  /\ loop' = IdleLoop
  /\ UNCHANGED <<req, acs, cpe, ops, faults, off, wanted>>

(* One attempt too many.                                                   *)
SendRestoreOnceMore ==
  /\ MayJudge
  /\ FoundDrift # Nothing
  /\ loop.row.attempts <= MaxAttempts
  /\ loop' = [loop EXCEPT !.pc = "sending", !.drift = FoundDrift]
  /\ UNCHANGED <<row, req, acs, cpe, ops, faults, issued, off, wanted>>

(* Drift: the task is sent, without a connection request.                  *)
SendRestore ==
  /\ MayJudge
  /\ FoundDrift # Nothing
  /\ loop.row.attempts < MaxAttempts
  /\ loop' = [loop EXCEPT !.pc = "sending", !.drift = FoundDrift]
  /\ UNCHANGED <<row, req, acs, cpe, ops, faults, issued, off, wanted>>

(* The ACS accepts it; the reply is on its way.  The attempt will be       *)
(* recorded with the time the pass began, so it slips through if the       *)
(* device has informed since.                                              *)
AcceptRestore ==
  /\ loop.pc = "sending"
  /\ Enqueue(loop.drift, 1, acs.slipped \/ loop.now # "unanswered")
  /\ loop' = [loop EXCEPT !.pc = "recording"]
  /\ issued' = issued + 1
  /\ off' = IF row.autorestore THEN off ELSE off + 1
  /\ UNCHANGED <<row, req, cpe, ops, faults, wanted>>

(* The count without the time.                                             *)
RecordCountOnly ==
  /\ loop.pc = "recording"
  /\ row' = RetryState(row, loop.row.attempts + 1, loop.row.last_attempt, "null", "null")
  /\ loop' = IdleLoop
  /\ UNCHANGED <<req, acs, cpe, ops, faults, issued, off, wanted>>

RecordAttempt ==
  /\ loop.pc = "recording"
  /\ row' = RetryState(row, loop.row.attempts + 1, loop.now, "null", "null")
  /\ loop' = IdleLoop
  /\ UNCHANGED <<req, acs, cpe, ops, faults, issued, off, wanted>>

(* A failure that starts the count again.                                  *)
PassFailsAndResets ==
  /\ loop.pc \in {"reading", "sending", "recording"}
  /\ faults < MaxFaults
  /\ faults' = faults + 1
  /\ row' = RetryState(row, 0, loop.row.last_attempt, loop.row.suspended_until, "reason")
  /\ loop' = IdleLoop
  /\ AttemptLost
  /\ UNCHANGED <<req, cpe, ops, issued, off, wanted>>

(* Any of the calls raises: enforce_once writes back the row it had read.  *)
PassFails ==
  /\ loop.pc \in {"reading", "sending", "recording"}
  /\ faults < MaxFaults
  /\ faults' = faults + 1
  /\ row' = RetryState(row, loop.row.attempts, loop.row.last_attempt,
                       loop.row.suspended_until, "reason")
  /\ loop' = IdleLoop
  /\ AttemptLost
  /\ UNCHANGED <<req, cpe, ops, issued, off, wanted>>

(* The ACS does not know the device (any more).                            *)
DeviceUnknown ==
  /\ loop.pc = "reading"
  /\ faults < MaxFaults
  /\ faults' = faults + 1
  /\ loop' = IdleLoop
  /\ UNCHANGED <<row, req, acs, cpe, ops, issued, off, wanted>>

-----------------------------------------------------------------------------
(* The requests.                                                           *)

Begin(r, op) ==
  /\ req[r].at = "idle"
  /\ op \in Ops
  /\ ops < MaxOps
  /\ ops' = ops + 1

(* set_param, set_wifi and the like: the ACS has taken the task.  Whether  *)
(* it runs now (200) or waits (202) is whether Inform comes before the     *)
(* reply.                                                                  *)
SendChange(r, p, v) ==
  /\ Begin(r, "apply")
  /\ Enqueue([Nothing EXCEPT ![p] = v], 0, acs.slipped)
  /\ req' = [req EXCEPT ![r] = [at |-> "apply", vals |-> [Nothing EXCEPT ![p] = v]]]
  /\ UNCHANGED <<row, loop, cpe, faults, issued, off, wanted>>

(* ... its reply comes, and the change is merged into the backup.          *)
MergeChange(r) ==
  /\ req[r].at = "apply"
  /\ row' = Merged(row, req[r].vals)
  /\ wanted' = IF row'.config = NoConfig THEN wanted ELSE Overlay(wanted, req[r].vals)
  /\ req' = [req EXCEPT ![r] = IdleRequest]
  /\ UNCHANGED <<loop, acs, cpe, ops, faults, issued, off>>

(* ... or the call raises although the ACS has taken the task.             *)
ChangeFails(r) ==
  /\ req[r].at = "apply"
  /\ faults < MaxFaults
  /\ faults' = faults + 1
  /\ req' = [req EXCEPT ![r] = IdleRequest]
  /\ UNCHANGED <<row, loop, acs, cpe, ops, issued, off, wanted>>

(* set_ipv6_config: a change of parameters no backup takes, and which is   *)
(* not merged into it.                                                     *)
SendUnmerged(r, p, v) ==
  /\ Begin(r, "ipv6")
  /\ p \notin ConfigPaths
  /\ Enqueue([Nothing EXCEPT ![p] = v], 0, acs.slipped)
  /\ UNCHANGED <<row, loop, req, cpe, faults, issued, off, wanted>>

(* make_backup: ask for fresh values, which may or may not come.           *)
AskFresh(r) ==
  /\ Begin(r, "backup")
  /\ req' = [req EXCEPT ![r] = [at |-> "backup", vals |-> Nothing]]
  /\ UNCHANGED <<row, loop, acs, cpe, faults, issued, off, wanted>>

(* The ACS answers _snapshot's query, for a backup or for a switch.        *)
ReadDocument(r) ==
  \E op \in {"backup", "enable"} :
    /\ req[r].at = op
    /\ req' = [req EXCEPT ![r] = [at |-> IF op = "backup" THEN "save" ELSE "enabled",
                                  vals |-> acs.cache]]
    /\ UNCHANGED <<row, loop, acs, cpe, ops, faults, issued, off, wanted>>

SaveBackup(r) ==
  /\ req[r].at = "save"
  /\ row' = [row EXCEPT !.config = Snapshot(row, req[r].vals)]
  /\ req' = [req EXCEPT ![r] = IdleRequest]
  /\ UNCHANGED <<loop, acs, cpe, ops, faults, issued, off, wanted>>

(* restore_now: the backup is read, then sent.                             *)
ReadBackup(r) ==
  /\ row.config # NoConfig
  /\ Begin(r, "restore")
  /\ req' = [req EXCEPT ![r] = [at |-> "restore", vals |-> row.config]]
  /\ UNCHANGED <<row, loop, acs, cpe, faults, issued, off, wanted>>

SendBackup(r) ==
  /\ req[r].at = "restore"
  /\ Enqueue(req[r].vals, 0, acs.slipped)
  /\ req' = [req EXCEPT ![r] = IdleRequest]
  /\ UNCHANGED <<row, loop, cpe, ops, faults, issued, off, wanted>>

(* toggle_autorestore, when no snapshot is needed.                         *)
Toggle(r, enabled) ==
  /\ enabled => row.config # NoConfig
  /\ Begin(r, "toggle")
  /\ row' = Switched(row, enabled)
  /\ issued' = 0
  /\ off' = 0
  /\ UNCHANGED <<loop, req, acs, cpe, faults, wanted>>

(* ... and when it is: it awaits the document first.                       *)
EnableWithoutBackup(r) ==
  /\ row.config = NoConfig
  /\ Begin(r, "toggle")
  /\ req' = [req EXCEPT ![r] = [at |-> "enable", vals |-> Nothing]]
  /\ UNCHANGED <<row, loop, acs, cpe, faults, issued, off, wanted>>

SaveAndEnable(r) ==
  /\ req[r].at = "enabled"
  /\ row' = Switched([row EXCEPT !.config = Snapshot(row, req[r].vals)], TRUE)
  /\ issued' = 0
  /\ off' = 0
  /\ req' = [req EXCEPT ![r] = IdleRequest]
  /\ UNCHANGED <<loop, acs, cpe, ops, faults, wanted>>

-----------------------------------------------------------------------------
(* The device, the clock and the service manager.                          *)

(* The device informs: the session runs every task the ACS holds, and the  *)
(* ACS refreshes its copy of the parameters or only notes what it wrote.   *)
Inform(refreshed) ==
  /\ cpe' = [p \in Paths |-> IF p \in Stubborn THEN cpe[p]
                             ELSE Overlay(cpe, acs.pending)[p]]
  /\ acs' = [cache |-> IF refreshed THEN Reported(cpe') ELSE Overlay(acs.cache, acs.pending),
             pending |-> Nothing, restores |-> 0, slipped |-> FALSE]
  /\ row' = [row EXCEPT !.last_attempt = Answered(@)]
  /\ loop' = [loop EXCEPT !.row.last_attempt = Answered(@), !.now = Answered(@)]
  /\ UNCHANGED <<req, ops, faults, issued, off, wanted>>

FactoryReset ==
  /\ "reset" \in Ops
  /\ ops < MaxOps
  /\ ops' = ops + 1
  /\ cpe' = [p \in Paths |-> Factory]
  /\ UNCHANGED <<row, loop, req, acs, faults, issued, off, wanted>>

(* autorestore_suspend_hours pass.                                         *)
PauseEnds ==
  /\ "future" \in {row.suspended_until, loop.row.suspended_until}
  /\ row' = [row EXCEPT !.suspended_until = Expired(@)]
  /\ loop' = [loop EXCEPT !.row.suspended_until = Expired(@)]
  /\ UNCHANGED <<req, acs, cpe, ops, faults, issued, off, wanted>>

(* The service stops and systemd starts it again: only the row survives.   *)
Restart ==
  /\ faults < MaxFaults
  /\ faults' = faults + 1
  /\ loop' = IdleLoop
  /\ req' = [r \in Requests |-> IdleRequest]
  /\ AttemptLost
  /\ UNCHANGED <<row, cpe, ops, issued, off, wanted>>

-----------------------------------------------------------------------------
LoopStep ==
  \/ ListRows \/ SkipSuspended \/ AskDevice \/ WaitForInform \/ InSync
  \/ Suspend \/ SendRestore \/ AcceptRestore \/ RecordAttempt

RequestStep(r) ==
  \/ MergeChange(r) \/ ReadDocument(r) \/ SaveBackup(r) \/ SendBackup(r)
  \/ SaveAndEnable(r)

UserStep(r) ==
  \/ \E p \in Paths, v \in Values : SendChange(r, p, v) \/ SendUnmerged(r, p, v)
  \/ AskFresh(r)
  \/ ReadBackup(r)
  \/ \E enabled \in BOOLEAN : Toggle(r, enabled)
  \/ EnableWithoutBackup(r)
  \/ ChangeFails(r)

Next ==
  \/ LoopStep
  \/ PassFails
  \/ DeviceUnknown
  \/ \E r \in Requests : RequestStep(r) \/ UserStep(r)
  \/ \E refreshed \in BOOLEAN : Inform(refreshed)
  \/ FactoryReset
  \/ PauseEnds
  \/ Restart

Spec == Init /\ [][Next]_vars

(* The loop runs for as long as the service does, a request that was       *)
(* accepted is answered, the clock advances, and a device keeps informing  *)
(* with its provision reading the parameters again.  Nothing obliges the   *)
(* users, and faults are bounded.                                          *)
FairSpec ==
  /\ Spec
  /\ WF_vars(LoopStep)
  /\ \A r \in Requests : WF_vars(RequestStep(r))
  /\ WF_vars(Inform(TRUE))
  /\ WF_vars(PauseEnds)

-----------------------------------------------------------------------------
Rows ==
  [config: Configs \cup {NoConfig}, autorestore: BOOLEAN, attempts: 0..MaxAttempts,
   last_attempt: Attempt, suspended_until: Pause, last_error: {"null", "reason"}]

Passes ==
  [pc: {"idle", "listed", "reading", "sending", "recording"},
   row: Rows, now: Attempt, drift: Configs]

Stages == {"idle", "apply", "backup", "save", "restore", "enable", "enabled"}

(* Type invariant: every variable keeps its shape, and `attempts` never    *)
(* exceeds the configured maximum, whichever stale row the loop writes.    *)
TypeOK ==
  /\ row \in Rows
  /\ loop \in Passes
  /\ req \in [Requests -> [at: Stages, vals: Documents]]
  /\ \A r \in Requests : req[r].at \notin {"save", "enabled"} => req[r].vals \in Configs
  /\ acs \in [cache: Documents, pending: Configs, restores: Nat, slipped: BOOLEAN]
  /\ cpe \in [Paths -> Values]
  /\ ops \in 0..MaxOps
  /\ faults \in 0..MaxFaults
  /\ issued \in Nat
  /\ off \in Nat
  /\ wanted \in Configs

-----------------------------------------------------------------------------
(* README "tras 3 intentos ... pausa": since the count was last started    *)
(* (pause, recovery or switch), the loop has had at most MaxAttempts       *)
(* restore tasks accepted, plus one for each fault that kept it from       *)
(* recording an attempt, wherever restarts, failures and switches fall.    *)
RetriesBounded == issued <= MaxAttempts + faults

(* Switching auto-restore off stops the loop: at most the task of the pass *)
(* that was under way is still sent.                                       *)
OffStopsTheLoop == ~row.autorestore => off <= 1

(* "no encola otra tarea hasta que el equipo haya reportado": the loop     *)
(* adds a task to one of its own that the device has not run yet in two    *)
(* ways only, and the code has both: the pass that sent the earlier one    *)
(* was overtaken by a session, so that its attempt, dated when the pass    *)
(* began, reads as answered; or that attempt was never recorded, the       *)
(* reply or the service having been lost after the ACS took the task.      *)
SecondTaskOnlyByRace ==
  [][acs'.restores > acs.restores /\ acs.restores > 0 => acs.slipped]_vars

(* CHANGELOG 1.3.0 on write-only passwords: once the backup holds one, no  *)
(* backup taken from the device loses it, even when it was merged while    *)
(* that backup was waiting for the ACS.                                    *)
WriteOnlyKept ==
  [][\A p \in WriteOnly :
       row.config # NoConfig /\ row.config[p] # Absent =>
         row'.config # NoConfig /\ row'.config[p] # Absent]_vars

(* Whatever the order of changes, resets, pauses, failures and restarts,   *)
(* a device with auto-restore on ends up with the values of its backup, in *)
(* every parameter it is able to keep.                                     *)
Restored ==
  Monitored(row) =>
    \A p \in Paths \ Stubborn : row.config[p] # Absent => cpe[p] = row.config[p]
Converges == <>[]Restored

(* What the repository says and the code does not keep.                    *)

(* README: the backup "se fusiona con cada cambio aplicado (nunca queda    *)
(* viejo)": it holds the last change merged into it.                       *)
BackupNeverStale ==
  row.config # NoConfig =>
    \A p \in ConfigPaths : wanted[p] # Absent => row.config[p] = wanted[p]

=============================================================================
