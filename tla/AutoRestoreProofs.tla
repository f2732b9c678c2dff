------------------------- MODULE AutoRestoreProofs -------------------------
(***************************************************************************)
(* Proofs about AutoRestore, for any number of paths, values, requests,    *)
(* operations and faults.  What the loop decides rests on a row it read    *)
(* before its awaits, so the inductive invariant says how that copy may    *)
(* differ from the row: other handlers reset the count (it is never        *)
(* larger in the row than in the copy) and nobody else touches             *)
(* last_attempt.                                                           *)
(***************************************************************************)
EXTENDS AutoRestore, TLAPS

(* Attempts the loop made but has not recorded yet.                        *)
InFlight == IF loop.pc = "recording" THEN 1 ELSE 0

(* Every task since the last reset is on record, in flight, or was lost by *)
(* a fault; the copy is never behind the row.                              *)
Accounted ==
  /\ issued <= row.attempts + faults + InFlight
  /\ loop.pc # "idle" => row.attempts <= loop.row.attempts
  /\ loop.pc \in {"sending", "recording"} => loop.row.attempts < MaxAttempts

(* The loop's copy of last_attempt is the row's.                           *)
AttemptCopied ==
  /\ loop.pc # "idle" => loop.row.last_attempt = row.last_attempt
  /\ loop.pc = "sending" => row.last_attempt # "unanswered"

(* While the switch is off a task leaves only from a pass listed before.   *)
OffCounted ==
  ~row.autorestore => off <= (IF loop.pc \in {"idle", "recording"} THEN 1 ELSE 0)

(* A pass works on a row that had a backup.                                *)
ListedHasConfig == loop.pc # "idle" => loop.row.config # NoConfig

IInv == TypeOK /\ Accounted /\ AttemptCopied /\ OffCounted /\ ListedHasConfig

-----------------------------------------------------------------------------
(* Writing one partial configuration over another gives a configuration.   *)
LEMMA OverlayType ==
  ASSUME NEW S, NEW f \in [Paths -> S], NEW g \in Configs
  PROVE  Overlay(f, g) \in [Paths -> S \cup Values]
BY DEF Overlay, Configs

(* One configuration laid over another is a configuration.                 *)
LEMMA OverlayConfig ==
  ASSUME NEW f \in Configs, NEW g \in Configs
  PROVE  Overlay(f, g) \in Configs
BY DEF Overlay, Configs

(* Nothing is a configuration, and a document.                             *)
LEMMA NothingType == Nothing \in Configs /\ Nothing \in Documents
BY DEF Nothing, Configs, Documents

(* The operators on rows keep them rows.                                   *)
LEMMA NewRowType == NewRow \in Rows
BY BoundsAssumption DEF NewRow, Rows, Attempt, Pause

(* The loop before its first pass has the type of a pass.                  *)
LEMMA IdleLoopType ==
  IdleLoop \in Passes
BY NewRowType, NothingType DEF IdleLoop, Passes, Attempt

(* What a backup stores of a document is a configuration.                  *)
LEMMA SnapshotType ==
  ASSUME NEW r \in Rows, NEW doc \in Documents
  PROVE  Snapshot(r, doc) \in Configs
<1>1. ASSUME NEW p \in Paths
      PROVE  (IF p \in ConfigPaths /\ doc[p] \notin {Absent, Blank} THEN doc[p]
              ELSE IF p \in WriteOnly /\ r.config # NoConfig THEN r.config[p]
              ELSE Absent) \in Values \cup {Absent}
  BY DEF Rows, Configs, Documents
<1>. QED
  BY <1>1 DEF Snapshot, Configs

(* A row that receives a change is a row still.                            *)
LEMMA MergedType ==
  ASSUME NEW r \in Rows, NEW g \in Configs
  PROVE  Merged(r, g) \in Rows
<1>. DEFINE f == IF r.config = NoConfig THEN Nothing ELSE r.config
<1>1. f \in [Paths -> Values \cup {Absent}]
  BY NothingType DEF Rows, Configs
<1>2. Overlay(f, g) \in Configs
  BY <1>1, OverlayType DEF Configs
<1>. QED
  BY <1>2 DEF Merged, Rows

(* What differs from the backup is a configuration.                        *)
LEMMA DriftType ==
  ASSUME NEW config \in Configs, NEW doc \in Documents
  PROVE  Drift(config, doc) \in Configs
<1>1. ASSUME NEW p \in Paths
      PROVE  (IF config[p] # Absent /\ doc[p] # Absent /\ doc[p] # config[p]
                THEN config[p] ELSE Absent) \in Values \cup {Absent}
  BY DEF Configs
<1>. QED
  BY <1>1 DEF Drift, Configs

(* What a device reports is a document.                                    *)
LEMMA InformedType ==
  ASSUME NEW values \in [Paths -> Values]
  PROVE  Reported(values) \in Documents
<1>1. ASSUME NEW p \in Paths
      PROVE  (IF p \in WriteOnly THEN Blank ELSE values[p]) \in Values \cup {Absent, Blank}
  OBVIOUS
<1>. QED
  BY <1>1 DEF Reported, Documents

(* A request that is not under way has the type of requests.               *)
LEMMA IdleRequestType == IdleRequest \in [at: Stages, vals: Documents]
BY NothingType DEF IdleRequest, Stages

(* set_retry_state writes the four columns it names and keeps the backup   *)
(* and the switch.                                                         *)
LEMMA RetryStateType ==
  ASSUME NEW r \in Rows, NEW n \in 0..MaxAttempts, NEW a \in Attempt, NEW s \in Pause,
         NEW e \in {"null", "reason"}
  PROVE  /\ RetryState(r, n, a, s, e) \in Rows
         /\ RetryState(r, n, a, s, e).config = r.config
         /\ RetryState(r, n, a, s, e).autorestore = r.autorestore
         /\ RetryState(r, n, a, s, e).attempts = n
         /\ RetryState(r, n, a, s, e).last_attempt = a
BY DEF RetryState, Rows

(* The values a reset writes are within their types.                       *)
LEMMA ResetValues ==
  /\ 0 \in 0..MaxAttempts
  /\ "null" \in Attempt
  /\ "null" \in Pause
  /\ "future" \in Pause
BY BoundsAssumption DEF Attempt, Pause

(* set_device_autorestore clears the count and keeps the backup and the    *)
(* time of the last attempt.                                               *)
LEMMA SwitchedType ==
  ASSUME NEW r \in Rows, NEW b \in BOOLEAN
  PROVE  /\ Switched(r, b) \in Rows
         /\ Switched(r, b).attempts = 0
         /\ Switched(r, b).last_attempt = r.last_attempt
         /\ Switched(r, b).config = r.config
<1>1. 0 \in 0..MaxAttempts /\ "null" \in Pause
  BY BoundsAssumption DEF Pause
<1>. QED
  BY <1>1 DEF Switched, Rows

-----------------------------------------------------------------------------
(* The initial states satisfy the invariant.                               *)
LEMMA InitIInv == Init => IInv
<1>. SUFFICES ASSUME Init PROVE IInv
  OBVIOUS
<1>1. cpe \in [Paths -> Values]
  BY ValuesAssumption DEF Init
<1>2. acs \in [cache: Documents, pending: Configs, restores: Nat, slipped: BOOLEAN]
  <2>1. acs \in [cache: {Nothing, Reported(cpe)}, pending: {Nothing}, restores: {0},
                 slipped: {FALSE}]
    BY DEF Init
  <2>2. Nothing \in Documents /\ Reported(cpe) \in Documents /\ Nothing \in Configs
    BY <1>1, NothingType, InformedType
  <2>3. PICK d \in {Nothing, Reported(cpe)} :
           acs = [cache |-> d, pending |-> Nothing, restores |-> 0, slipped |-> FALSE]
    BY <2>1, Zenon
  <2>. QED
    BY <2>2, <2>3
<1>3. req \in [Requests -> [at: Stages, vals: Documents]]
  BY NothingType DEF Init, IdleRequest, Stages
<1>4. \A r \in Requests : req[r].vals \in Configs
  BY NothingType DEF Init, IdleRequest
<1>5. TypeOK
  BY <1>1, <1>2, <1>3, <1>4, NewRowType, IdleLoopType, NothingType, BoundsAssumption
     DEF Init, TypeOK
<1>6. Accounted /\ AttemptCopied /\ OffCounted /\ ListedHasConfig
  BY DEF Init, Accounted, InFlight, AttemptCopied, OffCounted, ListedHasConfig,
         IdleLoop, NewRow
<1>. QED
  BY <1>5, <1>6 DEF IInv


(* A step of the loop keeps the invariant.                                 *)
LEMMA LoopIInv == IInv /\ LoopStep => IInv'
<1>. SUFFICES ASSUME IInv, LoopStep PROVE IInv'
  OBVIOUS
<1>. USE DEF IInv
<1>1. CASE ListRows
  <2>1. TypeOK'
    BY <1>1, IdleLoopType DEF ListRows, TypeOK, Passes
  <2>2. (Accounted /\ AttemptCopied /\ OffCounted /\ ListedHasConfig)'
    BY <1>1, BoundsAssumption
       DEF ListRows, TypeOK, Passes, Rows, Accounted, InFlight, AttemptCopied, OffCounted,
           ListedHasConfig, IdleLoop, Monitored
  <2>. QED
    BY <2>1, <2>2
<1>2. CASE SkipSuspended \/ WaitForInform
  <2>1. TypeOK'
    BY <1>2, IdleLoopType DEF SkipSuspended, WaitForInform, TypeOK
  <2>2. (Accounted /\ AttemptCopied /\ OffCounted /\ ListedHasConfig)'
    BY <1>2 DEF SkipSuspended, WaitForInform, TypeOK, Passes, Rows, Accounted, InFlight,
                AttemptCopied, OffCounted, ListedHasConfig, IdleLoop
  <2>. QED
    BY <2>1, <2>2
<1>3. CASE AskDevice
  <2>1. TypeOK'
    BY <1>3 DEF AskDevice, TypeOK, Passes, Attempt
  <2>2. (Accounted /\ AttemptCopied /\ OffCounted /\ ListedHasConfig)'
    BY <1>3 DEF AskDevice, TypeOK, Passes, Rows, Accounted, InFlight,
                AttemptCopied, OffCounted, ListedHasConfig
  <2>. QED
    BY <2>1, <2>2
<1>4. CASE InSync
  <2>0. row \in Rows
    BY DEF TypeOK
  <2>1. /\ RetryState(row, 0, "null", "null", "null") \in Rows
        /\ RetryState(row, 0, "null", "null", "null").attempts = 0
        /\ RetryState(row, 0, "null", "null", "null").autorestore = row.autorestore
    BY <2>0, ResetValues, RetryStateType
  <2>2. TypeOK'
    BY <1>4, <2>1, IdleLoopType DEF InSync, TypeOK
  <2>3. row'.autorestore = row.autorestore
    BY <1>4, <2>1 DEF InSync
  <2>4. issued' <= row'.attempts + faults' + InFlight'
    <3>1. CASE row' = row /\ issued' = issued
      BY <1>4, <3>1 DEF InSync, MayJudge, IdleLoop, Accounted, InFlight
    <3>2. CASE row' = RetryState(row, 0, "null", "null", "null") /\ issued' = 0
      <4>1. row'.attempts = 0
        BY <3>2, <2>1
      <4>. QED
        BY <1>4, <3>2, <4>1, BoundsAssumption DEF InSync, IdleLoop, InFlight, TypeOK
    <3>. QED
      BY <1>4, <3>1, <3>2 DEF InSync
  <2>. QED
    BY <1>4, <2>2, <2>3, <2>4
       DEF InSync, MayJudge, IdleLoop, TypeOK, Accounted, AttemptCopied, OffCounted,
           ListedHasConfig
<1>5. CASE Suspend
  <2>1. /\ row' \in Rows
        /\ row'.attempts = 0
        /\ row'.autorestore = row.autorestore
    <3>1. row \in Rows /\ row' = RetryState(row, 0, "null", "future", "reason")
      BY <1>5 DEF Suspend, TypeOK
    <3>. QED
      BY <3>1, ResetValues, RetryStateType
  <2>2. TypeOK'
    BY <1>5, <2>1, IdleLoopType DEF Suspend, TypeOK
  <2>. QED
    BY <1>5, <2>1, <2>2, BoundsAssumption
       DEF Suspend, MayJudge, IdleLoop, TypeOK, Accounted, InFlight, AttemptCopied, OffCounted,
           ListedHasConfig
<1>6. CASE SendRestore
  <2>1. FoundDrift \in Configs
    BY <1>6, DriftType
       DEF SendRestore, MayJudge, ListedHasConfig, FoundDrift, TypeOK, Passes, Rows
  <2>2. TypeOK'
    BY <1>6, <2>1 DEF SendRestore, TypeOK, Passes
  <2>. QED
    BY <1>6, <2>2
       DEF SendRestore, MayJudge, TypeOK, Passes, Rows, Accounted, InFlight, AttemptCopied,
           OffCounted, ListedHasConfig
<1>7. CASE AcceptRestore
  <2>1. Overlay(acs.pending, loop.drift) \in Configs
    BY OverlayConfig DEF TypeOK, Passes
  <2>2. TypeOK'
    <3>1. off' \in Nat /\ issued' \in Nat
      BY <1>7 DEF AcceptRestore, TypeOK
    <3>2. loop' \in Passes
      BY <1>7 DEF AcceptRestore, TypeOK, Passes
    <3>3. acs' \in [cache: Documents, pending: Configs, restores: Nat, slipped: BOOLEAN]
      BY <1>7, <2>1 DEF AcceptRestore, Enqueue, TypeOK
    <3>. QED
      BY <1>7, <3>1, <3>2, <3>3 DEF AcceptRestore, TypeOK
  <2>3. loop'.pc = "recording" /\ loop'.row = loop.row /\ row' = row
    BY <1>7 DEF AcceptRestore, TypeOK, Passes
  <2>4. Accounted'
    BY <1>7, <2>3 DEF AcceptRestore, TypeOK, Rows, Accounted, InFlight
  <2>5. OffCounted'
    <3>1. CASE row.autorestore
      BY <2>3, <3>1 DEF OffCounted
    <3>2. CASE ~row.autorestore
      <4>1. off <= 0 /\ off' = off + 1
        BY <1>7, <3>2 DEF AcceptRestore, OffCounted
      <4>. QED
        BY <2>3, <4>1 DEF OffCounted, TypeOK
    <3>. QED
      BY <3>1, <3>2
  <2>. QED
    BY <1>7, <2>2, <2>3, <2>4, <2>5 DEF AcceptRestore, AttemptCopied, ListedHasConfig
<1>8. CASE RecordAttempt
  <2>1. loop.row.attempts + 1 \in 0..MaxAttempts
    BY <1>8, BoundsAssumption DEF RecordAttempt, Accounted, TypeOK, Passes, Rows
  <2>2. /\ row' \in Rows
        /\ row'.attempts = loop.row.attempts + 1
        /\ row'.autorestore = row.autorestore
    <3>1. /\ row \in Rows
          /\ loop.now \in Attempt
          /\ row' = RetryState(row, loop.row.attempts + 1, loop.now, "null", "null")
      BY <1>8 DEF RecordAttempt, TypeOK, Passes
    <3>. QED
      BY <2>1, <3>1, ResetValues, RetryStateType
  <2>3. TypeOK'
    BY <1>8, <2>2, IdleLoopType DEF RecordAttempt, TypeOK
  <2>. QED
    BY <1>8, <2>2, <2>3, BoundsAssumption
       DEF RecordAttempt, IdleLoop, TypeOK, Passes, Rows, Accounted, InFlight, AttemptCopied,
           OffCounted, ListedHasConfig
<1>. QED
  BY <1>1, <1>2, <1>3, <1>4, <1>5, <1>6, <1>7, <1>8 DEF LoopStep

(* A lost attempt changes nothing but the history of it.                   *)
LEMMA AttemptLostType ==
  ASSUME TypeOK, AttemptLost
  PROVE  acs' \in [cache: Documents, pending: Configs, restores: Nat, slipped: BOOLEAN]
<1>. DEFINE lost == loop.pc = "recording" /\ acs.restores > 0
<1>1. acs' = [acs EXCEPT !.slipped = @ \/ lost]
  BY DEF AttemptLost
<1>2. (acs.slipped \/ lost) \in BOOLEAN
  BY Zenon
<1>. HIDE DEF lost
<1>. QED
  BY <1>1, <1>2 DEF TypeOK

(* A failure of the ACS, or of the service, keeps the invariant.           *)
LEMMA FaultIInv == IInv /\ (PassFails \/ DeviceUnknown \/ Restart) => IInv'
<1>. SUFFICES ASSUME IInv, PassFails \/ DeviceUnknown \/ Restart PROVE IInv'
  OBVIOUS
<1>. USE DEF IInv
<1>1. CASE PassFails
  <2>1. /\ row' \in Rows
        /\ row'.attempts = loop.row.attempts
        /\ row'.autorestore = row.autorestore
    <3>1. /\ row \in Rows
          /\ loop.row.attempts \in 0..MaxAttempts
          /\ loop.row.last_attempt \in Attempt
          /\ loop.row.suspended_until \in Pause
          /\ row' = RetryState(row, loop.row.attempts, loop.row.last_attempt,
                               loop.row.suspended_until, "reason")
      BY <1>1 DEF PassFails, TypeOK, Passes, Rows
    <3>. QED
      BY <3>1, RetryStateType
  <2>2. TypeOK'
    <3>1. acs' \in [cache: Documents, pending: Configs, restores: Nat, slipped: BOOLEAN]
      BY <1>1, AttemptLostType DEF PassFails
    <3>. QED
      BY <1>1, <2>1, <3>1, IdleLoopType, BoundsAssumption DEF PassFails, TypeOK
  <2>. QED
    BY <1>1, <2>1, <2>2, BoundsAssumption
       DEF PassFails, IdleLoop, TypeOK, Passes, Rows, Accounted, InFlight, AttemptCopied,
           OffCounted, ListedHasConfig
<1>2. CASE DeviceUnknown
  <2>1. TypeOK'
    BY <1>2, IdleLoopType, BoundsAssumption DEF DeviceUnknown, TypeOK
  <2>. QED
    BY <1>2, <2>1, BoundsAssumption
       DEF DeviceUnknown, IdleLoop, TypeOK, Passes, Rows, Accounted, InFlight, AttemptCopied,
           OffCounted, ListedHasConfig
<1>3. CASE Restart
  <2>1. TypeOK'
    <3>1. acs' \in [cache: Documents, pending: Configs, restores: Nat, slipped: BOOLEAN]
      BY <1>3, AttemptLostType DEF Restart
    <3>. QED
      BY <1>3, <3>1, IdleLoopType, IdleRequestType, NothingType, BoundsAssumption
         DEF Restart, TypeOK, IdleRequest
  <2>. QED
    BY <1>3, <2>1, BoundsAssumption
       DEF Restart, IdleLoop, TypeOK, Passes, Rows, Accounted, InFlight, AttemptCopied,
           OffCounted, ListedHasConfig
<1>. QED
  BY <1>1, <1>2, <1>3

(* A request keeps the invariant.                                          *)
LEMMA RequestIInv ==
  ASSUME IInv, NEW r \in Requests, RequestStep(r) PROVE IInv'
<1>. USE DEF IInv
<1>1. CASE MergeChange(r)
  <2>1. req[r].vals \in Configs /\ row \in Rows
    BY <1>1 DEF MergeChange, TypeOK
  <2>2. row' \in Rows
    BY <1>1, <2>1, MergedType DEF MergeChange
  <2>3. /\ row'.autorestore = row.autorestore
        /\ row'.attempts = row.attempts
        /\ row'.last_attempt = row.last_attempt
    BY <1>1, <2>1 DEF MergeChange, Merged, Rows
  <2>4. wanted' \in Configs
    BY <1>1, <2>1, OverlayConfig DEF MergeChange, TypeOK
  <2>5. TypeOK'
    BY <1>1, <2>2, <2>4, IdleRequestType, NothingType DEF MergeChange, TypeOK, IdleRequest
  <2>. QED
    BY <1>1, <2>3, <2>5
       DEF MergeChange, Accounted, InFlight, AttemptCopied, OffCounted, ListedHasConfig
<1>2. CASE ReadDocument(r)
  <2>1. PICK op \in {"backup", "enable"} :
           /\ req[r].at = op
           /\ req' = [req EXCEPT ![r] = [at |-> IF op = "backup" THEN "save" ELSE "enabled",
                                         vals |-> acs.cache]]
           /\ UNCHANGED <<row, loop, acs, cpe, ops, faults, issued, off, wanted>>
    BY <1>2 DEF ReadDocument
  <2>2. TypeOK'
    BY <2>1 DEF TypeOK, Stages
  <2>. QED
    BY <2>1, <2>2 DEF Accounted, InFlight, AttemptCopied, OffCounted, ListedHasConfig
<1>3. CASE SaveBackup(r)
  <2>1. Snapshot(row, req[r].vals) \in Configs
    BY SnapshotType DEF TypeOK
  <2>2. /\ row' \in Rows
        /\ row'.autorestore = row.autorestore
        /\ row'.attempts = row.attempts
        /\ row'.last_attempt = row.last_attempt
    BY <1>3, <2>1 DEF SaveBackup, TypeOK, Rows
  <2>3. TypeOK'
    BY <1>3, <2>2, IdleRequestType, NothingType DEF SaveBackup, TypeOK, IdleRequest
  <2>. QED
    BY <1>3, <2>2, <2>3
       DEF SaveBackup, Accounted, InFlight, AttemptCopied, OffCounted, ListedHasConfig
<1>4. CASE SendBackup(r)
  <2>1. req[r].vals \in Configs
    BY <1>4 DEF SendBackup, TypeOK
  <2>2. Overlay(acs.pending, req[r].vals) \in Configs
    BY <2>1, OverlayConfig DEF TypeOK
  <2>3. TypeOK'
    BY <1>4, <2>2, IdleRequestType, NothingType
       DEF SendBackup, Enqueue, TypeOK, IdleRequest
  <2>. QED
    BY <1>4, <2>3
       DEF SendBackup, Accounted, InFlight, AttemptCopied, OffCounted, ListedHasConfig
<1>5. CASE SaveAndEnable(r)
  <2>1. Snapshot(row, req[r].vals) \in Configs
    BY SnapshotType DEF TypeOK
  <2>2. /\ row' \in Rows
        /\ row'.autorestore = TRUE
        /\ row'.attempts = 0
        /\ row'.last_attempt = row.last_attempt
    BY <1>5, <2>1, ResetValues DEF SaveAndEnable, Switched, TypeOK, Rows
  <2>3. TypeOK'
    BY <1>5, <2>2, IdleRequestType, NothingType DEF SaveAndEnable, TypeOK, IdleRequest
  <2>4. Accounted'
    <3>1. loop' = loop /\ issued' = 0 /\ faults' = faults
      BY <1>5 DEF SaveAndEnable
    <3>2. loop.row.attempts \in Nat /\ faults \in Nat
      BY BoundsAssumption DEF TypeOK, Passes, Rows
    <3>. QED
      BY <2>2, <3>1, <3>2 DEF Accounted, InFlight
  <2>5. OffCounted'
    BY <2>2 DEF OffCounted
  <2>. QED
    BY <1>5, <2>2, <2>3, <2>4, <2>5 DEF SaveAndEnable, AttemptCopied, ListedHasConfig
<1>. QED
  BY <1>1, <1>2, <1>3, <1>4, <1>5 DEF RequestStep

(* What a user starts keeps the invariant.                                 *)
LEMMA UserIInv ==
  ASSUME IInv, NEW r \in Requests, UserStep(r) PROVE IInv'
<1>. USE DEF IInv
<1>1. ASSUME NEW p \in Paths, NEW v \in Values, SendChange(r, p, v) PROVE IInv'
  <2>1. /\ [Nothing EXCEPT ![p] = v] \in Configs
        /\ [Nothing EXCEPT ![p] = v] \in Documents
    BY DEF Nothing, Configs, Documents
  <2>2. Overlay(acs.pending, [Nothing EXCEPT ![p] = v]) \in Configs
    BY <2>1, OverlayConfig DEF TypeOK
  <2>3. acs' \in [cache: Documents, pending: Configs, restores: Nat, slipped: BOOLEAN]
    BY <1>1, <2>2 DEF SendChange, Enqueue, TypeOK
  <2>4. req' \in [Requests -> [at: Stages, vals: Documents]]
    BY <1>1, <2>1 DEF SendChange, TypeOK, Stages
  <2>5. \A q \in Requests : req'[q].at \notin {"save", "enabled"} => req'[q].vals \in Configs
    BY <1>1, <2>1 DEF SendChange, TypeOK
  <2>6. TypeOK'
    <3>1. /\ ops' \in 0..MaxOps
          /\ UNCHANGED <<row, loop, cpe, faults, issued, off, wanted>>
      BY <1>1, BoundsAssumption DEF SendChange, Begin, TypeOK
    <3>. QED
      BY <2>3, <2>4, <2>5, <3>1 DEF TypeOK
  <2>. QED
    BY <1>1, <2>6
       DEF SendChange, Accounted, InFlight, AttemptCopied, OffCounted, ListedHasConfig
<1>2. CASE AskFresh(r) \/ EnableWithoutBackup(r) \/ ChangeFails(r)
  <2>1. TypeOK'
    BY <1>2, NothingType, BoundsAssumption
       DEF AskFresh, EnableWithoutBackup, ChangeFails, Begin, TypeOK, IdleRequest, Stages
  <2>. QED
    BY <1>2, <2>1, BoundsAssumption
       DEF AskFresh, EnableWithoutBackup, ChangeFails, TypeOK, Passes, Rows, Accounted,
           InFlight, AttemptCopied, OffCounted, ListedHasConfig
<1>3. CASE ReadBackup(r)
  <2>1. row.config \in Configs /\ row.config \in Documents
    BY <1>3 DEF ReadBackup, TypeOK, Rows, Configs, Documents
  <2>2. TypeOK'
    BY <1>3, <2>1, BoundsAssumption DEF ReadBackup, Begin, TypeOK, Stages
  <2>. QED
    BY <1>3, <2>2
       DEF ReadBackup, Accounted, InFlight, AttemptCopied, OffCounted, ListedHasConfig
<1>4. ASSUME NEW enabled \in BOOLEAN, Toggle(r, enabled) PROVE IInv'
  <2>1. /\ row' \in Rows
        /\ row'.attempts = 0
        /\ row'.last_attempt = row.last_attempt
    BY <1>4, ResetValues DEF Toggle, Switched, TypeOK, Rows
  <2>2. TypeOK'
    BY <1>4, <2>1, BoundsAssumption DEF Toggle, Begin, TypeOK
  <2>. QED
    BY <1>4, <2>1, <2>2, BoundsAssumption
       DEF Toggle, TypeOK, Passes, Rows, Accounted, InFlight, AttemptCopied, OffCounted,
           ListedHasConfig
<1>5. ASSUME NEW p \in Paths, NEW v \in Values, SendUnmerged(r, p, v) PROVE IInv'
  <2>1. [Nothing EXCEPT ![p] = v] \in Configs
    BY DEF Nothing, Configs
  <2>2. Overlay(acs.pending, [Nothing EXCEPT ![p] = v]) \in Configs
    BY <2>1, OverlayConfig DEF TypeOK
  <2>3. acs' \in [cache: Documents, pending: Configs, restores: Nat, slipped: BOOLEAN]
    BY <1>5, <2>2 DEF SendUnmerged, Enqueue, TypeOK
  <2>4. /\ ops' \in 0..MaxOps
        /\ UNCHANGED <<row, loop, req, cpe, faults, issued, off, wanted>>
    BY <1>5, BoundsAssumption DEF SendUnmerged, Begin, TypeOK
  <2>5. TypeOK'
    BY <2>3, <2>4 DEF TypeOK
  <2>. QED
    BY <2>4, <2>5 DEF Accounted, InFlight, AttemptCopied, OffCounted, ListedHasConfig
<1>. QED
  BY <1>1, <1>2, <1>3, <1>4, <1>5 DEF UserStep

(* A session of the device, and the end of a pause, keep the invariant.    *)
LEMMA EnvironmentIInv ==
  IInv /\ ((\E refreshed \in BOOLEAN : Inform(refreshed)) \/ FactoryReset \/ PauseEnds) => IInv'
<1>. SUFFICES ASSUME IInv,
                     (\E refreshed \in BOOLEAN : Inform(refreshed)) \/ FactoryReset \/ PauseEnds
              PROVE  IInv'
  OBVIOUS
<1>. USE DEF IInv
<1>1. ASSUME NEW refreshed \in BOOLEAN, Inform(refreshed) PROVE IInv'
  <2>1. cpe' \in [Paths -> Values]
    <3>1. ASSUME NEW p \in Paths
          PROVE  (IF p \in Stubborn THEN cpe[p] ELSE Overlay(cpe, acs.pending)[p]) \in Values
      BY ValuesAssumption DEF TypeOK, Configs, Overlay
    <3>. QED
      BY <1>1, <3>1 DEF Inform
  <2>2. Reported(cpe') \in Documents
    BY <2>1, InformedType
  <2>3. Overlay(acs.cache, acs.pending) \in Documents
    BY DEF TypeOK, Overlay, Configs, Documents
  <2>4. acs' \in [cache: Documents, pending: Configs, restores: Nat, slipped: BOOLEAN]
    BY <1>1, <2>2, <2>3, NothingType DEF Inform
  <2>5. /\ row' \in Rows
        /\ row'.attempts = row.attempts
        /\ row'.autorestore = row.autorestore
        /\ row'.last_attempt = Answered(row.last_attempt)
    BY <1>1 DEF Inform, Answered, Attempt, TypeOK, Rows
  <2>6. /\ loop' \in Passes
        /\ loop'.pc = loop.pc
        /\ loop'.row.attempts = loop.row.attempts
        /\ loop'.row.config = loop.row.config
        /\ loop'.row.last_attempt = Answered(loop.row.last_attempt)
    BY <1>1 DEF Inform, Answered, Attempt, TypeOK, Passes, Rows
  <2>7. TypeOK'
    BY <1>1, <2>1, <2>4, <2>5, <2>6 DEF Inform, TypeOK
  <2>. QED
    BY <1>1, <2>5, <2>6, <2>7
       DEF Inform, Accounted, InFlight, AttemptCopied, OffCounted, ListedHasConfig, Answered
<1>2. CASE FactoryReset
  <2>1. TypeOK'
    BY <1>2, ValuesAssumption, BoundsAssumption DEF FactoryReset, TypeOK
  <2>. QED
    BY <1>2, <2>1
       DEF FactoryReset, Accounted, InFlight, AttemptCopied, OffCounted, ListedHasConfig
<1>3. CASE PauseEnds
  <2>1. /\ row' \in Rows
        /\ row'.attempts = row.attempts
        /\ row'.autorestore = row.autorestore
        /\ row'.last_attempt = row.last_attempt
    BY <1>3 DEF PauseEnds, Expired, Pause, TypeOK, Rows
  <2>2. /\ loop' \in Passes
        /\ loop'.pc = loop.pc
        /\ loop'.row.attempts = loop.row.attempts
        /\ loop'.row.config = loop.row.config
        /\ loop'.row.last_attempt = loop.row.last_attempt
    BY <1>3 DEF PauseEnds, Expired, Pause, TypeOK, Passes, Rows
  <2>3. TypeOK'
    BY <1>3, <2>1, <2>2 DEF PauseEnds, TypeOK
  <2>. QED
    BY <1>3, <2>1, <2>2, <2>3
       DEF PauseEnds, Accounted, InFlight, AttemptCopied, OffCounted, ListedHasConfig
<1>. QED
  BY <1>1, <1>2, <1>3

(* A stutter keeps the invariant.                                          *)
LEMMA StutterIInv == IInv /\ UNCHANGED vars => IInv'
BY DEF IInv, vars, TypeOK, Accounted, InFlight, AttemptCopied, OffCounted, ListedHasConfig

(* The invariant is inductive.                                             *)
THEOREM Invariant == Spec => []IInv
<1>1. IInv /\ [Next]_vars => IInv'
  BY LoopIInv, FaultIInv, RequestIInv, UserIInv, EnvironmentIInv, StutterIInv DEF Next
<1>. QED
  BY InitIInv, <1>1, PTL DEF Spec

-----------------------------------------------------------------------------
(* Every variable keeps its type and `attempts` never passes the maximum.  *)
THEOREM TypeCorrect == Spec => []TypeOK
<1>1. IInv => TypeOK
  BY DEF IInv
<1>. QED
  BY Invariant, <1>1, PTL

(* Between two resets of the count the loop has at most MaxAttempts tasks  *)
(* accepted, plus one per fault.                                           *)
THEOREM RetriesAreBounded == Spec => []RetriesBounded
<1>1. IInv => RetriesBounded
  BY BoundsAssumption DEF IInv, TypeOK, Rows, Passes, Accounted, InFlight, RetriesBounded
<1>. QED
  BY Invariant, <1>1, PTL

(* After the switch is turned off at most one more task is sent.           *)
THEOREM OffStops == Spec => []OffStopsTheLoop
<1>1. IInv => OffStopsTheLoop
  BY DEF IInv, TypeOK, OffCounted, OffStopsTheLoop
<1>. QED
  BY Invariant, <1>1, PTL

(* A task the ACS holds is on record: while the reply is on its way the    *)
(* pass carries the time it began, and no session has come since; after    *)
(* that the row says the device has not answered.                          *)
HeldOnRecord ==
  acs.restores > 0 /\ ~acs.slipped =>
    IF loop.pc = "recording" THEN loop.now = "unanswered" ELSE row.last_attempt = "unanswered"

(* What a pass does keeps the held tasks on record: it never gets past     *)
(* MayJudge while the row says the device has not answered.                *)
LEMMA LoopHeld == IInv /\ HeldOnRecord /\ LoopStep => HeldOnRecord'
<1>. SUFFICES ASSUME IInv, HeldOnRecord, LoopStep PROVE HeldOnRecord'
  OBVIOUS
<1>. USE DEF IInv, HeldOnRecord
<1>1. CASE ListRows \/ SkipSuspended \/ WaitForInform
  <2>1. loop.pc # "recording" /\ UNCHANGED <<row, acs>>
    BY <1>1 DEF ListRows, SkipSuspended, WaitForInform
  <2>2. CASE ListRows
    <3>1. loop'.pc = "listed"
      BY <2>2, IdleLoopType DEF ListRows, Passes
    <3>. QED
      BY <2>1, <3>1
  <2>3. CASE SkipSuspended \/ WaitForInform
    <3>1. loop'.pc = "idle"
      BY <2>3 DEF SkipSuspended, WaitForInform, IdleLoop
    <3>. QED
      BY <2>1, <3>1
  <2>. QED
    BY <1>1, <2>2, <2>3
<1>2. CASE AskDevice
  BY <1>2 DEF AskDevice, TypeOK, Passes
<1>3. CASE InSync \/ Suspend \/ SendRestore
  <2>1. row.last_attempt # "unanswered" /\ loop.pc # "recording" /\ acs' = acs
    BY <1>3 DEF InSync, Suspend, SendRestore, MayJudge, AttemptCopied
  <2>. QED
    BY <2>1
<1>4. CASE AcceptRestore
  <2>1. loop'.pc = "recording" /\ loop'.now = loop.now
    BY <1>4 DEF AcceptRestore, TypeOK, Passes
  <2>2. acs'.slipped = (acs.slipped \/ loop.now # "unanswered")
    BY <1>4 DEF AcceptRestore, Enqueue
  <2>. QED
    BY <2>1, <2>2
<1>5. CASE RecordAttempt
  <2>1. row'.last_attempt = loop.now /\ loop'.pc = "idle" /\ acs' = acs
    BY <1>5 DEF RecordAttempt, RetryState, IdleLoop, TypeOK, Rows
  <2>. QED
    BY <1>5, <2>1 DEF RecordAttempt
<1>. QED
  BY <1>1, <1>2, <1>3, <1>4, <1>5 DEF LoopStep

(* A fault writes back the time the pass had read, which is the row's, or  *)
(* loses the attempt, and then the task has slipped.                       *)
LEMMA FaultHeld ==
  IInv /\ HeldOnRecord /\ (PassFails \/ DeviceUnknown \/ Restart) => HeldOnRecord'
<1>. SUFFICES ASSUME IInv, HeldOnRecord, PassFails \/ DeviceUnknown \/ Restart
              PROVE  HeldOnRecord'
  OBVIOUS
<1>. USE DEF IInv, HeldOnRecord
<1>1. loop'.pc = "idle"
  BY DEF PassFails, DeviceUnknown, Restart, IdleLoop
<1>2. row'.last_attempt = row.last_attempt
  BY DEF PassFails, DeviceUnknown, Restart, RetryState, AttemptCopied, TypeOK, Rows
<1>3. CASE DeviceUnknown
  BY <1>1, <1>2, <1>3 DEF DeviceUnknown
<1>4. CASE PassFails \/ Restart
  <2>1. /\ acs'.restores = acs.restores
        /\ acs'.slipped = (acs.slipped \/ (loop.pc = "recording" /\ acs.restores > 0))
    BY <1>4 DEF PassFails, Restart, AttemptLost, TypeOK
  <2>. QED
    BY <1>1, <1>2, <2>1
<1>. QED
  BY <1>3, <1>4

(* No request touches the time of the attempt or the loop's tasks.         *)
LEMMA RequestLeavesTasks ==
  ASSUME IInv, NEW r \in Requests, RequestStep(r) \/ UserStep(r)
  PROVE  /\ acs'.restores = acs.restores /\ acs'.slipped = acs.slipped
         /\ loop' = loop /\ row'.last_attempt = row.last_attempt
<1>. USE DEF IInv
<1>0. acs.restores \in Nat /\ row \in Rows
  BY DEF TypeOK
<1>1. CASE SendBackup(r)
  BY <1>0, <1>1 DEF SendBackup, Enqueue
<1>2. CASE \E p \in Paths, v \in Values : SendChange(r, p, v) \/ SendUnmerged(r, p, v)
  BY <1>0, <1>2 DEF SendChange, SendUnmerged, Enqueue
<1>3. CASE MergeChange(r) \/ ReadDocument(r) \/ SaveBackup(r) \/ SaveAndEnable(r)
  BY <1>0, <1>3 DEF MergeChange, Merged, ReadDocument, SaveBackup, SaveAndEnable, Switched, Rows
<1>4. CASE \/ AskFresh(r) \/ ReadBackup(r) \/ (\E enabled \in BOOLEAN : Toggle(r, enabled))
           \/ EnableWithoutBackup(r) \/ ChangeFails(r)
  BY <1>0, <1>4 DEF AskFresh, ReadBackup, Toggle, Switched, EnableWithoutBackup, ChangeFails, Rows
<1>. QED
  BY <1>1, <1>2, <1>3, <1>4 DEF RequestStep, UserStep

(* Nor does anything outside, but a session, which runs the tasks.         *)
LEMMA OutsideHeld ==
  /\ IInv
  /\ HeldOnRecord
  /\ \/ \E refreshed \in BOOLEAN : Inform(refreshed)
     \/ FactoryReset
     \/ PauseEnds
     \/ UNCHANGED vars
  => HeldOnRecord'
<1>. SUFFICES ASSUME IInv, HeldOnRecord,
                     \/ \E refreshed \in BOOLEAN : Inform(refreshed)
                     \/ FactoryReset
                     \/ PauseEnds
                     \/ UNCHANGED vars
              PROVE  HeldOnRecord'
  OBVIOUS
<1>. USE DEF IInv, HeldOnRecord
<1>1. CASE \E refreshed \in BOOLEAN : Inform(refreshed)
  <2>1. acs'.restores = 0
    BY <1>1 DEF Inform
  <2>. QED
    BY <2>1
<1>2. CASE PauseEnds
  <2>1. /\ row'.last_attempt = row.last_attempt /\ acs' = acs
        /\ loop'.pc = loop.pc /\ loop'.now = loop.now
    BY <1>2 DEF PauseEnds, TypeOK, Rows, Passes
  <2>. QED
    BY <2>1
<1>3. CASE FactoryReset \/ UNCHANGED vars
  BY <1>3 DEF FactoryReset, vars
<1>. QED
  BY <1>1, <1>2, <1>3

(* So a second task of the loop joins an unrun one only if the earlier one *)
(* slipped past the records: nobody else writes last_attempt during the    *)
(* loop's awaits, and a pass that finds it unanswered sends nothing.       *)
THEOREM SecondOnlyByRace == Spec => SecondTaskOnlyByRace
<1>. DEFINE Raced == acs'.restores > acs.restores /\ acs.restores > 0 => acs.slipped
<1>1. Init => HeldOnRecord
  BY DEF Init, HeldOnRecord
<1>2. IInv /\ HeldOnRecord /\ [Next]_vars => HeldOnRecord'
  <2>1. ASSUME IInv, HeldOnRecord, NEW r \in Requests, RequestStep(r) \/ UserStep(r)
        PROVE  HeldOnRecord'
    BY <2>1, RequestLeavesTasks DEF HeldOnRecord
  <2>. QED
    BY <2>1, LoopHeld, FaultHeld, OutsideHeld DEF Next
<1>3. IInv /\ HeldOnRecord /\ [Next]_vars => [Raced]_vars
  <2>. SUFFICES ASSUME IInv, HeldOnRecord, Next, acs'.restores > acs.restores
                PROVE  acs.restores > 0 => acs.slipped
    OBVIOUS
  <2>0. acs.restores \in Nat
    BY DEF IInv, TypeOK
  <2>1. CASE AcceptRestore
    BY <2>1 DEF AcceptRestore, IInv, AttemptCopied, HeldOnRecord
  <2>2. CASE LoopStep /\ ~AcceptRestore
    <3>1. acs' = acs
      BY <2>2 DEF LoopStep, ListRows, SkipSuspended, AskDevice, WaitForInform, InSync, Suspend,
                  SendRestore, RecordAttempt
    <3>. QED
      BY <2>0, <3>1
  <2>3. CASE PassFails \/ DeviceUnknown \/ FactoryReset \/ PauseEnds \/ Restart
    <3>1. acs'.restores = acs.restores
      BY <2>3 DEF PassFails, DeviceUnknown, FactoryReset, PauseEnds, Restart, AttemptLost,
                  IInv, TypeOK
    <3>. QED
      BY <2>0, <3>1
  <2>4. CASE \E r \in Requests : RequestStep(r) \/ UserStep(r)
    BY <2>0, <2>4, RequestLeavesTasks
  <2>5. CASE \E refreshed \in BOOLEAN : Inform(refreshed)
    <3>1. acs'.restores = 0
      BY <2>5 DEF Inform
    <3>. QED
      BY <2>0, <3>1
  <2>. QED
    BY <2>1, <2>2, <2>3, <2>4, <2>5 DEF Next
<1>. QED
  BY Invariant, <1>1, <1>2, <1>3, PTL DEF Spec, SecondTaskOnlyByRace

(* Saving a snapshot keeps what the backup holds of the write-only paths:  *)
(* it is read from the row when the document has already come.             *)
THEOREM WriteOnlyIsKept == Spec => WriteOnlyKept
<1>. DEFINE Kept == \A p \in WriteOnly :
                      row.config # NoConfig /\ row.config[p] # Absent =>
                        row'.config # NoConfig /\ row'.config[p] # Absent
<1>1. ASSUME IInv, Next PROVE Kept
  <2>0. /\ row \in Rows
        /\ row' \in Rows
    <3>1. IInv'
      BY <1>1, LoopIInv, FaultIInv, RequestIInv, UserIInv, EnvironmentIInv DEF Next
    <3>. QED
      BY <1>1, <3>1 DEF IInv, TypeOK
  <2>1. CASE row'.config = row.config
    BY <2>1
  <2>2. ASSUME NEW r \in Requests, MergeChange(r) PROVE Kept
    <3>1. row.config # NoConfig => row'.config = Overlay(row.config, req[r].vals)
      BY <2>0, <2>2 DEF MergeChange, Merged, Rows
    <3>2. \A p \in WriteOnly :
            row.config[p] # Absent => Overlay(row.config, req[r].vals)[p] # Absent
      BY PathsAssumption DEF Overlay
    <3>3. req[r].vals \in Configs
      BY <1>1, <2>2 DEF MergeChange, IInv, TypeOK
    <3>4. row.config # NoConfig => Overlay(row.config, req[r].vals) \in Configs
      BY <2>0, <3>3, OverlayConfig DEF Rows
    <3>. QED
      BY <3>1, <3>2, <3>4, NoConfigAssumption DEF Configs
  <2>3. ASSUME NEW r \in Requests, SaveBackup(r) \/ SaveAndEnable(r) PROVE Kept
    <3>1. row'.config = Snapshot(row, req[r].vals)
      BY <2>0, <2>3 DEF SaveBackup, SaveAndEnable, Switched, Rows
    <3>2. \A p \in WriteOnly :
            row.config # NoConfig /\ row.config[p] # Absent =>
              Snapshot(row, req[r].vals)[p] # Absent
      BY PathsAssumption DEF Snapshot
    <3>3. Snapshot(row, req[r].vals) \in Configs
      BY <1>1, <2>0, SnapshotType DEF IInv, TypeOK
    <3>. QED
      BY <3>1, <3>2, <3>3, NoConfigAssumption DEF Configs
  <2>4. CASE LoopStep \/ PassFails \/ DeviceUnknown \/ FactoryReset \/ PauseEnds \/ Restart
    <3>1. row'.config = row.config
      BY <2>0, <2>4
         DEF LoopStep, ListRows, SkipSuspended, AskDevice, WaitForInform, InSync, Suspend,
             SendRestore, AcceptRestore, RecordAttempt, PassFails, DeviceUnknown,
             FactoryReset, PauseEnds, Restart, RetryState, Rows
    <3>. QED
      BY <2>1, <3>1
  <2>5. CASE \E refreshed \in BOOLEAN : Inform(refreshed)
    <3>1. row'.config = row.config
      BY <2>0, <2>5 DEF Inform, Rows
    <3>. QED
      BY <2>1, <3>1
  <2>6. ASSUME NEW r \in Requests,
               ReadDocument(r) \/ SendBackup(r) \/ UserStep(r)
        PROVE  Kept
    <3>1. row'.config = row.config
      BY <2>0, <2>6
         DEF ReadDocument, SendBackup, UserStep, SendChange, SendUnmerged, AskFresh, ReadBackup, Toggle,
             Switched, EnableWithoutBackup, ChangeFails, Rows
    <3>. QED
      BY <2>1, <3>1
  <2>. QED
    BY <1>1, <2>2, <2>3, <2>4, <2>5, <2>6 DEF Next, RequestStep
<1>2. IInv /\ [Next]_vars => [Kept]_vars
  BY <1>1
<1>. QED
  BY Invariant, <1>2, PTL DEF Spec, WriteOnlyKept

=============================================================================
