------------------------ MODULE ScheduledRebootProofs ------------------------
(***************************************************************************)
(* Proofs about ScheduledReboot, for any number of slots, requests and     *)
(* faults.  Two arguments: on a day on which nobody touches the schedule   *)
(* the value the ACS keeps for Reboot is that of a tag that is still       *)
(* there; and a request that no other one overlaps knows at each of its    *)
(* awaits what the ACS holds, since only requests change it.               *)
(***************************************************************************)
EXTENDS ScheduledReboot, FiniteSetTheorems, TLAPS

Stages == {"idle", "provision", "preset", "set", "marker", "clear"}
AcsType ==
  [tags: SUBSET Slots, marker: BOOLEAN, provision: BOOLEAN, preset: BOOLEAN]
RequestType ==
  [at: Stages, slot: Slots, remove: SUBSET Slots, marked: BOOLEAN, alone: BOOLEAN]
DayType == [reboots: Nat, touched: BOOLEAN, due: SUBSET Slots]

(* Every variable has its type.                                            *)
Types ==
  /\ acs \in AcsType
  /\ req \in [Requests -> RequestType]
  /\ clock \in Slots
  /\ reboot \in [today: BOOLEAN, slot: Slots]
  /\ faults \in Nat
  /\ today \in DayType

(* A reboot of an untouched day was for a tag that is still there, and the *)
(* ACS remembers it as today's.                                            *)
RebootWasForATag ==
  ~today.touched /\ today.reboots # 0 => reboot.today /\ reboot.slot \in acs.tags

(* A request nobody overlaps is the only one.                              *)
AloneIsAlone ==
  \A r, k \in Requests : req[r].at # "idle" /\ req[r].alone /\ k # r => req[k].at = "idle"

(* What such a request has still to remove is what the device carries, and *)
(* once it has put its tag, that tag is the only one.                      *)
KnowsTheTags ==
  \A r \in Requests :
    req[r].alone =>
      /\ req[r].at \in {"provision", "preset", "set"} => acs.tags = req[r].remove
      /\ req[r].at = "marker" => acs.tags = {req[r].slot}

(* A handler past an await has installed what it awaited; nobody removes   *)
(* the provision or its preset.                                            *)
Installed ==
  \A r \in Requests :
    /\ req[r].at \in {"preset", "set", "marker"} => acs.provision
    /\ req[r].at \in {"set", "marker"} => acs.preset

IInv ==
  Types /\ OnceADay /\ RebootWasForATag /\ AloneIsAlone /\ KnowsTheTags /\ Installed

-----------------------------------------------------------------------------
(* Midnight is a slot.                                                     *)
LEMMA SlotZero == 0 \in Slots /\ Slots \subseteq Nat
BY SlotsAssumption DEF Slots

(* The tags of a device are finitely many: one per slot at most.           *)
LEMMA FiniteTags ==
  ASSUME NEW tags \in SUBSET Slots
  PROVE  IsFiniteSet(tags)
<1>1. IsFiniteSet(Slots)
  BY SlotsAssumption, FS_Interval DEF Slots
<1>. QED
  BY <1>1, FS_Subset

(* Two of at most one tag are the same.                                    *)
LEMMA OneTag ==
  ASSUME NEW tags \in SUBSET Slots, Cardinality(tags) <= 1, NEW a \in tags, NEW b \in tags
  PROVE  a = b
<1>1. IsFiniteSet(tags)
  BY FiniteTags
<1>2. {a, b} \in SUBSET tags
  OBVIOUS
<1>3. Cardinality({a, b}) <= Cardinality(tags)
  BY <1>1, <1>2, FS_Subset
<1>4. ASSUME a # b PROVE FALSE
  <2>1. {a, b} = {a} \cup {b}
    OBVIOUS
  <2>2. IsFiniteSet({a}) /\ Cardinality({a}) = 1
    BY FS_Singleton
  <2>3. Cardinality({a} \cup {b}) = Cardinality({a}) + 1
    BY <1>4, <2>2, FS_AddElement
  <2>4. Cardinality(tags) \in Nat
    BY <1>1, FS_CardinalityType
  <2>. QED
    BY <1>3, <2>1, <2>2, <2>3, <2>4
<1>. QED
  BY <1>4

(* A handler that has ended.                                               *)
LEMMA IdleType == IdleRequest \in RequestType /\ IdleRequest.at = "idle"
BY SlotZero DEF IdleRequest, RequestType, Stages

(* A day begins without a reboot.                                          *)
LEMMA NewDayType ==
  ASSUME NEW tags \in SUBSET Slots
  PROVE  NewDay(tags) \in DayType /\ NewDay(tags).reboots = 0 /\ ~NewDay(tags).touched
BY SlotZero DEF NewDay, DayType

-----------------------------------------------------------------------------
(* The initial states satisfy the invariant.                               *)
LEMMA InitIInv == Init => IInv
<1>. SUFFICES ASSUME Init PROVE IInv
  OBVIOUS
<1>1. \A r \in Requests : req[r].at = "idle"
  BY IdleType DEF Init
<1>2. acs \in AcsType
  BY Zenon DEF Init, AcsType
<1>3. req \in [Requests -> RequestType]
  BY IdleType DEF Init
<1>4. reboot \in [today: BOOLEAN, slot: Slots]
  BY SlotZero DEF Init
<1>5. today \in DayType /\ today.reboots = 0
  BY NewDayType DEF Init
<1>6. Types
  BY <1>2, <1>3, <1>4, <1>5 DEF Init, Types
<1>7. OnceADay /\ RebootWasForATag
  BY <1>5 DEF OnceADay, RebootWasForATag
<1>8. AloneIsAlone /\ KnowsTheTags /\ Installed
  BY <1>1 DEF AloneIsAlone, KnowsTheTags, Installed
<1>. QED
  BY <1>6, <1>7, <1>8 DEF IInv

(* A request begins.                                                       *)
LEMMA BeginIInv ==
  ASSUME IInv, NEW r \in Requests, NEW stage \in {"provision", "clear"}, NEW slot \in Slots,
         Begin(r, stage, slot)
  PROVE  IInv'
<1>. USE DEF IInv
<1>. DEFINE others == {k \in Requests \ {r} : req[k].at # "idle"}
<1>1. /\ req' = [k \in Requests |->
                   IF k = r THEN [at |-> stage, slot |-> slot, remove |-> acs.tags,
                                  marked |-> acs.marker, alone |-> others = {}]
                   ELSE [req[k] EXCEPT !.alone = k \notin others /\ @]]
      /\ req[r].at = "idle"
      /\ UNCHANGED <<acs, clock, reboot, informed, faults, today>>
  BY DEF Begin
<1>2. /\ req'[r] \in RequestType /\ req'[r].at = stage /\ req'[r].slot = slot
      /\ req'[r].remove = acs.tags /\ (req'[r].alone <=> others = {})
  <2>1. req'[r] = [at |-> stage, slot |-> slot, remove |-> acs.tags,
                   marked |-> acs.marker, alone |-> others = {}]
    BY <1>1
  <2>2. acs.tags \in SUBSET Slots /\ acs.marker \in BOOLEAN /\ stage \in Stages
    BY DEF Types, AcsType, Stages
  <2>3. PICK free \in BOOLEAN : free = (others = {})
    BY Zenon
  <2>4. req'[r] = [at |-> stage, slot |-> slot, remove |-> acs.tags,
                   marked |-> acs.marker, alone |-> free]
    BY <2>1, <2>3, Zenon
  <2>5. req'[r] \in RequestType
    BY <2>2, <2>4 DEF RequestType
  <2>6. req'[r].at = stage /\ req'[r].slot = slot /\ req'[r].remove = acs.tags
    BY <2>4
  <2>7. req'[r].alone = free
    BY <2>4
  <2>8. req'[r].alone <=> others = {}
    BY <2>3, <2>7, Zenon
  <2>. QED
    BY <2>5, <2>6, <2>8
<1>3. ASSUME NEW k \in Requests, k # r
      PROVE  /\ req'[k] \in RequestType /\ req'[k].at = req[k].at /\ req'[k].slot = req[k].slot
             /\ req'[k].remove = req[k].remove
             /\ req'[k].alone => req[k].alone /\ req[k].at = "idle"
  <2>1. req'[k] = [req[k] EXCEPT !.alone = k \notin others /\ @]
    BY <1>1, <1>3
  <2>2. req[k] \in RequestType
    BY DEF Types
  <2>3. (k \notin others /\ req[k].alone) \in BOOLEAN
    BY Zenon
  <2>4. req'[k] \in RequestType /\ req'[k].alone = (k \notin others /\ req[k].alone)
    BY <2>1, <2>2, <2>3 DEF RequestType
  <2>5. req'[k].at = req[k].at /\ req'[k].slot = req[k].slot /\ req'[k].remove = req[k].remove
    BY <2>1, <2>2 DEF RequestType
  <2>6. k \notin others => req[k].at = "idle"
    BY <1>3
  <2>. QED
    BY <2>4, <2>5, <2>6
<1>4. req' \in [Requests -> RequestType]
  BY <1>1, <1>2, <1>3
<1>5. Types'
  BY <1>1, <1>4 DEF Types
<1>6. OnceADay' /\ RebootWasForATag'
  BY <1>1 DEF OnceADay, RebootWasForATag
<1>7. AloneIsAlone'
  <2>. SUFFICES ASSUME NEW a \in Requests, NEW b \in Requests,
                       req'[a].at # "idle", req'[a].alone, b # a
                PROVE  req'[b].at = "idle"
    BY DEF AloneIsAlone
  <2>1. a = r /\ others = {}
    BY <1>2, <1>3
  <2>. QED
    BY <1>3, <2>1
<1>8. KnowsTheTags'
  BY <1>1, <1>2, <1>3 DEF KnowsTheTags
<1>9. Installed'
  BY <1>1, <1>2, <1>3 DEF Installed
<1>. QED
  BY <1>5, <1>6, <1>7, <1>8, <1>9

(* What a call does to the requests: its own moves on, the rest stay.      *)
LEMMA CallMoves ==
  ASSUME Types, NEW r \in Requests, NEW stage \in Stages, Call(r, stage)
  PROVE  /\ req' \in [Requests -> RequestType]
         /\ req'[r].at = stage
         /\ stage # "idle" => /\ req'[r].slot = req[r].slot /\ req'[r].remove = req[r].remove
                              /\ req'[r].alone = req[r].alone
         /\ \A k \in Requests : k # r => req'[k] = req[k]
<1>1. req[r] \in RequestType
  BY DEF Types
<1>2. CASE stage = "idle"
  BY <1>2, IdleType DEF Call, Types
<1>3. CASE stage # "idle"
  <2>1. req' = [req EXCEPT ![r] = [req[r] EXCEPT !.at = stage]]
    BY <1>3 DEF Call, Types
  <2>2. [req[r] EXCEPT !.at = stage] \in RequestType
    BY <1>1 DEF RequestType
  <2>3. /\ [req[r] EXCEPT !.at = stage].at = stage
        /\ [req[r] EXCEPT !.at = stage].slot = req[r].slot
        /\ [req[r] EXCEPT !.at = stage].remove = req[r].remove
        /\ [req[r] EXCEPT !.at = stage].alone = req[r].alone
    BY <1>1 DEF RequestType
  <2>. QED
    BY <2>1, <2>2, <2>3 DEF Types
<1>. QED
  BY <1>2, <1>3

(* A request that moves on from an await, or ends, leaves the others'      *)
(* solitude as it was.                                                     *)
LEMMA AloneKept ==
  ASSUME IInv, NEW r \in Requests, req[r].at # "idle",
         req'[r].at # "idle" => req'[r].alone = req[r].alone,
         \A k \in Requests : k # r => req'[k] = req[k]
  PROVE  AloneIsAlone'
<1>. SUFFICES ASSUME NEW a \in Requests, NEW b \in Requests,
                     req'[a].at # "idle", req'[a].alone, b # a
              PROVE  req'[b].at = "idle"
  BY DEF AloneIsAlone
<1>1. CASE a = r
  BY <1>1 DEF IInv, AloneIsAlone
<1>2. CASE a # r
  BY <1>2 DEF IInv, AloneIsAlone
<1>. QED
  BY <1>1, <1>2

(* A day that has been touched asks nothing of its reboots.                *)
LEMMA TouchedDay ==
  ASSUME IInv, NEW due \in SUBSET Slots,
         today' = [today EXCEPT !.touched = TRUE] \/ today' = [today EXCEPT !.touched = TRUE, !.due = due]
  PROVE  today' \in DayType /\ OnceADay' /\ RebootWasForATag'
<1>1. today \in DayType
  BY DEF IInv, Types
<1>2. today' \in DayType /\ today'.touched
  <2>1. CASE today' = [today EXCEPT !.touched = TRUE]
    BY <1>1, <2>1 DEF DayType
  <2>2. CASE today' = [today EXCEPT !.touched = TRUE, !.due = due]
    BY <1>1, <2>2 DEF DayType
  <2>. QED
    BY <2>1, <2>2
<1>. QED
  BY <1>2 DEF OnceADay, RebootWasForATag

(* A step of a handler keeps the invariant.                                *)
LEMMA HandleIInv ==
  ASSUME IInv, NEW r \in Requests, Handle(r)
  PROVE  IInv'
<1>. USE DEF IInv
<1>0. acs \in AcsType /\ req[r] \in RequestType /\ today \in DayType
  BY DEF Types
<1>1. CASE PutProvision(r)
  <2>1. /\ req' \in [Requests -> RequestType] /\ req'[r].at = "preset"
        /\ req'[r].slot = req[r].slot /\ req'[r].remove = req[r].remove
        /\ req'[r].alone = req[r].alone
        /\ \A k \in Requests : k # r => req'[k] = req[k]
    BY <1>1, CallMoves DEF PutProvision, Stages
  <2>2. acs' = [acs EXCEPT !.provision = TRUE]
    BY <1>1 DEF PutProvision
  <2>3. acs' \in AcsType /\ acs'.tags = acs.tags /\ acs'.provision /\ acs'.preset = acs.preset
    BY <1>0, <2>2 DEF AcsType
  <2>4. req[r].at = "provision" /\ UNCHANGED <<clock, reboot, faults, today>>
    BY <1>1 DEF PutProvision, Call
  <2>5. Types'
    BY <2>1, <2>3, <2>4 DEF Types
  <2>6. OnceADay' /\ RebootWasForATag'
    BY <2>3, <2>4 DEF OnceADay, RebootWasForATag
  <2>7. AloneIsAlone'
    BY <2>1, <2>4, AloneKept
  <2>8. KnowsTheTags'
    BY <2>1, <2>3, <2>4 DEF KnowsTheTags
  <2>9. Installed'
    BY <2>1, <2>3, <2>4 DEF Installed
  <2>. QED
    BY <2>5, <2>6, <2>7, <2>8, <2>9
<1>2. CASE PutPreset(r)
  <2>1. /\ req' \in [Requests -> RequestType] /\ req'[r].at = "set"
        /\ req'[r].slot = req[r].slot /\ req'[r].remove = req[r].remove
        /\ req'[r].alone = req[r].alone
        /\ \A k \in Requests : k # r => req'[k] = req[k]
    BY <1>2, CallMoves DEF PutPreset, Stages
  <2>2. acs' = [acs EXCEPT !.preset = TRUE]
    BY <1>2 DEF PutPreset
  <2>3. acs' \in AcsType /\ acs'.tags = acs.tags /\ acs'.preset /\ acs'.provision = acs.provision
    BY <1>0, <2>2 DEF AcsType
  <2>4. req[r].at = "preset" /\ UNCHANGED <<clock, reboot, faults, today>>
    BY <1>2 DEF PutPreset, Call
  <2>5. Types'
    BY <2>1, <2>3, <2>4 DEF Types
  <2>6. OnceADay' /\ RebootWasForATag'
    BY <2>3, <2>4 DEF OnceADay, RebootWasForATag
  <2>7. AloneIsAlone'
    BY <2>1, <2>4, AloneKept
  <2>8. KnowsTheTags'
    BY <2>1, <2>3, <2>4 DEF KnowsTheTags
  <2>9. Installed'
    BY <2>1, <2>3, <2>4 DEF Installed
  <2>. QED
    BY <2>5, <2>6, <2>7, <2>8, <2>9
<1>3. CASE RemoveTag(r)
  <2>1. PICK slot \in req[r].remove :
          /\ acs' = [acs EXCEPT !.tags = @ \ {slot}]
          /\ req' = [req EXCEPT ![r].remove = @ \ {slot}]
    BY <1>3 DEF RemoveTag
  <2>2. /\ acs' \in AcsType /\ acs'.tags = acs.tags \ {slot}
        /\ acs'.provision = acs.provision /\ acs'.preset = acs.preset
    BY <1>0, <2>1 DEF AcsType
  <2>3. /\ req' \in [Requests -> RequestType]
        /\ req'[r].at = req[r].at /\ req'[r].slot = req[r].slot
        /\ req'[r].alone = req[r].alone /\ req'[r].remove = req[r].remove \ {slot}
        /\ \A k \in Requests : k # r => req'[k] = req[k]
    <3>1. req' = [req EXCEPT ![r] = [req[r] EXCEPT !.remove = req[r].remove \ {slot}]]
      BY <2>1 DEF Types
    <3>2. [req[r] EXCEPT !.remove = req[r].remove \ {slot}] \in RequestType
      BY <1>0 DEF RequestType
    <3>. QED
      BY <1>0, <3>1, <3>2 DEF Types, RequestType
  <2>4. req[r].at \in {"set", "clear"} /\ UNCHANGED <<clock, reboot, faults>>
        /\ today' = [today EXCEPT !.touched = TRUE]
    BY <1>3 DEF RemoveTag, Touched
  <2>5. today' \in DayType /\ OnceADay' /\ RebootWasForATag'
    BY <2>4, TouchedDay
  <2>6. Types'
    BY <2>2, <2>3, <2>4, <2>5 DEF Types
  <2>7. AloneIsAlone'
    BY <2>3, <2>4, AloneKept
  <2>8. ASSUME NEW k \in Requests, k # r, req[k].at # "idle" PROVE ~req[k].alone
    BY <2>4, <2>8 DEF AloneIsAlone
  <2>9. KnowsTheTags'
    BY <2>2, <2>3, <2>4, <2>8 DEF KnowsTheTags
  <2>10. Installed'
    BY <2>2, <2>3, <2>4 DEF Installed
  <2>. QED
    BY <2>5, <2>6, <2>7, <2>9, <2>10
<1>4. CASE AddTag(r)
  <2>1. /\ req' \in [Requests -> RequestType] /\ req'[r].at = "marker"
        /\ req'[r].slot = req[r].slot /\ req'[r].remove = req[r].remove
        /\ req'[r].alone = req[r].alone
        /\ \A k \in Requests : k # r => req'[k] = req[k]
    BY <1>4, CallMoves DEF AddTag, Stages
  <2>2. acs' = [acs EXCEPT !.tags = @ \cup {req[r].slot}] /\ req[r].slot \in Slots
    BY <1>0, <1>4 DEF AddTag, RequestType
  <2>3. /\ acs' \in AcsType /\ acs'.tags = acs.tags \cup {req[r].slot}
        /\ acs'.provision = acs.provision /\ acs'.preset = acs.preset
    BY <1>0, <2>2 DEF AcsType
  <2>4. req[r].at = "set" /\ req[r].remove = {} /\ UNCHANGED <<clock, reboot, faults>>
        /\ today' = [today EXCEPT !.touched = TRUE, !.due = @ \cup ({clock} \cap {req[r].slot})]
    BY <1>4 DEF AddTag, Call
  <2>5. today' \in DayType /\ OnceADay' /\ RebootWasForATag'
    <3>1. today.due \cup ({clock} \cap {req[r].slot}) \in SUBSET Slots
      BY <1>0, <2>2 DEF DayType
    <3>2. today' = [today EXCEPT !.touched = TRUE, !.due = today.due \cup ({clock} \cap {req[r].slot})]
      BY <1>0, <2>4 DEF DayType
    <3>. QED
      BY <3>1, <3>2, TouchedDay
  <2>6. Types'
    BY <2>1, <2>3, <2>4, <2>5 DEF Types
  <2>7. AloneIsAlone'
    BY <2>1, <2>4, AloneKept
  <2>8. ASSUME NEW k \in Requests, k # r, req[k].at # "idle" PROVE ~req[k].alone
    BY <2>4, <2>8 DEF AloneIsAlone
  <2>9. KnowsTheTags'
    BY <2>1, <2>3, <2>4, <2>8 DEF KnowsTheTags
  <2>10. Installed'
    BY <2>1, <2>3, <2>4 DEF Installed
  <2>. QED
    BY <2>5, <2>6, <2>7, <2>9, <2>10
<1>5. CASE AddMarker(r) \/ RemoveMarker(r)
  <2>1. /\ req' \in [Requests -> RequestType] /\ req'[r].at = "idle"
        /\ \A k \in Requests : k # r => req'[k] = req[k]
    BY <1>5, CallMoves DEF AddMarker, RemoveMarker, Stages
  <2>2. /\ acs' \in AcsType /\ acs'.tags = acs.tags
        /\ acs'.provision = acs.provision /\ acs'.preset = acs.preset
    <3>1. acs' = [acs EXCEPT !.marker = TRUE] \/ acs' = [acs EXCEPT !.marker = FALSE] \/ acs' = acs
      BY <1>5 DEF AddMarker, RemoveMarker
    <3>. QED
      BY <1>0, <3>1 DEF AcsType
  <2>4. req[r].at # "idle" /\ UNCHANGED <<clock, reboot, faults>>
        /\ today' = [today EXCEPT !.touched = TRUE]
    BY <1>5 DEF AddMarker, RemoveMarker, Call, Touched
  <2>5. today' \in DayType /\ OnceADay' /\ RebootWasForATag'
    BY <2>4, TouchedDay
  <2>6. Types'
    BY <2>1, <2>2, <2>4, <2>5 DEF Types
  <2>7. AloneIsAlone'
    BY <2>1, <2>4, AloneKept
  <2>9. KnowsTheTags'
    BY <2>1, <2>2 DEF KnowsTheTags
  <2>10. Installed'
    BY <2>1, <2>2 DEF Installed
  <2>. QED
    BY <2>5, <2>6, <2>7, <2>9, <2>10
<1>. QED
  BY <1>1, <1>2, <1>3, <1>4, <1>5 DEF Handle

(* A call that fails ends its request and changes nothing else.            *)
LEMMA FailsIInv ==
  ASSUME IInv, NEW r \in Requests, CallFails(r)
  PROVE  IInv'
<1>. USE DEF IInv
<1>1. /\ req[r].at # "idle" /\ faults' = faults + 1
      /\ req' = [req EXCEPT ![r] = IdleRequest]
      /\ UNCHANGED <<acs, clock, reboot, today>>
  BY DEF CallFails
<1>2. /\ req' \in [Requests -> RequestType] /\ req'[r].at = "idle"
      /\ \A k \in Requests : k # r => req'[k] = req[k]
  BY <1>1, IdleType DEF Types
<1>3. Types'
  BY <1>1, <1>2 DEF Types
<1>4. OnceADay' /\ RebootWasForATag'
  BY <1>1 DEF OnceADay, RebootWasForATag
<1>5. AloneIsAlone'
  BY <1>1, <1>2, AloneKept
<1>6. KnowsTheTags' /\ Installed'
  BY <1>1, <1>2 DEF KnowsTheTags, Installed
<1>. QED
  BY <1>3, <1>4, <1>5, <1>6

(* Sessions and time leave the requests and the ACS alone.                 *)
LEMMA SameRequests ==
  ASSUME IInv, UNCHANGED <<acs, req>>
  PROVE  AloneIsAlone' /\ KnowsTheTags' /\ Installed'
BY DEF IInv, AloneIsAlone, KnowsTheTags, Installed

(* A session that reboots the device is the first one of an untouched day  *)
(* with one tag: a second one would find its value no newer.               *)
LEMMA RebootIInv ==
  ASSUME IInv, NEW slot \in Slots, InformReboots(slot)
  PROVE  IInv'
<1>. USE DEF IInv
<1>1. /\ slot \in acs.tags /\ (reboot.today => slot > reboot.slot)
      /\ reboot' = [today |-> TRUE, slot |-> slot]
      /\ today' = [today EXCEPT !.reboots = @ + 1]
      /\ UNCHANGED <<acs, req, clock, ops, faults>>
  BY DEF InformReboots, Scheduled, Newer
<1>2. acs.tags \in SUBSET Slots /\ today \in DayType /\ reboot.slot \in Slots
  BY DEF Types, AcsType
<1>3. /\ today' \in DayType /\ today'.reboots = today.reboots + 1
      /\ today'.touched = today.touched
  BY <1>1, <1>2 DEF DayType
<1>4. reboot' \in [today: BOOLEAN, slot: Slots] /\ reboot'.today /\ reboot'.slot = slot
  BY <1>1
<1>5. Types'
  BY <1>1, <1>3, <1>4 DEF Types
<1>6. RebootWasForATag'
  BY <1>1, <1>4 DEF RebootWasForATag
<1>7. OnceADay'
  <2>. SUFFICES ASSUME ~today.touched, Cardinality(acs.tags) <= 1 PROVE today.reboots = 0
    BY <1>1, <1>3 DEF OnceADay
  <2>1. ASSUME today.reboots # 0 PROVE FALSE
    <3>1. reboot.today /\ reboot.slot \in acs.tags
      BY <2>1 DEF RebootWasForATag
    <3>2. slot = reboot.slot
      BY <1>1, <1>2, <3>1, OneTag
    <3>. QED
      BY <1>1, <1>2, <3>1, <3>2, SlotZero
  <2>. QED
    BY <2>1
<1>. QED
  BY <1>1, <1>5, <1>6, <1>7, SameRequests

(* Time passes; a new day starts without reboots.                          *)
LEMMA TickIInv ==
  ASSUME IInv, Tick
  PROVE  IInv'
<1>. USE DEF IInv
<1>0. UNCHANGED <<acs, req, ops, faults>> /\ acs.tags \in SUBSET Slots /\ today \in DayType
      /\ reboot \in [today: BOOLEAN, slot: Slots] /\ clock \in Slots
  BY DEF Tick, Types, AcsType
<1>1. CASE clock < LastSlot
  <2>1. clock' = clock + 1 /\ UNCHANGED reboot
        /\ today' = [today EXCEPT !.due = @ \cup (acs.tags \cap {clock + 1})]
    BY <1>1 DEF Tick
  <2>2. clock' \in Slots
    BY <1>0, <1>1, <2>1, SlotsAssumption DEF Slots
  <2>3. /\ today' \in DayType /\ today'.reboots = today.reboots
        /\ today'.touched = today.touched
    BY <1>0, <2>1 DEF DayType
  <2>4. Types'
    BY <1>0, <2>1, <2>2, <2>3 DEF Types
  <2>5. OnceADay' /\ RebootWasForATag'
    BY <1>0, <2>1, <2>3 DEF OnceADay, RebootWasForATag
  <2>. QED
    BY <1>0, <2>4, <2>5, SameRequests
<1>2. CASE ~(clock < LastSlot)
  <2>1. clock' = 0 /\ today' = NewDay(acs.tags) /\ reboot' = [reboot EXCEPT !.today = FALSE]
    BY <1>2 DEF Tick
  <2>2. today' \in DayType /\ today'.reboots = 0
    BY <1>0, <2>1, NewDayType
  <2>3. reboot' \in [today: BOOLEAN, slot: Slots]
    BY <1>0, <2>1
  <2>4. Types'
    BY <1>0, <2>1, <2>2, <2>3, SlotZero DEF Types
  <2>5. OnceADay' /\ RebootWasForATag'
    BY <2>2 DEF OnceADay, RebootWasForATag
  <2>. QED
    BY <1>0, <2>4, <2>5, SameRequests
<1>. QED
  BY <1>1, <1>2

(* Every step keeps the invariant.                                         *)
LEMMA StepIInv == IInv /\ [Next]_vars => IInv'
<1>. SUFFICES ASSUME IInv, [Next]_vars PROVE IInv'
  OBVIOUS
<1>1. ASSUME NEW r \in Requests, NEW slot \in Slots, SetSchedule(r, slot) PROVE IInv'
  BY <1>1, BeginIInv DEF SetSchedule
<1>2. ASSUME NEW r \in Requests, ClearSchedule(r) PROVE IInv'
  BY <1>2, BeginIInv, SlotZero DEF ClearSchedule
<1>3. ASSUME NEW r \in Requests, Handle(r) PROVE IInv'
  BY <1>3, HandleIInv
<1>4. ASSUME NEW r \in Requests, CallFails(r) PROVE IInv'
  BY <1>4, FailsIInv
<1>5. ASSUME NEW slot \in Slots, InformReboots(slot) PROVE IInv'
  BY <1>5, RebootIInv
<1>6. CASE InformQuietly \/ UNCHANGED vars
  <2>1. UNCHANGED <<acs, req, clock, reboot, faults, today>>
    BY <1>6 DEF InformQuietly, vars
  <2>2. Types' /\ OnceADay' /\ RebootWasForATag'
    BY <2>1 DEF IInv, Types, OnceADay, RebootWasForATag
  <2>. QED
    BY <2>1, <2>2, SameRequests DEF IInv
<1>7. CASE Tick
  BY <1>7, TickIInv
<1>. QED
  BY <1>1, <1>2, <1>3, <1>4, <1>5, <1>6, <1>7 DEF Next, Inform

(* The inductive invariant holds in every reachable state.                 *)
THEOREM Invariant == Spec => []IInv
BY InitIInv, StepIInv, PTL DEF Spec

(* On a day on which nobody touches the schedule, a device with one reboot *)
(* tag reboots once at most, however many slots a day has.                 *)
THEOREM RebootsOnce == Spec => []OnceADay
<1>1. IInv => OnceADay
  BY DEF IInv
<1>. QED
  BY <1>1, Invariant, PTL

(* The last step of a set that no other request overlaps leaves its own    *)
(* hour, and no other, in force.                                           *)
LEMMA LastStep ==
  ASSUME IInv, [Next]_vars, NEW r \in Requests,
         req[r].at = "marker", req[r].alone, req'[r].at = "idle", faults' = faults
  PROVE  acs'.tags = {req[r].slot} /\ acs'.marker /\ acs'.provision /\ acs'.preset
<1>. USE DEF IInv
<1>1. ASSUME NEW k \in Requests, NEW stage, NEW slot, Begin(k, stage, slot) PROVE FALSE
  <2>1. k # r /\ req' = [q \in Requests |->
                   IF q = k THEN [at |-> stage, slot |-> slot, remove |-> acs.tags, marked |-> acs.marker,
                                  alone |-> {h \in Requests \ {k} : req[h].at # "idle"} = {}]
                   ELSE [req[q] EXCEPT !.alone = q \notin {h \in Requests \ {k} : req[h].at # "idle"} /\ @]]
    BY <1>1 DEF Begin
  <2>2. req'[r] = [req[r] EXCEPT !.alone = r \notin {h \in Requests \ {k} : req[h].at # "idle"} /\ @]
    BY <2>1
  <2>3. req'[r].at = req[r].at
    BY <2>2 DEF Types, RequestType
  <2>. QED
    BY <2>3
<1>2. ASSUME NEW k \in Requests, k # r, Handle(k) PROVE FALSE
  <2>1. req[k].at = "idle"
    BY <1>2 DEF AloneIsAlone
  <2>. QED
    BY <1>2, <2>1
       DEF Handle, PutProvision, PutPreset, RemoveTag, AddTag, AddMarker, RemoveMarker
<1>3. CASE Handle(r)
  <2>1. AddMarker(r)
    BY <1>3 DEF Handle, PutProvision, PutPreset, RemoveTag, AddTag, RemoveMarker
  <2>2. acs' = [acs EXCEPT !.marker = TRUE] /\ acs \in AcsType
    BY <2>1 DEF AddMarker, Types
  <2>3. acs'.tags = acs.tags /\ acs'.marker /\ acs'.provision = acs.provision
        /\ acs'.preset = acs.preset
    BY <2>2 DEF AcsType
  <2>. QED
    BY <2>3 DEF KnowsTheTags, Installed
<1>4. ASSUME NEW k \in Requests, CallFails(k) PROVE FALSE
  BY <1>4 DEF CallFails, Types
<1>5. CASE Inform \/ Tick \/ UNCHANGED vars
  BY <1>5 DEF Inform, InformQuietly, InformReboots, Tick, vars
<1>. QED
  BY <1>1, <1>2, <1>3, <1>4, <1>5 DEF Next, SetSchedule, ClearSchedule

(* A set that is served alone and without error takes effect, whatever     *)
(* requests that failed or overlapped before it had left behind.           *)
THEOREM SetIsEffective == Spec => SetTakesEffect
<1>1. IInv /\ [Next]_vars =>
        [\A r \in Requests :
           req[r].at = "marker" /\ req[r].alone /\ req'[r].at = "idle" /\ faults' = faults =>
             acs'.tags = {req[r].slot} /\ acs'.marker /\ acs'.provision /\ acs'.preset]_vars
  BY LastStep
<1>. QED
  BY <1>1, Invariant, PTL DEF Spec, SetTakesEffect
=============================================================================
