-------------------------- MODULE ScheduledReboot --------------------------
(***************************************************************************)
(* The daily reboot of one CPE: the handlers of app/routers/system.py that *)
(* write its tags, and the provision they install in the ACS, which runs   *)
(* in every session of a device that carries the marker tag.               *)
(*                                                                         *)
(* The day is cut into slots, one for each HH:MM a schedule can have.      *)
(* The value the ACS keeps for Reboot is the slot it was declared with,    *)
(* and whether that was today: the only things the provision's comparison  *)
(* with the slot of today can tell.  A handler ends an action where it     *)
(* awaits the ACS, and any of its calls may fail.                          *)
(***************************************************************************)
EXTENDS Naturals, FiniteSets, Sequences

CONSTANTS
  Requests,    \* requests being served at a time
  LastSlot,    \* slots of a day: 0..LastSlot
  KnowsTime,   \* the device reports InternetGatewayDevice.Time (TR-098)
  EverySlot,   \* the device informs in every slot of the day
  MaxOps,      \* bound: requests
  MaxFaults    \* bound: calls that fail

ASSUME SlotsAssumption ==
  /\ LastSlot \in Nat
  /\ KnowsTime \in BOOLEAN
  /\ EverySlot \in BOOLEAN
ASSUME BoundsAssumption ==
  /\ MaxOps \in Nat
  /\ MaxFaults \in Nat

VARIABLES
  acs,      \* tags of the device, and what the ACS has been given to run
  req,      \* per request: where it awaits, its slot, what it has still to remove,
            \* and (history) whether no other request overlapped it
  clock,    \* the device's local time
  reboot,   \* the Reboot value the ACS holds
  informed, \* the device has informed in this slot
  ops,      \* requests so far (bound)
  faults,   \* failed calls so far (bound)
  today     \* history of the day: reboots, whether the schedule was touched,
            \* and the slots whose tag was there when their time came

vars == <<acs, req, clock, reboot, informed, ops, faults, today>>

-----------------------------------------------------------------------------
Slots == 0..LastSlot

IdleRequest == [at |-> "idle", slot |-> 0, remove |-> {}, marked |-> FALSE, alone |-> TRUE]

NewDay(tags) == [reboots |-> 0, touched |-> FALSE, due |-> tags \cap {0}]

Init ==
  /\ acs = [tags |-> {}, marker |-> FALSE, provision |-> FALSE, preset |-> FALSE]
  /\ req = [r \in Requests |-> IdleRequest]
  /\ clock \in Slots
  /\ reboot = [today |-> FALSE, slot |-> 0]
  /\ informed = FALSE
  /\ ops = 0
  /\ faults = 0
  /\ today = NewDay({})

-----------------------------------------------------------------------------
(* The handlers.                                                           *)

Begin(r, stage, slot) ==
  /\ req[r].at = "idle"
  /\ ops < MaxOps
  /\ ops' = ops + 1
  /\ LET others == {k \in Requests \ {r} : req[k].at # "idle"}
     IN  req' = [k \in Requests |->
                   IF k = r THEN [at |-> stage, slot |-> slot, remove |-> acs.tags,
                                  marked |-> acs.marker, alone |-> others = {}]
                   ELSE [req[k] EXCEPT !.alone = k \notin others /\ @]]
  /\ UNCHANGED <<acs, clock, reboot, informed, faults, today>>

(* A call of a handler reaches the ACS; the handler goes on to `stage`.    *)
Call(r, stage) ==
  /\ req' = [req EXCEPT ![r] = IF stage = "idle" THEN IdleRequest ELSE [@ EXCEPT !.at = stage]]
  /\ UNCHANGED <<clock, reboot, informed, ops, faults>>

Touched == today' = [today EXCEPT !.touched = TRUE]

(* authorized_device has answered with the device's tags.                  *)
SetSchedule(r, slot) == Begin(r, "provision", slot)
ClearSchedule(r) == Begin(r, "clear", 0)

PutProvision(r) ==
  /\ req[r].at = "provision"
  /\ acs' = [acs EXCEPT !.provision = TRUE]
  /\ Call(r, "preset")
  /\ UNCHANGED today

PutPreset(r) ==
  /\ req[r].at = "preset"
  /\ acs' = [acs EXCEPT !.preset = TRUE]
  /\ Call(r, "set")
  /\ UNCHANGED today

(* The loop over the tags the device had when the request began.           *)
RemoveTag(r) ==
  /\ req[r].at \in {"set", "clear"}
  /\ \E slot \in req[r].remove :
       /\ acs' = [acs EXCEPT !.tags = @ \ {slot}]
       /\ req' = [req EXCEPT ![r].remove = @ \ {slot}]
  /\ Touched
  /\ UNCHANGED <<clock, reboot, informed, ops, faults>>

(* A handler that removes one of the tags at most.                         *)
AddTagEarly(r) ==
  /\ req[r].at = "set"
  /\ acs' = [acs EXCEPT !.tags = @ \cup {req[r].slot}]
  /\ today' = [today EXCEPT !.touched = TRUE, !.due = @ \cup ({clock} \cap {req[r].slot})]
  /\ Call(r, "marker")

AddTag(r) ==
  /\ req[r].at = "set"
  /\ req[r].remove = {}
  /\ acs' = [acs EXCEPT !.tags = @ \cup {req[r].slot}]
  /\ today' = [today EXCEPT !.touched = TRUE, !.due = @ \cup ({clock} \cap {req[r].slot})]
  /\ Call(r, "marker")

AddMarker(r) ==
  /\ req[r].at = "marker"
  /\ acs' = [acs EXCEPT !.marker = TRUE]
  /\ Touched
  /\ Call(r, "idle")

RemoveMarker(r) ==
  /\ req[r].at = "clear"
  /\ req[r].remove = {}
  /\ acs' = IF req[r].marked THEN [acs EXCEPT !.marker = FALSE] ELSE acs
  /\ Touched
  /\ Call(r, "idle")

(* A call fails and its handler ends there, or the service is restarted.   *)
CallFails(r) ==
  /\ req[r].at # "idle"
  /\ faults < MaxFaults
  /\ faults' = faults + 1
  /\ req' = [req EXCEPT ![r] = IdleRequest]
  /\ UNCHANGED <<acs, clock, reboot, informed, ops, today>>

-----------------------------------------------------------------------------
(* The provision, in a session of the device.                              *)

Runs == acs.marker /\ acs.provision /\ acs.preset

(* Of several reboot tags the last one in the ACS's order counts.          *)
Scheduled(slot) == slot \in acs.tags

(* A provision that declares a new value in every session.                 *)
AlwaysNewer(slot) == slot \in Slots

(* A provision that declares an hour, and not the hour of today.           *)
NewerSlotOnly(slot) == slot > reboot.slot

(* declare("Reboot", ...) reboots when the value is newer than the stored. *)
Newer(slot) == reboot.today => slot > reboot.slot

Due(slot) == KnowsTime /\ clock >= slot

InformReboots(slot) ==
  /\ Runs /\ Scheduled(slot) /\ Due(slot) /\ Newer(slot)
  /\ reboot' = [today |-> TRUE, slot |-> slot]
  /\ today' = [today EXCEPT !.reboots = @ + 1]
  /\ informed' = TRUE
  /\ UNCHANGED <<acs, req, clock, ops, faults>>

InformQuietly ==
  /\ Runs => \/ acs.tags = {}
             \/ \E slot \in acs.tags : ~(Due(slot) /\ Newer(slot))
  /\ informed' = TRUE
  /\ UNCHANGED <<acs, req, clock, reboot, ops, faults, today>>

Inform == InformQuietly \/ \E slot \in Slots : InformReboots(slot)

(* Time passes; after the last slot of a day comes the first of the next.  *)
Tick ==
  /\ EverySlot => informed
  /\ IF clock < LastSlot
       THEN /\ clock' = clock + 1
            /\ today' = [today EXCEPT !.due = @ \cup (acs.tags \cap {clock + 1})]
            /\ UNCHANGED reboot
       ELSE /\ clock' = 0
            /\ today' = NewDay(acs.tags)
            /\ reboot' = [reboot EXCEPT !.today = FALSE]
  /\ informed' = FALSE
  /\ UNCHANGED <<acs, req, ops, faults>>

-----------------------------------------------------------------------------
Handle(r) ==
  \/ PutProvision(r) \/ PutPreset(r) \/ RemoveTag(r) \/ AddTag(r)
  \/ AddMarker(r) \/ RemoveMarker(r)

Next ==
  \/ \E r \in Requests :
       \/ \E slot \in Slots : SetSchedule(r, slot)
       \/ ClearSchedule(r) \/ Handle(r) \/ CallFails(r)
  \/ Inform
  \/ Tick

Spec == Init /\ [][Next]_vars

(* A request that is accepted is served, the device keeps informing and    *)
(* time passes.  Nothing obliges anyone to set or clear a schedule.        *)
FairSpec ==
  /\ Spec
  /\ \A r \in Requests : WF_vars(Handle(r))
  /\ WF_vars(Inform)
  /\ WF_vars(Tick)

-----------------------------------------------------------------------------
(* "reinicia una sola vez al dia (idempotente, sin bucle)": on a day on    *)
(* which nobody touches the schedule a device with one reboot tag reboots  *)
(* once at most, however often it informs and whatever failed before.      *)
OnceADay ==
  ~today.touched /\ Cardinality(acs.tags) <= 1 => today.reboots <= 1

(* A set that no other request overlaps and that ends without error leaves *)
(* its own hour, and no other, in force, whatever requests that failed or  *)
(* overlapped before it had left behind.                                   *)
SetTakesEffect ==
  [][\A r \in Requests :
       req[r].at = "marker" /\ req[r].alone /\ req'[r].at = "idle" /\ faults' = faults =>
         acs'.tags = {req[r].slot} /\ acs'.marker /\ acs'.provision /\ acs'.preset]_vars

InForce(slot) ==
  /\ acs.tags = {slot}
  /\ Runs
  /\ \A r \in Requests : req[r].at = "idle"

(* A schedule that stays in force reboots the device every day, given that *)
(* the device informs at least once in every slot.                         *)
RebootsEveryDay ==
  \A slot \in Slots :
    <>[]InForce(slot) => []<>(reboot = [today |-> TRUE, slot |-> slot])

(* What the repository says and the code does not keep: "Se reiniciara a   *)
(* esa hora (dentro de la ventana del intervalo de inform)".  The device   *)
(* reboots only if the schedule was there when its time came.              *)
NotBeforeItsTime ==
  [][\A slot \in Slots : InformReboots(slot) => slot \in today.due]_vars
=============================================================================
