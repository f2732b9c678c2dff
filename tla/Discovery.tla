----------------------------- MODULE Discovery -----------------------------
(***************************************************************************)
(* Who owns a device: the discovery loop of app/discovery.py, the requests *)
(* of app/routers/discovery.py, and the tags of the ACS they write.        *)
(*                                                                         *)
(* The loop reads the rules, awaits the ACS's list of devices, and then    *)
(* awaits one tag after another; requests run between its awaits.  An      *)
(* address is a number of AddressBits bits and a rule's network the first  *)
(* `len` of them.                                                          *)
(***************************************************************************)
EXTENDS Naturals, FiniteSets

CONSTANTS
  Devices,      \* CPEs that may appear in the ACS
  Isps,         \* tags of tenancy
  PanelTags,    \* tags the panel itself puts (sched-reboot, reboot@HH:MM)
  Rules,        \* rules an admin may create: [base, len, isp]
  Addresses,    \* addresses a device may inform from
  AddressBits,  \* their width
  NoAddress,    \* the device reports no usable address
  NoIsp,        \* isp_para assigns nobody
  Requests,     \* HTTP requests being served
  MaxOps,       \* bound: requests, and devices that appear or move
  MaxFaults     \* bound: calls that fail and restarts

ASSUME AddressesAssumption ==
  /\ AddressBits \in Nat
  /\ Addresses \subseteq 0..(2^AddressBits - 1)
  /\ NoAddress \notin Addresses
ASSUME TagsAssumption ==
  /\ Isps \cap PanelTags = {}
  /\ NoIsp \notin Isps
  /\ Rules \subseteq [base: Nat, len: 0..AddressBits, isp: Isps]
ASSUME DevicesAssumption == Devices # {}
ASSUME BoundsAssumption ==
  /\ MaxOps \in Nat
  /\ MaxFaults \in Nat

VARIABLES
  acs,     \* per device: whether the ACS knows it, its address and its tags
  rules,   \* the owner_rule table
  auto,    \* the discovery_auto setting
  loop,    \* the discovery loop: where it awaits, the rules it read, what it will assign
  req,     \* per request: where it awaits, and what it assigns
  ops,     \* operations so far (bound)
  faults,  \* faults so far (bound)
  raced    \* history: devices a request assigned since the loop's list was made

vars == <<acs, rules, auto, loop, req, ops, faults, raced>>

-----------------------------------------------------------------------------
(* Every tag taken for a tenancy one.                                      *)
AllTags(tags) == tags

(* tags_de_tenencia.                                                       *)
Owners(tags) == tags \ PanelTags

Matches(address, rule) ==
  address # NoAddress /\ address \div 2^(AddressBits - rule.len) = rule.base

(* A winner that does not look for rivals.                                 *)
FirstIspFor(address, table) ==
  LET fitting == {r \in table : Matches(address, r)}
  IN  IF fitting = {} THEN NoIsp
      ELSE (CHOOSE r \in fitting : \A other \in fitting : other.len <= r.len).isp

(* isp_para: the most specific network wins, unless another ISP has one    *)
(* just as specific.                                                       *)
IspFor(address, table) ==
  LET fitting == {r \in table : Matches(address, r)}
      best == {r.isp : r \in {r \in fitting : \A other \in fitting : other.len <= r.len}}
  IN  IF Cardinality(best) = 1 THEN CHOOSE isp \in best : TRUE ELSE NoIsp

(* A list of every device the ACS knows.                                   *)
PendingAll(table) ==
  {[id |-> d, address |-> acs[d].address, isp |-> IspFor(acs[d].address, table)] :
     d \in {d \in Devices : acs[d].known}}

(* escanear, once the ACS has answered.                                    *)
Pending(table) ==
  {[id |-> d, address |-> acs[d].address, isp |-> IspFor(acs[d].address, table)] :
     d \in {d \in Devices : acs[d].known /\ Owners(acs[d].tags) = {}}}

IdleLoop == [pc |-> "idle", rules |-> {}, todo |-> {}]
IdleRequest == [at |-> "idle", id |-> CHOOSE d \in Devices : TRUE, isp |-> NoIsp]

Init ==
  /\ acs = [d \in Devices |-> [known |-> FALSE, address |-> NoAddress, tags |-> {}]]
  /\ rules = {}
  /\ auto = FALSE
  /\ loop = IdleLoop
  /\ req = [r \in Requests |-> IdleRequest]
  /\ ops = 0
  /\ faults = 0
  /\ raced = {}

-----------------------------------------------------------------------------
(* The loop.                                                               *)

(* escanear reads the rules before it awaits the ACS.                      *)
ReadRules ==
  /\ loop.pc = "idle"
  /\ loop' = [IdleLoop EXCEPT !.pc = "listing", !.rules = rules]
  /\ UNCHANGED <<acs, rules, auto, req, ops, faults, raced>>

(* The list comes; automatico() is asked once, before the first tag.       *)
ListDevices ==
  /\ loop.pc = "listing"
  /\ LET todo == {p \in Pending(loop.rules) : p.isp # NoIsp}
     IN  loop' = IF auto /\ todo # {} THEN [loop EXCEPT !.pc = "assigning", !.todo = todo]
                 ELSE IdleLoop
  /\ raced' = {}
  /\ UNCHANGED <<acs, rules, auto, req, ops, faults>>

AddTag(d, tag) == acs' = [acs EXCEPT ![d].tags = @ \cup {tag}]

Without(p) ==
  IF loop.todo = {p} THEN IdleLoop ELSE [loop EXCEPT !.todo = @ \ {p}]

Assign(p) ==
  /\ loop.pc = "assigning"
  /\ p \in loop.todo
  /\ AddTag(p.id, p.isp)
  /\ loop' = Without(p)
  /\ UNCHANGED <<rules, auto, req, ops, faults, raced>>

(* A failed tag is logged and the rest goes on.                            *)
AssignFails(p) ==
  /\ loop.pc = "assigning"
  /\ p \in loop.todo
  /\ faults < MaxFaults
  /\ faults' = faults + 1
  /\ loop' = Without(p)
  /\ UNCHANGED <<acs, rules, auto, req, ops, raced>>

(* A list that fails and takes the loop's task with it.                    *)
ListFailsForGood ==
  /\ loop.pc = "listing"
  /\ faults < MaxFaults
  /\ faults' = faults + 1
  /\ loop' = [loop EXCEPT !.pc = "stopped"]
  /\ UNCHANGED <<acs, rules, auto, req, ops, raced>>

(* A failed list ends the cycle; the loop sleeps and tries again.          *)
ListFails ==
  /\ loop.pc = "listing"
  /\ faults < MaxFaults
  /\ faults' = faults + 1
  /\ loop' = IdleLoop
  /\ UNCHANGED <<acs, rules, auto, req, ops, raced>>

-----------------------------------------------------------------------------
(* The requests of an admin, and the devices.                              *)

Operation ==
  /\ ops < MaxOps
  /\ ops' = ops + 1

CreateRule(rule) ==
  /\ Operation
  /\ rules' = rules \cup {rule}
  /\ UNCHANGED <<acs, auto, loop, req, faults, raced>>

DeleteRule(rule) ==
  /\ Operation
  /\ rule \in rules
  /\ rules' = rules \ {rule}
  /\ UNCHANGED <<acs, auto, loop, req, faults, raced>>

SetMode(on) ==
  /\ Operation
  /\ auto' = on
  /\ UNCHANGED <<acs, rules, loop, req, faults, raced>>

(* POST /discovery/assign: the ACS knows the device ...                    *)
AskToAssign(r, d, isp) ==
  /\ req[r].at = "idle"
  /\ acs[d].known
  /\ Operation
  /\ req' = [req EXCEPT ![r] = [at |-> "tagging", id |-> d, isp |-> isp]]
  /\ UNCHANGED <<acs, rules, auto, loop, faults, raced>>

(* ... and is given the tag, whatever tags it has.                         *)
AssignByHand(r) ==
  /\ req[r].at = "tagging"
  /\ AddTag(req[r].id, req[r].isp)
  /\ raced' = raced \cup {req[r].id}
  /\ req' = [req EXCEPT ![r] = IdleRequest]
  /\ UNCHANGED <<rules, auto, loop, ops, faults>>

RequestFails(r) ==
  /\ req[r].at = "tagging"
  /\ faults < MaxFaults
  /\ faults' = faults + 1
  /\ req' = [req EXCEPT ![r] = IdleRequest]
  /\ UNCHANGED <<acs, rules, auto, loop, ops, raced>>

(* A device informs for the first time, or from another address.           *)
InformFrom(d, address) ==
  /\ Operation
  /\ acs' = [acs EXCEPT ![d].known = TRUE, ![d].address = address]
  /\ UNCHANGED <<rules, auto, loop, req, faults, raced>>

(* The panel schedules a reboot of the device (ScheduledReboot).           *)
PutPanelTag(d, tag) ==
  /\ acs[d].known
  /\ Operation
  /\ AddTag(d, tag)
  /\ UNCHANGED <<rules, auto, loop, req, faults, raced>>

Restart ==
  /\ faults < MaxFaults
  /\ faults' = faults + 1
  /\ loop' = IdleLoop
  /\ req' = [r \in Requests |-> IdleRequest]
  /\ UNCHANGED <<acs, rules, auto, ops, raced>>

-----------------------------------------------------------------------------
LoopStep ==
  \/ ReadRules
  \/ ListDevices
  \/ \E p \in loop.todo : Assign(p)

Next ==
  \/ LoopStep
  \/ ListFails
  \/ \E p \in loop.todo : AssignFails(p)
  \/ \E rule \in Rules : CreateRule(rule) \/ DeleteRule(rule)
  \/ \E on \in BOOLEAN : SetMode(on)
  \/ \E r \in Requests :
       \/ \E d \in Devices, isp \in Isps : AskToAssign(r, d, isp)
       \/ AssignByHand(r)
       \/ RequestFails(r)
  \/ \E d \in Devices :
       \/ \E address \in Addresses \cup {NoAddress} : InformFrom(d, address)
       \/ \E tag \in PanelTags : PutPanelTag(d, tag)
  \/ Restart

Spec == Init /\ [][Next]_vars

(* The loop runs for as long as the service does.                          *)
FairSpec == Spec /\ WF_vars(LoopStep)

-----------------------------------------------------------------------------
Assignments == [id: Devices, address: Addresses \cup {NoAddress}, isp: Isps]

(* Type invariant; what the loop is going to assign is one tag per device. *)
TypeOK ==
  /\ acs \in [Devices -> [known: BOOLEAN, address: Addresses \cup {NoAddress},
                          tags: SUBSET (Isps \cup PanelTags)]]
  /\ rules \subseteq Rules
  /\ auto \in BOOLEAN
  /\ loop.pc \in {"idle", "listing", "assigning"}
  /\ loop.rules \subseteq Rules
  /\ loop.todo \subseteq Assignments
  /\ loop.pc = "assigning" <=> loop.todo # {}
  /\ \A p, q \in loop.todo : p.id = q.id => p = q
  /\ req \in [Requests -> [at: {"idle", "tagging"}, id: Devices, isp: Isps \cup {NoIsp}]]
  /\ \A r \in Requests : req[r].at = "tagging" => req[r].isp \in Isps
  /\ ops \in 0..MaxOps
  /\ faults \in 0..MaxFaults
  /\ raced \subseteq Devices

(* "ante un empate entre dos ISP no asigna": an ISP is only assigned an    *)
(* address one of its rules holds, more specific than any rule of another  *)
(* ISP that holds it.                                                      *)
NeverARival ==
  \A p \in loop.todo :
    \E mine \in loop.rules :
      /\ mine.isp = p.isp
      /\ Matches(p.address, mine)
      /\ \A other \in loop.rules :
           other.isp # p.isp /\ Matches(p.address, other) => other.len < mine.len

(* "un tag mal puesto le daria a un ISP acceso a equipos de otro": the     *)
(* loop gives a second owner to no device, unless a request gave it the    *)
(* first one after the loop had made its list.                             *)
SecondOwnerOnlyByRace ==
  [][\A p \in loop.todo :
       Assign(p) /\ Owners(acs[p.id].tags) # {} => p.id \in raced]_vars

Covered(d) ==
  /\ acs[d].known
  /\ IspFor(acs[d].address, rules) # NoIsp

(* In automatic mode a device whose address one ISP has the best claim to  *)
(* ends up with an owner, whatever failed before.                          *)
CoveredGetsOwner ==
  \A d \in Devices : <>[](auto /\ Covered(d)) => <>(acs[d].tags \cap Isps # {})
=============================================================================
