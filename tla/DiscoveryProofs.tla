--------------------------- MODULE DiscoveryProofs ---------------------------
(***************************************************************************)
(* Proofs about Discovery, for any number of devices, ISPs, rules,         *)
(* requests, operations and faults.  The loop decides on a list it read    *)
(* before its awaits; the inductive invariant says what that list still    *)
(* tells: whose rules every assignment rests on, and that a device of the  *)
(* list that has an owner by now got it from a request.                    *)
(***************************************************************************)
EXTENDS Discovery, FiniteSetTheorems, TLAPS

(* The rules are a table one request adds to at a time: finitely many.     *)
FiniteTables == IsFiniteSet(rules) /\ IsFiniteSet(loop.rules)

(* The fields of the loop; TypeOK says what each may be.                   *)
LoopType ==
  loop \in [pc: {"idle", "listing", "assigning"}, rules: SUBSET Rules,
            todo: SUBSET Assignments]

(* A device still to be assigned has no owner, or one a request gave it    *)
(* since the list was made.                                                *)
FreeWhenListed ==
  \A p \in loop.todo : Owners(acs[p.id].tags) # {} => p.id \in raced

IInv == TypeOK /\ LoopType /\ FiniteTables /\ NeverARival /\ FreeWhenListed

-----------------------------------------------------------------------------
(* The winner isp_para finds holds the address with a rule more specific   *)
(* than any rule of another ISP that holds it.                             *)
LEMMA IspForHolds ==
  ASSUME NEW address, NEW table \in SUBSET Rules, IsFiniteSet(table),
         IspFor(address, table) # NoIsp
  PROVE  /\ IspFor(address, table) \in Isps
         /\ \E mine \in table :
              /\ mine.isp = IspFor(address, table)
              /\ Matches(address, mine)
              /\ \A other \in table :
                   other.isp # mine.isp /\ Matches(address, other) => other.len < mine.len
<1>. DEFINE fitting == {r \in table : Matches(address, r)}
            longest == {r \in fitting : \A other \in fitting : other.len <= r.len}
            isps == {r.isp : r \in longest}
            winner == IspFor(address, table)
<1>1. winner = IF Cardinality(isps) = 1 THEN CHOOSE isp \in isps : TRUE ELSE NoIsp
  BY DEF IspFor
<1>2. IsFiniteSet(longest)
  BY FS_Subset
<1>3. IsFiniteSet(isps)
  <2>. DEFINE f == [r \in longest |-> r.isp]
  <2>1. f \in Surjection(longest, isps)
    BY DEF Surjection
  <2>. QED
    BY <1>2, <2>1, FS_Surjection
<1>4. Cardinality(isps) = 1
  BY <1>1
<1>5. PICK isp : isps = {isp}
  BY <1>3, <1>4, FS_Singleton
<1>6. winner = isp
  BY <1>1, <1>4, <1>5
<1>7. PICK mine \in longest : mine.isp = isp
  BY <1>5
<1>8. ASSUME NEW other \in table, other.isp # isp, Matches(address, other)
      PROVE  other.len < mine.len
  <2>1. other \in fitting /\ mine \in fitting /\ other.len <= mine.len
    BY <1>7, <1>8
  <2>2. other \notin longest
    BY <1>5, <1>8
  <2>3. PICK third \in fitting : ~(third.len <= other.len)
    BY <2>1, <2>2
  <2>4. third.len <= mine.len
    BY <1>7, <2>3
  <2>5. other.len \in Nat /\ mine.len \in Nat /\ third.len \in Nat
    BY <2>1, <2>3, TagsAssumption, AddressesAssumption
  <2>. QED
    BY <2>3, <2>4, <2>5
<1>9. mine \in table /\ Matches(address, mine) /\ mine.isp \in Isps
  BY <1>7, TagsAssumption
<1>. QED
  BY <1>6, <1>7, <1>8, <1>9

(* What escanear lists for the automatic mode: one assignment per device,  *)
(* each of a device without an owner, each to the rightful ISP.            *)
LEMMA PendingHolds ==
  ASSUME TypeOK, NEW table \in SUBSET Rules, IsFiniteSet(table),
         NEW todo, todo = {p \in Pending(table) : p.isp # NoIsp}
  PROVE  /\ todo \in SUBSET Assignments
         /\ \A p, q \in todo : p.id = q.id => p = q
         /\ \A p \in todo : Owners(acs[p.id].tags) = {}
         /\ \A p \in todo : \E mine \in table :
              /\ mine.isp = p.isp
              /\ Matches(p.address, mine)
              /\ \A other \in table :
                   other.isp # p.isp /\ Matches(p.address, other) => other.len < mine.len
<1>1. ASSUME NEW p \in todo
      PROVE  \E d \in Devices :
               /\ p = [id |-> d, address |-> acs[d].address,
                       isp |-> IspFor(acs[d].address, table)]
               /\ Owners(acs[d].tags) = {}
               /\ IspFor(acs[d].address, table) # NoIsp
  BY DEF Pending
<1>2. ASSUME NEW p \in todo
      PROVE  /\ p \in Assignments
             /\ Owners(acs[p.id].tags) = {}
             /\ \E mine \in table :
                  /\ mine.isp = p.isp
                  /\ Matches(p.address, mine)
                  /\ \A other \in table :
                       other.isp # p.isp /\ Matches(p.address, other) => other.len < mine.len
  <2>1. PICK d \in Devices :
          /\ p = [id |-> d, address |-> acs[d].address,
                  isp |-> IspFor(acs[d].address, table)]
          /\ Owners(acs[d].tags) = {}
          /\ IspFor(acs[d].address, table) # NoIsp
    BY <1>1
  <2>2. acs[d].address \in Addresses \cup {NoAddress}
    BY DEF TypeOK
  <2>3. p.id = d /\ p.address = acs[d].address /\ p.isp = IspFor(acs[d].address, table)
    BY <2>1
  <2>4. p.isp \in Isps
    BY <2>1, <2>3, IspForHolds
  <2>5. p \in Assignments
    BY <2>1, <2>2, <2>3, <2>4 DEF Assignments
  <2>. QED
    BY <2>1, <2>3, <2>5, IspForHolds
<1>3. ASSUME NEW p \in todo, NEW q \in todo, p.id = q.id PROVE p = q
  <2>1. PICK d \in Devices :
          p = [id |-> d, address |-> acs[d].address, isp |-> IspFor(acs[d].address, table)]
    BY <1>1
  <2>2. PICK e \in Devices :
          q = [id |-> e, address |-> acs[e].address, isp |-> IspFor(acs[e].address, table)]
    BY <1>1
  <2>. QED
    BY <1>3, <2>1, <2>2
<1>. QED
  BY <1>2, <1>3

(* The loop between two passes, and a handler that has ended.              *)
LEMMA IdleTypes ==
  /\ IdleLoop = [pc |-> "idle", rules |-> {}, todo |-> {}]
  /\ IdleRequest \in [at: {"idle", "tagging"}, id: Devices, isp: Isps \cup {NoIsp}]
  /\ IdleRequest.at = "idle"
BY DevicesAssumption DEF IdleLoop, IdleRequest

-----------------------------------------------------------------------------
(* The initial states satisfy the invariant.                               *)
LEMMA InitIInv == Init => IInv
<1>. SUFFICES ASSUME Init PROVE IInv
  OBVIOUS
<1>1. loop.pc = "idle" /\ loop.rules = {} /\ loop.todo = {}
  BY IdleTypes DEF Init
<1>2. acs \in [Devices -> [known: BOOLEAN, address: Addresses \cup {NoAddress},
                          tags: SUBSET (Isps \cup PanelTags)]]
  BY DEF Init
<1>3. /\ req \in [Requests -> [at: {"idle", "tagging"}, id: Devices, isp: Isps \cup {NoIsp}]]
      /\ \A r \in Requests : req[r].at = "idle"
  BY IdleTypes DEF Init
<1>4. TypeOK
  <2>1. rules = {} /\ auto = FALSE /\ ops = 0 /\ faults = 0 /\ raced = {}
    BY DEF Init
  <2>2. /\ loop.pc \in {"idle", "listing", "assigning"}
        /\ loop.rules \subseteq Rules
        /\ loop.todo \subseteq Assignments
        /\ (loop.pc = "assigning" <=> loop.todo # {})
        /\ \A p, q \in loop.todo : p.id = q.id => p = q
    BY <1>1
  <2>3. /\ rules \subseteq Rules /\ auto \in BOOLEAN /\ raced \subseteq Devices
        /\ ops \in 0..MaxOps /\ faults \in 0..MaxFaults
    <3>1. auto \in BOOLEAN /\ rules \subseteq Rules /\ raced \subseteq Devices
      BY <2>1, Zenon
    <3>2. ops \in 0..MaxOps /\ faults \in 0..MaxFaults
      BY <2>1, BoundsAssumption
    <3>. QED
      BY <3>1, <3>2
  <2>. QED
    BY <1>2, <1>3, <2>2, <2>3 DEF TypeOK
<1>5. LoopType
  BY IdleTypes DEF Init, LoopType
<1>6. FiniteTables /\ NeverARival /\ FreeWhenListed
  BY <1>1, FS_EmptySet DEF Init, FiniteTables, NeverARival, FreeWhenListed
<1>. QED
  BY <1>4, <1>5, <1>6 DEF IInv

(* The part of the invariant about the loop and the tables holds of a loop *)
(* that has started again.                                                 *)
LEMMA IdleLoopInv ==
  ASSUME IInv, loop' = IdleLoop, UNCHANGED rules
  PROVE  /\ LoopType' /\ FiniteTables' /\ NeverARival' /\ FreeWhenListed'
         /\ loop'.pc = "idle" /\ loop'.todo = {} /\ loop'.rules = {}
BY IdleTypes, FS_EmptySet
   DEF IInv, LoopType, FiniteTables, NeverARival, FreeWhenListed

(* Nor does a step that leaves the loop and the tags alone disturb it.     *)
LEMMA SameLoopInv ==
  ASSUME IInv, UNCHANGED <<loop, raced>>, IsFiniteSet(rules'),
         \A d \in Devices : Owners(acs'[d].tags) = Owners(acs[d].tags)
  PROVE  LoopType' /\ FiniteTables' /\ NeverARival' /\ FreeWhenListed'
<1>1. LoopType'
  BY DEF IInv, LoopType
<1>2. FiniteTables'
  BY DEF IInv, FiniteTables
<1>3. NeverARival'
  BY DEF IInv, NeverARival
<1>4. FreeWhenListed'
  BY DEF IInv, FreeWhenListed, TypeOK, Assignments
<1>. QED
  BY <1>1, <1>2, <1>3, <1>4

(* Taking an assignment off the list leaves a list.                        *)
LEMMA WithoutType ==
  ASSUME IInv, NEW p \in loop.todo, loop' = Without(p), loop.pc = "assigning"
  PROVE  /\ LoopType'
         /\ loop'.todo = loop.todo \ {p}
         /\ loop'.rules = loop.rules \/ (loop'.todo = {} /\ loop'.rules = {})
         /\ (loop'.pc = "assigning" <=> loop'.todo # {})
<1>1. CASE loop.todo = {p}
  BY <1>1, IdleTypes DEF Without, LoopType
<1>2. CASE loop.todo # {p}
  <2>1. loop' = [loop EXCEPT !.todo = loop.todo \ {p}]
    BY <1>2 DEF Without
  <2>2. loop'.todo = loop.todo \ {p} /\ loop'.rules = loop.rules /\ loop'.pc = "assigning"
    BY <2>1 DEF IInv, LoopType
  <2>3. LoopType'
    BY <2>1 DEF IInv, LoopType
  <2>4. loop.todo \ {p} # {}
    BY <1>2
  <2>. QED
    BY <2>2, <2>3, <2>4
<1>. QED
  BY <1>1, <1>2

(* A step of the loop, its failures included, keeps the invariant.         *)
LEMMA LoopIInv ==
  ASSUME IInv,
         \/ ReadRules \/ ListDevices \/ ListFails
         \/ \E p \in loop.todo : Assign(p) \/ AssignFails(p)
  PROVE  IInv'
<1>. USE DEF IInv
<1>1. CASE ReadRules
  <2>1. loop' = [pc |-> "listing", rules |-> rules, todo |-> {}]
    BY <1>1, IdleTypes DEF ReadRules
  <2>2. loop'.pc = "listing" /\ loop'.rules = rules /\ loop'.todo = {} /\ rules \in SUBSET Rules
    BY <2>1 DEF TypeOK
  <2>3. LoopType'
    BY <2>1, <2>2 DEF LoopType
  <2>4. TypeOK'
    BY <1>1, <2>2 DEF ReadRules, TypeOK
  <2>5. FiniteTables' /\ NeverARival' /\ FreeWhenListed'
    BY <1>1, <2>2 DEF ReadRules, FiniteTables, NeverARival, FreeWhenListed
  <2>. QED
    BY <2>3, <2>4, <2>5
<1>2. CASE ListDevices
  <2>. DEFINE todo == {p \in Pending(loop.rules) : p.isp # NoIsp}
  <2>1. loop.rules \in SUBSET Rules /\ IsFiniteSet(loop.rules)
    BY DEF LoopType, FiniteTables
  <2>2. CASE auto /\ todo # {}
    <3>1. loop' = [loop EXCEPT !.pc = "assigning", !.todo = todo]
      BY <1>2, <2>2 DEF ListDevices
    <3>2. loop'.pc = "assigning" /\ loop'.rules = loop.rules /\ loop'.todo = todo
      BY <3>1 DEF LoopType
    <3>. HIDE DEF todo
    <3>0. todo = {p \in Pending(loop.rules) : p.isp # NoIsp}
      BY DEF todo
    <3>3. /\ todo \in SUBSET Assignments
          /\ \A p, q \in todo : p.id = q.id => p = q
          /\ \A p \in todo : Owners(acs[p.id].tags) = {}
      <4>1. todo \in SUBSET Assignments
        BY ONLY IInv, <2>1, <3>0, PendingHolds
      <4>2. \A p, q \in todo : p.id = q.id => p = q
        BY ONLY IInv, <2>1, <3>0, PendingHolds
      <4>3. \A p \in todo : Owners(acs[p.id].tags) = {}
        BY ONLY IInv, <2>1, <3>0, PendingHolds
      <4>. QED
        BY <4>1, <4>2, <4>3
    <3>4. \A p \in todo : \E mine \in loop.rules :
              /\ mine.isp = p.isp
              /\ Matches(p.address, mine)
              /\ \A other \in loop.rules :
                   other.isp # p.isp /\ Matches(p.address, other) => other.len < mine.len
      BY ONLY IInv, <2>1, <3>0, PendingHolds
    <3>5. LoopType'
      BY <3>1, <3>3 DEF LoopType
    <3>6. UNCHANGED <<acs, rules, auto, req, ops, faults>> /\ raced' = {}
      BY <1>2 DEF ListDevices
    <3>7. TypeOK'
      BY <2>1, <2>2, <3>2, <3>3, <3>6 DEF TypeOK
    <3>8. NeverARival'
      BY <3>2, <3>4 DEF NeverARival
    <3>9. FreeWhenListed' /\ FiniteTables'
      BY <3>2, <3>3, <3>6 DEF FreeWhenListed, FiniteTables
    <3>. QED
      BY <3>5, <3>7, <3>8, <3>9
  <2>3. CASE ~(auto /\ todo # {})
    <3>1. loop' = IdleLoop
      BY <1>2, <2>3 DEF ListDevices
    <3>. QED
      BY <1>2, <3>1, IdleLoopInv DEF ListDevices, TypeOK
  <2>. QED
    BY <2>2, <2>3
<1>3. CASE ListFails
  <2>1. LoopType' /\ FiniteTables' /\ NeverARival' /\ FreeWhenListed'
        /\ loop'.pc = "idle" /\ loop'.todo = {} /\ loop'.rules = {}
    BY <1>3, IdleLoopInv DEF ListFails
  <2>2. TypeOK'
    BY <1>3, <2>1, BoundsAssumption DEF ListFails, TypeOK
  <2>. QED
    BY <2>1, <2>2
<1>4. ASSUME NEW p \in loop.todo, Assign(p) PROVE IInv'
  <2>1. /\ LoopType'
        /\ loop'.todo = loop.todo \ {p}
        /\ loop'.rules = loop.rules \/ (loop'.todo = {} /\ loop'.rules = {})
        /\ (loop'.pc = "assigning" <=> loop'.todo # {})
    BY <1>4, WithoutType DEF Assign
  <2>2. p.id \in Devices /\ p.isp \in Isps
    BY DEF LoopType, Assignments
  <2>3. acs' = [acs EXCEPT ![p.id].tags = @ \cup {p.isp}]
    BY <1>4 DEF Assign, AddTag
  <2>4. acs' \in [Devices -> [known: BOOLEAN, address: Addresses \cup {NoAddress},
                              tags: SUBSET (Isps \cup PanelTags)]]
    BY <2>2, <2>3 DEF TypeOK
  <2>5. TypeOK'
    BY <1>4, <2>1, <2>4 DEF Assign, TypeOK, LoopType
  <2>6. NeverARival'
    BY <2>1 DEF NeverARival
  <2>7. ASSUME NEW q \in loop'.todo PROVE acs'[q.id] = acs[q.id]
    <3>1. q.id # p.id /\ q.id \in Devices
      BY <2>1, <2>7 DEF TypeOK, Assignments
    <3>. QED
      BY <2>3, <3>1 DEF TypeOK
  <2>8. FreeWhenListed'
    BY <1>4, <2>1, <2>7 DEF FreeWhenListed, Assign
  <2>9. FiniteTables'
    BY <1>4, <2>1, FS_EmptySet DEF FiniteTables, Assign
  <2>. QED
    BY <2>1, <2>5, <2>6, <2>8, <2>9
<1>5. ASSUME NEW p \in loop.todo, AssignFails(p) PROVE IInv'
  <2>1. /\ LoopType'
        /\ loop'.todo = loop.todo \ {p}
        /\ loop'.rules = loop.rules \/ (loop'.todo = {} /\ loop'.rules = {})
        /\ (loop'.pc = "assigning" <=> loop'.todo # {})
    BY <1>5, WithoutType DEF AssignFails
  <2>2. UNCHANGED <<acs, rules, auto, req, ops, raced>> /\ faults' = faults + 1 /\ faults < MaxFaults
    BY <1>5 DEF AssignFails
  <2>3. TypeOK'
    BY <2>1, <2>2, BoundsAssumption DEF TypeOK, LoopType
  <2>4. NeverARival' /\ FreeWhenListed'
    BY <2>1, <2>2 DEF NeverARival, FreeWhenListed
  <2>5. FiniteTables'
    BY <2>1, <2>2, FS_EmptySet DEF FiniteTables
  <2>. QED
    BY <2>1, <2>3, <2>4, <2>5
<1>. QED
  BY <1>1, <1>2, <1>3, <1>4, <1>5

(* A request, a device that informs or a restart keeps the invariant.      *)
LEMMA OthersIInv ==
  ASSUME IInv,
         \/ \E rule \in Rules : CreateRule(rule) \/ DeleteRule(rule)
         \/ \E on \in BOOLEAN : SetMode(on)
         \/ \E r \in Requests :
              \/ \E d \in Devices, isp \in Isps : AskToAssign(r, d, isp)
              \/ AssignByHand(r)
              \/ RequestFails(r)
         \/ \E d \in Devices :
              \/ \E address \in Addresses \cup {NoAddress} : InformFrom(d, address)
              \/ \E tag \in PanelTags : PutPanelTag(d, tag)
         \/ Restart
         \/ UNCHANGED vars
  PROVE  IInv'
<1>. USE BoundsAssumption DEF IInv, Operation
<1>1. ASSUME NEW rule \in Rules, CreateRule(rule) PROVE IInv'
  <2>1. IsFiniteSet(rules \cup {rule})
    BY FS_AddElement DEF FiniteTables
  <2>2. TypeOK'
    BY <1>1 DEF CreateRule, TypeOK
  <2>. QED
    BY <1>1, <2>1, <2>2, SameLoopInv DEF CreateRule
<1>2. ASSUME NEW rule \in Rules, DeleteRule(rule) PROVE IInv'
  <2>1. IsFiniteSet(rules \ {rule})
    BY FS_RemoveElement DEF FiniteTables
  <2>2. TypeOK'
    BY <1>2 DEF DeleteRule, TypeOK
  <2>. QED
    BY <1>2, <2>1, <2>2, SameLoopInv DEF DeleteRule
<1>3. ASSUME NEW on \in BOOLEAN, SetMode(on) PROVE IInv'
  <2>1. TypeOK'
    BY <1>3 DEF SetMode, TypeOK
  <2>. QED
    BY <1>3, <2>1, SameLoopInv DEF SetMode, FiniteTables
<1>4. ASSUME NEW r \in Requests, NEW d \in Devices, NEW isp \in Isps, AskToAssign(r, d, isp)
      PROVE  IInv'
  <2>1. /\ req' \in [Requests -> [at: {"idle", "tagging"}, id: Devices, isp: Isps \cup {NoIsp}]]
        /\ \A k \in Requests : req'[k].at = "tagging" => req'[k].isp \in Isps
    BY <1>4 DEF AskToAssign, TypeOK
  <2>2. TypeOK'
    BY <1>4, <2>1 DEF AskToAssign, TypeOK
  <2>. QED
    BY <1>4, <2>2, SameLoopInv DEF AskToAssign, FiniteTables
<1>5. ASSUME NEW r \in Requests, AssignByHand(r) PROVE IInv'
  <2>1. req[r].id \in Devices /\ req[r].isp \in Isps
    BY <1>5 DEF AssignByHand, TypeOK
  <2>2. acs' = [acs EXCEPT ![req[r].id].tags = @ \cup {req[r].isp}]
    BY <1>5 DEF AssignByHand, AddTag
  <2>3. acs' \in [Devices -> [known: BOOLEAN, address: Addresses \cup {NoAddress},
                              tags: SUBSET (Isps \cup PanelTags)]]
    <3>1. acs[req[r].id].tags \cup {req[r].isp} \in SUBSET (Isps \cup PanelTags)
      BY <2>1 DEF TypeOK
    <3>. QED
      BY <2>1, <2>2, <3>1 DEF TypeOK
  <2>4. req' \in [Requests -> [at: {"idle", "tagging"}, id: Devices, isp: Isps \cup {NoIsp}]]
        /\ \A k \in Requests : req'[k].at = "tagging" => req'[k].isp \in Isps
    BY <1>5, IdleTypes DEF AssignByHand, TypeOK
  <2>5. TypeOK'
    BY <1>5, <2>1, <2>3, <2>4 DEF AssignByHand, TypeOK
  <2>6. ASSUME NEW p \in loop'.todo, Owners(acs'[p.id].tags) # {} PROVE p.id \in raced'
    <3>1. p \in loop.todo /\ p.id \in Devices
      BY <1>5, <2>6 DEF AssignByHand, TypeOK, Assignments
    <3>2. CASE p.id = req[r].id
      BY <1>5, <3>2 DEF AssignByHand
    <3>3. CASE p.id # req[r].id
      <4>1. acs'[p.id] = acs[p.id]
        BY <2>2, <3>1, <3>3 DEF TypeOK
      <4>. QED
        BY <1>5, <2>6, <3>1, <4>1 DEF AssignByHand, FreeWhenListed
    <3>. QED
      BY <3>2, <3>3
  <2>7. LoopType' /\ FiniteTables' /\ NeverARival'
    BY <1>5 DEF AssignByHand, LoopType, FiniteTables, NeverARival
  <2>. QED
    BY <2>5, <2>6, <2>7 DEF FreeWhenListed
<1>6. ASSUME NEW r \in Requests, RequestFails(r) PROVE IInv'
  <2>1. TypeOK'
    BY <1>6, IdleTypes DEF RequestFails, TypeOK
  <2>. QED
    BY <1>6, <2>1, SameLoopInv DEF RequestFails, FiniteTables
<1>7. ASSUME NEW d \in Devices, NEW address \in Addresses \cup {NoAddress}, InformFrom(d, address)
      PROVE  IInv'
  <2>. DEFINE Entries == [known: BOOLEAN, address: Addresses \cup {NoAddress},
                          tags: SUBSET (Isps \cup PanelTags)]
              seen == [acs EXCEPT ![d].known = TRUE]
  <2>1. /\ seen \in [Devices -> Entries]
        /\ \A e \in Devices : seen[e].tags = acs[e].tags
    <3>1. acs \in [Devices -> Entries]
      BY DEF TypeOK
    <3>2. [acs[d] EXCEPT !.known = TRUE] \in Entries
          /\ [acs[d] EXCEPT !.known = TRUE].tags = acs[d].tags
      BY <3>1
    <3>3. seen = [acs EXCEPT ![d] = [acs[d] EXCEPT !.known = TRUE]]
      BY <3>1
    <3>. HIDE DEF Entries, seen
    <3>. QED
      BY <3>1, <3>2, <3>3
  <2>2. /\ acs' \in [Devices -> Entries]
        /\ \A e \in Devices : acs'[e].tags = acs[e].tags
    <3>1. acs' = [seen EXCEPT ![d].address = address]
      BY <1>7 DEF InformFrom
    <3>. HIDE DEF seen
    <3>. QED
      BY <2>1, <3>1
  <2>3. TypeOK'
    BY <1>7, <2>2 DEF InformFrom, TypeOK
  <2>. QED
    BY <1>7, <2>2, <2>3, SameLoopInv DEF InformFrom, FiniteTables
<1>8. ASSUME NEW d \in Devices, NEW tag \in PanelTags, PutPanelTag(d, tag) PROVE IInv'
  <2>1. acs' = [acs EXCEPT ![d].tags = @ \cup {tag}]
    BY <1>8 DEF PutPanelTag, AddTag
  <2>2. acs' \in [Devices -> [known: BOOLEAN, address: Addresses \cup {NoAddress},
                              tags: SUBSET (Isps \cup PanelTags)]]
    BY <2>1 DEF TypeOK
  <2>3. \A e \in Devices : Owners(acs'[e].tags) = Owners(acs[e].tags)
    <3>1. ASSUME NEW e \in Devices
          PROVE  acs'[e].tags = acs[e].tags \/ acs'[e].tags = acs[e].tags \cup {tag}
      BY <2>1 DEF TypeOK
    <3>. QED
      BY <3>1 DEF Owners
  <2>4. TypeOK'
    BY <1>8, <2>2 DEF PutPanelTag, TypeOK
  <2>. QED
    BY <1>8, <2>3, <2>4, SameLoopInv DEF PutPanelTag, FiniteTables
<1>9. CASE Restart
  BY <1>9, IdleLoopInv, IdleTypes DEF Restart, TypeOK
<1>10. CASE UNCHANGED vars
  <2>1. TypeOK'
    BY <1>10 DEF vars, TypeOK
  <2>. QED
    BY <1>10, <2>1, SameLoopInv DEF vars, FiniteTables
<1>. QED
  BY <1>1, <1>2, <1>3, <1>4, <1>5, <1>6, <1>7, <1>8, <1>9, <1>10

(* Every step keeps the invariant.                                         *)
LEMMA StepIInv == IInv /\ [Next]_vars => IInv'
BY LoopIInv, OthersIInv DEF Next, LoopStep

(* The inductive invariant holds in every reachable state.                 *)
THEOREM Invariant == Spec => []IInv
BY InitIInv, StepIInv, PTL DEF Spec

(* Type correctness, for every set of devices, ISPs and rules: what the    *)
(* loop is going to assign is one ISP per device.                          *)
THEOREM TypeCorrect == Spec => []TypeOK
<1>1. IInv => TypeOK
  BY DEF IInv
<1>. QED
  BY <1>1, Invariant, PTL

(* isp_para never decides a tie: no assignment rests on a rule a rival has *)
(* an equally specific one against.                                        *)
THEOREM NoRival == Spec => []NeverARival
<1>1. IInv => NeverARival
  BY DEF IInv
<1>. QED
  BY <1>1, Invariant, PTL

(* The loop gives a second owner to a device only when a request gave it   *)
(* the first one after the list was made.                                  *)
THEOREM SecondOwner == Spec => SecondOwnerOnlyByRace
<1>1. IInv => [\A p \in loop.todo :
                 Assign(p) /\ Owners(acs[p.id].tags) # {} => p.id \in raced]_vars
  BY DEF IInv, FreeWhenListed
<1>. QED
  BY <1>1, Invariant, PTL DEF SecondOwnerOnlyByRace
=============================================================================
