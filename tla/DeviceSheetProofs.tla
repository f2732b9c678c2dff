------------------------- MODULE DeviceSheetProofs -------------------------
(***************************************************************************)
(* Proofs about DeviceSheet, for any devices, reports, changes and         *)
(* requests.  A handler carries from one await to the next what it read,   *)
(* while the device and the copy of the ACS move; the inductive invariant  *)
(* says what may still be relied on: that a static change was compared     *)
(* with the address in what its handler saw, and that a diagnostic nobody  *)
(* has disturbed finds in the device, and then in the copy, either the     *)
(* order to start or the results for its own host.                         *)
(***************************************************************************)
EXTENDS DeviceSheet, SequenceTheorems, TLAPS

Roots == {"Device", "InternetGatewayDevice"}
RequestFields == {"at", "root", "task", "polls", "alone", "state", "result"}
TaskFields == {"values", "ask", "conn", "seen", "shown"}
Ats == {"idle", "read", "prefix", "address", "interface", "drift", "send", "merge", "poll", "check",
        "results", "done"}

(* Values that do not touch the object of a diagnostic.                    *)
NoDiag(values) == \A p \in DOMAIN values : p[1] \notin {"diag", "igddiag"}

(* What LinkKept asks of a change, whenever it runs.                       *)
Linked(w) ==
  w.ask.op = "static" /\ w.seen # <<>> /\ OneConnection(w) /\ OwnAddress(w) # Unset
    => /\ SameNet(OwnAddress(w), w.ask.ip, w.ask.size)
       /\ SameNet(OwnAddress(w), w.ask.gateway, w.ask.size)

(* All that a static change is for, in a tree or in the values of a task.  *)
Has(f, path, value) == path \in DOMAIN f /\ f[path] = value
WrittenIn(w, f) ==
  LET Leaf(l, value) == Has(f, <<w.conn[1], w.conn[2], l>>, value)
  IN  /\ Leaf("AddressingType", "Static") /\ Leaf("SubnetMask", w.ask.size)
      /\ w.conn[1] = "iface" =>
           /\ Leaf("IPAddress", w.ask.ip)
           /\ \E r \in RoutesOf(w.seen, w.conn[2]) :
                /\ Has(f, <<"route", r, "Enable">>, TRUE)
                /\ Has(f, <<"route", r, "GatewayIPAddress">>, w.ask.gateway)
      /\ w.conn[1] # "iface" =>
           Leaf("ExternalIPAddress", w.ask.ip) /\ Leaf("DefaultGateway", w.ask.gateway)

(* The paths that would undo it, but for those of the interface the form   *)
(* of the LAN writes.                                                      *)
OfTheWan(p) ==
  \/ p[1] = "iface" /\ p[2] # 1 /\ p[3] \in {"AddressingType", "IPAddress", "SubnetMask"}
  \/ p[1] = "route"
  \/ /\ p[1] = "ipconn"
     /\ p[3] \in {"AddressingType", "ExternalIPAddress", "SubnetMask", "DefaultGateway"}

(* On TR-098 the panel shows the connection as up, if it shows any.        *)
UpFirst(w) == w.conn[1] # "iface" => (w.shown.someUp => w.shown.up)

(* A static change writes all of it, over routes it does not turn away, to *)
(* a connection there is; and only a change of the WAN writes there, or    *)
(* what writes path by path.                                               *)
Fits(task) ==
  /\ task.ask.op \in {"static", "dhcp"} => UpFirst(task)
  /\ task.ask.op \notin {"static", "dhcp"} \cup ByPath =>
       \A p \in DOMAIN task.values : ~OfTheWan(p)
  /\ task.ask.op = "static" =>
       /\ task.conn = <<task.conn[1], task.conn[2]>> /\ task.conn[1] \in {"iface", "ipconn"}
       /\ task.conn[1] = "iface" => task.conn[2] # None
       /\ \A p \in DOMAIN task.values : p[1] = "route" => p[3] # "Interface"
       /\ Whole(task) => WrittenIn(task, task.values)

(* What a change that ran has left on the device, and stays there.         *)
Stands(w, dev) ==
  /\ w.ask.op \in {"static", "dhcp"} => UpFirst(w)
  /\ w.ask.op = "static" =>
       w.conn = <<w.conn[1], w.conn[2]>> /\ w.conn[1] \in {"iface", "ipconn"}
  /\ w.ask.op = "static" /\ Current(w) /\ Whole(w) /\ w.conn # <<"iface", 1>> =>
       /\ WrittenIn(w, dev)
       /\ w.conn[1] = "iface" =>
            \A r \in RoutesOf(w.seen, w.conn[2]) : Has(dev, <<"route", r, "Interface">>, w.conn[2])

(* A task as it is sent or waits for the next session.                     *)
Sendable(task) ==
  DOMAIN task.values # {} /\ Linked(task) /\ Fits(task)

(* What a diagnostic nobody has disturbed finds: in the device the order   *)
(* or its own results, in the copy no more than that.                      *)
Own(host, root, dev, copy) ==
  LET state == Diag(root, "DiagnosticsState")
      count == Diag(root, "SuccessCount")
  IN  /\ Diag(root, "Host") \in DOMAIN dev /\ dev[Diag(root, "Host")] = host
      /\ state \in DOMAIN dev
      /\ \/ dev[state] = "Requested"
         \/ dev[state] = "Complete" /\ count \in DOMAIN dev /\ dev[count] = host
      /\ state \in DOMAIN copy
      /\ \/ copy[state] = "Requested"
         \/ /\ copy[state] = "Complete" /\ count \in DOMAIN copy /\ copy[count] = host
            /\ dev[state] = "Complete"

(* The stages of a request.                                                *)
Staged(q) ==
  /\ q.at \in Ats /\ q.alone \in BOOLEAN /\ q.polls \in 0..(MaxPolls - 1)
  /\ q.at \in {"read", "prefix", "address"} => q.task.ask.op \in {"static", "dhcp"}
  /\ q.at = "interface" => q.task.ask.op = "ipv6"
  /\ q.at = "drift" => q.task.ask.op = "enforce"
  /\ q.at = "address" => /\ q.task.conn[1] = "ipconn" /\ q.task.ask.op = "static"
                         /\ q.task.conn = <<q.task.conn[1], q.task.conn[2]>>
                         /\ UpFirst(q.task)
  /\ q.at = "send" => Sendable(q.task)
  /\ q.at = "send" /\ q.task.ask.op = "ping" =>
       q.root \in Roots /\ q.task.values = DiagValues(q.root, q.task.ask.host)
  /\ q.at \in {"poll", "check", "results"} => q.root \in Roots
  /\ q.at = "done" /\ q.alone /\ q.state = "Complete" => q.result = q.task.ask.host

(* And of the device under it.                                             *)
Tested(q, dev, copy) ==
  q.at \in {"poll", "check", "results"} /\ q.alone =>
    /\ Own(q.task.ask.host, q.root, dev, copy)
    /\ q.at = "results" /\ q.state = "Complete" =>
         copy[Diag(q.root, "DiagnosticsState")] = "Complete"

Shape(q) == DOMAIN q = RequestFields /\ DOMAIN q.task = TaskFields
Good(q, dev, copy) == Shape(q) /\ Staged(q) /\ Tested(q, dev, copy)

Waiting(tasks) ==
  /\ tasks \in Seq({tasks[i] : i \in DOMAIN tasks})
  /\ \A i \in DOMAIN tasks : DOMAIN tasks[i] = TaskFields /\ Sendable(tasks[i])

IInv ==
  /\ DOMAIN doc \subseteq DOMAIN device
  /\ ops \in 0..MaxOps /\ changes \in 0..MaxChanges
  /\ Linked(last) /\ Stands(last, device)
  /\ Waiting(queue)
  /\ DOMAIN req = Requests
  /\ \A r \in Requests : Good(req[r], device, doc)

-----------------------------------------------------------------------------
(* Functions *)

(* f @@ g is f, and g where f says nothing.                                *)
LEMMA Over ==
  ASSUME NEW f, NEW g
  PROVE  /\ DOMAIN (f @@ g) = DOMAIN f \cup DOMAIN g
         /\ \A x \in DOMAIN f : (f @@ g)[x] = f[x]
         /\ \A x \in DOMAIN g \ DOMAIN f : (f @@ g)[x] = g[x]
BY DEF @@

(* A function with one argument.                                           *)
LEMMA One ==
  ASSUME NEW d, NEW e
  PROVE  DOMAIN (d :> e) = {d} /\ (d :> e)[d] = e
BY DEF :>

(* What a document has of some paths.                                      *)
LEMMA RestrictedFacts ==
  ASSUME NEW tree, NEW paths
  PROVE  /\ DOMAIN Restricted(tree, paths) = paths \cap DOMAIN tree
         /\ \A p \in paths \cap DOMAIN tree : Restricted(tree, paths)[p] = tree[p]
BY DEF Restricted

(* The leaves of a diagnostic, on either root, are different paths of one  *)
(* of the two objects of diagnostics.                                      *)
LEMMA DiagPaths ==
  /\ \A root \in Roots : \A leaf :
       Diag(root, leaf)[1] = DiagObject(root) /\ DiagObject(root) \in {"diag", "igddiag"}
  /\ \A a, b \in Roots : \A l, m : Diag(a, l) = Diag(b, m) => a = b /\ l = m
<1>1. \A a, b \in Roots : DiagObject(a) = DiagObject(b) => a = b
  BY DEF Roots, DiagObject
<1>. QED
  BY <1>1 DEF Diag, DiagObject, Roots

(* An order to test writes two leaves of its root and nothing else.        *)
LEMMA DiagValuesFacts ==
  ASSUME NEW root, NEW host
  PROVE  /\ DOMAIN DiagValues(root, host) = {Diag(root, "Host"), Diag(root, "DiagnosticsState")}
         /\ DiagValues(root, host)[Diag(root, "Host")] = host
         /\ DiagValues(root, host)[Diag(root, "DiagnosticsState")] = "Requested"
<1>. DEFINE h == Diag(root, "Host") :> host
            s == Diag(root, "DiagnosticsState") :> "Requested"
<1>1. Diag(root, "Host") # Diag(root, "DiagnosticsState")
  BY DEF Diag
<1>2. /\ DOMAIN h = {Diag(root, "Host")} /\ h[Diag(root, "Host")] = host
      /\ DOMAIN s = {Diag(root, "DiagnosticsState")}
      /\ s[Diag(root, "DiagnosticsState")] = "Requested"
  BY One
<1>3. DiagValues(root, host) = h @@ s
  BY DEF DiagValues
<1>. HIDE DEF h, s
<1>4. /\ DOMAIN (h @@ s) = DOMAIN h \cup DOMAIN s
      /\ \A x \in DOMAIN h : (h @@ s)[x] = h[x]
      /\ \A x \in DOMAIN s \ DOMAIN h : (h @@ s)[x] = s[x]
  BY Over
<1>. QED
  BY <1>1, <1>2, <1>3, <1>4

-----------------------------------------------------------------------------
(* What an undisturbed diagnostic finds, while device and copy move *)

(* A step of the world that no diagnostic notices.                         *)
Calm(dev, copy) ==
  \A q : Staged(q) /\ Tested(q, device, doc) => Tested(q, dev, copy)

(* Device and copy that keep what they hold under the diagnostics.         *)
LEMMA CalmAway ==
  ASSUME NEW dev, NEW copy,
         \A root \in Roots, leaf \in {"Host", "DiagnosticsState", "SuccessCount"} :
           /\ Diag(root, leaf) \in DOMAIN device =>
                Diag(root, leaf) \in DOMAIN dev /\ dev[Diag(root, leaf)] = device[Diag(root, leaf)]
           /\ Diag(root, leaf) \in DOMAIN doc =>
                Diag(root, leaf) \in DOMAIN copy /\ copy[Diag(root, leaf)] = doc[Diag(root, leaf)]
  PROVE  Calm(dev, copy)
<1>. SUFFICES ASSUME NEW q, Staged(q), Tested(q, device, doc),
                     q.at \in {"poll", "check", "results"}, q.alone
              PROVE  /\ Own(q.task.ask.host, q.root, dev, copy)
                     /\ q.at = "results" /\ q.state = "Complete" =>
                          copy[Diag(q.root, "DiagnosticsState")] = "Complete"
  BY DEF Calm, Tested
<1>1. /\ Own(q.task.ask.host, q.root, device, doc) /\ q.root \in Roots
      /\ q.at = "results" /\ q.state = "Complete" =>
           doc[Diag(q.root, "DiagnosticsState")] = "Complete"
  BY DEF Tested, Staged
<1>2. Own(q.task.ask.host, q.root, dev, copy)
  BY <1>1 DEF Own
<1>3. Diag(q.root, "DiagnosticsState") \in DOMAIN doc
  BY <1>1 DEF Own
<1>. QED
  BY <1>1, <1>2, <1>3

(* Values without paths of a diagnostic, on the device and in the copy.    *)
LEMMA CalmWrites ==
  ASSUME NEW values, NoDiag(values)
  PROVE  Calm(values @@ device, values @@ doc) /\ Calm(values @@ device, doc)
<1>1. \A root \in Roots, leaf \in {"Host", "DiagnosticsState", "SuccessCount"} :
        Diag(root, leaf) \notin DOMAIN values
  BY DiagPaths DEF NoDiag
<1>2. /\ DOMAIN (values @@ device) = DOMAIN values \cup DOMAIN device
      /\ \A x \in DOMAIN device \ DOMAIN values : (values @@ device)[x] = device[x]
  BY Over
<1>3. /\ DOMAIN (values @@ doc) = DOMAIN values \cup DOMAIN doc
      /\ \A x \in DOMAIN doc \ DOMAIN values : (values @@ doc)[x] = doc[x]
  BY Over
<1>4. Calm(values @@ device, values @@ doc)
  <2>. DEFINE dev == values @@ device
              copy == values @@ doc
  <2>. HIDE DEF dev, copy
  <2>1. \A root \in Roots, leaf \in {"Host", "DiagnosticsState", "SuccessCount"} :
           /\ Diag(root, leaf) \in DOMAIN device =>
                Diag(root, leaf) \in DOMAIN dev /\ dev[Diag(root, leaf)] = device[Diag(root, leaf)]
           /\ Diag(root, leaf) \in DOMAIN doc =>
                Diag(root, leaf) \in DOMAIN copy /\ copy[Diag(root, leaf)] = doc[Diag(root, leaf)]
    BY <1>1, <1>2, <1>3 DEF dev, copy
  <2>2. Calm(dev, copy)
    BY <2>1, CalmAway
  <2>. QED
    BY <2>2 DEF dev, copy
<1>5. Calm(values @@ device, doc)
  <2>. DEFINE dev == values @@ device
  <2>. HIDE DEF dev
  <2>1. \A root \in Roots, leaf \in {"Host", "DiagnosticsState", "SuccessCount"} :
           /\ Diag(root, leaf) \in DOMAIN device =>
                Diag(root, leaf) \in DOMAIN dev /\ dev[Diag(root, leaf)] = device[Diag(root, leaf)]
           /\ Diag(root, leaf) \in DOMAIN doc =>
                Diag(root, leaf) \in DOMAIN doc /\ doc[Diag(root, leaf)] = doc[Diag(root, leaf)]
    BY <1>1, <1>2 DEF dev
  <2>2. Calm(dev, doc)
    BY <2>1, CalmAway
  <2>. QED
    BY <2>2 DEF dev
<1>. QED
  BY <1>4, <1>5

(* What a session tells of a part: the copy of a test that has ended is    *)
(* told with its results.                                                  *)
LEMMA CalmTold ==
  ASSUME NEW part,
         \A root \in Roots :
           /\ Diag(root, "DiagnosticsState") \in part /\ Diag(root, "SuccessCount") \in DOMAIN device
              => Diag(root, "SuccessCount") \in part
  PROVE  Calm(device, Told(part))
<1>. SUFFICES ASSUME NEW q, Staged(q), Tested(q, device, doc),
                     q.at \in {"poll", "check", "results"}, q.alone
              PROVE  /\ Own(q.task.ask.host, q.root, device, Told(part))
                     /\ q.at = "results" /\ q.state = "Complete" =>
                          Told(part)[Diag(q.root, "DiagnosticsState")] = "Complete"
  BY DEF Calm, Tested
<1>. DEFINE state == Diag(q.root, "DiagnosticsState")
            count == Diag(q.root, "SuccessCount")
            copy == Told(part)
<1>1. /\ Own(q.task.ask.host, q.root, device, doc) /\ q.root \in Roots
      /\ q.at = "results" /\ q.state = "Complete" => doc[state] = "Complete"
  BY DEF Tested, Staged
<1>2. /\ DOMAIN copy = DOMAIN doc \cup (part \cap DOMAIN device)
      /\ \A p \in DOMAIN copy : copy[p] = IF p \in part THEN device[p] ELSE doc[p]
  BY DEF Told
<1>3. state \in part /\ count \in DOMAIN device => count \in part
  BY <1>1
<1>4. /\ state \in DOMAIN device /\ state \in DOMAIN doc
      /\ \/ device[state] = "Requested"
         \/ device[state] = "Complete" /\ count \in DOMAIN device /\ device[count] = q.task.ask.host
      /\ \/ doc[state] = "Requested"
         \/ /\ doc[state] = "Complete" /\ count \in DOMAIN doc /\ doc[count] = q.task.ask.host
            /\ device[state] = "Complete"
  BY <1>1 DEF Own
<1>. HIDE DEF state, count, copy
<1>5. /\ state \in DOMAIN copy
      /\ \/ copy[state] = "Requested"
         \/ /\ copy[state] = "Complete" /\ count \in DOMAIN copy /\ copy[count] = q.task.ask.host
            /\ device[state] = "Complete"
  BY <1>2, <1>3, <1>4
<1>6. Own(q.task.ask.host, q.root, device, copy)
  BY <1>1, <1>5 DEF Own, state, count
<1>7. doc[state] = "Complete" => copy[state] = "Complete"
  BY <1>2, <1>4
<1>. QED
  BY <1>1, <1>6, <1>7 DEF state, copy

(* The end of a test: the results are those of the host of the order.      *)
LEMMA CalmFinish ==
  ASSUME NEW root \in Roots,
         Value(device, Diag(root, "DiagnosticsState"), "") = "Requested"
  PROVE  /\ Calm(Diag(root, "DiagnosticsState") :> "Complete"
                 @@ Diag(root, "SuccessCount") :> device[Diag(root, "Host")] @@ device, doc)
         /\ DOMAIN device \subseteq
              DOMAIN (Diag(root, "DiagnosticsState") :> "Complete"
                      @@ Diag(root, "SuccessCount") :> device[Diag(root, "Host")] @@ device)
<1>. DEFINE one == Diag(root, "DiagnosticsState") :> "Complete"
            two == Diag(root, "SuccessCount") :> device[Diag(root, "Host")]
            dev == one @@ two @@ device
<1>1. /\ DOMAIN one = {Diag(root, "DiagnosticsState")}
      /\ one[Diag(root, "DiagnosticsState")] = "Complete"
      /\ DOMAIN two = {Diag(root, "SuccessCount")}
      /\ two[Diag(root, "SuccessCount")] = device[Diag(root, "Host")]
  BY One
<1>. HIDE DEF one, two
<1>2. /\ DOMAIN (one @@ two) = DOMAIN one \cup DOMAIN two
      /\ \A x \in DOMAIN one : (one @@ two)[x] = one[x]
      /\ \A x \in DOMAIN two \ DOMAIN one : (one @@ two)[x] = two[x]
  BY Over
<1>. DEFINE both == one @@ two
<1>3. dev = both @@ device
  OBVIOUS
<1>. HIDE DEF both, dev
<1>4. /\ DOMAIN dev = DOMAIN both \cup DOMAIN device
      /\ \A x \in DOMAIN both : dev[x] = both[x]
      /\ \A x \in DOMAIN device \ DOMAIN both : dev[x] = device[x]
  <2>1. /\ DOMAIN (both @@ device) = DOMAIN both \cup DOMAIN device
        /\ \A x \in DOMAIN both : (both @@ device)[x] = both[x]
        /\ \A x \in DOMAIN device \ DOMAIN both : (both @@ device)[x] = device[x]
    BY Over
  <2>. QED
    BY <2>1, <1>3
<1>5. Diag(root, "DiagnosticsState") # Diag(root, "SuccessCount")
  BY DiagPaths
<1>6. /\ DOMAIN dev = DOMAIN device \cup {Diag(root, "DiagnosticsState"), Diag(root, "SuccessCount")}
      /\ dev[Diag(root, "DiagnosticsState")] = "Complete"
      /\ dev[Diag(root, "SuccessCount")] = device[Diag(root, "Host")]
      /\ \A x \in DOMAIN device :
           x \notin {Diag(root, "DiagnosticsState"), Diag(root, "SuccessCount")} => dev[x] = device[x]
  BY <1>1, <1>2, <1>4, <1>5 DEF both
<1>7. Calm(dev, doc)
  <2>. SUFFICES ASSUME NEW q, Staged(q), Tested(q, device, doc),
                       q.at \in {"poll", "check", "results"}, q.alone
                PROVE  Own(q.task.ask.host, q.root, dev, doc)
    BY DEF Calm, Tested
  <2>1. Own(q.task.ask.host, q.root, device, doc) /\ q.root \in Roots
    BY DEF Tested, Staged
  <2>2. CASE q.root = root
    <3>1. Diag(root, "Host") \notin {Diag(root, "DiagnosticsState"), Diag(root, "SuccessCount")}
      BY DiagPaths
    <3>2. /\ Diag(root, "Host") \in DOMAIN device /\ device[Diag(root, "Host")] = q.task.ask.host
          /\ Diag(root, "DiagnosticsState") \in DOMAIN device
          /\ Diag(root, "DiagnosticsState") \in DOMAIN doc
          /\ device[Diag(root, "DiagnosticsState")] = "Requested"
      BY <2>1, <2>2 DEF Own, Value
    <3>3. doc[Diag(root, "DiagnosticsState")] = "Requested"
      BY <2>1, <2>2, <3>2 DEF Own
    <3>. QED
      BY <2>2, <3>1, <3>2, <3>3, <1>6 DEF Own
  <2>3. CASE q.root # root
    <3>1. \A leaf \in {"Host", "DiagnosticsState", "SuccessCount"} :
            Diag(q.root, leaf) \notin {Diag(root, "DiagnosticsState"), Diag(root, "SuccessCount")}
      <4>1. q.root \in Roots
        BY <2>1
      <4>2. \A l, m : Diag(q.root, l) # Diag(root, m)
        BY ONLY <4>1, <2>3, root \in Roots, DiagPaths
      <4>. QED
        BY <4>2
    <3>. QED
      BY <2>1, <3>1, <1>6 DEF Own
  <2>. QED
    BY <2>2, <2>3
<1>. QED
  BY <1>6, <1>7 DEF dev, one, two

-----------------------------------------------------------------------------
(* What the requests write *)

(* No diagnostic is among values put together from quiet ones.             *)
LEMMA QuietOver ==
  ASSUME NEW f, NEW g, NoDiag(f), NoDiag(g)
  PROVE  NoDiag(f @@ g)
<1>1. DOMAIN (f @@ g) = DOMAIN f \cup DOMAIN g
  BY Over
<1>. QED
  BY <1>1 DEF NoDiag

(* Nor in a single value for another object.                               *)
LEMMA QuietOne ==
  ASSUME NEW object, NEW i, NEW leaf, NEW e, object \notin {"diag", "igddiag"}
  PROVE  /\ NoDiag(<<object, i, leaf>> :> e)
         /\ DOMAIN (<<object, i, leaf>> :> e) # {}
<1>1. DOMAIN (<<object, i, leaf>> :> e) = {<<object, i, leaf>>}
  BY One
<1>. QED
  BY <1>1 DEF NoDiag

(* Pairs of concept and path that name no diagnostic.                      *)
Quiet(pairs) == \A q \in pairs : q[2][1] \notin {"diag", "igddiag"}

(* The paths of a map are those of its pairs.                              *)
LEMMA AsFunctionQuiet ==
  ASSUME NEW pairs, Quiet(pairs)
  PROVE  \A c \in DOMAIN AsFunction(pairs) : AsFunction(pairs)[c][1] \notin {"diag", "igddiag"}
BY DEF AsFunction, Quiet

(* The pairs of one object.                                                *)
LEMMA FieldsQuiet ==
  ASSUME NEW area, NEW object, NEW instance, NEW leaves, object \notin {"diag", "igddiag"}
  PROVE  Quiet(Fields(area, object, instance, leaves))
BY DEF Fields, Quiet

(* Those of several.                                                       *)
LEMMA UnionQuiet ==
  ASSUME NEW A, NEW B, Quiet(A), Quiet(B)
  PROVE  Quiet(A \cup B)
BY DEF Quiet

(* The maps written by hand name no diagnostic.                            *)
LEMMA MappedQuiet ==
  ASSUME NEW root
  PROVE  \A c \in DOMAIN Mapped(root) : Mapped(root)[c][1] \notin {"diag", "igddiag"}
<1>1. \A c \in DOMAIN MapTr181 : MapTr181[c][1] \notin {"diag", "igddiag"}
  <2>. DEFINE ssid(b) == Fields(b, "ssid", IF b = "2g" THEN 1 ELSE 3, SsidLeaves)
              ap(b) == Fields(b, "ap", IF b = "2g" THEN 1 ELSE 3, ApLeaves)
              radio(b) == Fields(b, "radio", IF b = "2g" THEN 1 ELSE 2, RadioLeaves)
              wifi(b) == ssid(b) \cup ap(b) \cup radio(b)
              all == UNION {wifi(b) : b \in Bands}
              lan == Fields("lan", "iface", 1, LanLeaves)
              dhcp == Fields("dhcp", "pool", 1, PoolLeaves)
              pppoe == Fields("pppoe", "ppp", 1, PppLeaves)
  <2>1. \A b : Quiet(ssid(b)) /\ Quiet(ap(b)) /\ Quiet(radio(b))
    BY FieldsQuiet
  <2>2. Quiet(lan) /\ Quiet(dhcp) /\ Quiet(pppoe)
    BY FieldsQuiet
  <2>3. MapTr181 = AsFunction(all \cup lan \cup dhcp \cup pppoe)
    BY DEF MapTr181
  <2>. HIDE DEF ssid, ap, radio, lan, dhcp, pppoe
  <2>4. \A b : Quiet(wifi(b))
    BY <2>1, UnionQuiet
  <2>. HIDE DEF wifi
  <2>5. Quiet(all)
    BY <2>4 DEF Quiet
  <2>. HIDE DEF all
  <2>. QED
    BY <2>2, <2>3, <2>5, UnionQuiet, AsFunctionQuiet
<1>2. \A c \in DOMAIN MapTr098 : MapTr098[c][1] \notin {"diag", "igddiag"}
  <2>. DEFINE wifi(b) == Fields(b, "wlan", IF b = "2g" THEN 1 ELSE 2, WlanLeaves)
              all == UNION {wifi(b) : b \in Bands}
              lan == Fields("lan", "lan", 1, LanLeaves @@ [dns |-> "DNSServers"])
              dhcp == Fields("dhcp", "lan", 1, PoolLeaves)
              conn == Fields("wan", "ipconn", 1, ConnLeaves)
              ip == Fields("wan", "ipconn", 1, IpConnLeaves)
              pppoe == Fields("pppoe", "pppconn", 1, PppLeaves)
  <2>1. \A b : Quiet(wifi(b))
    BY FieldsQuiet
  <2>2. Quiet(lan) /\ Quiet(dhcp) /\ Quiet(conn) /\ Quiet(ip) /\ Quiet(pppoe)
    BY FieldsQuiet
  <2>3. MapTr098 = AsFunction(all \cup lan \cup dhcp \cup conn \cup ip \cup pppoe)
    BY DEF MapTr098
  <2>. HIDE DEF wifi, lan, dhcp, conn, ip, pppoe
  <2>4. Quiet(all)
    BY <2>1 DEF Quiet
  <2>. HIDE DEF all
  <2>. QED
    BY <2>2, <2>3, <2>4, UnionQuiet, AsFunctionQuiet
<1>. QED
  BY <1>1, <1>2 DEF Mapped

(* A form.                                                                 *)
LEMMA FormQuiet ==
  ASSUME NEW fields, NEW root, FormValues(fields, Mapped(root)) # <<>>
  PROVE  /\ NoDiag(FormValues(fields, Mapped(root)))
         /\ DOMAIN FormValues(fields, Mapped(root)) # {}
<1>. DEFINE map == Mapped(root)
            held == DOMAIN fields \cap DOMAIN map
            values == FormValues(fields, map)
<1>. HIDE DEF map
<1>1. DOMAIN values = {map[c] : c \in held}
  BY DEF FormValues
<1>2. \A c \in held : map[c][1] \notin {"diag", "igddiag"}
  BY MappedQuiet DEF map
<1>3. values = [p \in DOMAIN values |-> values[p]]
  BY DEF FormValues
<1>4. DOMAIN values # {}
  BY <1>3 DEF map
<1>. QED
  BY <1>1, <1>2, <1>4 DEF NoDiag, map

(* A PPPoE account.                                                        *)
LEMMA PppoeQuiet ==
  ASSUME NEW ask, NEW object \in {"ppp", "pppconn"}
  PROVE  NoDiag(PppoeValues(ask, object)) /\ DOMAIN PppoeValues(ask, object) # {}
<1>1. NoDiag(PppoeValues(ask, object))
  BY QuietOne, QuietOver DEF PppoeValues
<1>2. <<object, 1, "Enable">> \in DOMAIN PppoeValues(ask, object)
  <2>. DEFINE one == <<object, 1, "Enable">> :> TRUE
              two == <<object, 1, "Username">> :> ask.user
  <2>1. DOMAIN one = {<<object, 1, "Enable">>}
    BY One
  <2>. HIDE DEF one, two
  <2>2. DOMAIN (one @@ two) = DOMAIN one \cup DOMAIN two
    BY Over
  <2>. QED
    BY <2>1, <2>2 DEF PppoeValues, one, two
<1>. QED
  BY <1>1, <1>2

(* A WAN on TR-098.                                                        *)
LEMMA Tr098Quiet ==
  ASSUME NEW ask, NEW conn, conn[1] = "ipconn"
  PROVE  /\ NoDiag(DhcpTr098(conn)) /\ DOMAIN DhcpTr098(conn) # {}
         /\ NoDiag(StaticTr098(conn, ask)) /\ DOMAIN StaticTr098(conn, ask) # {}
<1>1. NoDiag(DhcpTr098(conn)) /\ DOMAIN DhcpTr098(conn) # {}
  BY QuietOne DEF DhcpTr098
<1>. DEFINE dns == IF ask.dns = Unset THEN <<>> ELSE <<conn[1], conn[2], "DNSServers">> :> ask.dns
            type == <<conn[1], conn[2], "AddressingType">> :> "Static"
<1>2. NoDiag(dns)
  <2>1. NoDiag(<<>>)
    BY DEF NoDiag
  <2>. QED
    BY <2>1, QuietOne
<1>3. NoDiag(StaticTr098(conn, ask))
  <2>. DEFINE ip == <<conn[1], conn[2], "ExternalIPAddress">> :> ask.ip
              mask == <<conn[1], conn[2], "SubnetMask">> :> ask.size
              gateway == <<conn[1], conn[2], "DefaultGateway">> :> ask.gateway
  <2>1. NoDiag(type) /\ NoDiag(ip) /\ NoDiag(mask) /\ NoDiag(gateway)
    BY QuietOne
  <2>2. StaticTr098(conn, ask) = type @@ ip @@ mask @@ gateway @@ dns
    BY DEF StaticTr098
  <2>. HIDE DEF type, ip, mask, gateway, dns
  <2>. QED
    BY <2>1, <2>2, <1>2, QuietOver
<1>4. DOMAIN StaticTr098(conn, ask) # {}
  <2>. DEFINE ip == <<conn[1], conn[2], "ExternalIPAddress">> :> ask.ip
              mask == <<conn[1], conn[2], "SubnetMask">> :> ask.size
              gateway == <<conn[1], conn[2], "DefaultGateway">> :> ask.gateway
  <2>1. DOMAIN type # {}
    BY QuietOne
  <2>2. StaticTr098(conn, ask) = type @@ ip @@ mask @@ gateway @@ dns
    BY DEF StaticTr098
  <2>. HIDE DEF type, ip, mask, gateway, dns
  <2>3. \A f, g : DOMAIN f # {} => DOMAIN (f @@ g) # {}
    BY Over
  <2>. QED
    BY <2>1, <2>2, <2>3
<1>. QED
  BY <1>1, <1>3, <1>4

(* The DNS of a TR-181 device is written to one of its relays.             *)
LEMMA DnsIsRelay ==
  ASSUME NEW d
  PROVE  \A p \in DnsTarget(d) : p[1] = "relay"
<1>. DEFINE relays == {n \in Instances(d, "relay") : <<"relay", n, "DNSServer">> \in Known(d)}
            on == {n \in relays : Value(d, <<"relay", n, "Enable">>, FALSE)}
            first == FirstAsText(IF on # {} THEN on ELSE relays)
<1>1. DnsTarget(d) = {<<"relay", n, "DNSServer">> : n \in first}
  BY DEF DnsTarget
<1>. HIDE DEF first
<1>. QED
  BY <1>1

(* A WAN on TR-181: what is accepted goes to an interface, writes something *)
(* and names no diagnostic.                                                *)
LEMMA WanWritesQuiet ==
  ASSUME NEW d, NEW asked, NEW w \in WanWrites(d, asked), w.refused = ""
  PROVE  WanOf(d) # None /\ NoDiag(w.values) /\ DOMAIN w.values # {}
<1>. DEFINE i == WanOf(d)
            type == <<"iface", i, "AddressingType">>
<1>1. \A why : Refusal(why).refused = why
  BY DEF Refusal
<1>2. \A values : Accepted(values).values = values
  BY DEF Accepted
<1>3. /\ i # None /\ type \in Known(d)
      /\ \/ w = Accepted(DhcpValues(d, i))
         \/ \E r \in RoutesOf(d, i) : w = Accepted(StaticValues(d, i, r, asked))
  BY <1>1 DEF WanWrites
<1>4. \A values : NoDiag(values) => NoDiag(Exposed(d, values))
  BY DEF NoDiag, Exposed
<1>5. NoDiag(DhcpValues(d, i)) /\ DOMAIN DhcpValues(d, i) # {}
  <2>. DEFINE one == type :> "DHCP"
              two == <<"iface", i, "X_TP_ConnType">> :> "DHCP"
  <2>1. NoDiag(one) /\ NoDiag(two) /\ DOMAIN one = {type}
    BY QuietOne, One
  <2>2. DhcpValues(d, i) = Exposed(d, one @@ two)
    BY DEF DhcpValues
  <2>. HIDE DEF one, two
  <2>3. NoDiag(one @@ two) /\ DOMAIN (one @@ two) = DOMAIN one \cup DOMAIN two
    BY <2>1, QuietOver, Over
  <2>4. type \in DOMAIN Exposed(d, one @@ two)
    BY <1>3, <2>1, <2>3 DEF Exposed
  <2>. QED
    BY <2>2, <2>3, <2>4, <1>4
<1>6. \A r : NoDiag(StaticValues(d, i, r, asked)) /\ DOMAIN StaticValues(d, i, r, asked) # {}
  <2>. SUFFICES ASSUME NEW r
                PROVE  NoDiag(StaticValues(d, i, r, asked)) /\ DOMAIN StaticValues(d, i, r, asked) # {}
    OBVIOUS
  <2>. DEFINE gateway == <<"route", r, "GatewayIPAddress">> :> asked.gateway
              mode == type :> "Static"
              ip == <<"iface", i, "IPAddress">> :> asked.ip
              mask == <<"iface", i, "SubnetMask">> :> asked.size
              conn == <<"iface", i, "X_TP_ConnType">> :> "Static"
              default == <<"iface", i, "X_TP_SetDefaultGateway">> :> TRUE
              enable == <<"route", r, "Enable">> :> TRUE
              shown == Exposed(d, mode @@ ip @@ mask @@ conn @@ default @@ enable)
              dns == [p \in IF asked.dns = Unset THEN {} ELSE DnsTarget(d) |-> asked.dns]
  <2>1. /\ NoDiag(gateway) /\ NoDiag(mode) /\ NoDiag(ip) /\ NoDiag(mask) /\ NoDiag(conn)
        /\ NoDiag(default) /\ NoDiag(enable) /\ DOMAIN gateway # {}
    BY QuietOne
  <2>2. NoDiag(dns)
    <3>1. \A p \in DnsTarget(d) : p[1] = "relay"
      BY DnsIsRelay
    <3>2. DOMAIN dns \subseteq DnsTarget(d)
      OBVIOUS
    <3>. QED
      BY <3>1, <3>2 DEF NoDiag
  <2>3. StaticValues(d, i, r, asked) = gateway @@ shown @@ dns
    BY DEF StaticValues
  <2>. HIDE DEF gateway, mode, ip, mask, conn, default, enable, dns
  <2>4. NoDiag(mode @@ ip @@ mask @@ conn @@ default @@ enable)
    BY <2>1, QuietOver
  <2>5. NoDiag(shown)
    BY <2>4, <1>4
  <2>. HIDE DEF shown
  <2>6. \A f, g : DOMAIN f # {} => DOMAIN (f @@ g) # {}
    BY Over
  <2>7. NoDiag(gateway @@ shown @@ dns)
    BY <2>1, <2>2, <2>5, QuietOver
  <2>. QED
    BY <2>1, <2>3, <2>6, <2>7
<1>. QED
  BY <1>2, <1>3, <1>5, <1>6

-----------------------------------------------------------------------------
(* What the handler of a static change has compared *)

(* TR-181: guard and values are of one read, of which the task keeps the   *)
(* interface whole.                                                        *)
LEMMA LinkedTr181 ==
  ASSUME NEW task, NEW valid,
         task.conn = <<"iface", WanOf(doc)>>, WanOf(doc) # None,
         task.seen = Restricted(doc, SeenOf(WanOf(doc))),
         task.ask.op = "static" => StaticIsValid(task.ask, WanCurrentIp(doc))
  PROVE  Linked(task)
<1>. DEFINE i == WanOf(doc)
            path == <<"iface", i, "IPAddress">>
<1>1. path \in SeenOf(i) \cap DOMAIN doc <=> path \in DOMAIN doc
  BY DEF SeenOf, Known
<1>2. Address(task.seen, i) = Address(doc, i)
  <2>. DEFINE some == SeenOf(i)
              seen == Restricted(doc, some)
  <2>1. DOMAIN seen = some \cap DOMAIN doc /\ \A p \in some \cap DOMAIN doc : seen[p] = doc[p]
    BY RestrictedFacts
  <2>2. task.seen = seen
    OBVIOUS
  <2>3. path \in some \cap DOMAIN doc <=> path \in DOMAIN doc
    BY <1>1
  <2>. HIDE DEF seen, some
  <2>. QED
    BY <2>1, <2>2, <2>3 DEF Address, Value
<1>3. OwnAddress(task) = WanCurrentIp(doc)
  BY <1>2 DEF OwnAddress, WanCurrentIp
<1>. QED
  BY <1>3 DEF Linked, StaticIsValid, SameNet

(* TR-098: the address compared is that of the connection written, when it *)
(* is the only one up in the read that compares.                           *)
LEMMA LinkedTr098 ==
  ASSUME NEW task, task.conn[1] = "ipconn", NEW current \in ActiveWanIps(doc),
         task.seen = Restricted(doc, {p \in Known(doc) : p[1] \in {"ipconn", "pppconn"}}),
         StaticIsValid(task.ask, current)
  PROVE  Linked(task)
<1>. SUFFICES ASSUME OneConnection(task), OwnAddress(task) # Unset
              PROVE  OwnAddress(task) = current
  BY DEF Linked, StaticIsValid, SameNet
<1>. DEFINE conns == {p \in Known(doc) : p[1] \in {"ipconn", "pppconn"}}
            seen == Restricted(doc, conns)
<1>1. /\ DOMAIN seen = conns
      /\ \A p \in conns : seen[p] = doc[p]
  <2>1. DOMAIN seen = conns \cap DOMAIN doc /\ \A p \in conns \cap DOMAIN doc : seen[p] = doc[p]
    BY RestrictedFacts
  <2>2. conns \cap DOMAIN doc = conns
    BY DEF Known
  <2>. HIDE DEF conns, seen
  <2>. QED
    BY <2>1, <2>2
<1>. HIDE DEF seen
<1>2. \A kind \in {"ipconn", "pppconn"} : \A n, leaf, default :
        Value(seen, <<kind, n, leaf>>, default) = Value(doc, <<kind, n, leaf>>, default)
  BY <1>1 DEF Value, Known
<1>3. Connections(seen) = Connections(doc)
  BY <1>1 DEF Connections, Known
<1>4. \A kind \in {"ipconn", "pppconn"} : UpConns(seen, kind) = UpConns(doc, kind)
  <2>1. \A c : c[1] \in {"ipconn", "pppconn"} => (Up(seen, c) <=> Up(doc, c))
    <3>. SUFFICES ASSUME NEW c, c[1] \in {"ipconn", "pppconn"}
                  PROVE  Up(seen, c) <=> Up(doc, c)
      OBVIOUS
    <3>. DEFINE path == <<c[1], c[2], "ConnectionStatus">>
    <3>1. /\ path \in DOMAIN seen <=> path \in DOMAIN doc
          /\ path \in DOMAIN seen => seen[path] = doc[path]
      BY <1>1 DEF Known
    <3>2. /\ Up(seen, c) <=> Value(seen, path, "") \in {"Connected", "Up"}
          /\ Up(doc, c) <=> Value(doc, path, "") \in {"Connected", "Up"}
      BY Zenon DEF Up
    <3>. HIDE DEF path
    <3>3. Value(seen, path, "") = Value(doc, path, "")
      BY ONLY <3>1, Zenon DEF Value
    <3>. QED
      BY ONLY <3>2, <3>3, Zenon
  <2>. QED
    BY <1>3, <2>1 DEF UpConns
<1>5. ExternalIp(seen, task.conn) = ExternalIp(doc, task.conn)
  BY <1>2 DEF ExternalIp
<1>6. UpConns(doc, "ipconn") \cup UpConns(doc, "pppconn") = {task.conn}
  BY <1>4 DEF OneConnection, seen
<1>7. UpConns(doc, "pppconn") = {} /\ UpConns(doc, "ipconn") = {task.conn}
  BY <1>6 DEF UpConns
<1>8. OwnAddress(task) = ExternalIp(doc, task.conn)
  BY <1>5 DEF OwnAddress, seen
<1>9. ActiveWanIps(doc) = {ExternalIp(doc, task.conn)}
  BY <1>7, <1>8 DEF ActiveWanIps
<1>. QED
  BY <1>8, <1>9

(* Nothing is asked of another change, nor of one that compared nothing.   *)
LEMMA LinkedOther ==
  ASSUME NEW task, task.ask.op # "static" \/ task.seen = <<>>
  PROVE  Linked(task)
BY DEF Linked

(* The first connection is always an IP one.                               *)
LEMMA PrefixIsIp ==
  ASSUME NEW d
  PROVE  \A c \in ActiveWanPrefixes(d) : c[1] = "ipconn"
BY DEF ActiveWanPrefixes, UpConns
-----------------------------------------------------------------------------
(* What a static change writes, and what stays of it *)

(* What one of two functions has, the two together have, the first before. *)
LEMMA HasOver ==
  ASSUME NEW f, NEW g, NEW path, NEW value
  PROVE  /\ Has(f, path, value) => Has(f @@ g, path, value)
         /\ path \notin DOMAIN f /\ Has(g, path, value) => Has(f @@ g, path, value)
<1>. DEFINE h == f @@ g
<1>1. /\ DOMAIN h = DOMAIN f \cup DOMAIN g
      /\ \A x \in DOMAIN f : h[x] = f[x]
      /\ \A x \in DOMAIN g \ DOMAIN f : h[x] = g[x]
  BY Over
<1>. HIDE DEF h
<1>2. /\ Has(f, path, value) => Has(h, path, value)
      /\ path \notin DOMAIN f /\ Has(g, path, value) => Has(h, path, value)
  BY <1>1 DEF Has
<1>. QED
  BY <1>2 DEF h

(* A function with one argument has it.                                    *)
LEMMA HasOne ==
  ASSUME NEW path, NEW value
  PROVE  Has(path :> value, path, value)
BY One DEF Has

(* The document exposes what it knows.                                     *)
LEMMA HasExposed ==
  ASSUME NEW d, NEW f, NEW path, NEW value, Has(f, path, value), path \in Known(d)
  PROVE  Has(Exposed(d, f), path, value)
BY DEF Has, Exposed

(* What stays of a change when its connection and the routes stay.         *)
LEMMA StandsAway ==
  ASSUME NEW w, NEW dev, NEW dev2, Stands(w, dev),
         \A p \in DOMAIN dev :
           OfTheWan(p) /\ (<<p[1], p[2]>> = w.conn \/ p[1] = "route")
             => p \in DOMAIN dev2 /\ dev2[p] = dev[p]
  PROVE  Stands(w, dev2)
<1>. DEFINE Its(p) == OfTheWan(p) /\ (<<p[1], p[2]>> = w.conn \/ p[1] = "route")
<1>1. \A p, v : Its(p) /\ Has(dev, p, v) => Has(dev2, p, v)
  BY DEF Has
<1>. SUFFICES ASSUME w.ask.op = "static", Current(w), Whole(w), w.conn # <<"iface", 1>>
              PROVE  /\ WrittenIn(w, dev2)
                     /\ w.conn[1] = "iface" =>
                          \A r \in RoutesOf(w.seen, w.conn[2]) :
                            Has(dev2, <<"route", r, "Interface">>, w.conn[2])
  BY DEF Stands
<1>2. /\ WrittenIn(w, dev) /\ w.conn[1] \in {"iface", "ipconn"}
      /\ w.conn = <<w.conn[1], w.conn[2]>>
      /\ w.conn[1] = "iface" =>
           \A r \in RoutesOf(w.seen, w.conn[2]) : Has(dev, <<"route", r, "Interface">>, w.conn[2])
  BY DEF Stands
<1>3. \A r, l : Its(<<"route", r, l>>)
  BY DEF OfTheWan
<1>4. CASE w.conn[1] = "iface"
  <2>1. w.conn[2] # 1
    BY <1>2, <1>4
  <2>2. \A l \in {"AddressingType", "IPAddress", "SubnetMask"} :
          Its(<<w.conn[1], w.conn[2], l>>)
    BY <1>2, <1>4, <2>1 DEF OfTheWan
  <2>. HIDE DEF Its
  <2>3. WrittenIn(w, dev2)
    BY <1>1, <1>2, <1>3, <1>4, <2>2 DEF WrittenIn
  <2>. QED
    BY <1>1, <1>2, <1>3, <1>4, <2>3
<1>5. CASE w.conn[1] = "ipconn"
  <2>1. \A l \in {"AddressingType", "ExternalIPAddress", "SubnetMask", "DefaultGateway"} :
          Its(<<w.conn[1], w.conn[2], l>>)
    BY <1>2, <1>5 DEF OfTheWan
  <2>. HIDE DEF Its
  <2>. QED
    BY <1>1, <1>2, <1>5, <2>1 DEF WrittenIn
<1>. QED
  BY <1>2, <1>4, <1>5

(* What stays of it under values that do not reach them.                   *)
LEMMA StandsOver ==
  ASSUME NEW w, NEW dev, Stands(w, dev), NEW values,
         (\A p \in DOMAIN values : ~OfTheWan(p)) \/ ~Reaches(values, w.conn)
  PROVE  Stands(w, values @@ dev)
<1>. DEFINE dev2 == values @@ dev
<1>1. /\ DOMAIN dev2 = DOMAIN values \cup DOMAIN dev
      /\ \A p \in DOMAIN dev \ DOMAIN values : dev2[p] = dev[p]
  BY Over
<1>. HIDE DEF dev2
<1>2. \A p \in DOMAIN values :
        ~(OfTheWan(p) /\ (<<p[1], p[2]>> = w.conn \/ p[1] = "route"))
  BY DEF Reaches
<1>3. Stands(w, dev2)
  BY <1>1, <1>2, StandsAway
<1>. QED
  BY <1>3 DEF dev2

(* What a change leaves when it runs.                                      *)
LEMMA StandsWritten ==
  ASSUME NEW task, Fits(task), NEW dev, NEW w, task.ask.op \in {"static", "dhcp"},
         w.ask = task.ask, w.conn = task.conn, w.seen = task.seen, w.shown = task.shown,
         w.before = Restricted(dev, DOMAIN task.seen)
  PROVE  Stands(w, task.values @@ dev)
<1>. DEFINE values == task.values
            dev2 == values @@ dev
<1>1. UpFirst(w)
  BY DEF Fits, UpFirst
<1>. SUFFICES ASSUME w.ask.op = "static"
              PROVE  Stands(w, dev2)
  BY <1>1 DEF Stands
<1>2. /\ w.conn = <<w.conn[1], w.conn[2]>> /\ w.conn[1] \in {"iface", "ipconn"}
      /\ w.conn[1] = "iface" => w.conn[2] # None
      /\ \A p \in DOMAIN values : p[1] = "route" => p[3] # "Interface"
      /\ Whole(task) => WrittenIn(task, values)
  BY DEF Fits
<1>. SUFFICES ASSUME Current(w), Whole(w)
              PROVE  /\ WrittenIn(w, dev2)
                     /\ w.conn[1] = "iface" =>
                          \A r \in RoutesOf(w.seen, w.conn[2]) :
                            Has(dev2, <<"route", r, "Interface">>, w.conn[2])
  BY <1>1, <1>2 DEF Stands
<1>3. WrittenIn(w, values)
  BY <1>2 DEF Whole, WrittenIn
<1>4. \A p, v : Has(values, p, v) => Has(dev2, p, v)
  BY HasOver
<1>5. WrittenIn(w, dev2)
  BY <1>3, <1>4 DEF WrittenIn
<1>6. ASSUME w.conn[1] = "iface", NEW r \in RoutesOf(w.seen, w.conn[2])
      PROVE  Has(dev2, <<"route", r, "Interface">>, w.conn[2])
  <2>. DEFINE path == <<"route", r, "Interface">>
  <2>1. Value(w.seen, path, None) = w.conn[2]
    BY <1>6 DEF RoutesOf
  <2>2. path \in DOMAIN w.seen /\ w.seen[path] = w.conn[2]
    BY <1>2, <1>6, <2>1 DEF Value
  <2>3. path \in DOMAIN dev /\ dev[path] = w.conn[2]
    <3>. DEFINE seen == task.seen
                paths == DOMAIN seen
                before == Restricted(dev, paths)
    <3>1. /\ DOMAIN before = paths \cap DOMAIN dev
          /\ \A p \in paths \cap DOMAIN dev : before[p] = dev[p]
      BY RestrictedFacts
    <3>2. seen = before /\ path \in DOMAIN seen /\ seen[path] = w.conn[2]
      BY <2>2 DEF Current
    <3>. HIDE DEF seen, before, path
    <3>. QED
      BY <3>1, <3>2
  <2>4. path \notin DOMAIN values
    BY <1>2
  <2>. HIDE DEF path, values
  <2>. QED
    BY <2>3, <2>4, HasOver DEF Has, path
<1>. QED
  BY <1>5, <1>6

(* No change has run.                                                      *)
LEMMA NoWriteStands ==
  ASSUME NEW dev
  PROVE  Stands(NoWrite, dev)
<1>1. NoWrite.ask.op = ""
  BY Zenon DEF NoWrite
<1>2. "" \notin {"static", "dhcp"} /\ "" # "static"
  BY Zenon
<1>3. NoWrite.ask.op \notin {"static", "dhcp"} /\ NoWrite.ask.op # "static"
  BY ONLY <1>1, <1>2, Zenon
<1>. QED
  BY <1>3 DEF Stands

(* TR-181: a static change writes what the document exposes of all this.   *)
LEMMA StaticWrites ==
  ASSUME NEW d, NEW i, NEW r, NEW asked
  PROVE  LET values == StaticValues(d, i, r, asked)
         IN  /\ Has(values, <<"route", r, "GatewayIPAddress">>, asked.gateway)
             /\ <<"route", r, "Enable">> \in Known(d) => Has(values, <<"route", r, "Enable">>, TRUE)
             /\ <<"iface", i, "AddressingType">> \in Known(d) =>
                  Has(values, <<"iface", i, "AddressingType">>, "Static")
             /\ <<"iface", i, "IPAddress">> \in Known(d) =>
                  Has(values, <<"iface", i, "IPAddress">>, asked.ip)
             /\ <<"iface", i, "SubnetMask">> \in Known(d) =>
                  Has(values, <<"iface", i, "SubnetMask">>, asked.size)
             /\ \A p \in DOMAIN values : p[1] = "route" => p[3] # "Interface"
<1>. DEFINE gateway == <<"route", r, "GatewayIPAddress">> :> asked.gateway
            mode == <<"iface", i, "AddressingType">> :> "Static"
            ip == <<"iface", i, "IPAddress">> :> asked.ip
            mask == <<"iface", i, "SubnetMask">> :> asked.size
            conn == <<"iface", i, "X_TP_ConnType">> :> "Static"
            default == <<"iface", i, "X_TP_SetDefaultGateway">> :> TRUE
            enable == <<"route", r, "Enable">> :> TRUE
            all == mode @@ ip @@ mask @@ conn @@ default @@ enable
            shown == Exposed(d, all)
            dns == [p \in IF asked.dns = Unset THEN {} ELSE DnsTarget(d) |-> asked.dns]
            values == StaticValues(d, i, r, asked)
<1>1. /\ Has(gateway, <<"route", r, "GatewayIPAddress">>, asked.gateway)
      /\ Has(mode, <<"iface", i, "AddressingType">>, "Static")
      /\ Has(ip, <<"iface", i, "IPAddress">>, asked.ip)
      /\ Has(mask, <<"iface", i, "SubnetMask">>, asked.size)
      /\ Has(enable, <<"route", r, "Enable">>, TRUE)
  BY HasOne
<1>2. /\ DOMAIN gateway = {<<"route", r, "GatewayIPAddress">>}
      /\ DOMAIN mode = {<<"iface", i, "AddressingType">>}
      /\ DOMAIN ip = {<<"iface", i, "IPAddress">>}
      /\ DOMAIN mask = {<<"iface", i, "SubnetMask">>}
      /\ DOMAIN conn = {<<"iface", i, "X_TP_ConnType">>}
      /\ DOMAIN default = {<<"iface", i, "X_TP_SetDefaultGateway">>}
      /\ DOMAIN enable = {<<"route", r, "Enable">>}
  BY One
<1>3. values = gateway @@ shown @@ dns
  BY DEF StaticValues
<1>4. \A p \in DOMAIN dns : p[1] = "relay"
  <2>1. \A p \in DnsTarget(d) : p[1] = "relay"
    BY DnsIsRelay
  <2>2. DOMAIN dns \subseteq DnsTarget(d)
    OBVIOUS
  <2>. QED
    BY <2>1, <2>2
<1>. HIDE DEF gateway, mode, ip, mask, conn, default, enable, dns, values
<1>5. /\ Has(all, <<"iface", i, "AddressingType">>, "Static")
      /\ Has(all, <<"iface", i, "IPAddress">>, asked.ip)
      /\ Has(all, <<"iface", i, "SubnetMask">>, asked.size)
      /\ Has(all, <<"route", r, "Enable">>, TRUE)
      /\ DOMAIN all = DOMAIN mode \cup DOMAIN ip \cup DOMAIN mask \cup DOMAIN conn
                      \cup DOMAIN default \cup DOMAIN enable
  <2>. DEFINE m2 == mode @@ ip
              m3 == m2 @@ mask
              m4 == m3 @@ conn
              m5 == m4 @@ default
              m6 == m5 @@ enable
  <2>1. DOMAIN m2 = DOMAIN mode \cup DOMAIN ip
    BY Over
  <2>2. /\ Has(m2, <<"iface", i, "AddressingType">>, "Static")
        /\ Has(m2, <<"iface", i, "IPAddress">>, asked.ip)
    BY <1>1, <1>2, HasOver
  <2>. HIDE DEF m2
  <2>3. DOMAIN m3 = DOMAIN m2 \cup DOMAIN mask
    BY Over
  <2>4. /\ Has(m3, <<"iface", i, "AddressingType">>, "Static")
        /\ Has(m3, <<"iface", i, "IPAddress">>, asked.ip)
        /\ Has(m3, <<"iface", i, "SubnetMask">>, asked.size)
    BY <1>1, <1>2, <2>1, <2>2, HasOver
  <2>. HIDE DEF m3
  <2>5. DOMAIN m4 = DOMAIN m3 \cup DOMAIN conn
    BY Over
  <2>6. /\ Has(m4, <<"iface", i, "AddressingType">>, "Static")
        /\ Has(m4, <<"iface", i, "IPAddress">>, asked.ip)
        /\ Has(m4, <<"iface", i, "SubnetMask">>, asked.size)
    BY <2>4, HasOver
  <2>. HIDE DEF m4
  <2>7. DOMAIN m5 = DOMAIN m4 \cup DOMAIN default
    BY Over
  <2>8. /\ Has(m5, <<"iface", i, "AddressingType">>, "Static")
        /\ Has(m5, <<"iface", i, "IPAddress">>, asked.ip)
        /\ Has(m5, <<"iface", i, "SubnetMask">>, asked.size)
    BY <2>6, HasOver
  <2>. HIDE DEF m5
  <2>9. DOMAIN m6 = DOMAIN m5 \cup DOMAIN enable
    BY Over
  <2>10. <<"route", r, "Enable">> \notin DOMAIN m5
    BY <1>2, <2>1, <2>3, <2>5, <2>7
  <2>11. /\ Has(m6, <<"iface", i, "AddressingType">>, "Static")
         /\ Has(m6, <<"iface", i, "IPAddress">>, asked.ip)
         /\ Has(m6, <<"iface", i, "SubnetMask">>, asked.size)
         /\ Has(m6, <<"route", r, "Enable">>, TRUE)
    BY <1>1, <2>8, <2>10, HasOver
  <2>12. all = m6
    BY DEF m2, m3, m4, m5
  <2>. HIDE DEF m6, all
  <2>. QED
    BY <2>1, <2>3, <2>5, <2>7, <2>9, <2>11, <2>12
<1>. HIDE DEF all
<1>6. /\ <<"iface", i, "AddressingType">> \in Known(d) =>
           Has(shown, <<"iface", i, "AddressingType">>, "Static")
      /\ <<"iface", i, "IPAddress">> \in Known(d) =>
           Has(shown, <<"iface", i, "IPAddress">>, asked.ip)
      /\ <<"iface", i, "SubnetMask">> \in Known(d) =>
           Has(shown, <<"iface", i, "SubnetMask">>, asked.size)
      /\ <<"route", r, "Enable">> \in Known(d) => Has(shown, <<"route", r, "Enable">>, TRUE)
  BY <1>5, HasExposed
<1>7. DOMAIN shown \subseteq DOMAIN all
  BY DEF Exposed
<1>. HIDE DEF shown
<1>. DEFINE both == gateway @@ shown
<1>8. DOMAIN both = DOMAIN gateway \cup DOMAIN shown
  BY Over
<1>9. /\ \A p, v : p \notin DOMAIN gateway /\ Has(shown, p, v) => Has(both, p, v)
      /\ \A p, v : Has(gateway, p, v) => Has(both, p, v)
  BY HasOver
<1>. HIDE DEF both
<1>10. values = both @@ dns
  BY <1>3 DEF both
<1>11. DOMAIN values = DOMAIN both \cup DOMAIN dns
  BY <1>10, Over
<1>12. \A p, v : Has(both, p, v) => Has(values, p, v)
  BY <1>10, HasOver
<1>13. \A p \in DOMAIN values : p[1] = "route" => p[3] # "Interface"
  BY <1>2, <1>4, <1>5, <1>7, <1>8, <1>11
<1>14. \A p, v : p \notin DOMAIN gateway /\ Has(shown, p, v) => Has(values, p, v)
  BY <1>9, <1>12
<1>15. Has(values, <<"route", r, "GatewayIPAddress">>, asked.gateway)
  BY <1>1, <1>9, <1>12
<1>16. /\ <<"iface", i, "AddressingType">> \notin DOMAIN gateway
       /\ <<"iface", i, "IPAddress">> \notin DOMAIN gateway
       /\ <<"iface", i, "SubnetMask">> \notin DOMAIN gateway
       /\ <<"route", r, "Enable">> \notin DOMAIN gateway
  BY <1>2
<1>. QED
  BY <1>6, <1>13, <1>14, <1>15, <1>16 DEF values

(* TR-181: the task of a change is decided, compared and kept of one read. *)
LEMMA FitsTr181 ==
  ASSUME NEW task, NEW w \in WanWrites(doc, task.ask), w.refused = "",
         task.ask.op \in {"static", "dhcp"}, task.conn = <<"iface", WanOf(doc)>>,
         task.values = w.values, task.seen = Restricted(doc, SeenOf(WanOf(doc)))
  PROVE  Fits(task)
<1>. DEFINE i == WanOf(doc)
            some == SeenOf(i)
            seen == Restricted(doc, some)
            asked == task.ask
<1>1. \A why : Refusal(why).refused = why
  BY DEF Refusal
<1>2. \A values : Accepted(values).values = values
  BY DEF Accepted
<1>3. /\ i # None
      /\ asked.op = "static" => \E r \in RoutesOf(doc, i) : w = Accepted(StaticValues(doc, i, r, asked))
  BY <1>1 DEF WanWrites
<1>9. task.seen = seen /\ task.conn[1] = "iface" /\ task.conn[2] = i /\ task.conn = <<"iface", i>>
  <2>. HIDE DEF i, seen
  <2>1. task.seen = seen /\ task.conn = <<"iface", i>>
    BY DEF i, seen
  <2>2. \A x : <<"iface", x>>[1] = "iface" /\ <<"iface", x>>[2] = x
    OBVIOUS
  <2>. QED
    BY ONLY <2>1, <2>2, Zenon
<1>4. UpFirst(task)
  BY <1>9 DEF UpFirst
<1>. SUFFICES ASSUME asked.op = "static" PROVE Fits(task)
  BY <1>4 DEF Fits
<1>5. PICK r \in RoutesOf(doc, i) : task.values = StaticValues(doc, i, r, asked)
  BY <1>2, <1>3
<1>6. /\ DOMAIN seen = some \cap DOMAIN doc
      /\ \A p \in some \cap DOMAIN doc : seen[p] = doc[p]
  BY RestrictedFacts
<1>7. \A p \in DOMAIN doc : p[1] = "route" => p \in some
  BY DEF SeenOf, Known
<1>8. r \in Instances(doc, "route") /\ Value(doc, <<"route", r, "Interface">>, None) = i
  BY DEF RoutesOf
<1>. DEFINE values == StaticValues(doc, i, r, asked)
<1>10. /\ Has(values, <<"route", r, "GatewayIPAddress">>, asked.gateway)
       /\ <<"route", r, "Enable">> \in Known(doc) => Has(values, <<"route", r, "Enable">>, TRUE)
       /\ <<"iface", i, "AddressingType">> \in Known(doc) =>
            Has(values, <<"iface", i, "AddressingType">>, "Static")
       /\ <<"iface", i, "IPAddress">> \in Known(doc) =>
            Has(values, <<"iface", i, "IPAddress">>, asked.ip)
       /\ <<"iface", i, "SubnetMask">> \in Known(doc) =>
            Has(values, <<"iface", i, "SubnetMask">>, asked.size)
       /\ \A p \in DOMAIN values : p[1] = "route" => p[3] # "Interface"
  BY StaticWrites
<1>11. task.values = values
  BY <1>5
<1>. HIDE DEF i, some, seen, values, asked
<1>12. r \in RoutesOf(seen, i)
  <2>1. r \in Instances(seen, "route")
    BY <1>6, <1>7, <1>8 DEF Instances, Known
  <2>2. Value(seen, <<"route", r, "Interface">>, None) = i
    BY <1>6, <1>7, <1>8 DEF Value
  <2>. QED
    BY <2>1, <2>2 DEF RoutesOf
<1>13. ASSUME Whole(task) PROVE WrittenIn(task, values)
  <2>1. /\ \A leaf \in {"AddressingType", "IPAddress", "SubnetMask"} :
             <<"iface", i, leaf>> \in Known(doc)
        /\ <<"route", r, "Enable">> \in Known(doc)
    BY <1>6, <1>9, <1>12, <1>13 DEF Whole, Known
  <2>. QED
    BY <1>9, <1>10, <1>12, <2>1 DEF WrittenIn, asked
<1>. QED
  BY <1>3, <1>4, <1>9, <1>10, <1>11, <1>13 DEF Fits, asked

(* TR-098: the connection found is one of the list, up if any is.          *)
LEMMA PrefixUp ==
  ASSUME NEW d, NEW conn \in ActiveWanPrefixes(d)
  PROVE  /\ conn = <<conn[1], conn[2]>>
         /\ Shown(d, conn).someUp => Shown(d, conn).up
<1>1. \A c \in Connections(d) : c = <<c[1], c[2]>>
  BY DEF Connections
<1>2. conn \in Connections(d) \cup {<<"ipconn", 1>>}
  BY DEF ActiveWanPrefixes, UpConns
<1>3. conn = <<conn[1], conn[2]>>
  BY <1>1, <1>2
<1>. DEFINE up == {x.conn : x \in {y \in Wans(d) : y.status \in {"Connected", "Up"}}}
<1>4. /\ Shown(d, conn).up <=> conn \in up
      /\ Shown(d, conn).someUp <=> \E c \in up : c[1] = "ipconn"
  BY DEF Shown
<1>5. CASE RootOf(d) = "Device"
  <2>1. \A n : RowTr181(d, n).conn = <<"iface", n>>
    BY Zenon DEF RowTr181
  <2>2. \A x \in Wans(d) : \E n : x = RowTr181(d, n)
    BY <1>5 DEF Wans, RowsTr181
  <2>3. \A x \in Wans(d) : x.conn[1] = "iface"
    BY <2>1, <2>2
  <2>. QED
    BY <1>3, <1>4, <2>3
<1>6. CASE RootOf(d) # "Device"
  <2>1. \A c : RowTr098(d, c).conn = c /\ RowTr098(d, c).status = Value(d, <<c[1], c[2], "ConnectionStatus">>, "")
    BY DEF RowTr098
  <2>2. Wans(d) = {RowTr098(d, c) : c \in Connections(d)}
    BY <1>6 DEF Wans
  <2>3. \A c : c \in up <=> c \in Connections(d) /\ Up(d, c)
    <3>1. \A c : c \in up <=> \E y \in Wans(d) : y.status \in {"Connected", "Up"} /\ c = y.conn
      OBVIOUS
    <3>2. \A c : Up(d, c) <=> RowTr098(d, c).status \in {"Connected", "Up"}
      BY ONLY <2>1, Zenon DEF Up
    <3>3. \A y : y \in Wans(d) <=> \E c \in Connections(d) : y = RowTr098(d, c)
      BY ONLY <2>2, Zenon
    <3>4. \A c : RowTr098(d, c).conn = c
      BY ONLY <2>1, Zenon
    <3>. HIDE DEF up
    <3>5. ASSUME NEW c \in up PROVE c \in Connections(d) /\ Up(d, c)
      <4>1. PICK y \in Wans(d) : y.status \in {"Connected", "Up"} /\ c = y.conn
        BY ONLY <3>1, <3>5, Zenon
      <4>2. PICK e \in Connections(d) : y = RowTr098(d, e)
        BY ONLY <3>3, y \in Wans(d), Zenon
      <4>3. e = c
        BY ONLY <3>4, <4>1, <4>2, Zenon
      <4>. QED
        BY ONLY <3>2, <4>1, <4>2, <4>3, Zenon
    <3>6. ASSUME NEW c \in Connections(d), Up(d, c) PROVE c \in up
      BY ONLY <3>1, <3>2, <3>3, <3>4, <3>6, Zenon
    <3>. QED
      BY ONLY <3>5, <3>6, Zenon
  <2>4. ASSUME NEW c \in up, c[1] = "ipconn" PROVE conn \in up
    <3>1. c \in UpConns(d, "ipconn")
      BY <2>3, <2>4 DEF UpConns
    <3>2. conn \in UpConns(d, "ipconn")
      BY <3>1 DEF ActiveWanPrefixes
    <3>. QED
      BY <2>3, <3>2 DEF UpConns
  <2>. QED
    BY <1>3, <1>4, <2>4
<1>. QED
  BY <1>5, <1>6

(* TR-098: a static change writes all of its connection.                   *)
LEMMA FitsTr098 ==
  ASSUME NEW task, task.ask.op = "static", task.conn[1] = "ipconn",
         task.conn = <<task.conn[1], task.conn[2]>>, UpFirst(task),
         task.values = StaticTr098(task.conn, task.ask)
  PROVE  Fits(task)
<1>. DEFINE conn == task.conn
            asked == task.ask
            type == <<conn[1], conn[2], "AddressingType">> :> "Static"
            ip == <<conn[1], conn[2], "ExternalIPAddress">> :> asked.ip
            mask == <<conn[1], conn[2], "SubnetMask">> :> asked.size
            gateway == <<conn[1], conn[2], "DefaultGateway">> :> asked.gateway
            dns == IF asked.dns = Unset THEN <<>> ELSE <<conn[1], conn[2], "DNSServers">> :> asked.dns
            v2 == type @@ ip
            v3 == v2 @@ mask
            v4 == v3 @@ gateway
            values == v4 @@ dns
<1>1. task.values = values
  BY DEF StaticTr098
<1>2. /\ Has(type, <<conn[1], conn[2], "AddressingType">>, "Static")
      /\ Has(ip, <<conn[1], conn[2], "ExternalIPAddress">>, asked.ip)
      /\ Has(mask, <<conn[1], conn[2], "SubnetMask">>, asked.size)
      /\ Has(gateway, <<conn[1], conn[2], "DefaultGateway">>, asked.gateway)
  BY HasOne
<1>3. /\ DOMAIN type = {<<conn[1], conn[2], "AddressingType">>}
      /\ DOMAIN ip = {<<conn[1], conn[2], "ExternalIPAddress">>}
      /\ DOMAIN mask = {<<conn[1], conn[2], "SubnetMask">>}
      /\ DOMAIN gateway = {<<conn[1], conn[2], "DefaultGateway">>}
  BY One
<1>4. \A p \in DOMAIN dns : p = <<conn[1], conn[2], "DNSServers">>
  <2>1. DOMAIN <<>> = {}
    OBVIOUS
  <2>2. DOMAIN (<<conn[1], conn[2], "DNSServers">> :> asked.dns) = {<<conn[1], conn[2], "DNSServers">>}
    BY One
  <2>. QED
    BY <2>1, <2>2
<1>5. conn[1] = "ipconn" /\ conn = <<conn[1], conn[2]>>
  OBVIOUS
<1>. HIDE DEF conn, type, ip, mask, gateway, dns, values, v2, v3, v4
<1>6. /\ DOMAIN v2 = DOMAIN type \cup DOMAIN ip
      /\ Has(v2, <<conn[1], conn[2], "AddressingType">>, "Static")
      /\ Has(v2, <<conn[1], conn[2], "ExternalIPAddress">>, asked.ip)
  BY <1>2, <1>3, HasOver, Over DEF v2
<1>7. /\ DOMAIN v3 = DOMAIN v2 \cup DOMAIN mask
      /\ Has(v3, <<conn[1], conn[2], "AddressingType">>, "Static")
      /\ Has(v3, <<conn[1], conn[2], "ExternalIPAddress">>, asked.ip)
      /\ Has(v3, <<conn[1], conn[2], "SubnetMask">>, asked.size)
  BY <1>2, <1>3, <1>6, HasOver, Over DEF v3
<1>8. /\ DOMAIN v4 = DOMAIN v3 \cup DOMAIN gateway
      /\ Has(v4, <<conn[1], conn[2], "AddressingType">>, "Static")
      /\ Has(v4, <<conn[1], conn[2], "ExternalIPAddress">>, asked.ip)
      /\ Has(v4, <<conn[1], conn[2], "SubnetMask">>, asked.size)
      /\ Has(v4, <<conn[1], conn[2], "DefaultGateway">>, asked.gateway)
  BY <1>2, <1>3, <1>6, <1>7, HasOver, Over DEF v4
<1>9. /\ DOMAIN values = DOMAIN v4 \cup DOMAIN dns
      /\ Has(values, <<conn[1], conn[2], "AddressingType">>, "Static")
      /\ Has(values, <<conn[1], conn[2], "ExternalIPAddress">>, asked.ip)
      /\ Has(values, <<conn[1], conn[2], "SubnetMask">>, asked.size)
      /\ Has(values, <<conn[1], conn[2], "DefaultGateway">>, asked.gateway)
  BY <1>8, HasOver, Over DEF values
<1>10. \A p \in DOMAIN values : p[1] = "ipconn"
  BY <1>3, <1>4, <1>5, <1>6, <1>7, <1>8, <1>9
<1>11. WrittenIn(task, values)
  BY <1>5, <1>9 DEF WrittenIn, conn
<1>. QED
  BY <1>1, <1>5, <1>10, <1>11 DEF Fits, conn

(* Any other request that writes nothing of a WAN, or path by path.        *)
LEMMA FitsOther ==
  ASSUME NEW task, task.ask.op \notin {"static", "dhcp"},
         task.ask.op \in ByPath \/ \A p \in DOMAIN task.values : ~OfTheWan(p)
  PROVE  Fits(task)
BY DEF Fits

(* The concepts of a WAN that its maps have, and no form.                  *)
WanConcepts == {<<"wan", "mode">>, <<"wan", "ip">>, <<"wan", "mask">>, <<"wan", "gateway">>}

(* Pairs of concept and path that reach a WAN by these only.               *)
Mild(pairs) == \A q \in pairs : OfTheWan(q[2]) => q[1] \in WanConcepts

(* A map of such pairs.                                                    *)
LEMMA AsFunctionMild ==
  ASSUME NEW pairs, Mild(pairs)
  PROVE  \A c \in DOMAIN AsFunction(pairs) : OfTheWan(AsFunction(pairs)[c]) => c \in WanConcepts
<1>. SUFFICES ASSUME NEW c \in DOMAIN AsFunction(pairs), OfTheWan(AsFunction(pairs)[c])
              PROVE  c \in WanConcepts
  OBVIOUS
<1>. DEFINE q == CHOOSE x \in pairs : x[1] = c
<1>1. \E x \in pairs : x[1] = c
  BY DEF AsFunction
<1>2. q \in pairs /\ q[1] = c
  BY <1>1
<1>3. AsFunction(pairs)[c] = q[2]
  BY DEF AsFunction
<1>. HIDE DEF q
<1>. QED
  BY <1>2, <1>3 DEF Mild

(* Those of an object that is no part of a WAN, or the first interface.    *)
LEMMA FieldsMild ==
  ASSUME NEW area, NEW object, NEW instance, NEW leaves,
         object \notin {"iface", "route", "ipconn"} \/ (object = "iface" /\ instance = 1)
  PROVE  Mild(Fields(area, object, instance, leaves))
BY DEF Fields, Mild, OfTheWan

(* Those of several.                                                       *)
LEMMA UnionMild ==
  ASSUME NEW A, NEW B, Mild(A), Mild(B)
  PROVE  Mild(A \cup B)
BY DEF Mild

(* The maps written by hand.                                               *)
LEMMA MappedMild ==
  ASSUME NEW root
  PROVE  \A c \in DOMAIN Mapped(root) : OfTheWan(Mapped(root)[c]) => c \in WanConcepts
<1>1. \A c \in DOMAIN MapTr181 : OfTheWan(MapTr181[c]) => c \in WanConcepts
  <2>. DEFINE ssid(b) == Fields(b, "ssid", IF b = "2g" THEN 1 ELSE 3, SsidLeaves)
              ap(b) == Fields(b, "ap", IF b = "2g" THEN 1 ELSE 3, ApLeaves)
              radio(b) == Fields(b, "radio", IF b = "2g" THEN 1 ELSE 2, RadioLeaves)
              wifi(b) == ssid(b) \cup ap(b) \cup radio(b)
              all == UNION {wifi(b) : b \in Bands}
              lan == Fields("lan", "iface", 1, LanLeaves)
              dhcp == Fields("dhcp", "pool", 1, PoolLeaves)
              pppoe == Fields("pppoe", "ppp", 1, PppLeaves)
  <2>1. \A b : Mild(ssid(b)) /\ Mild(ap(b)) /\ Mild(radio(b))
    BY FieldsMild
  <2>2. Mild(lan) /\ Mild(dhcp) /\ Mild(pppoe)
    BY FieldsMild
  <2>3. MapTr181 = AsFunction(all \cup lan \cup dhcp \cup pppoe)
    BY DEF MapTr181
  <2>. HIDE DEF ssid, ap, radio, lan, dhcp, pppoe
  <2>4. \A b : Mild(wifi(b))
    BY <2>1, UnionMild
  <2>. HIDE DEF wifi
  <2>5. Mild(all)
    BY <2>4 DEF Mild
  <2>. HIDE DEF all
  <2>. QED
    BY <2>2, <2>3, <2>5, UnionMild, AsFunctionMild
<1>2. \A c \in DOMAIN MapTr098 : OfTheWan(MapTr098[c]) => c \in WanConcepts
  <2>. DEFINE wifi(b) == Fields(b, "wlan", IF b = "2g" THEN 1 ELSE 2, WlanLeaves)
              all == UNION {wifi(b) : b \in Bands}
              lan == Fields("lan", "lan", 1, LanLeaves @@ [dns |-> "DNSServers"])
              dhcp == Fields("dhcp", "lan", 1, PoolLeaves)
              conn == Fields("wan", "ipconn", 1, ConnLeaves)
              ip == Fields("wan", "ipconn", 1, IpConnLeaves)
              pppoe == Fields("pppoe", "pppconn", 1, PppLeaves)
  <2>1. \A b : Mild(wifi(b))
    BY FieldsMild
  <2>2. Mild(lan) /\ Mild(dhcp) /\ Mild(pppoe)
    BY FieldsMild
  <2>3. Mild(conn)
    BY DEF Mild, Fields, OfTheWan, WanConcepts, ConnLeaves
  <2>4. Mild(ip)
    BY DEF Mild, Fields, OfTheWan, WanConcepts, IpConnLeaves
  <2>5. MapTr098 = AsFunction(all \cup lan \cup dhcp \cup conn \cup ip \cup pppoe)
    BY DEF MapTr098
  <2>. HIDE DEF wifi, lan, dhcp, conn, ip, pppoe
  <2>6. Mild(all)
    BY <2>1 DEF Mild
  <2>. HIDE DEF all
  <2>. QED
    BY <2>2, <2>3, <2>4, <2>5, <2>6, UnionMild, AsFunctionMild
<1>. QED
  BY <1>1, <1>2 DEF Mapped

(* A form writes nothing of a WAN.                                         *)
LEMMA FormMild ==
  ASSUME NEW ask \in Asks, ask.op = "form", NEW root
  PROVE  \A p \in DOMAIN FormValues(ask.fields, Mapped(root)) : ~OfTheWan(p)
<1>. DEFINE map == Mapped(root)
            held == DOMAIN ask.fields \cap DOMAIN map
<1>1. DOMAIN FormValues(ask.fields, map) = {map[c] : c \in held}
  BY DEF FormValues
<1>2. \A c \in DOMAIN map : OfTheWan(map[c]) => c \in WanConcepts
  BY MappedMild
<1>3. \A c \in WanConcepts : c \notin DOMAIN ask.fields
  BY FormsAssumption DEF WanConcepts
<1>. HIDE DEF map
<1>4. \A p \in DOMAIN FormValues(ask.fields, map) : ~OfTheWan(p)
  BY <1>1, <1>2, <1>3
<1>. QED
  BY <1>4 DEF map

(* Nor do the credentials of a PPPoE connection.                           *)
LEMMA PppoeMild ==
  ASSUME NEW ask, NEW object \in {"ppp", "pppconn"}
  PROVE  \A p \in DOMAIN PppoeValues(ask, object) : ~OfTheWan(p)
<1>. DEFINE enable == <<object, 1, "Enable">> :> TRUE
            user == <<object, 1, "Username">> :> ask.user
<1>1. /\ DOMAIN enable = {<<object, 1, "Enable">>}
      /\ DOMAIN user = {<<object, 1, "Username">>}
  BY One
<1>2. PppoeValues(ask, object) = enable @@ user
  BY DEF PppoeValues
<1>. HIDE DEF enable, user
<1>3. DOMAIN (enable @@ user) = DOMAIN enable \cup DOMAIN user
  BY Over
<1>4. \A p \in DOMAIN PppoeValues(ask, object) : p[1] = object
  BY <1>1, <1>2, <1>3
<1>. QED
  BY <1>4 DEF OfTheWan

-----------------------------------------------------------------------------
(* The records of a request *)

(* The record of a request that does nothing.                              *)
LEMMA IdleFacts ==
  /\ DOMAIN Idle = RequestFields /\ DOMAIN Idle.task = TaskFields
  /\ Idle.at = "idle" /\ Idle.alone = FALSE /\ Idle.polls = 0
<1>1. DOMAIN Idle = {"at", "root", "task", "polls", "alone", "state", "result"}
  BY Zenon DEF Idle
<1>2. DOMAIN Idle.task = {"values", "ask", "conn", "seen", "shown"}
  BY Zenon DEF Idle, NoTask
<1>3. Idle.at = "idle" /\ Idle.alone = FALSE /\ Idle.polls = 0
  BY Zenon DEF Idle
<1>. QED
  BY ONLY <1>1, <1>2, <1>3, Zenon DEF RequestFields, TaskFields

(* The task of a request that has just come in.                            *)
LEMMA NoTaskFacts ==
  DOMAIN NoTask = TaskFields /\ NoTask.seen = <<>>
<1>1. DOMAIN NoTask = {"values", "ask", "conn", "seen", "shown"}
  BY Zenon DEF NoTask
<1>2. NoTask.seen = <<>>
  BY Zenon DEF NoTask
<1>. QED
  BY ONLY <1>1, <1>2, Zenon DEF TaskFields

(* A request that waits for no test of its own.                            *)
LEMMA NotAlone ==
  ASSUME NEW q, Shape(q), Staged(q), ~q.alone, NEW dev, NEW copy
  PROVE  Good(q, dev, copy)
BY DEF Good, Tested

(* A request that is over, or on its way to its last step.                 *)
LEMMA IdleGood ==
  ASSUME NEW dev, NEW copy
  PROVE  Good(Idle, dev, copy)
<1>1. Shape(Idle) /\ ~Idle.alone
  BY IdleFacts DEF Shape
<1>2. 0 \in 0..(MaxPolls - 1)
  BY BoundsAssumption
<1>3. Idle.at = "idle" /\ Idle.alone \in BOOLEAN /\ Idle.polls \in 0..(MaxPolls - 1)
  BY <1>2, IdleFacts
<1>4. Staged(Idle)
  BY <1>3 DEF Staged, Ats
<1>. QED
  BY <1>1, <1>4, NotAlone

(* A request that starts.                                                  *)
LEMMA StartGood ==
  ASSUME NEW at \in {"read", "prefix", "interface", "drift", "send"}, NEW root, NEW task,
         DOMAIN task = TaskFields,
         at \in {"read", "prefix"} => task.ask.op \in {"static", "dhcp"},
         at = "interface" => task.ask.op = "ipv6",
         at = "drift" => task.ask.op = "enforce",
         at = "send" => Sendable(task),
         at = "send" /\ task.ask.op = "ping" =>
           root \in Roots /\ task.values = DiagValues(root, task.ask.host),
         NEW dev, NEW copy
  PROVE  Good([Idle EXCEPT !.at = at, !.root = root, !.task = task], dev, copy)
<1>. DEFINE q == [Idle EXCEPT !.at = at, !.root = root, !.task = task]
<1>1. /\ DOMAIN q = RequestFields /\ q.at = at /\ q.root = root /\ q.task = task
      /\ q.alone = FALSE /\ q.polls = 0
  BY IdleFacts DEF RequestFields
<1>. HIDE DEF q
<1>2. 0 \in 0..(MaxPolls - 1)
  BY BoundsAssumption
<1>3. Staged(q)
  BY <1>1, <1>2 DEF Staged, Ats
<1>4. Shape(q)
  BY <1>1 DEF Shape
<1>. QED
  BY <1>1, <1>3, <1>4, NotAlone DEF q

(* A request whose task goes on to the next await.                         *)
LEMMA GoesGood ==
  ASSUME NEW q, Good(q, device, doc), q.at \in {"read", "prefix", "address", "interface", "drift"},
         NEW at \in {"address", "send"}, NEW task,
         DOMAIN task = TaskFields, task.ask = q.task.ask, task.ask.op # "ping",
         at = "address" => /\ task.ask.op = "static" /\ task.conn[1] = "ipconn"
                           /\ task.conn = <<task.conn[1], task.conn[2]>> /\ UpFirst(task),
         at = "send" => Sendable(task)
  PROVE  Good([q EXCEPT !.at = at, !.task = task], device, doc)
<1>. DEFINE p == [q EXCEPT !.at = at, !.task = task]
<1>1. /\ DOMAIN p = RequestFields /\ p.at = at /\ p.task = task
      /\ p.alone = q.alone /\ p.polls = q.polls
  BY DEF Good, Shape, RequestFields
<1>. HIDE DEF p
<1>2. Staged(p)
  BY <1>1 DEF Good, Staged, Ats
<1>3. Shape(p) /\ Tested(p, device, doc)
  BY <1>1 DEF Shape, Tested
<1>. QED
  BY <1>2, <1>3 DEF Good, p

(* A request whose test another one has disturbed.                         *)
LEMMA DisturbedFacts ==
  ASSUME IInv, NEW mine
  PROVE  /\ DOMAIN Disturbed(mine) = Requests
         /\ \A r \in Requests \ mine :
              \A dev, copy : Good(Disturbed(mine)[r], dev, copy)
<1>1. DOMAIN Disturbed(mine) = Requests
  BY DEF Disturbed
<1>. SUFFICES ASSUME NEW r \in Requests \ mine, NEW dev, NEW copy
              PROVE  Good(Disturbed(mine)[r], dev, copy)
  BY <1>1
<1>. DEFINE q == req[r]
            p == [q EXCEPT !.alone = FALSE]
<1>2. Good(q, device, doc)
  BY DEF IInv
<1>3. (q.alone /\ r \in mine) = FALSE
  BY <1>2 DEF Good, Staged
<1>4. Disturbed(mine)[r] = [q EXCEPT !.alone = q.alone /\ r \in mine]
  BY Zenon DEF Disturbed
<1>5. Disturbed(mine)[r] = p
  BY <1>3, <1>4, Zenon
<1>6. /\ DOMAIN p = RequestFields /\ p.at = q.at /\ p.root = q.root /\ p.task = q.task
      /\ p.alone = FALSE /\ p.polls = q.polls
  BY <1>2 DEF Good, Shape, RequestFields
<1>. HIDE DEF p, q
<1>7. Shape(p) /\ Staged(p)
  BY <1>2, <1>6 DEF Good, Shape, Staged
<1>. QED
  BY <1>5, <1>6, <1>7, NotAlone

(* A step of the world that no diagnostic notices.                         *)
LEMMA CalmGood ==
  ASSUME IInv, NEW dev, NEW copy, Calm(dev, copy)
  PROVE  \A r \in Requests : Good(req[r], dev, copy)
BY DEF IInv, Good, Calm

(* A step of one request.                                                  *)
LEMMA StepGood ==
  ASSUME NEW r \in Requests, NEW base, DOMAIN base = Requests, NEW dev, NEW copy,
         \A x \in Requests \ {r} : Good(base[x], dev, copy),
         NEW q, Good(q, dev, copy)
  PROVE  /\ DOMAIN [base EXCEPT ![r] = q] = Requests
         /\ \A x \in Requests : Good([base EXCEPT ![r] = q][x], dev, copy)
OBVIOUS

(* The history keeps of a task what LinkKept speaks of.                    *)
LEMMA LinkedSame ==
  ASSUME NEW v, NEW w, Linked(v), w.ask = v.ask, w.seen = v.seen, w.conn = v.conn
  PROVE  Linked(w)
BY DEF Linked, OneConnection, OwnAddress

(* No change has run.                                                      *)
LEMMA NoWriteLinked == Linked(NoWrite)
<1>1. NoWrite.ask.op = ""
  BY Zenon DEF NoWrite
<1>2. "" # "static"
  BY Zenon
<1>3. NoWrite.ask.op # "static"
  BY ONLY <1>1, <1>2, Zenon
<1>. QED
  BY <1>3, LinkedOther

(* What a task that runs leaves.                                           *)
LEMMA ExecutesFacts ==
  ASSUME IInv, NEW task, Sendable(task), Executes(task)
  PROVE  /\ DOMAIN doc' \subseteq DOMAIN device' /\ Linked(last') /\ Stands(last', device')
         /\ NoDiag(task.values) => Calm(device', doc')
<1>1. device' = task.values @@ device /\ doc' = task.values @@ doc
  BY DEF Executes
<1>2. DOMAIN doc' \subseteq DOMAIN device'
  <2>1. /\ DOMAIN (task.values @@ device) = DOMAIN task.values \cup DOMAIN device
        /\ DOMAIN (task.values @@ doc) = DOMAIN task.values \cup DOMAIN doc
    BY Over
  <2>2. DOMAIN doc \subseteq DOMAIN device
    BY DEF IInv
  <2>. QED
    BY <1>1, <2>1, <2>2
<1>3. Linked(last') /\ Stands(last', device')
  <2>1. CASE task.ask.op \in {"static", "dhcp"}
    <3>. DEFINE w == [ask |-> task.ask, conn |-> task.conn, shown |-> task.shown, seen |-> task.seen,
                      before |-> Restricted(device, DOMAIN task.seen), lan |-> LanOf(device)]
    <3>0. task.ask.op \notin ByPath
      BY <2>1 DEF ByPath
    <3>1. last' = w
      BY <2>1, <3>0, Zenon DEF Executes
    <3>2. /\ w.ask = task.ask /\ w.seen = task.seen /\ w.conn = task.conn
          /\ w.shown = task.shown /\ w.before = Restricted(device, DOMAIN task.seen)
      OBVIOUS
    <3>. HIDE DEF w
    <3>3. Linked(w)
      BY <3>2, LinkedSame DEF Sendable
    <3>4. Stands(w, task.values @@ device)
      BY <2>1, <3>2, StandsWritten DEF Sendable
    <3>. QED
      BY ONLY <1>1, <3>1, <3>3, <3>4, Zenon
  <2>2. CASE task.ask.op \in ByPath /\ Reaches(task.values, last.conn)
    <3>1. last' = NoWrite
      BY <2>2 DEF Executes, ByPath
    <3>. QED
      BY <3>1, NoWriteLinked, NoWriteStands
  <2>3. CASE /\ task.ask.op \notin {"static", "dhcp"}
             /\ ~(task.ask.op \in ByPath /\ Reaches(task.values, last.conn))
    <3>1. last' = last
      BY <2>3 DEF Executes
    <3>2. Linked(last) /\ Stands(last, device)
      BY DEF IInv
    <3>3. (\A p \in DOMAIN task.values : ~OfTheWan(p)) \/ ~Reaches(task.values, last.conn)
      BY <2>3 DEF Sendable, Fits
    <3>4. Stands(last, task.values @@ device)
      BY <3>2, <3>3, StandsOver
    <3>. QED
      BY ONLY <1>1, <3>1, <3>2, <3>4, Zenon
  <2>. QED
    BY <2>1, <2>2, <2>3
<1>4. NoDiag(task.values) => Calm(device', doc')
  BY <1>1, CalmWrites
<1>. QED
  BY <1>2, <1>3, <1>4

(* The tasks that wait, when one more comes.                               *)
LEMMA WaitingAppend ==
  ASSUME NEW s, Waiting(s), NEW t, DOMAIN t = TaskFields, Sendable(t)
  PROVE  Waiting(Append(s, t))
<1>. DEFINE S == {s[i] : i \in DOMAIN s}
            T == S \cup {t}
            u == Append(s, t)
            U == {u[i] : i \in DOMAIN u}
<1>1. s \in Seq(T)
  BY SeqMonotonic DEF Waiting
<1>. HIDE DEF S, T
<1>2. /\ u \in Seq(T) /\ DOMAIN s = 1..Len(s) /\ DOMAIN u = 1..(Len(s) + 1) /\ Len(s) \in Nat
      /\ u[Len(s) + 1] = t /\ \A i \in 1..Len(s) : u[i] = s[i]
  BY <1>1, LenProperties DEF T
<1>3. u = [i \in 1..(Len(s) + 1) |-> u[i]]
  BY <1>2, LenProperties
<1>. HIDE DEF u
<1>4. u \in Seq(U)
  BY <1>2, <1>3, SeqDef
<1>5. \A i \in DOMAIN u : DOMAIN u[i] = TaskFields /\ Sendable(u[i])
  BY <1>2 DEF Waiting
<1>. QED
  BY <1>4, <1>5 DEF Waiting, u

(* And when the first one runs.                                            *)
LEMMA WaitingTail ==
  ASSUME NEW s, Waiting(s), s # <<>>
  PROVE  Waiting(Tail(s)) /\ DOMAIN Head(s) = TaskFields /\ Sendable(Head(s))
<1>. DEFINE S == {s[i] : i \in DOMAIN s}
            u == Tail(s)
            U == {u[i] : i \in DOMAIN u}
<1>1. s \in Seq(S)
  BY DEF Waiting
<1>2. \A e \in S : DOMAIN e = TaskFields /\ Sendable(e)
  BY DEF Waiting
<1>. HIDE DEF S
<1>3. Head(s) \in S /\ u \in Seq(S)
  BY <1>1, HeadTailProperties
<1>. HIDE DEF u
<1>4. u \in [1..Len(u) -> S] /\ Len(u) \in Nat
  BY <1>3, LenProperties
<1>5. u \in Seq(U)
  BY <1>4, SeqDef
<1>6. \A i \in DOMAIN u : u[i] \in S
  BY <1>4
<1>. QED
  BY <1>2, <1>3, <1>5, <1>6 DEF Waiting, u

(* The parts of the invariant, in the next state.                          *)
LEMMA Assemble ==
  ASSUME DOMAIN doc' \subseteq DOMAIN device', ops' \in 0..MaxOps, changes' \in 0..MaxChanges,
         Linked(last'), Stands(last', device'), Waiting(queue'), DOMAIN req' = Requests,
         \A r \in Requests : Good(req'[r], device', doc')
  PROVE  IInv'
<1>1. Linked(last)' /\ Stands(last, device)'
  BY ONLY Linked(last'), Stands(last', device'), Zenon
<1>2. Waiting(queue)'
  BY ONLY Waiting(queue'), Zenon
<1>3. (\A r \in Requests : Good(req[r], device, doc))'
  BY ONLY \A r \in Requests : Good(req'[r], device', doc'), Zenon
<1>. QED
  BY <1>1, <1>2, <1>3 DEF IInv

-----------------------------------------------------------------------------
(* The device and the ACS keep the invariant *)

(* A session that brings a part of the tree.                               *)
LEMMA ReportKeeps ==
  ASSUME IInv, NEW part \in Parts, Report(part)
  PROVE  IInv'
<1>1. /\ doc' = Told(part)
      /\ UNCHANGED <<device, queue, req, last, ops, changes>>
  BY DEF Report
<1>2. Calm(device, Told(part))
  BY CalmTold, DiagnosticsAssumption DEF Roots
<1>3. \A r \in Requests : Good(req[r], device, Told(part))
  BY <1>2, CalmGood
<1>4. DOMAIN Told(part) \subseteq DOMAIN device
  BY DEF Told, IInv
<1>5. /\ ops \in 0..MaxOps /\ changes \in 0..MaxChanges /\ Linked(last) /\ Waiting(queue)
      /\ Stands(last, device) /\ DOMAIN req = Requests
  BY DEF IInv
<1>. QED
  BY <1>1, <1>3, <1>4, <1>5, Assemble

(* A pending task runs, or faults.                                         *)
LEMMA RunQueuedKeeps ==
  ASSUME IInv, RunQueued
  PROVE  IInv'
<1>. DEFINE task == Head(queue)
<1>1. Waiting(Tail(queue)) /\ Sendable(task)
  BY WaitingTail DEF RunQueued, IInv
<1>2. /\ queue' = Tail(queue)
      /\ Executes(task) \/ Faults(task)
      /\ req' = IF WritesTest(task.values) THEN Disturbed({}) ELSE req
      /\ UNCHANGED <<ops, changes>>
  BY DEF RunQueued
<1>3. /\ DOMAIN doc \subseteq DOMAIN device /\ ops \in 0..MaxOps /\ changes \in 0..MaxChanges
      /\ Linked(last) /\ Stands(last, device) /\ DOMAIN req = Requests
      /\ \A r \in Requests : Good(req[r], device, doc)
  BY DEF IInv
<1>. HIDE DEF task
<1>4. DOMAIN doc' \subseteq DOMAIN device' /\ Linked(last') /\ Stands(last', device')
  <2>1. CASE Executes(task)
    BY <1>1, <2>1, ExecutesFacts
  <2>2. CASE Faults(task)
    BY <1>3, <2>2 DEF Faults
  <2>. QED
    BY <1>2, <2>1, <2>2
<1>5. DOMAIN req' = Requests /\ \A r \in Requests : Good(req'[r], device', doc')
  <2>1. CASE WritesTest(task.values)
    BY <1>2, <2>1, DisturbedFacts
  <2>2. CASE ~WritesTest(task.values)
    <3>1. NoDiag(task.values)
      BY <2>2 DEF WritesTest, NoDiag
    <3>2. CASE Executes(task)
      BY <1>1, <1>2, <1>3, <2>2, <3>1, <3>2, ExecutesFacts, CalmGood
    <3>3. CASE Faults(task)
      BY <1>2, <1>3, <2>2, <3>3 DEF Faults
    <3>. QED
      BY <1>2, <3>2, <3>3
  <2>. QED
    BY <2>1, <2>2
<1>6. Waiting(queue') /\ ops' \in 0..MaxOps /\ changes' \in 0..MaxChanges
  BY <1>1, <1>2, <1>3
<1>. QED
  BY <1>4, <1>5, <1>6, Assemble

(* The device changes by itself.                                           *)
LEMMA ChangesKeeps ==
  ASSUME IInv, NEW change \in Changes, ChangesByItself(change)
  PROVE  IInv'
<1>1. /\ device' = change @@ device /\ last' = NoWrite
      /\ changes < MaxChanges /\ changes' = changes + 1
      /\ UNCHANGED <<doc, queue, req, ops>>
  BY DEF ChangesByItself
<1>2. /\ DOMAIN doc \subseteq DOMAIN device /\ ops \in 0..MaxOps /\ changes \in 0..MaxChanges
      /\ Waiting(queue) /\ DOMAIN req = Requests
  BY DEF IInv
<1>3. NoDiag(change)
  BY DiagnosticsAssumption DEF NoDiag, DiagObject
<1>4. \A r \in Requests : Good(req[r], change @@ device, doc)
  BY <1>3, CalmWrites, CalmGood
<1>5. DOMAIN (change @@ device) = DOMAIN change \cup DOMAIN device
  BY Over
<1>6. changes' \in 0..MaxChanges
  BY <1>1, <1>2, BoundsAssumption
<1>7. Linked(last') /\ Stands(last', device') /\ Waiting(queue') /\ ops' \in 0..MaxOps /\ DOMAIN req' = Requests
  BY <1>1, <1>2, NoWriteLinked, NoWriteStands
<1>8. DOMAIN doc' \subseteq DOMAIN device' /\ \A r \in Requests : Good(req'[r], device', doc')
  BY <1>1, <1>2, <1>4, <1>5
<1>. QED
  BY <1>6, <1>7, <1>8, Assemble

(* A test ends on the device.                                              *)
LEMMA FinishTestKeeps ==
  ASSUME IInv, NEW root \in Roots, FinishTest(root)
  PROVE  IInv'
<1>. DEFINE dev == Diag(root, "DiagnosticsState") :> "Complete"
                   @@ Diag(root, "SuccessCount") :> device[Diag(root, "Host")] @@ device
<1>1. /\ device' = dev
      /\ UNCHANGED <<doc, queue, req, last, ops, changes>>
  BY Zenon DEF FinishTest
<1>2. Value(device, Diag(root, "DiagnosticsState"), "") = "Requested"
  BY Zenon DEF FinishTest
<1>3. Calm(dev, doc) /\ DOMAIN device \subseteq DOMAIN dev
  BY <1>2, CalmFinish, Zenon
<1>6. Stands(last, dev)
  <2>. DEFINE one == Diag(root, "DiagnosticsState") :> "Complete"
              two == Diag(root, "SuccessCount") :> device[Diag(root, "Host")]
              both == one @@ two
  <2>1. /\ DOMAIN one = {Diag(root, "DiagnosticsState")}
        /\ DOMAIN two = {Diag(root, "SuccessCount")}
    BY One
  <2>2. dev = both @@ device
    OBVIOUS
  <2>. HIDE DEF one, two, dev
  <2>3. DOMAIN both = DOMAIN one \cup DOMAIN two
    BY Over
  <2>. HIDE DEF both
  <2>4. \A p \in DOMAIN both : p[1] \in {"diag", "igddiag"}
    BY <2>1, <2>3, DiagPaths
  <2>5. \A p \in DOMAIN both : ~OfTheWan(p)
    BY <2>4 DEF OfTheWan
  <2>6. Stands(last, device)
    BY DEF IInv
  <2>7. Stands(last, both @@ device)
    BY <2>5, <2>6, StandsOver
  <2>. QED
    BY ONLY <2>2, <2>7, Zenon
<1>. HIDE DEF dev
<1>4. \A r \in Requests : Good(req[r], dev, doc)
  BY <1>3, CalmGood
<1>5. /\ DOMAIN doc \subseteq DOMAIN device /\ ops \in 0..MaxOps /\ changes \in 0..MaxChanges
      /\ Linked(last) /\ Waiting(queue) /\ DOMAIN req = Requests
  BY DEF IInv
<1>. QED
  BY <1>1, <1>3, <1>4, <1>5, <1>6, Assemble

-----------------------------------------------------------------------------
(* The requests keep it *)

(* A step of a request that leaves device, copy and queue alone.           *)
LEMMA LocalKeeps ==
  ASSUME IInv, NEW r \in Requests, NEW q, Good(q, device, doc),
         req' = [req EXCEPT ![r] = q], ops' \in 0..MaxOps,
         UNCHANGED <<device, doc, queue, last, changes>>
  PROVE  IInv'
<1>1. /\ DOMAIN doc \subseteq DOMAIN device /\ changes \in 0..MaxChanges
      /\ Linked(last) /\ Stands(last, device) /\ Waiting(queue) /\ DOMAIN req = Requests
      /\ \A x \in Requests : Good(req[x], device, doc)
  BY DEF IInv
<1>2. DOMAIN req' = Requests /\ \A x \in Requests : Good(req'[x], device, doc)
  BY <1>1, StepGood
<1>. QED
  BY <1>1, <1>2, Assemble

(* A request that ends.                                                    *)
LEMMA RefusesKeeps ==
  ASSUME IInv, NEW r \in Requests, Refuses(r)
  PROVE  IInv'
<1>1. ops \in 0..MaxOps
  BY DEF IInv
<1>. QED
  BY <1>1, IdleGood, LocalKeeps DEF Refuses

(* A request that comes in.                                                *)
LEMMA StartKeeps ==
  ASSUME IInv, NEW r \in Requests, NEW at, NEW task, Start(r, at, task),
         Good([Idle EXCEPT !.at = at, !.root = PickMap(doc), !.task = task], device, doc)
  PROVE  IInv'
<1>1. ops \in 0..MaxOps
  BY DEF IInv
<1>2. ops' \in 0..MaxOps
  BY <1>1, BoundsAssumption DEF Start
<1>. QED
  BY <1>2, LocalKeeps DEF Start

(* A request that goes on to the next await.                               *)
LEMMA GoesKeeps ==
  ASSUME IInv, NEW r \in Requests, NEW at, NEW task, Goes(r, at, task),
         Good([req[r] EXCEPT !.at = at, !.task = task], device, doc)
  PROVE  IInv'
<1>1. ops \in 0..MaxOps /\ DOMAIN req = Requests
  BY DEF IInv
<1>2. req' = [req EXCEPT ![r] = [req[r] EXCEPT !.at = at, !.task = task]]
  BY <1>1 DEF Goes
<1>. QED
  BY <1>1, <1>2, LocalKeeps DEF Goes

(* The map of a device is one of two.                                      *)
LEMMA PickMapFacts == \A d : PickMap(d) \in Roots
BY DEF PickMap, Roots

(* Requests that write what their form says.                               *)
LEMMA FormKeeps ==
  ASSUME IInv, NEW r \in Requests, NEW ask \in Asks, ask.op = "form", SubmitForm(r, ask)
  PROVE  IInv'
<1>. DEFINE values == FormValues(ask.fields, Mapped(PickMap(doc)))
            task == [NoTask EXCEPT !.ask = ask, !.values = values]
<1>1. values # <<>> /\ Start(r, "send", task)
  BY DEF SubmitForm
<1>2. NoDiag(values) /\ DOMAIN values # {}
  BY <1>1, FormQuiet
<1>6. \A p \in DOMAIN values : ~OfTheWan(p)
  BY FormMild
<1>. HIDE DEF values
<1>3. DOMAIN task = TaskFields /\ task.ask = ask /\ task.values = values
  BY NoTaskFacts DEF TaskFields
<1>. HIDE DEF task
<1>4. Sendable(task)
  BY <1>2, <1>3, <1>6, LinkedOther, FitsOther DEF Sendable
<1>5. Good([Idle EXCEPT !.at = "send", !.root = PickMap(doc), !.task = task], device, doc)
  BY <1>3, <1>4, StartGood
<1>. QED
  BY <1>1, <1>5, StartKeeps

(* The credentials of the PPPoE connection.                                *)
LEMMA PppoeKeeps ==
  ASSUME IInv, NEW r \in Requests, NEW ask, ask.op = "pppoe", SetPppoe(r, ask)
  PROVE  IInv'
<1>. DEFINE object == IF PickMap(doc) = "Device" THEN "ppp" ELSE "pppconn"
            values == PppoeValues(ask, object)
            task == [NoTask EXCEPT !.ask = ask, !.values = values]
<1>1. Start(r, "send", task)
  BY DEF SetPppoe
<1>2. NoDiag(values) /\ DOMAIN values # {}
  BY PppoeQuiet
<1>6. \A p \in DOMAIN values : ~OfTheWan(p)
  BY PppoeMild
<1>. HIDE DEF values
<1>3. DOMAIN task = TaskFields /\ task.ask = ask /\ task.values = values
  BY NoTaskFacts DEF TaskFields
<1>. HIDE DEF task
<1>4. Sendable(task)
  BY <1>2, <1>3, <1>6, LinkedOther, FitsOther DEF Sendable
<1>5. Good([Idle EXCEPT !.at = "send", !.root = PickMap(doc), !.task = task], device, doc)
  BY <1>3, <1>4, StartGood
<1>. QED
  BY <1>1, <1>5, StartKeeps

(* A parameter by its path.                                                *)
LEMMA SetParamKeeps ==
  ASSUME IInv, NEW r \in Requests, NEW ask, ask.op = "param", SetParam(r, ask)
  PROVE  IInv'
<1>. DEFINE values == ask.path :> ask.value
            task == [NoTask EXCEPT !.ask = ask, !.values = values]
<1>1. Start(r, "send", task)
  BY DEF SetParam
<1>2. DOMAIN values # {}
  <2>1. DOMAIN values = {ask.path}
    BY One
  <2>. HIDE DEF values
  <2>. QED
    BY <2>1
<1>. HIDE DEF values
<1>3. DOMAIN task = TaskFields /\ task.ask = ask /\ task.values = values
  BY NoTaskFacts DEF TaskFields
<1>. HIDE DEF task
<1>4. Sendable(task)
  BY <1>2, <1>3, LinkedOther, FitsOther DEF Sendable, ByPath
<1>5. Good([Idle EXCEPT !.at = "send", !.root = PickMap(doc), !.task = task], device, doc)
  BY <1>3, <1>4, StartGood
<1>. QED
  BY <1>1, <1>5, StartKeeps

(* The whole backup.                                                       *)
LEMMA RestoreNowKeeps ==
  ASSUME IInv, NEW r \in Requests, NEW ask, ask.op = "restore", RestoreNow(r, ask)
  PROVE  IInv'
<1>. DEFINE task == [NoTask EXCEPT !.ask = ask, !.values = backup]
<1>1. Start(r, "send", task) /\ DOMAIN backup # {}
  BY DEF RestoreNow
<1>2. DOMAIN task = TaskFields /\ task.ask = ask /\ task.values = backup
  BY NoTaskFacts DEF TaskFields
<1>. HIDE DEF task
<1>3. Sendable(task)
  BY <1>1, <1>2, LinkedOther, FitsOther DEF Sendable, ByPath
<1>4. Good([Idle EXCEPT !.at = "send", !.root = PickMap(doc), !.task = task], device, doc)
  BY <1>2, <1>3, StartGood
<1>. QED
  BY <1>1, <1>4, StartKeeps

(* The loop takes the backup, to compare it.                               *)
LEMMA EnforceDeviceKeeps ==
  ASSUME IInv, NEW r \in Requests, NEW ask, ask.op = "enforce", EnforceDevice(r, ask)
  PROVE  IInv'
<1>. DEFINE task == [NoTask EXCEPT !.ask = ask, !.values = backup]
<1>1. Start(r, "drift", task)
  BY DEF EnforceDevice
<1>2. DOMAIN task = TaskFields /\ task.ask = ask
  BY NoTaskFacts DEF TaskFields
<1>. HIDE DEF task
<1>3. Good([Idle EXCEPT !.at = "drift", !.root = PickMap(doc), !.task = task], device, doc)
  BY <1>2, StartGood
<1>. QED
  BY <1>1, <1>3, StartKeeps

(* What differs of it is sent, if anything does.                           *)
LEMMA FindDriftKeeps ==
  ASSUME IInv, NEW r \in Requests, FindDrift(r)
  PROVE  IInv'
<1>. DEFINE task == req[r].task
            desired == task.values
            drift == {p \in DOMAIN desired \cap Known(doc) : doc[p] # desired[p]}
            values == Restricted(desired, drift)
            new == [task EXCEPT !.values = values]
<1>1. /\ req[r].at = "drift"
      /\ Refuses(r) \/ (drift # {} /\ Goes(r, "send", new))
  BY DEF FindDrift
<1>2. Good(req[r], device, doc)
  BY DEF IInv
<1>3. DOMAIN task = TaskFields /\ task.ask.op = "enforce"
  BY <1>1, <1>2 DEF Good, Shape, Staged
<1>4. drift # {} => DOMAIN values # {}
  <2>1. drift \subseteq DOMAIN desired
    OBVIOUS
  <2>2. DOMAIN values = drift \cap DOMAIN desired
    BY RestrictedFacts
  <2>. HIDE DEF desired, drift, values
  <2>. QED
    BY <2>1, <2>2
<1>. HIDE DEF values
<1>5. DOMAIN new = TaskFields /\ new.ask = task.ask /\ new.values = values
  BY <1>3 DEF TaskFields
<1>. HIDE DEF new, drift
<1>6. ASSUME drift # {}, Goes(r, "send", new)
      PROVE  IInv'
  <2>1. Sendable(new)
    BY <1>3, <1>4, <1>5, <1>6, LinkedOther, FitsOther DEF Sendable, ByPath
  <2>2. Good([req[r] EXCEPT !.at = "send", !.task = new], device, doc)
    BY <1>1, <1>2, <1>3, <1>5, <2>1, GoesGood
  <2>. QED
    BY <1>6, <2>2, GoesKeeps
<1>. QED
  BY <1>1, <1>6, RefusesKeeps

(* A change of the WAN, and of IPv6, begins with a read.                   *)
LEMMA SetWanKeeps ==
  ASSUME IInv, NEW r \in Requests, NEW ask, ask.op \in {"static", "dhcp"}, SetWan(r, ask)
  PROVE  IInv'
<1>. DEFINE at == IF PickMap(doc) = "Device" THEN "read" ELSE "prefix"
            task == [NoTask EXCEPT !.ask = ask]
<1>1. Start(r, at, task)
  BY DEF SetWan
<1>2. DOMAIN task = TaskFields /\ task.ask = ask
  BY NoTaskFacts DEF TaskFields
<1>3. at \in {"read", "prefix"}
  OBVIOUS
<1>. HIDE DEF task, at
<1>4. Good([Idle EXCEPT !.at = at, !.root = PickMap(doc), !.task = task], device, doc)
  BY <1>2, <1>3, StartGood
<1>. QED
  BY <1>1, <1>4, StartKeeps

(* A change of IPv6 looks for its interface first.                         *)
LEMMA SetIpv6Keeps ==
  ASSUME IInv, NEW r \in Requests, NEW ask, ask.op = "ipv6", SetIpv6(r, ask)
  PROVE  IInv'
<1>. DEFINE task == [NoTask EXCEPT !.ask = ask]
<1>1. Start(r, "interface", task)
  BY DEF SetIpv6
<1>2. DOMAIN task = TaskFields /\ task.ask = ask
  BY NoTaskFacts DEF TaskFields
<1>. HIDE DEF task
<1>3. Good([Idle EXCEPT !.at = "interface", !.root = PickMap(doc), !.task = task], device, doc)
  BY <1>2, StartGood
<1>. QED
  BY <1>1, <1>3, StartKeeps

(* A diagnostic.                                                           *)
LEMMA StartDiagKeeps ==
  ASSUME IInv, NEW r \in Requests, NEW ask, ask.op = "ping", StartDiag(r, ask)
  PROVE  IInv'
<1>. DEFINE values == DiagValues(PickMap(doc), ask.host)
            task == [NoTask EXCEPT !.ask = ask, !.values = values]
<1>1. Start(r, "send", task)
  BY DEF StartDiag
<1>2. DOMAIN values # {}
  BY DiagValuesFacts
<1>6. \A p \in DOMAIN values : ~OfTheWan(p)
  <2>1. DOMAIN values = {Diag(PickMap(doc), "Host"), Diag(PickMap(doc), "DiagnosticsState")}
    BY DiagValuesFacts
  <2>. HIDE DEF values
  <2>2. \A p \in DOMAIN values : p[1] \in {"diag", "igddiag"}
    BY <2>1, PickMapFacts, DiagPaths
  <2>. QED
    BY <2>2 DEF OfTheWan
<1>3. DOMAIN task = TaskFields /\ task.ask = ask /\ task.values = values
  BY NoTaskFacts DEF TaskFields
<1>. HIDE DEF task
<1>4. Sendable(task)
  <2>. HIDE DEF values
  <2>. QED
    BY <1>2, <1>3, <1>6, LinkedOther, FitsOther DEF Sendable
<1>5. Good([Idle EXCEPT !.at = "send", !.root = PickMap(doc), !.task = task], device, doc)
  BY <1>3, <1>4, PickMapFacts, StartGood
<1>. QED
  BY <1>1, <1>5, StartKeeps

(* TR-181: guard and values come from one read.                            *)
LEMMA DecideTr181Keeps ==
  ASSUME IInv, NEW r \in Requests, DecideTr181(r)
  PROVE  IInv'
<1>. DEFINE task == req[r].task
            valid == task.ask.op = "static" => StaticIsValid(task.ask, WanCurrentIp(doc))
            Next181(w) == [task EXCEPT !.values = w.values, !.conn = <<"iface", WanOf(doc)>>,
                                       !.shown = Shown(doc, <<"iface", WanOf(doc)>>),
                                       !.seen = Restricted(doc, SeenOf(WanOf(doc)))]
<1>1. /\ req[r].at = "read"
      /\ \/ Refuses(r)
         \/ valid /\ \E w \in WanWrites(doc, task.ask) :
                       w.refused = "" /\ Goes(r, "send", Next181(w))
  BY Zenon DEF DecideTr181
<1>2. CASE Refuses(r)
  BY <1>2, RefusesKeeps
<1>3. ASSUME valid, NEW w \in WanWrites(doc, task.ask), w.refused = "",
             Goes(r, "send", Next181(w))
      PROVE  IInv'
  <2>1. WanOf(doc) # None /\ NoDiag(w.values) /\ DOMAIN w.values # {}
    BY <1>3, WanWritesQuiet, Zenon
  <2>2. Good(req[r], device, doc)
    BY DEF IInv
  <2>3. DOMAIN task = TaskFields /\ task.ask.op \in {"static", "dhcp"}
    BY <1>1, <2>2 DEF Good, Shape, Staged
  <2>4. valid
    BY <1>3
  <2>. DEFINE new == Next181(w)
              wan == WanOf(doc)
              shown == Shown(doc, <<"iface", wan>>)
              seen == Restricted(doc, SeenOf(wan))
              values == w.values
  <2>5. Goes(r, "send", new)
    BY <1>3
  <2>6. /\ DOMAIN new = TaskFields /\ new.ask = task.ask /\ new.values = values
        /\ new.conn = <<"iface", wan>> /\ new.seen = seen
    <3>1. new = [task EXCEPT !.values = values, !.conn = <<"iface", wan>>, !.shown = shown,
                             !.seen = seen]
      BY Zenon
    <3>. HIDE DEF new, wan, shown, seen, values
    <3>. QED
      BY <2>3, <3>1 DEF TaskFields
  <2>. HIDE DEF new, task
  <2>7. Linked(new)
    BY <2>1, <2>4, <2>6, LinkedTr181 DEF task
  <2>10. Fits(new)
    <3>1. w \in WanWrites(doc, new.ask)
      BY <2>6 DEF task
    <3>. QED
      BY <1>3, <2>3, <2>6, <3>1, FitsTr181
  <2>8. Sendable(new)
    BY <2>1, <2>6, <2>7, <2>10 DEF Sendable
  <2>9. Good([req[r] EXCEPT !.at = "send", !.task = new], device, doc)
    BY <1>1, <2>2, <2>3, <2>6, <2>8, GoesGood DEF task
  <2>. QED
    BY <2>5, <2>9, GoesKeeps
<1>. QED
  BY <1>1, <1>2, <1>3, Zenon

(* TR-098: one read finds the connection.                                  *)
LEMMA FindPrefixKeeps ==
  ASSUME IInv, NEW r \in Requests, FindPrefix(r)
  PROVE  IInv'
<1>. DEFINE task == req[r].task
            Found(conn) == [task EXCEPT !.conn = conn, !.shown = Shown(doc, conn)]
            Dhcp(conn) == [Found(conn) EXCEPT !.values = DhcpTr098(conn)]
<1>1. /\ req[r].at = "prefix"
      /\ \E conn \in ActiveWanPrefixes(doc) :
           \/ task.ask.op = "dhcp" /\ Goes(r, "send", Dhcp(conn))
           \/ task.ask.op # "dhcp" /\ Goes(r, "address", Found(conn))
  BY Zenon DEF FindPrefix
<1>2. PICK conn \in ActiveWanPrefixes(doc) :
           \/ task.ask.op = "dhcp" /\ Goes(r, "send", Dhcp(conn))
           \/ task.ask.op # "dhcp" /\ Goes(r, "address", Found(conn))
  BY <1>1
<1>3. conn[1] = "ipconn" /\ conn = <<conn[1], conn[2]>>
  BY PrefixIsIp, PrefixUp
<1>4. Good(req[r], device, doc)
  BY DEF IInv
<1>5. DOMAIN task = TaskFields /\ task.ask.op \in {"static", "dhcp"}
  BY <1>1, <1>4 DEF Good, Shape, Staged
<1>. DEFINE found == Found(conn)
            shown == Shown(doc, conn)
            values == DhcpTr098(conn)
            dhcp == [found EXCEPT !.values = values]
<1>12. shown.someUp => shown.up
  BY PrefixUp
<1>6. /\ DOMAIN found = TaskFields /\ found.ask = task.ask /\ found.conn = conn
      /\ found.shown = shown
  <2>1. found = [task EXCEPT !.conn = conn, !.shown = shown]
    BY Zenon
  <2>. HIDE DEF found, shown
  <2>. QED
    BY <1>5, <2>1 DEF TaskFields
<1>7. NoDiag(values) /\ DOMAIN values # {}
  BY <1>3, Tr098Quiet
<1>8. \/ task.ask.op = "dhcp" /\ Goes(r, "send", dhcp)
      \/ task.ask.op # "dhcp" /\ Goes(r, "address", found)
  BY <1>2
<1>. HIDE DEF found, values, task, shown
<1>9. /\ DOMAIN dhcp = TaskFields /\ dhcp.ask = task.ask /\ dhcp.values = values
      /\ dhcp.conn = conn /\ dhcp.shown = shown
  BY <1>6 DEF TaskFields
<1>. HIDE DEF dhcp
<1>13. UpFirst(found) /\ UpFirst(dhcp)
  BY <1>6, <1>9, <1>12 DEF UpFirst
<1>10. CASE task.ask.op = "dhcp" /\ Goes(r, "send", dhcp)
  <2>3. Fits(dhcp)
    BY <1>9, <1>10, <1>13 DEF Fits
  <2>1. Sendable(dhcp)
    BY <1>7, <1>9, <1>10, <2>3, LinkedOther DEF Sendable
  <2>2. Good([req[r] EXCEPT !.at = "send", !.task = dhcp], device, doc)
    BY <1>1, <1>4, <1>5, <1>9, <2>1, GoesGood DEF task
  <2>. QED
    BY <1>10, <2>2, GoesKeeps
<1>11. CASE task.ask.op # "dhcp" /\ Goes(r, "address", found)
  <2>1. Good([req[r] EXCEPT !.at = "address", !.task = found], device, doc)
    BY <1>1, <1>3, <1>4, <1>5, <1>6, <1>11, <1>13, GoesGood DEF task
  <2>. QED
    BY <1>11, <2>1, GoesKeeps
<1>. QED
  BY <1>8, <1>10, <1>11

(* Another read finds the address to compare, or fails.                    *)
LEMMA CompareAddressKeeps ==
  ASSUME IInv, NEW r \in Requests, CompareAddress(r)
  PROVE  IInv'
<1>. DEFINE task == req[r].task
            conns == Restricted(doc, {p \in Known(doc) : p[1] \in {"ipconn", "pppconn"}})
            values == StaticTr098(task.conn, task.ask)
            Compared(seen) == [task EXCEPT !.values = values, !.seen = seen]
<1>1. /\ req[r].at = "address"
      /\ \/ Refuses(r)
         \/ \E current \in ActiveWanIps(doc) :
              StaticIsValid(task.ask, current) /\ Goes(r, "send", Compared(conns))
         \/ Goes(r, "send", Compared(<<>>))
  BY Zenon DEF CompareAddress
<1>2. Good(req[r], device, doc)
  BY DEF IInv
<1>3. /\ DOMAIN task = TaskFields /\ task.ask.op = "static" /\ UpFirst(task)
      /\ task.conn[1] = "ipconn" /\ task.conn = <<task.conn[1], task.conn[2]>>
  BY <1>1, <1>2 DEF Good, Shape, Staged
<1>4. NoDiag(values) /\ DOMAIN values # {}
  BY <1>3, Tr098Quiet
<1>5. \A seen : /\ DOMAIN Compared(seen) = TaskFields /\ Compared(seen).ask = task.ask
                /\ Compared(seen).conn = task.conn /\ Compared(seen).values = values
                /\ Compared(seen).seen = seen /\ Compared(seen).shown = task.shown
  <2>. HIDE DEF task, values
  <2>. QED
    BY <1>3 DEF TaskFields
<1>. HIDE DEF Compared
<1>9. \A seen : Fits(Compared(seen))
  <2>. SUFFICES ASSUME NEW seen PROVE Fits(Compared(seen))
    OBVIOUS
  <2>. DEFINE new == Compared(seen)
  <2>1. /\ new.ask = task.ask /\ new.conn = task.conn /\ new.shown = task.shown
        /\ new.values = StaticTr098(task.conn, task.ask)
    BY <1>5
  <2>. HIDE DEF new, task
  <2>2. UpFirst(new)
    BY <1>3, <2>1 DEF UpFirst
  <2>3. /\ new.ask.op = "static" /\ new.conn[1] = "ipconn"
        /\ new.conn = <<new.conn[1], new.conn[2]>>
        /\ new.values = StaticTr098(new.conn, new.ask)
    BY <1>3, <2>1
  <2>4. Fits(new)
    BY <2>2, <2>3, FitsTr098
  <2>. QED
    BY <2>4 DEF new
<1>. HIDE DEF values
<1>6. ASSUME NEW seen, Linked(Compared(seen)), Goes(r, "send", Compared(seen))
      PROVE  IInv'
  <2>1. Sendable(Compared(seen))
    BY <1>4, <1>5, <1>6, <1>9 DEF Sendable
  <2>2. Good([req[r] EXCEPT !.at = "send", !.task = Compared(seen)], device, doc)
    BY <1>1, <1>2, <1>3, <1>5, <2>1, GoesGood
  <2>. QED
    BY <1>6, <2>2, GoesKeeps
<1>7. ASSUME NEW current \in ActiveWanIps(doc), StaticIsValid(task.ask, current)
      PROVE  Linked(Compared(conns))
  BY <1>3, <1>5, <1>7, LinkedTr098
<1>8. Linked(Compared(<<>>))
  BY <1>5, LinkedOther
<1>. QED
  BY <1>1, <1>6, <1>7, <1>8, RefusesKeeps

(* The interface IPv6 is set on.                                           *)
LEMMA FindInterfaceKeeps ==
  ASSUME IInv, NEW r \in Requests, FindInterface(r)
  PROVE  IInv'
<1>. DEFINE task == req[r].task
            Set(i) == <<"iface", i, "IPv6Enable">> :> task.ask.enable
            Next6(i) == [task EXCEPT !.values = Set(i)]
<1>1. /\ req[r].at = "interface"
      /\ \/ Refuses(r)
         \/ \E i \in Ipv6Interfaces(doc) : Goes(r, "send", Next6(i))
  BY Zenon DEF FindInterface
<1>2. Good(req[r], device, doc)
  BY DEF IInv
<1>3. DOMAIN task = TaskFields /\ task.ask.op = "ipv6"
  BY <1>1, <1>2 DEF Good, Shape, Staged
<1>4. ASSUME NEW i, Goes(r, "send", Next6(i))
      PROVE  IInv'
  <2>. DEFINE values == Set(i)
              new == [task EXCEPT !.values = values]
  <2>1. NoDiag(values) /\ DOMAIN values # {}
    BY QuietOne
  <2>6. \A p \in DOMAIN values : ~OfTheWan(p)
    <3>1. DOMAIN values = {<<"iface", i, "IPv6Enable">>}
      BY One
    <3>2. /\ <<"iface", i, "IPv6Enable">>[1] = "iface"
          /\ <<"iface", i, "IPv6Enable">>[3] = "IPv6Enable"
      OBVIOUS
    <3>. HIDE DEF values
    <3>. QED
      BY <3>1, <3>2 DEF OfTheWan
  <2>2. Goes(r, "send", new)
    BY <1>4
  <2>. HIDE DEF values, task
  <2>3. DOMAIN new = TaskFields /\ new.ask = task.ask /\ new.values = values
    BY <1>3 DEF TaskFields
  <2>. HIDE DEF new
  <2>4. Sendable(new)
    BY <1>3, <2>1, <2>3, <2>6, LinkedOther, FitsOther DEF Sendable
  <2>5. Good([req[r] EXCEPT !.at = "send", !.task = new], device, doc)
    BY <1>1, <1>2, <1>3, <2>3, <2>4, GoesGood DEF task
  <2>. QED
    BY <2>2, <2>5, GoesKeeps
<1>. QED
  BY <1>1, <1>4, RefusesKeeps

(* A poll refreshes the object of the diagnostic, or fails to.             *)
LEMMA PollRefreshKeeps ==
  ASSUME IInv, NEW r \in Requests, PollRefresh(r)
  PROVE  IInv'
<1>. DEFINE q == [req[r] EXCEPT !.at = "check"]
            part == {p \in DOMAIN device : p[1] = DiagObject(req[r].root)}
<1>1. /\ req[r].at = "poll"
      /\ doc' = Told(part) \/ doc' = doc
      /\ UNCHANGED <<device, queue, last, ops, changes>>
  BY DEF PollRefresh
<1>2. /\ DOMAIN doc \subseteq DOMAIN device /\ ops \in 0..MaxOps /\ changes \in 0..MaxChanges
      /\ Linked(last) /\ Stands(last, device) /\ Waiting(queue) /\ DOMAIN req = Requests
      /\ \A x \in Requests : Good(req[x], device, doc)
  BY DEF IInv
<1>3. req' = [req EXCEPT ![r] = q] /\ req[r].at = "poll"
  BY <1>2 DEF PollRefresh
<1>4. Calm(device, Told(part))
  <2>1. \A root \in Roots :
          Diag(root, "DiagnosticsState") \in part /\ Diag(root, "SuccessCount") \in DOMAIN device
            => Diag(root, "SuccessCount") \in part
    BY DiagPaths
  <2>. HIDE DEF part
  <2>. QED
    BY <2>1, CalmTold
<1>5. DOMAIN Told(part) \subseteq DOMAIN device
  BY <1>2 DEF Told
<1>. HIDE DEF part
<1>6. \A x \in Requests : Good(req[x], device, doc')
  BY <1>1, <1>2, <1>4, CalmGood
<1>7. DOMAIN doc' \subseteq DOMAIN device'
  BY <1>1, <1>2, <1>5
<1>8. Good(q, device, doc')
  <2>1. Good(req[r], device, doc')
    BY <1>6
  <2>2. /\ DOMAIN q = RequestFields /\ q.at = "check" /\ q.task = req[r].task
        /\ q.alone = req[r].alone /\ q.polls = req[r].polls /\ q.root = req[r].root
    BY <2>1 DEF Good, Shape, RequestFields
  <2>. HIDE DEF q
  <2>3. Staged(q) /\ Shape(q)
    BY <1>3, <2>1, <2>2 DEF Good, Staged, Shape, Ats
  <2>4. Tested(q, device, doc')
    BY <1>3, <2>1, <2>2 DEF Good, Tested
  <2>. QED
    BY <2>3, <2>4 DEF Good
<1>. HIDE DEF q
<1>9. DOMAIN req' = Requests /\ \A x \in Requests : Good(req'[x], device, doc')
  BY <1>2, <1>3, <1>6, <1>8, StepGood
<1>. QED
  BY <1>1, <1>2, <1>7, <1>9, Assemble

(* A poll looks at the state.                                              *)
LEMMA PollCheckKeeps ==
  ASSUME IInv, NEW r \in Requests, PollCheck(r)
  PROVE  IInv'
<1>. DEFINE state == Seen("DiagnosticsState", r)
            answer == IF state = "" THEN "Timeout" ELSE state
            over == [req[r] EXCEPT !.at = "results", !.state = answer]
            again == [req[r] EXCEPT !.at = "poll", !.polls = req[r].polls + 1]
<1>1. /\ DOMAIN req = Requests /\ Good(req[r], device, doc) /\ ops \in 0..MaxOps
  BY DEF IInv
<1>2. /\ req[r].at = "check"
      /\ \/ req' = [req EXCEPT ![r] = over]
         \/ ~LastPoll(r) /\ req' = [req EXCEPT ![r] = again]
      /\ UNCHANGED <<device, doc, queue, last, ops, changes>>
  <2>1. req' = [req EXCEPT ![r] = IF Ended(state) \/ LastPoll(r) THEN over ELSE again]
    BY Zenon DEF PollCheck
  <2>2. req[r].at = "check" /\ UNCHANGED <<device, doc, queue, last, ops, changes>>
    BY Zenon DEF PollCheck
  <2>. HIDE DEF over, again, state
  <2>3. CASE Ended(state) \/ LastPoll(r)
    BY ONLY <2>1, <2>2, <2>3, Zenon
  <2>4. CASE ~(Ended(state) \/ LastPoll(r))
    BY ONLY <2>1, <2>2, <2>4, Zenon
  <2>. QED
    BY ONLY <2>3, <2>4, Zenon
<1>3. answer = "Complete" => state = "Complete"
  BY Zenon
<1>4. /\ Diag(req[r].root, "DiagnosticsState") \in DOMAIN doc =>
           state = doc[Diag(req[r].root, "DiagnosticsState")]
  BY Zenon DEF Seen, Value
<1>. HIDE DEF answer, state
<1>5. /\ req[r].root \in Roots
      /\ req[r].alone => /\ Own(req[r].task.ask.host, req[r].root, device, doc)
                         /\ Diag(req[r].root, "DiagnosticsState") \in DOMAIN doc
  BY <1>1, <1>2 DEF Good, Staged, Tested, Own
<1>6. Good(over, device, doc)
  <2>1. /\ DOMAIN over = RequestFields /\ over.at = "results" /\ over.task = req[r].task
        /\ over.alone = req[r].alone /\ over.polls = req[r].polls /\ over.root = req[r].root
        /\ over.state = answer
    BY <1>1 DEF Good, Shape, RequestFields
  <2>. HIDE DEF over
  <2>2. Shape(over) /\ Staged(over)
    BY <1>1, <1>2, <1>5, <2>1 DEF Good, Shape, Staged, Ats
  <2>3. Tested(over, device, doc)
    BY <1>3, <1>4, <1>5, <2>1 DEF Tested
  <2>. QED
    BY <2>2, <2>3 DEF Good
<1>7. ASSUME ~LastPoll(r)
      PROVE  Good(again, device, doc)
  <2>1. /\ DOMAIN again = RequestFields /\ again.at = "poll" /\ again.task = req[r].task
        /\ again.alone = req[r].alone /\ again.polls = req[r].polls + 1
        /\ again.root = req[r].root
    BY <1>1 DEF Good, Shape, RequestFields
  <2>. HIDE DEF again
  <2>2. req[r].polls + 1 \in 0..(MaxPolls - 1)
    BY <1>1, <1>7, BoundsAssumption DEF Good, Staged, LastPoll
  <2>3. Shape(again) /\ Staged(again)
    BY <1>1, <1>2, <1>5, <2>1, <2>2 DEF Good, Shape, Staged, Ats
  <2>4. Tested(again, device, doc)
    BY <1>5, <2>1 DEF Tested
  <2>. QED
    BY <2>3, <2>4 DEF Good
<1>. HIDE DEF over, again
<1>. QED
  BY <1>1, <1>2, <1>6, <1>7, LocalKeeps

(* The results are read, after the loop.                                   *)
LEMMA ReadResultsKeeps ==
  ASSUME IInv, NEW r \in Requests, ReadResults(r)
  PROVE  IInv'
<1>. DEFINE count == Seen("SuccessCount", r)
            q == [req[r] EXCEPT !.at = "done", !.result = count]
<1>1. /\ DOMAIN req = Requests /\ Good(req[r], device, doc) /\ ops \in 0..MaxOps
  BY DEF IInv
<1>2. /\ req[r].at = "results" /\ req' = [req EXCEPT ![r] = q]
      /\ UNCHANGED <<device, doc, queue, last, ops, changes>>
  BY <1>1, Zenon DEF ReadResults
<1>3. Diag(req[r].root, "SuccessCount") \in DOMAIN doc =>
        count = doc[Diag(req[r].root, "SuccessCount")]
  BY Zenon DEF Seen, Value
<1>. HIDE DEF count
<1>4. req[r].alone /\ req[r].state = "Complete" => count = req[r].task.ask.host
  BY <1>1, <1>2, <1>3 DEF Good, Tested, Own
<1>5. /\ DOMAIN q = RequestFields /\ q.at = "done" /\ q.task = req[r].task
      /\ q.alone = req[r].alone /\ q.polls = req[r].polls /\ q.state = req[r].state
      /\ q.result = count
  BY <1>1 DEF Good, Shape, RequestFields
<1>. HIDE DEF q
<1>6. Shape(q) /\ Staged(q) /\ Tested(q, device, doc)
  BY <1>1, <1>4, <1>5 DEF Good, Shape, Staged, Tested, Ats
<1>. QED
  BY <1>1, <1>2, <1>6, LocalKeeps DEF Good

(* The ACS refuses.                                                        *)
LEMMA AcsFailsKeeps ==
  ASSUME IInv, NEW r \in Requests, AcsFails(r)
  PROVE  IInv'
BY RefusesKeeps DEF AcsFails

(* The backup is told.                                                     *)
LEMMA MergeKeeps ==
  ASSUME IInv, NEW r \in Requests, Merge(r)
  PROVE  IInv'
<1>1. ops \in 0..MaxOps
  BY DEF IInv
<1>. QED
  BY <1>1, IdleGood, LocalKeeps DEF Merge

(* How a handler stands when the ACS has its task: a test that ran at once *)
(* has the order of its own in the device and in the copy.                 *)
LEMMA HeldGood ==
  ASSUME IInv, NEW r \in Requests, req[r].at = "send", NEW ran \in BOOLEAN, NEW dev, NEW copy,
         ran => /\ DOMAIN req[r].task.values \subseteq DOMAIN dev \cap DOMAIN copy
                /\ \A p \in DOMAIN req[r].task.values :
                     dev[p] = req[r].task.values[p] /\ copy[p] = req[r].task.values[p]
  PROVE  Good(Held(r, ran), dev, copy)
<1>. DEFINE q == req[r]
            task == q.task
            polls == [q EXCEPT !.at = "poll", !.alone = ran]
            merges == [q EXCEPT !.at = "merge"]
<1>1. Good(q, device, doc)
  BY DEF IInv
<1>2. \/ task.ask.op = "ping" /\ Held(r, ran) = polls
      \/ Held(r, ran) = Idle
      \/ Held(r, ran) = merges
  BY Zenon DEF Held
<1>3. /\ DOMAIN polls = RequestFields /\ polls.at = "poll" /\ polls.alone = ran
      /\ polls.task = q.task /\ polls.root = q.root /\ polls.polls = q.polls
  BY <1>1 DEF Good, Shape, RequestFields
<1>4. /\ DOMAIN merges = RequestFields /\ merges.at = "merge" /\ merges.alone = q.alone
      /\ merges.task = q.task /\ merges.root = q.root /\ merges.polls = q.polls
  BY <1>1 DEF Good, Shape, RequestFields
<1>. HIDE DEF polls, merges
<1>5. Good(merges, dev, copy)
  <2>1. Shape(merges) /\ Staged(merges)
    BY <1>1, <1>4 DEF Good, Shape, Staged, Ats
  <2>2. Tested(merges, dev, copy)
    BY <1>4 DEF Tested
  <2>. QED
    BY <2>1, <2>2 DEF Good
<1>6. ASSUME task.ask.op = "ping"
      PROVE  Good(polls, dev, copy)
  <2>1. q.root \in Roots /\ task.values = DiagValues(q.root, task.ask.host)
    BY <1>1, <1>6 DEF Good, Staged
  <2>2. Shape(polls) /\ Staged(polls)
    BY <1>1, <1>3, <2>1 DEF Good, Shape, Staged, Ats
  <2>3. CASE ~ran
    BY <1>3, <2>2, <2>3, NotAlone
  <2>4. CASE ran
    <3>. DEFINE root == q.root
                host == task.ask.host
    <3>. HIDE DEF root, host
    <3>1. /\ DOMAIN DiagValues(root, host) = {Diag(root, "Host"), Diag(root, "DiagnosticsState")}
          /\ DiagValues(root, host)[Diag(root, "Host")] = host
          /\ DiagValues(root, host)[Diag(root, "DiagnosticsState")] = "Requested"
      BY DiagValuesFacts
    <3>4. task.values = DiagValues(root, host)
      BY ONLY <2>1, Zenon DEF root, host
    <3>5. /\ DOMAIN task.values = {Diag(root, "Host"), Diag(root, "DiagnosticsState")}
          /\ task.values[Diag(root, "Host")] = host
          /\ task.values[Diag(root, "DiagnosticsState")] = "Requested"
      BY ONLY <3>1, <3>4, Zenon
    <3>2. Own(task.ask.host, q.root, dev, copy)
      BY <2>4, <3>5 DEF Own, root, host
    <3>3. Tested(polls, dev, copy)
      BY <1>3, <3>2 DEF Tested
    <3>. QED
      BY <2>2, <3>3 DEF Good
  <2>. QED
    BY <2>3, <2>4
<1>. QED
  BY <1>2, <1>5, <1>6, IdleGood

(* The task runs at once.                                                  *)
LEMMA SendRunsKeeps ==
  ASSUME IInv, NEW r \in Requests, SendRuns(r)
  PROVE  IInv'
<1>. DEFINE task == req[r].task
            values == task.values
<1>1. /\ req[r].at = "send" /\ Executes(task)
      /\ UNCHANGED <<queue, ops, changes>>
  BY DEF SendRuns
<1>2. PICK next \in {Held(r, TRUE), Idle} : req' = [Others(r) EXCEPT ![r] = next]
  BY DEF SendRuns
<1>3. /\ ops \in 0..MaxOps /\ changes \in 0..MaxChanges /\ Waiting(queue)
      /\ DOMAIN req = Requests /\ Good(req[r], device, doc)
      /\ \A x \in Requests : Good(req[x], device, doc)
  BY DEF IInv
<1>4. Sendable(task)
  BY <1>1, <1>3 DEF Good, Staged
<1>5. /\ DOMAIN doc' \subseteq DOMAIN device' /\ Linked(last') /\ Stands(last', device')
      /\ NoDiag(values) => Calm(device', doc')
  BY <1>1, <1>4, ExecutesFacts
<1>6. /\ DOMAIN values \subseteq DOMAIN device' \cap DOMAIN doc'
      /\ \A p \in DOMAIN values : device'[p] = values[p] /\ doc'[p] = values[p]
  <2>. HIDE DEF values
  <2>1. device' = values @@ device /\ doc' = values @@ doc
    BY <1>1 DEF Executes, values
  <2>2. /\ DOMAIN (values @@ device) = DOMAIN values \cup DOMAIN device
        /\ \A p \in DOMAIN values : (values @@ device)[p] = values[p]
    BY Over
  <2>3. /\ DOMAIN (values @@ doc) = DOMAIN values \cup DOMAIN doc
        /\ \A p \in DOMAIN values : (values @@ doc)[p] = values[p]
    BY Over
  <2>. QED
    BY <2>1, <2>2, <2>3
<1>7. Good(next, device', doc')
  <2>1. Good(Held(r, TRUE), device', doc')
    BY <1>1, <1>6, HeldGood
  <2>. QED
    BY <2>1, IdleGood
<1>8. /\ DOMAIN Others(r) = Requests
      /\ \A x \in Requests \ {r} : Good(Others(r)[x], device', doc')
  <2>1. CASE WritesTest(values)
    BY <2>1, DisturbedFacts DEF Others
  <2>2. CASE ~WritesTest(values)
    <3>1. Calm(device', doc')
      BY <1>5, <2>2 DEF WritesTest, NoDiag
    <3>2. \A x \in Requests : Good(req[x], device', doc')
      BY <3>1, CalmGood
    <3>. QED
      BY <1>3, <2>2, <3>2 DEF Others
  <2>. QED
    BY <2>1, <2>2
<1>9. DOMAIN req' = Requests /\ \A x \in Requests : Good(req'[x], device', doc')
  BY <1>2, <1>7, <1>8, StepGood
<1>. QED
  BY <1>1, <1>3, <1>5, <1>9, Assemble

(* The task waits for the next session.                                    *)
LEMMA SendQueuesKeeps ==
  ASSUME IInv, NEW r \in Requests, SendQueues(r)
  PROVE  IInv'
<1>. DEFINE task == req[r].task
<1>1. /\ req[r].at = "send" /\ queue' = Append(queue, task)
      /\ UNCHANGED <<device, doc, last, ops, changes>>
  BY DEF SendQueues
<1>2. PICK next \in {Held(r, FALSE), Idle} : req' = [req EXCEPT ![r] = next]
  BY DEF SendQueues
<1>3. /\ DOMAIN doc \subseteq DOMAIN device /\ ops \in 0..MaxOps /\ changes \in 0..MaxChanges
      /\ Linked(last) /\ Stands(last, device) /\ Waiting(queue) /\ DOMAIN req = Requests
      /\ Good(req[r], device, doc) /\ \A x \in Requests : Good(req[x], device, doc)
  BY DEF IInv
<1>4. DOMAIN task = TaskFields /\ Sendable(task)
  BY <1>1, <1>3 DEF Good, Shape, Staged
<1>. HIDE DEF task
<1>5. Waiting(queue')
  BY <1>1, <1>3, <1>4, WaitingAppend
<1>6. Good(next, device, doc)
  <2>1. Good(Held(r, FALSE), device, doc)
    BY <1>1, HeldGood
  <2>. QED
    BY <2>1, IdleGood
<1>7. DOMAIN req' = Requests /\ \A x \in Requests : Good(req'[x], device, doc)
  BY <1>2, <1>3, <1>6, StepGood
<1>. QED
  BY <1>1, <1>3, <1>5, <1>7, Assemble

-----------------------------------------------------------------------------
(* The theorems *)

(* The invariant holds when the device has only told its first report.     *)
LEMMA InitIInv ==
  ASSUME Init
  PROVE  IInv
<1>1. /\ doc = Restricted(device, FirstReport) /\ queue = <<>> /\ last = NoWrite
      /\ req = [r \in Requests |-> Idle] /\ ops = 0 /\ changes = 0
  BY DEF Init
<1>2. DOMAIN doc \subseteq DOMAIN device
  BY <1>1, RestrictedFacts
<1>3. ops \in 0..MaxOps /\ changes \in 0..MaxChanges
  BY <1>1, BoundsAssumption
<1>4. Waiting(queue)
  <2>1. queue \in Seq({queue[i] : i \in DOMAIN queue}) /\ DOMAIN queue = {}
    BY <1>1, EmptySeq
  <2>. QED
    BY <2>1 DEF Waiting
<1>5. DOMAIN req = Requests /\ \A r \in Requests : Good(req[r], device, doc)
  BY <1>1, IdleGood
<1>. QED
  BY <1>1, <1>2, <1>3, <1>4, <1>5, NoWriteLinked, NoWriteStands DEF IInv

(* Every step keeps the invariant.                                         *)
LEMMA NextIInv ==
  ASSUME IInv, [Next]_vars
  PROVE  IInv'
<1>1. CASE Environment
  <2>1. ASSUME NEW part \in Parts, Report(part) PROVE IInv'
    BY <2>1, ReportKeeps
  <2>2. ASSUME NEW change \in Changes, ChangesByItself(change) PROVE IInv'
    BY <2>2, ChangesKeeps
  <2>3. ASSUME NEW root \in Roots, FinishTest(root) PROVE IInv'
    BY <2>3, FinishTestKeeps
  <2>4. CASE RunQueued
    BY <2>4, RunQueuedKeeps
  <2>. QED
    BY <1>1, <2>1, <2>2, <2>3, <2>4 DEF Environment, Roots
<1>2. ASSUME NEW r \in Requests, Asked(r) PROVE IInv'
  <2>. PICK ask \in Asks :
         \/ ask.op = "form" /\ SubmitForm(r, ask)
         \/ ask.op = "pppoe" /\ SetPppoe(r, ask)
         \/ ask.op \in {"static", "dhcp"} /\ SetWan(r, ask)
         \/ ask.op = "ipv6" /\ SetIpv6(r, ask)
         \/ ask.op = "ping" /\ StartDiag(r, ask)
         \/ ask.op = "param" /\ SetParam(r, ask)
         \/ ask.op = "restore" /\ RestoreNow(r, ask)
         \/ ask.op = "enforce" /\ EnforceDevice(r, ask)
    BY <1>2 DEF Asked
  <2>. QED
    BY FormKeeps, PppoeKeeps, SetWanKeeps, SetIpv6Keeps, StartDiagKeeps, SetParamKeeps,
       RestoreNowKeeps, EnforceDeviceKeeps
<1>3. ASSUME NEW r \in Requests, Serves(r) PROVE IInv'
  <2>1. CASE AcsFails(r) \/ Merge(r)
    BY <2>1, AcsFailsKeeps, MergeKeeps
  <2>2. CASE PollRefresh(r) \/ PollCheck(r) \/ ReadResults(r)
    BY <2>2, PollRefreshKeeps, PollCheckKeeps, ReadResultsKeeps
  <2>3. CASE DecideTr181(r) \/ FindPrefix(r) \/ CompareAddress(r) \/ FindInterface(r) \/ FindDrift(r)
    BY <2>3, DecideTr181Keeps, FindPrefixKeeps, CompareAddressKeeps, FindInterfaceKeeps,
       FindDriftKeeps
  <2>4. CASE SendRuns(r) \/ SendQueues(r)
    BY <2>4, SendRunsKeeps, SendQueuesKeeps
  <2>. QED
    BY <1>3, <2>1, <2>2, <2>3, <2>4 DEF Serves
<1>4. CASE UNCHANGED vars
  <2>1. UNCHANGED <<device, doc, queue, req, last, ops, changes>>
    BY <1>4 DEF vars
  <2>2. /\ DOMAIN doc \subseteq DOMAIN device /\ ops \in 0..MaxOps /\ changes \in 0..MaxChanges
        /\ Linked(last) /\ Stands(last, device) /\ Waiting(queue) /\ DOMAIN req = Requests
        /\ \A r \in Requests : Good(req[r], device, doc)
    BY DEF IInv
  <2>. QED
    BY <2>1, <2>2, Assemble
<1>. QED
  BY <1>1, <1>2, <1>3, <1>4 DEF Next

(* What a handler may rely on holds in every state: a static change waits  *)
(* with the address it was compared with, and an undisturbed diagnostic    *)
(* has its order or its results in device and copy.                        *)
THEOREM Invariant == Spec => []IInv
<1>1. Init => IInv
  BY InitIInv
<1>2. IInv /\ [Next]_vars => IInv'
  BY NextIInv
<1>. QED
  BY <1>1, <1>2, PTL DEF Spec

(* Every variable keeps its type, and the ACS never knows more of a device *)
(* than it has; a diagnostic never polls more often than it may, and no    *)
(* empty task is sent.                                                     *)
THEOREM TypeCorrect == Spec => []TypeOK
<1>1. IInv => TypeOK
  <2>. SUFFICES ASSUME IInv PROVE TypeOK
    OBVIOUS
  <2>1. \A r \in Requests : Staged(req[r])
    BY DEF IInv, Good
  <2>. QED
    BY <2>1 DEF IInv, TypeOK, Staged, Ats, Sendable
<1>. QED
  BY <1>1, Invariant, PTL

(* A static address that reaches the device, at once or from the queue,    *)
(* stays with its gateway in the network of the address its handler saw.   *)
THEOREM LinkIsKept == Spec => []LinkKept
<1>1. IInv => LinkKept
  BY DEF IInv, Linked, LinkKept, Current
<1>. QED
  BY <1>1, Invariant, PTL

(* A diagnostic nobody has disturbed never answers with the results of     *)
(* another host, nor with those of an earlier test.                        *)
THEOREM ResultsAreOwn == Spec => []OwnResults
<1>1. IInv => OwnResults
  <2>. SUFFICES ASSUME IInv PROVE OwnResults
    OBVIOUS
  <2>1. \A r \in Requests : Staged(req[r])
    BY DEF IInv, Good
  <2>. QED
    BY <2>1 DEF OwnResults, Staged
<1>. QED
  BY <1>1, Invariant, PTL

(* A static change that has run, of a connection its handler had seen      *)
(* whole and as it was, leaves on the device the mode, address, mask and   *)
(* gateway of its own request, over an enabled route that goes out by      *)
(* them.  No form, diagnostic, session or half of another change takes     *)
(* them apart; what writes by path, or from the backup, to the connection  *)
(* or a route may, and the theorem says nothing from then on (set_wan,     *)
(* wan_write_values; set_param, restore_now, enforce_device).              *)
THEOREM WholeStatics == Spec => []NoHalfStatic
<1>1. ASSUME IInv, last.ask.op = "static", Current(last), Whole(last), last.conn # <<"iface", 1>>
      PROVE  NoHalfStatic
  <2>1. /\ last.conn = <<last.conn[1], last.conn[2]>> /\ last.conn[1] \in {"iface", "ipconn"}
        /\ WrittenIn(last, device)
        /\ last.conn[1] = "iface" =>
             \A r \in RoutesOf(last.seen, last.conn[2]) :
               Has(device, <<"route", r, "Interface">>, last.conn[2])
    BY <1>1 DEF IInv, Stands
  <2>2. ASSUME last.conn[1] = "iface"
        PROVE  \E r \in RoutesOf(device, last.conn[2]) :
                 /\ device[<<"route", r, "Enable">>]
                 /\ device[<<"route", r, "GatewayIPAddress">>] = last.ask.gateway
    <3>1. PICK r \in RoutesOf(last.seen, last.conn[2]) :
            /\ Has(device, <<"route", r, "Enable">>, TRUE)
            /\ Has(device, <<"route", r, "GatewayIPAddress">>, last.ask.gateway)
      BY <2>1, <2>2 DEF WrittenIn
    <3>2. Has(device, <<"route", r, "Interface">>, last.conn[2])
      BY <2>1, <2>2
    <3>3. r \in RoutesOf(device, last.conn[2])
      BY <3>2 DEF Has, RoutesOf, Instances, Known, Value
    <3>. QED
      BY <3>1, <3>3 DEF Has
  <2>. QED
    BY <2>1, <2>2 DEF NoHalfStatic, WrittenIn, Has
<1>2. IInv => NoHalfStatic
  BY <1>1 DEF NoHalfStatic
<1>. QED
  BY <1>2, Invariant, PTL

(* On TR-098 a change of the WAN goes to a connection the panel shows as   *)
(* up, if it shows any: the half of the property that holds of every       *)
(* device.  Where a TR-181 change goes depends on the marks of the maker.  *)
THEOREM GoesToOneThatIsUp == Spec => [](last.conn[1] # "iface" => ChangeGoesToTheWan)
<1>1. IInv => (last.conn[1] # "iface" => ChangeGoesToTheWan)
  BY DEF IInv, Stands, UpFirst, ChangeGoesToTheWan
<1>. QED
  BY <1>1, Invariant, PTL
=============================================================================
