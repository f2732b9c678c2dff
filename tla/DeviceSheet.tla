---------------------------- MODULE DeviceSheet ----------------------------
(***************************************************************************)
(* One device behind the panel: its tree, the copy the ACS has of it, and  *)
(* the requests that decide on the copy and write to the device            *)
(* (app/routers/config.py, the diagnostics and the write by path of        *)
(* app/routers/devices.py, what app/routers/backup.py restores).           *)
(*                                                                         *)
(* Every await is a step of its own: between the read a handler decides on *)
(* and the moment its task runs, other requests, sessions of the device    *)
(* and changes on the device itself come in.  A request is a record with   *)
(* the fields of the form; "at" is the await it stands at.                 *)
(***************************************************************************)
EXTENDS WanTree

CONSTANTS
  Trees,       \* the devices to try, with all their parameters
  FirstReport, \* the paths of the first session
  Parts,       \* what a later session may report: an object, all, or a cut list
  Backups,     \* what may have been kept of the device before
  Changes,     \* what may change on a device by itself, as path :> value
  Asks,        \* the requests
  Requests,    \* handlers under way at a time
  MaxOps, MaxChanges, MaxPolls

ASSUME BoundsAssumption ==
  MaxOps \in Nat /\ MaxChanges \in Nat /\ MaxPolls \in Nat \ {0}

VARIABLES
  device,  \* the parameters the device really has
  doc,     \* those the ACS has cached
  queue,   \* tasks the ACS keeps for the next session
  backup,  \* device_config: what merge_device_config has put in it
  req,     \* the handlers
  last,    \* the last WAN change that ran on the device (history)
  ops, changes

vars == <<device, doc, queue, backup, req, last, ops, changes>>

Restricted(tree, paths) == [p \in paths \cap DOMAIN tree |-> tree[p]]
\* history: what the panel's list of connections tells of one, in a document
Shown(d, conn) ==
  LET active == {w.conn : w \in {x \in Wans(d) : x.active}}
      up == {w.conn : w \in {x \in Wans(d) : x.status \in {"Connected", "Up"}}}
  IN  [lanKnown |-> PoolNet(d) # {}, active |-> conn \in active, up |-> conn \in up,
       someUp |-> \E c \in up : c[1] = "ipconn"]
NoTask == [values |-> <<>>, ask |-> [op |-> ""], conn |-> NoRef, seen |-> <<>>, shown |-> <<>>]
NoWrite == [ask |-> [op |-> ""], conn |-> NoRef, seen |-> <<>>, before |-> <<>>, shown |-> <<>>,
            lan |-> None]
Idle == [at |-> "idle", root |-> "", task |-> NoTask, polls |-> 0, alone |-> FALSE,
         state |-> "", result |-> ""]

Init ==
  /\ device \in Trees
  /\ doc = Restricted(device, FirstReport)
  /\ backup \in {b \in Backups : DOMAIN b \subseteq DOMAIN device}
  /\ queue = <<>> /\ last = NoWrite
  /\ req = [r \in Requests |-> Idle]
  /\ ops = 0 /\ changes = 0

-----------------------------------------------------------------------------
(* The device and the ACS *)

\* what writes paths one by one, be they of the WAN or not
ByPath == {"param", "restore", "enforce"}
\* a write to the connection or to a route
Reaches(values, conn) == \E p \in DOMAIN values : <<p[1], p[2]>> = conn \/ p[1] = "route"

DiagObject(root) == IF root = "Device" THEN "diag" ELSE "igddiag"
Diag(root, leaf) == <<DiagObject(root), 1, leaf>>
\* A report that is cut inside the object of the diagnostic is left out, and
\* nothing but a diagnostic writes to it on the device.
ASSUME DiagnosticsAssumption ==
  \A root \in {"Device", "InternetGatewayDevice"} :
    /\ \A part \in Parts :
         Diag(root, "DiagnosticsState") \in part => Diag(root, "SuccessCount") \in part
    /\ \A change \in Changes : \A p \in DOMAIN change : p[1] # DiagObject(root)

\* No form has a field for the mode, address, mask or gateway of the WAN.
ASSUME FormsAssumption ==
  \A ask \in Asks : ask.op = "form" =>
    \A item \in {"mode", "ip", "mask", "gateway"} : <<"wan", item>> \notin DOMAIN ask.fields

WritesTest(values) == \E p \in DOMAIN values : p[1] \in {"diag", "igddiag"}

\* history: somebody else writes to the object of the diagnostic
Disturbed(mine) ==
  [r \in Requests |-> [req[r] EXCEPT !.alone = @ /\ r \in mine]]

\* setParameterValues runs whole or, with a path the device lacks, not at all;
\* the ACS caches what it has set
Executes(task) ==
  /\ DOMAIN task.values \subseteq DOMAIN device
  /\ device' = task.values @@ device
  /\ doc' = task.values @@ doc
  /\ last' = CASE task.ask.op \in {"static", "dhcp"} ->
                   [ask |-> task.ask, conn |-> task.conn, shown |-> task.shown, seen |-> task.seen,
                    before |-> Restricted(device, DOMAIN task.seen), lan |-> LanOf(device)]
               [] task.ask.op \in ByPath /\ Reaches(task.values, last.conn) -> NoWrite
               [] OTHER -> last
Faults(task) ==
  ~(DOMAIN task.values \subseteq DOMAIN device) /\ UNCHANGED <<device, doc, last>>

\* a session in which the device tells a part of its tree
Told(part) ==
  [p \in DOMAIN doc \cup (part \cap DOMAIN device) |-> IF p \in part THEN device[p] ELSE doc[p]]
Report(part) ==
  /\ doc' = Told(part)
  /\ UNCHANGED <<device, queue, backup, req, last, ops, changes>>

RunQueued ==
  /\ queue # <<>> /\ queue' = Tail(queue)
  /\ Executes(Head(queue)) \/ Faults(Head(queue))
  /\ req' = IF WritesTest(Head(queue).values) THEN Disturbed({}) ELSE req
  /\ UNCHANGED <<backup, ops, changes>>

\* failover, a link that goes down, a lease that changes
ChangesByItself(change) ==
  /\ changes < MaxChanges /\ changes' = changes + 1
  /\ DOMAIN change \subseteq DOMAIN device
  /\ device' = change @@ device
  /\ last' = NoWrite
  /\ UNCHANGED <<doc, queue, backup, req, ops>>

\* the test it was asked for ends; an error would end the polls in the same way
FinishTest(root) ==
  /\ Value(device, Diag(root, "DiagnosticsState"), "") = "Requested"
  /\ device' = Diag(root, "DiagnosticsState") :> "Complete"
               @@ Diag(root, "SuccessCount") :> device[Diag(root, "Host")] @@ device
  /\ UNCHANGED <<doc, queue, backup, req, last, ops, changes>>

-----------------------------------------------------------------------------
(* Requests that write what their form and the map say *)

\* authorized_device: the request starts with the root the document has now
Start(r, at, task) ==
  /\ req[r].at \in {"idle", "done"}
  /\ ops < MaxOps /\ ops' = ops + 1
  /\ req' = [req EXCEPT ![r] =
               [Idle EXCEPT !.at = at, !.root = PickMap(doc), !.task = task]]
  /\ UNCHANGED <<device, doc, queue, backup, last, changes>>

\* _apply: the fields the map has; with none of them, 400
FormValues(fields, map) ==
  LET held == DOMAIN fields \cap DOMAIN map
  IN  [p \in {map[c] : c \in held} |-> fields[CHOOSE c \in held : map[c] = p]]
SubmitForm(r, ask) ==
  LET values == FormValues(ask.fields, Mapped(PickMap(doc)))
  IN  values # <<>> /\ Start(r, "send", [NoTask EXCEPT !.ask = ask, !.values = values])

PppoeValues(ask, object) ==
  <<object, 1, "Enable">> :> TRUE @@ <<object, 1, "Username">> :> ask.user
SetPppoe(r, ask) ==
  LET object == IF PickMap(doc) = "Device" THEN "ppp" ELSE "pppconn"
  IN  Start(r, "send", [NoTask EXCEPT !.ask = ask, !.values = PppoeValues(ask, object)])

\* any path of the tree
SetParam(r, ask) ==
  Start(r, "send", [NoTask EXCEPT !.ask = ask, !.values = ask.path :> ask.value])
\* all of the backup, whatever has become of the device
RestoreNow(r, ask) ==
  DOMAIN backup # {} /\ Start(r, "send", [NoTask EXCEPT !.ask = ask, !.values = backup])

-----------------------------------------------------------------------------
(* The WAN: decided on what the ACS knows *)

SetWan(r, ask) ==
  Start(r, IF PickMap(doc) = "Device" THEN "read" ELSE "prefix",
        [NoTask EXCEPT !.ask = ask])

Goes(r, at, task) ==
  /\ req' = [req EXCEPT ![r] = [@ EXCEPT !.at = at, !.task = task]]
  /\ UNCHANGED <<device, doc, queue, backup, last, ops, changes>>
Refuses(r) ==
  /\ req' = [req EXCEPT ![r] = Idle]
  /\ UNCHANGED <<device, doc, queue, backup, last, ops, changes>>

\* TR-181: one read, for the guard and for the values
SeenOf(i) == {p \in Known(doc) : <<p[1], p[2]>> = <<"iface", i>> \/ p[1] = "route"}
DecideTr181(r) ==
  LET task == req[r].task
      valid == task.ask.op = "static" => StaticIsValid(task.ask, WanCurrentIp(doc))
  IN  /\ req[r].at = "read"
      /\ IF ~valid THEN Refuses(r)
         ELSE \E w \in WanWrites(doc, task.ask) :
                IF w.refused # "" THEN Refuses(r)
                ELSE Goes(r, "send",
                       [task EXCEPT !.values = w.values, !.conn = <<"iface", WanOf(doc)>>,
                                    !.shown = Shown(doc, <<"iface", WanOf(doc)>>),
                                    !.seen = Restricted(doc, SeenOf(WanOf(doc)))])

\* TR-098: the connection in one read, the address to compare in another
DhcpTr098(conn) == <<conn[1], conn[2], "AddressingType">> :> "DHCP"
StaticTr098(conn, ask) ==
  <<conn[1], conn[2], "AddressingType">> :> "Static"
  @@ <<conn[1], conn[2], "ExternalIPAddress">> :> ask.ip
  @@ <<conn[1], conn[2], "SubnetMask">> :> ask.size
  @@ <<conn[1], conn[2], "DefaultGateway">> :> ask.gateway
  @@ IF ask.dns = Unset THEN <<>> ELSE <<conn[1], conn[2], "DNSServers">> :> ask.dns
FindPrefix(r) ==
  LET task == req[r].task IN
  /\ req[r].at = "prefix"
  /\ \E conn \in ActiveWanPrefixes(doc) :
       LET found == [task EXCEPT !.conn = conn, !.shown = Shown(doc, conn)]
       IN  IF task.ask.op = "dhcp"
           THEN Goes(r, "send", [found EXCEPT !.values = DhcpTr098(conn)])
           ELSE Goes(r, "address", found)
\* a read that fails is taken for an address not known
CompareAddress(r) ==
  LET task == req[r].task
      Compared(current, seen) ==
        IF StaticIsValid(task.ask, current)
        THEN Goes(r, "send", [task EXCEPT !.values = StaticTr098(task.conn, task.ask),
                                          !.seen = seen])
        ELSE Refuses(r)
  IN  /\ req[r].at = "address"
      /\ \/ \E current \in ActiveWanIps(doc) :
              Compared(current, Restricted(doc, {p \in Known(doc) : p[1] \in {"ipconn", "pppconn"}}))
         \/ Compared(Unset, <<>>)

SetIpv6(r, ask) ==
  PickMap(doc) = "Device" /\ Start(r, "interface", [NoTask EXCEPT !.ask = ask])
FindInterface(r) ==
  /\ req[r].at = "interface"
  /\ IF Ipv6Interfaces(doc) = {} THEN Refuses(r)
     ELSE \E i \in Ipv6Interfaces(doc) :
            Goes(r, "send", [req[r].task EXCEPT
                               !.values = <<"iface", i, "IPv6Enable">> :> req[r].task.ask.enable])

\* The loop takes the backup, reads the copy and sends what differs.  When it may
\* try, and how often, is in AutoRestore: here it may whenever it comes.
EnforceDevice(r, ask) ==
  DOMAIN backup # {} /\ Start(r, "drift", [NoTask EXCEPT !.ask = ask, !.values = backup])
FindDrift(r) ==
  LET desired == req[r].task.values
      drift == {p \in DOMAIN desired \cap Known(doc) : doc[p] # desired[p]}
  IN  /\ req[r].at = "drift"
      /\ IF drift = {} THEN Refuses(r)
         ELSE Goes(r, "send", [req[r].task EXCEPT !.values = Restricted(desired, drift)])

-----------------------------------------------------------------------------
(* Diagnostics *)

\* a host without the order to start
DiagValuesHostOnly(root, host) == Diag(root, "Host") :> host
DiagValues(root, host) ==
  Diag(root, "Host") :> host @@ Diag(root, "DiagnosticsState") :> "Requested"
StartDiag(r, ask) ==
  Start(r, "send", [NoTask EXCEPT !.ask = ask, !.values = DiagValues(PickMap(doc), ask.host)])

Seen(leaf, r) == Value(doc, Diag(req[r].root, leaf), "")
\* refresh_object, whose failure is ignored; queued, it brings nothing now
PollRefresh(r) ==
  /\ req[r].at = "poll"
  /\ req' = [req EXCEPT ![r] = [@ EXCEPT !.at = "check"]]
  /\ \/ doc' = Told({p \in DOMAIN device : p[1] = DiagObject(req[r].root)})
     \/ UNCHANGED doc
  /\ UNCHANGED <<device, queue, backup, last, ops, changes>>
Ended(state) == state \notin {"", "None", "Requested"}
LastPollLate(r) == req[r].polls = MaxPolls
LastPoll(r) == req[r].polls + 1 = MaxPolls
\* the polls are not counted
PollCheckUncounted(r) ==
  /\ req[r].at = "check"
  /\ req' = [req EXCEPT ![r] =
       IF Ended(Seen("DiagnosticsState", r))
       THEN [@ EXCEPT !.at = "results", !.state = Seen("DiagnosticsState", r)]
       ELSE [@ EXCEPT !.at = "poll"]]
  /\ UNCHANGED <<device, doc, queue, backup, last, ops, changes>>
PollCheck(r) ==
  LET state == Seen("DiagnosticsState", r)
      answer == IF state = "" THEN "Timeout" ELSE state
  IN  /\ req[r].at = "check"
      /\ req' = [req EXCEPT ![r] =
           IF Ended(state) \/ LastPoll(r) THEN [@ EXCEPT !.at = "results", !.state = answer]
           ELSE [@ EXCEPT !.at = "poll", !.polls = req[r].polls + 1]]
      /\ UNCHANGED <<device, doc, queue, backup, last, ops, changes>>
\* the results are read again, after the loop
ReadResults(r) ==
  /\ req[r].at = "results"
  /\ req' = [req EXCEPT ![r] = [@ EXCEPT !.at = "done", !.result = Seen("SuccessCount", r)]]
  /\ UNCHANGED <<device, doc, queue, backup, last, ops, changes>>

-----------------------------------------------------------------------------
(* The task reaches the ACS, and its answer the handler *)

\* only a test of its own, run at once, may speak for the request
Held(r, ran) ==
  LET task == req[r].task IN
  CASE task.ask.op = "ping" -> [req[r] EXCEPT !.at = "poll", !.alone = ran]
    [] task.ask.op \in {"ipv6", "restore", "enforce"} -> Idle
    [] OTHER -> [req[r] EXCEPT !.at = "merge"]
Others(r) == IF WritesTest(req[r].task.values) THEN Disturbed({r}) ELSE req

\* 200; the answer may be lost on its way, and the handler ends in an error.  The
\* loop asks for no connection: its task waits for the next session
SendRuns(r) ==
  /\ req[r].at = "send" /\ req[r].task.ask.op # "enforce"
  /\ Executes(req[r].task)
  /\ \E next \in {Held(r, TRUE), Idle} : req' = [Others(r) EXCEPT ![r] = next]
  /\ UNCHANGED <<queue, backup, ops, changes>>
\* 202: the device did not answer the connection request
SendQueues(r) ==
  /\ req[r].at = "send"
  /\ queue' = Append(queue, req[r].task)
  /\ \E next \in {Held(r, FALSE), Idle} : req' = [req EXCEPT ![r] = next]
  /\ UNCHANGED <<device, doc, backup, last, ops, changes>>
\* the ACS refuses, or cannot be read
AcsFails(r) ==
  /\ req[r].at \in {"read", "prefix", "interface", "drift", "send", "check", "results"}
  /\ Refuses(r)
\* merge_device_config, for a device that has a backup
Merge(r) ==
  /\ req[r].at = "merge"
  /\ backup' = req[r].task.values @@ backup
  /\ req' = [req EXCEPT ![r] = Idle]
  /\ UNCHANGED <<device, doc, queue, last, ops, changes>>

Asked(r) ==
  \E ask \in Asks :
    \/ ask.op = "form" /\ SubmitForm(r, ask)
    \/ ask.op = "pppoe" /\ SetPppoe(r, ask)
    \/ ask.op \in {"static", "dhcp"} /\ SetWan(r, ask)
    \/ ask.op = "ipv6" /\ SetIpv6(r, ask)
    \/ ask.op = "ping" /\ StartDiag(r, ask)
    \/ ask.op = "param" /\ SetParam(r, ask)
    \/ ask.op = "restore" /\ RestoreNow(r, ask)
    \/ ask.op = "enforce" /\ EnforceDevice(r, ask)
Serves(r) ==
  \/ AcsFails(r) \/ Merge(r) \/ PollRefresh(r) \/ PollCheck(r) \/ ReadResults(r)
  \/ DecideTr181(r) \/ FindPrefix(r) \/ CompareAddress(r) \/ FindInterface(r)
  \/ FindDrift(r)
  \/ SendRuns(r) \/ SendQueues(r)
Environment ==
  \/ \E part \in Parts : Report(part)
  \/ \E change \in Changes : ChangesByItself(change)
  \/ \E root \in {"Device", "InternetGatewayDevice"} : FinishTest(root)
  \/ RunQueued

Next == Environment \/ \E r \in Requests : Asked(r) \/ Serves(r)
Spec == Init /\ [][Next]_vars
FairSpec == Spec /\ \A r \in Requests : WF_vars(Serves(r))

-----------------------------------------------------------------------------
(* Properties *)

\* Every variable keeps its type, and the ACS never knows more than the device has.
TypeOK ==
  /\ DOMAIN doc \subseteq DOMAIN device
  /\ \A r \in Requests :
       /\ req[r].at \in {"idle", "read", "prefix", "address", "interface", "drift", "send",
                         "merge", "poll", "check", "results", "done"}
       /\ req[r].polls \in 0..(MaxPolls - 1)
       /\ req[r].at = "send" => DOMAIN req[r].task.values # {}
  /\ ops \in 0..MaxOps /\ changes \in 0..MaxChanges

(* A change that ran: what its handler had seen was still so on the device  *)
Current(w) == w.seen # <<>> /\ w.seen = w.before
OwnAddress(w) ==
  IF w.conn[1] = "iface" THEN Address(w.seen, w.conn[2]) ELSE ExternalIp(w.seen, w.conn)
\* TR-098: the two reads speak of one connection when no other one is up
OneConnection(w) ==
  w.conn[1] = "ipconn" =>
    UpConns(w.seen, "ipconn") \cup UpConns(w.seen, "pppconn") = {w.conn}

\* A static address that reaches the device leaves it in the network it was in,
\* gateway included, when its handler had seen the address the device still had:
\* interface, guard and values are found apart, in up to two reads, and other
\* requests, sessions and changes come in between (set_wan, _validar_estatico).
LinkKept ==
  last.ask.op = "static" /\ Current(last) /\ OneConnection(last) /\ OwnAddress(last) # Unset
    => /\ SameNet(OwnAddress(last), last.ask.ip, last.ask.size)
       /\ SameNet(OwnAddress(last), last.ask.gateway, last.ask.size)

\* The mode, address, mask and gateway of a static change that ran stay those of ONE
\* request, over an enabled route that goes out by that gateway, whichever forms,
\* tests, sessions and other changes of the WAN have come in between and since
\* (wan_write_values, set_wan).  It is not so, and the property does not say it,
\* when the handler had not seen all the parameters of the connection and its
\* routes, or not as they were; on the interface the form of the LAN writes to, be it
\* the LAN or not (set_ip); and once a parameter of the connection or a route has been
\* written by its path or from the backup (set_param, restore_now, enforce_device),
\* which mixes two configurations, or the device has changed by itself.
Whole(w) ==
  w.conn[1] = "iface" =>
    /\ \A leaf \in {"AddressingType", "IPAddress", "SubnetMask"} :
         <<"iface", w.conn[2], leaf>> \in DOMAIN w.seen
    /\ \A r \in RoutesOf(w.seen, w.conn[2]) : <<"route", r, "Enable">> \in DOMAIN w.seen
NoHalfStatic ==
  last.ask.op = "static" /\ Current(last) /\ Whole(last) /\ last.conn # <<"iface", 1>> =>
    LET Leaf(l) == device[<<last.conn[1], last.conn[2], l>>]
        ask == last.ask
    IN  /\ Leaf("AddressingType") = "Static" /\ Leaf("SubnetMask") = ask.size
        /\ IF last.conn[1] = "iface"
           THEN /\ Leaf("IPAddress") = ask.ip
                /\ \E r \in RoutesOf(device, last.conn[2]) :
                     device[<<"route", r, "Enable">>] /\ device[<<"route", r, "GatewayIPAddress">>] = ask.gateway
           ELSE Leaf("ExternalIPAddress") = ask.ip /\ Leaf("DefaultGateway") = ask.gateway

\* A WAN change goes to a connection the panel's list shows: on TR-181 the one it
\* marks as active, and never the interface of the LAN, once the ACS knows the
\* pool of the LAN; on TR-098 one that is up, if an IP connection is.  The list
\* and the change look for it apart (wans, wan_write_values, active_wan_prefix),
\* and the document may be a part of the tree.
ChangeGoesToTheWan ==
  last.ask.op \in {"static", "dhcp"} =>
    IF last.conn[1] = "iface"
    THEN last.shown.lanKnown => last.shown.active /\ last.conn[2] # last.lan
    ELSE last.shown.someUp => last.shown.up

\* A diagnostic answered "Complete" carries the results for its own host, if the
\* device took its task at once and nobody else has written to the test since
\* (_run_diag, diag_ping: set, refresh, state and results are four calls).
OwnResults ==
  \A r \in Requests :
    req[r].at = "done" /\ req[r].alone /\ req[r].state = "Complete"
      => req[r].result = req[r].task.ask.host

\* Every request is answered: a diagnostic whose device never reports an end
\* gives up after its polls, and an ACS that fails ends the request.
EveryRequestAnswered ==
  \A r \in Requests : (req[r].at \notin {"idle", "done"}) ~> (req[r].at \in {"idle", "done"})

\* With half a tree the panel never says "no": a function the device has may be
\* unknown, not missing (README.md:293).
NeverNoOnHalfATree ==
  \A f \in DOMAIN Supports : Capability(doc, f) = "no" => Capability(device, f) # "si"
=============================================================================
