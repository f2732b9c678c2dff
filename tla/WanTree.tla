------------------------------ MODULE WanTree ------------------------------
(***************************************************************************)
(* The WAN of a device as the panel reads it and as it writes it: the list *)
(* of connections and the values of a change (app/treeprofile.py), the     *)
(* active connection of a TR-098 device and the interface IPv6 is set on   *)
(* (app/routers/devices.py), and the guards of a static address            *)
(* (app/routers/config.py).  Constant level, over TreeProfile's documents; *)
(* the MTU, which a change carries along, is left out.                     *)
(***************************************************************************)
EXTENDS TreeProfile

\* that of the interface with the mark of the maker
WanCurrentIpByMark(doc) == IF Marked(doc) = {} THEN Unset ELSE Address(doc, Min(Marked(doc)))
\* the address the guard of a static change compares: one, or none known
WanCurrentIp(doc) == IF WanOf(doc) = None THEN Unset ELSE Address(doc, WanOf(doc))

-----------------------------------------------------------------------------
(* The list of connections *)

\* 0.0.0.0 is no address; -1, as 0, is untagged
IpUtil(ip) == IF ip = 0 THEN Unset ELSE ip
VlanUtil(vid) == IF vid = -1 THEN 0 ELSE vid

VlanOf(doc, lower) ==
  IF lower[1] = "vlan" THEN VlanUtil(Value(doc, <<"vlan", lower[2], "VLANID">>, 0)) ELSE 0
ClientOf(doc, i) ==
  First({n \in Instances(doc, "client") :
           Value(doc, <<"client", n, "Interface">>, None) = i})

RowTr181(doc, i) ==
  LET Leaf(l, default) == Value(doc, <<"iface", i, l>>, default)
      lower == Leaf("LowerLayers", NoRef)
      type == Leaf("AddressingType", "")
      mode == IF type = "IPCP" \/ lower[1] = "ppp" THEN "PPPoE" ELSE type
      ppp == IF lower[1] = "ppp" THEN lower[2] ELSE First(Instances(doc, "ppp"))
      session == Value(doc, <<"ppp", ppp, "ConnectionStatus">>, "")
  IN  [conn |-> <<"iface", i>>, vlan |-> VlanOf(doc, lower), mode |-> mode,
       ip |-> IpUtil(Address(doc, i)), active |-> i = WanOf(doc),
       gateway |-> IpUtil(Value(doc, <<"client", ClientOf(doc, i), "IPRouters">>, Unset)),
       incomplete |-> mode = "" /\ Leaf("Status", "") = "" /\ lower = NoRef,
       status |-> IF mode = "PPPoE" /\ session # "" THEN session ELSE Leaf("Status", "")]
\* only those with an address
RowsTr181WithAddress(doc) == {RowTr181(doc, i) : i \in Outside(doc)}
RowsTr181(doc) ==
  {RowTr181(doc, i) : i \in {j \in Instances(doc, "iface") \ {LanOf(doc)} :
     Net24(Address(doc, j)) # LoopbackNet}}

RowTr098(doc, conn) ==
  LET Leaf(l, default) == Value(doc, <<conn[1], conn[2], l>>, default)
  IN  [conn |-> conn, vlan |-> VlanUtil(Leaf("VLANID", 0)),
       mode |-> IF conn[1] = "pppconn" THEN "PPPoE" ELSE Leaf("AddressingType", "DHCP"),
       ip |-> IpUtil(Leaf("ExternalIPAddress", Unset)), active |-> conn = DefaultConnection(doc),
       gateway |-> IpUtil(Leaf("DefaultGateway", Unset)), incomplete |-> FALSE,
       status |-> Leaf("ConnectionStatus", "")]

\* every interface on the WAN side, the one with the traffic and the others
Wans(doc) ==
  IF RootOf(doc) = "Device" THEN RowsTr181(doc)
  ELSE {RowTr098(doc, c) : c \in Connections(doc)}

-----------------------------------------------------------------------------
(* The values of a change on a TR-181 device *)

\* _ruta_de_la_interfaz: an entry of the routing table that points to it
RoutesOf(doc, i) ==
  {r \in Instances(doc, "route") : Value(doc, <<"route", r, "Interface">>, None) = i}
\* the code sorts the paths as text, where 10 comes before 2; instances of two
\* digits at most
FirstAsText(S) ==
  LET Digits(n) == IF n < 10 THEN 10 * n ELSE n
      Before(m, n) == Digits(m) < Digits(n) \/ (Digits(m) = Digits(n) /\ m < n)
  IN  {m \in S : \A n \in S \ {m} : Before(m, n)}
\* _dns_activo: the relay enabled, or the first
DnsTarget(doc) ==
  LET relays == {n \in Instances(doc, "relay") : <<"relay", n, "DNSServer">> \in Known(doc)}
      on == {n \in relays : Value(doc, <<"relay", n, "Enable">>, FALSE)}
  IN  {<<"relay", n, "DNSServer">> : n \in FirstAsText(IF on # {} THEN on ELSE relays)}

Refusal(why) == [refused |-> why, values |-> <<>>]
Accepted(values) == [refused |-> "", values |-> values]
\* poner: only what the device exposes
Exposed(doc, values) == [p \in DOMAIN values \cap Known(doc) |-> values[p]]

DhcpValues(doc, i) ==
  Exposed(doc, <<"iface", i, "AddressingType">> :> "DHCP"
               @@ <<"iface", i, "X_TP_ConnType">> :> "DHCP")
\* the mode and the gateway, the address left as it was
StaticValuesNoAddress(doc, i, route, asked) ==
  <<"route", route, "GatewayIPAddress">> :> asked.gateway
  @@ Exposed(doc, <<"iface", i, "AddressingType">> :> "Static"
                  @@ <<"route", route, "Enable">> :> TRUE)
\* the gateway is written without asking whether the document has it
StaticValues(doc, i, route, asked) ==
  <<"route", route, "GatewayIPAddress">> :> asked.gateway
  @@ Exposed(doc, <<"iface", i, "AddressingType">> :> "Static"
                  @@ <<"iface", i, "IPAddress">> :> asked.ip
                  @@ <<"iface", i, "SubnetMask">> :> asked.size
                  @@ <<"iface", i, "X_TP_ConnType">> :> "Static"
                  @@ <<"iface", i, "X_TP_SetDefaultGateway">> :> TRUE
                  @@ <<"route", route, "Enable">> :> TRUE)
  @@ [p \in IF asked.dns = Unset THEN {} ELSE DnsTarget(doc) |-> asked.dns]

\* wan_write_values: the outcomes, one per route that may come first
WanWrites(doc, asked) ==
  LET i == WanOf(doc) IN
  IF RootOf(doc) # "Device" THEN {Refusal("root")}
  ELSE IF i = None THEN {Refusal("refresh")}
  ELSE IF <<"iface", i, "AddressingType">> \notin Known(doc)
       THEN {Refusal(IF Complete(doc) THEN "unsupported" ELSE "refresh")}
  ELSE IF asked.op = "dhcp" THEN {Accepted(DhcpValues(doc, i))}
  ELSE IF RoutesOf(doc, i) = {} THEN {Refusal("refresh")}
  ELSE {Accepted(StaticValues(doc, i, r, asked)) : r \in RoutesOf(doc, i)}

-----------------------------------------------------------------------------
(* TR-098: the connection a change goes to, and the one whose address the  *)
(* guard compares, are found by two functions, each with a read of its own *)

Up(doc, conn) ==
  Value(doc, <<conn[1], conn[2], "ConnectionStatus">>, "") \in {"Connected", "Up"}
UpConns(doc, kind) == {c \in Connections(doc) : c[1] = kind /\ Up(doc, c)}

ExternalIp(doc, c) == Value(doc, <<c[1], c[2], "ExternalIPAddress">>, Unset)

\* active_wan_prefix: an IP connection that is up, else any, else the first
ActiveWanPrefixes(doc) ==
  LET ips == {c \in Connections(doc) : c[1] = "ipconn"}
  IN  IF UpConns(doc, "ipconn") # {} THEN UpConns(doc, "ipconn")
      ELSE IF ips # {} THEN ips ELSE {<<"ipconn", 1>>}

\* _active_wan(...)["ip"]: a PPP connection that is up comes first; one
\* without an address borrows that of an IP connection that has one
ActiveWanIps(doc) ==
  LET own == {ExternalIp(doc, c) : c \in {x \in Connections(doc) : x[1] = "ipconn"}}
             \ {Unset}
      lent == IF own = {} THEN {Unset} ELSE own
      Of(c) == IF ExternalIp(doc, c) = Unset THEN lent ELSE {ExternalIp(doc, c)}
      up == IF UpConns(doc, "pppconn") # {} THEN UpConns(doc, "pppconn")
            ELSE UpConns(doc, "ipconn")
  IN  IF up = {} THEN {Unset} ELSE UNION {Of(c) : c \in up}

\* tr181_wan_interface: the marked interface, else one with IPv6 from outside
Ipv6Interfaces(doc) ==
  IF Marked(doc) # {} THEN Marked(doc)
  ELSE {i \in Instances(doc, "iface") :
          Value(doc, <<"iface", i, "Origin">>, "") \in {"DHCPv6", "PrefixDelegation"}}

\* _validar_estatico: the gateway in the network asked for and not the
\* address itself; the current address, when it is known, in it too
StaticIsValid(asked, current) ==
  /\ SameNet(asked.gateway, asked.ip, asked.size)
  /\ asked.gateway # asked.ip
  /\ current # Unset => SameNet(current, asked.ip, asked.size)
=============================================================================
