--------------------------- MODULE MCDeviceSheet ---------------------------
(* A TR-181 router with two WAN interfaces, one with diagnostics whose WAN *)
(* has no address, and a TR-098 one with two IP connections, a PPP one and *)
(* no diagnostics.                                                         *)
(* Networks have 4 addresses: 4..7 is the LAN, 8..11 and 12..15 are on the  *)
(* WAN side, where the devices start with a mask of 8.                      *)
EXTENDS DeviceSheet

CONSTANTS r1, r2

Iface(i, address, type) ==
  <<"iface", i, "IPAddress">> :> address @@ <<"iface", i, "SubnetMask">> :> 8
  @@ <<"iface", i, "AddressingType">> :> type
Tr181 ==
  Iface(1, 5, "Static") @@ Iface(2, 9, "DHCP") @@ Iface(3, 13, "DHCP")
  @@ <<"iface", 3, "IPv6Enable">> :> FALSE @@ <<"iface", 3, "X_TP_ServiceType">> :> "Internet"
  @@ <<"route", 1, "GatewayIPAddress">> :> 8 @@ <<"route", 1, "Enable">> :> TRUE
  @@ <<"route", 1, "Interface">> :> 2
  @@ <<"route", 2, "GatewayIPAddress">> :> 12 @@ <<"route", 2, "Enable">> :> FALSE
  @@ <<"route", 2, "Interface">> :> 3
  @@ <<"pool", 1, "MinAddress">> :> 6 @@ <<"ppp", 1, "Username">> :> "nobody"
  @@ <<"ppp", 1, "Enable">> :> FALSE
  @@ <<"relay", 2, "DNSServer">> :> 0 @@ <<"relay", 10, "DNSServer">> :> 0
  @@ <<"radio", 1, "OperatingFrequencyBand">> :> "2g" @@ <<"ssid", 1, "LowerLayers">> :> 1
  @@ <<"ssid", 1, "SSID">> :> "old"
\* one with diagnostics, whose WAN has no address and no mark, and whose first
\* session tells no more than its interfaces
Down181 ==
  <<"iface", 4, "IPAddress">> :> 5 @@ <<"iface", 4, "AddressingType">> :> "Static"
  @@ <<"iface", 5, "AddressingType">> :> "DHCP" @@ <<"pool", 1, "MinAddress">> :> 6
  @@ <<"route", 1, "GatewayIPAddress">> :> 8 @@ <<"route", 1, "Enable">> :> TRUE
  @@ <<"route", 1, "Interface">> :> 5
  @@ <<"diag", 1, "Host">> :> "before" @@ <<"diag", 1, "DiagnosticsState">> :> "Complete"
  @@ <<"diag", 1, "SuccessCount">> :> "before"

Conn(kind, n, address, status) ==
  <<kind, n, "ExternalIPAddress">> :> address @@ <<kind, n, "ConnectionStatus">> :> status
  @@ <<kind, n, "SubnetMask">> :> 8 @@ <<kind, n, "AddressingType">> :> "DHCP"
  @@ <<kind, n, "DefaultGateway">> :> 8 @@ <<kind, n, "DNSServers">> :> 0
Tr098 ==
  Conn("ipconn", 1, 9, "Connected") @@ Conn("ipconn", 2, 13, "Disconnected")
  @@ <<"pppconn", 1, "ConnectionStatus">> :> "Disconnected"
  @@ <<"pppconn", 1, "Username">> :> "nobody" @@ <<"pppconn", 1, "Enable">> :> FALSE
  @@ <<"l3", 1, "DefaultConnectionService">> :> <<"ipconn", 1>>
  @@ <<"wlan", 1, "Standard">> :> {"b", "g"} @@ <<"wlan", 1, "SSID">> :> "old"
MCTrees == {Tr181, Down181, Tr098}
MCTr181 == {Tr181}

Paths == DOMAIN Tr181 \cup DOMAIN Down181 \cup DOMAIN Tr098
Object(names) == {p \in Paths : p[1] \in names}
MCFirstReport ==
  Object({"ssid", "wlan"}) \cup {p \in Object({"iface"}) : p \in DOMAIN Down181}
\* the WAN cut before its masks; everything
Wan == Object({"iface", "route", "pool", "ppp", "relay", "ipconn", "pppconn", "l3"})
MCParts == {{p \in Wan : p[3] # "SubnetMask"}, Paths}
MCObjects == {Object({"route"}), Object({"radio"}), Object({"iface"}), Paths}

\* failover to the second connection; a link that loses its address
MCChanges ==
  {<<"route", 1, "Enable">> :> FALSE @@ <<"route", 2, "Enable">> :> TRUE,
   <<"ipconn", 1, "ConnectionStatus">> :> "Disconnected"
     @@ <<"ipconn", 2, "ConnectionStatus">> :> "Connected"}

\* what an earlier change of the WAN has left in the backup
MCBackups ==
  {<<"iface", 2, "IPAddress">> :> 11 @@ <<"iface", 2, "AddressingType">> :> "DHCP",
   <<"diag", 1, "Host">> :> "kept",
   <<"ipconn", 1, "ExternalIPAddress">> :> 11 @@ <<"ipconn", 1, "AddressingType">> :> "Static"}

Static(ip, gateway, dns) ==
  [op |-> "static", ip |-> ip, size |-> 4, gateway |-> gateway, dns |-> dns]
MCAsks ==
  {Static(10, 8, Unset), Static(14, 12, 1), [op |-> "dhcp"], [op |-> "pppoe", user |-> "user"],
   [op |-> "ipv6", enable |-> TRUE],
   [op |-> "form", fields |-> <<"2g", "ssid">> :> "new" @@ <<"2g", "hidden">> :> TRUE],
   [op |-> "form", fields |-> <<"lan", "ip">> :> 7],
   [op |-> "ping", host |-> "host1"], [op |-> "ping", host |-> "host2"],
   [op |-> "param", path |-> <<"iface", 2, "IPAddress">>, value |-> 11],
   [op |-> "restore"], [op |-> "enforce"]}
MCNoAsks == {}
=============================================================================
