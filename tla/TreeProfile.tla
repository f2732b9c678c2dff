---------------------------- MODULE TreeProfile ----------------------------
(***************************************************************************)
(* What the panel deduces from the document of a device                    *)
(* (app/treeprofile.py) and the map written by hand it completes           *)
(* (app/parammap.py).  Constant level: a document comes in, information    *)
(* goes out.                                                               *)
(*                                                                         *)
(* A document is a function from the paths the ACS knows to their values.  *)
(* A path is <<object, instance, leaf>>: <<"iface", 2, "IPAddress">> is    *)
(* Device.IP.Interface.2.IPv4Address.1.IPAddress.  An address is a number  *)
(* (0 is 0.0.0.0, Unset an empty value) and a mask the number of addresses  *)
(* of its network; a reference is the instance it ends in, or <<object, instance>> where     *)
(* several objects are possible; Standard is the set of its letters.  The  *)
(* objects under a fixed instance (WANDevice.1, Router.1) leave it out.    *)
(* Where the code takes the first path in the order of the document, any   *)
(* may be the first.                                                       *)
(***************************************************************************)
EXTENDS Integers, Sequences, FiniteSets, FiniteSetsExt

CONSTANTS
  BlockSize,    \* addresses of a /24
  LoopbackNet,  \* the /24 that stands for 127.0.0.0/8
  FirstChannel5 \* the first channel of 5 GHz

ASSUME AddressAssumption == BlockSize \in Nat \ {0}

\* as in TLC.tla, whose operators cannot be expanded in a proof
d :> e == [x \in {d} |-> e]
f @@ g == [x \in DOMAIN f \cup DOMAIN g |-> IF x \in DOMAIN f THEN f[x] ELSE g[x]]

None == 0
Unset == -1
NoRef == <<"", 0>>
Bands == {"2g", "5g"}
Objects ==
  [Device |-> {"iface", "route", "pool", "ppp", "radio", "ssid", "ap", "vlan",
               "client", "relay", "diag"},
   InternetGatewayDevice |-> {"l3", "wlan", "ipconn", "pppconn", "lan", "igddiag"}]

Value(doc, path, default) == IF path \in DOMAIN doc THEN doc[path] ELSE default
\* flatten: what hangs from one of the two roots, which is all a document holds
Known(doc) == DOMAIN doc
HasRoot(doc, root) == \E p \in DOMAIN doc : p[1] \in Objects[root]

\* root_of looks for Device first, pick_map for InternetGatewayDevice
RootOf(doc) ==
  IF HasRoot(doc, "Device") THEN "Device"
  ELSE IF HasRoot(doc, "InternetGatewayDevice") THEN "InternetGatewayDevice" ELSE ""
PickMap(doc) ==
  IF HasRoot(doc, "Device") /\ ~HasRoot(doc, "InternetGatewayDevice")
  THEN "Device" ELSE "InternetGatewayDevice"

Signals ==
  [Device |-> {<<"route", "GatewayIPAddress">>, <<"radio", "OperatingFrequencyBand">>},
   InternetGatewayDevice |-> {<<"l3", "DefaultConnectionService">>, <<"wlan", "Standard">>}]
\* coverage(doc)["complete"]
Complete(doc) ==
  /\ RootOf(doc) # ""
  /\ \A s \in Signals[RootOf(doc)] : \E p \in Known(doc) : <<p[1], p[3]>> = s

Net24(ip) == ip \div BlockSize
SameNet(ip, other, size) == ip \div size = other \div size
Instances(doc, object) == {p[2] : p \in {q \in Known(doc) : q[1] = object}}
First(S) == IF S = {} THEN None ELSE Min(S)

-----------------------------------------------------------------------------
(* The profile of a TR-181 device *)

Address(doc, i) == Value(doc, <<"iface", i, "IPAddress">>, Unset)
Addressed(doc) == {i \in Instances(doc, "iface") : Address(doc, i) # Unset}
\* the network of the DHCP pool, if the document has it
PoolNet(doc) ==
  LET min == Value(doc, <<"pool", First(Instances(doc, "pool")), "MinAddress">>, Unset)
  IN  IF min = Unset THEN {} ELSE {Net24(min)}
LanOf(doc) == First({i \in Addressed(doc) : Net24(Address(doc, i)) \in PoolNet(doc)})

DefaultRoutes(doc) ==
  {r \in Instances(doc, "route") :
     /\ Value(doc, <<"route", r, "GatewayIPAddress">>, Unset) \notin {0, Unset}
     /\ Value(doc, <<"route", r, "Enable">>, FALSE)
     /\ Value(doc, <<"route", r, "Interface">>, None) # None}
Marked(doc) ==
  {i \in Instances(doc, "iface") :
     Value(doc, <<"iface", i, "X_TP_ServiceType">>, "") = "Internet"}
Outside(doc) ==
  {i \in Addressed(doc) \ {LanOf(doc)} :
     Net24(Address(doc, i)) \notin PoolNet(doc) \cup {LoopbackNet}}

\* the default route, else the mark, else the only address outside the LAN
WanOf(doc) ==
  IF DefaultRoutes(doc) # {} THEN doc[<<"route", Min(DefaultRoutes(doc)), "Interface">>]
  ELSE IF Marked(doc) # {} THEN Min(Marked(doc))
  ELSE IF Cardinality(Outside(doc)) = 1 THEN Min(Outside(doc))
  ELSE None

SsidOf(doc, radio) ==
  First({s \in Instances(doc, "ssid") :
           Value(doc, <<"ssid", s, "LowerLayers">>, None) = radio})
ApOf(doc, ssid) ==
  First({a \in Instances(doc, "ap") :
           Value(doc, <<"ap", a, "SSIDReference">>, None) = ssid})
RadiosOf(doc, band) ==
  {r \in Instances(doc, "radio") :
     /\ Value(doc, <<"radio", r, "OperatingFrequencyBand">>, "") = band
     /\ SsidOf(doc, r) # None}

DeriveTr181(doc) ==
  [root |-> "Device", lan |-> LanOf(doc), wan |-> WanOf(doc),
   route |-> First(DefaultRoutes(doc)),
   pool |-> First(Instances(doc, "pool")), ppp |-> First(Instances(doc, "ppp")),
   wifi |-> [b \in {x \in Bands : RadiosOf(doc, x) # {}} |->
               LET radio == Min(RadiosOf(doc, b))
                   ssid == SsidOf(doc, radio)
               IN  [radio |-> radio, ssid |-> ssid, ap |-> ApOf(doc, ssid)]]]

-----------------------------------------------------------------------------
(* The profile of a TR-098 device *)

Connections(doc) ==
  {<<p[1], p[2]>> : p \in {q \in Known(doc) : q[1] \in {"ipconn", "pppconn"}}}
DefaultConnection(doc) ==
  LET conn == Value(doc, <<"l3", 1, "DefaultConnectionService">>, NoRef)
  IN  IF conn[1] \in {"ipconn", "pppconn"} THEN conn ELSE NoRef

\* by Standard and, where it is not told, by the channel, which may be 0
BandOf(doc, wlan) ==
  LET std == Value(doc, <<"wlan", wlan, "Standard">>, {})
      channel == Value(doc, <<"wlan", wlan, "Channel">>, Unset)
  IN  IF std # {}
      THEN IF std \cap {"b", "g"} # {} THEN "2g" ELSE IF "a" \in std THEN "5g" ELSE ""
      ELSE IF channel = Unset THEN "" ELSE IF channel >= FirstChannel5 THEN "5g" ELSE "2g"
WlansOf(doc, band) == {i \in Instances(doc, "wlan") : BandOf(doc, i) = band}

DeriveTr098(doc) ==
  [root |-> "InternetGatewayDevice", conn |-> DefaultConnection(doc),
   wifi |-> [b \in {x \in Bands : WlansOf(doc, x) # {}} |->
               [wlan |-> Min(WlansOf(doc, b))]]]

Derive(doc) ==
  CASE RootOf(doc) = "Device" -> DeriveTr181(doc)
    [] RootOf(doc) = "InternetGatewayDevice" -> DeriveTr098(doc)
    [] OTHER -> [root |-> ""]

-----------------------------------------------------------------------------
(* From concepts to paths.  A concept is <<area, item>>: <<"2g", "ssid">>    *)

Fields(area, object, instance, leaves) ==
  {<<<<area, item>>, <<object, instance, leaves[item]>>>> : item \in DOMAIN leaves}
If(condition, pairs) == IF condition THEN pairs ELSE {}
AsFunction(pairs) ==
  [c \in {q[1] : q \in pairs} |-> (CHOOSE q \in pairs : q[1] = c)[2]]

SsidLeaves == [ssid |-> "SSID", enable |-> "Enable"]
ApLeaves == [password |-> "KeyPassphrase", clients |-> "AssociatedDeviceNumberOfEntries"]
RadioLeaves == [channel |-> "Channel"]
LanLeaves == [ip |-> "IPAddress", mask |-> "SubnetMask"]
WanLeaves == [mode |-> "AddressingType", ip |-> "IPAddress", mask |-> "SubnetMask",
              mtu |-> "MaxMTUSize"]
PoolLeaves == [min |-> "MinAddress", max |-> "MaxAddress", enable |-> "Enable"]
PppLeaves == [enable |-> "Enable", user |-> "Username", password |-> "Password",
              status |-> "ConnectionStatus"]
WlanLeaves == [ssid |-> "SSID", password |-> "X_CUDY_Password", enable |-> "Enable",
               channel |-> "Channel", hidden |-> "SSIDAdvertisementEnabled",
               clients |-> "AssociatedDeviceNumberOfEntries"]
ConnLeaves == [ip |-> "ExternalIPAddress", gateway |-> "DefaultGateway",
               mtu |-> "MaxMTUSize", dns |-> "DNSServers"]
IpConnLeaves == [mode |-> "AddressingType", mask |-> "SubnetMask"]

DerivedTr181(d) ==
  (UNION {Fields(b, "ssid", d.wifi[b].ssid, SsidLeaves)
          \cup If(d.wifi[b].ap # None, Fields(b, "ap", d.wifi[b].ap, ApLeaves))
          \cup Fields(b, "radio", d.wifi[b].radio, RadioLeaves) : b \in DOMAIN d.wifi})
  \cup If(d.lan # None, Fields("lan", "iface", d.lan, LanLeaves))
  \cup If(d.wan # None, Fields("wan", "iface", d.wan, WanLeaves))
  \cup If(d.route # None, Fields("wan", "route", d.route, [gateway |-> "GatewayIPAddress"]))
  \cup If(d.pool # None, Fields("dhcp", "pool", d.pool, PoolLeaves))
  \cup If(d.ppp # None, Fields("pppoe", "ppp", d.ppp, PppLeaves))

DerivedTr098(d) ==
  (UNION {Fields(b, "wlan", d.wifi[b].wlan, WlanLeaves) : b \in DOMAIN d.wifi})
  \cup If(d.conn # NoRef,
          Fields("wan", d.conn[1], d.conn[2], ConnLeaves)
          \cup IF d.conn[1] = "pppconn"
               THEN Fields("pppoe", "pppconn", d.conn[2], PppLeaves)
               ELSE Fields("wan", "ipconn", d.conn[2], IpConnLeaves))

DerivedParams(doc) ==
  LET d == Derive(doc)
  IN  AsFunction(If(d.root = "Device", DerivedTr181(d))
                 \cup If(d.root = "InternetGatewayDevice", DerivedTr098(d)))

\* the two maps written by hand: fixed instances, those of the models tried
MapTr181 ==
  AsFunction(
    (UNION {Fields(b, "ssid", IF b = "2g" THEN 1 ELSE 3, SsidLeaves)
            \cup Fields(b, "ap", IF b = "2g" THEN 1 ELSE 3, ApLeaves)
            \cup Fields(b, "radio", IF b = "2g" THEN 1 ELSE 2, RadioLeaves) : b \in Bands})
    \cup Fields("lan", "iface", 1, LanLeaves)
    \cup Fields("dhcp", "pool", 1, PoolLeaves) \cup Fields("pppoe", "ppp", 1, PppLeaves))
MapTr098 ==
  AsFunction(
    (UNION {Fields(b, "wlan", IF b = "2g" THEN 1 ELSE 2, WlanLeaves) : b \in Bands})
    \cup Fields("lan", "lan", 1, LanLeaves @@ [dns |-> "DNSServers"])
    \cup Fields("dhcp", "lan", 1, PoolLeaves)
    \cup Fields("wan", "ipconn", 1, ConnLeaves) \cup Fields("wan", "ipconn", 1, IpConnLeaves)
    \cup Fields("pppoe", "pppconn", 1, PppLeaves))
Mapped(root) == IF root = "Device" THEN MapTr181 ELSE MapTr098

\* correction by hand, else the map where the device has that path, else what
\* was deduced, else the map
Present(map, doc) == [c \in {x \in DOMAIN map : map[x] \in Known(doc)} |-> map[c]]
EffectiveParams(root, doc, overrides) ==
  overrides @@ Present(Mapped(root), doc) @@ DerivedParams(doc) @@ Mapped(root)

-----------------------------------------------------------------------------
(* Capabilities *)

\* FUNCIONES and FUNCIONES_POR_RUTA: the paths that would support a function
Supports ==
  [wifi_2g |-> {<<"2g", "ssid">>}, wifi_5g |-> {<<"5g", "ssid">>},
   wifi_canal |-> {<<"2g", "channel">>, <<"5g", "channel">>},
   wifi_oculta |-> {<<"2g", "hidden">>, <<"5g", "hidden">>},
   clientes_wifi |-> {<<"2g", "clients">>, <<"5g", "clients">>},
   lan |-> {<<"lan", "ip">>}, dhcp |-> {<<"dhcp", "min">>, <<"dhcp", "max">>},
   wan_dhcp |-> {<<"wan", "mode">>}, wan_estatica |-> {<<"wan", "ip">>, <<"wan", "mask">>},
   wan_pppoe |-> {<<"pppoe", "user">>}, dns |-> {<<"lan", "dns">>, <<"wan", "dns">>}, diag_ping |-> {}]
PathsByName(doc, f) ==
  IF f = "diag_ping"
  THEN {p \in Known(doc) : p[1] \in {"diag", "igddiag"} /\ p[3] = "DiagnosticsState"}
  ELSE {}

Capability(doc, f) ==
  LET eff == EffectiveParams(PickMap(doc), doc, <<>>)
      paths == {eff[c] : c \in Supports[f] \cap DOMAIN eff} \cup PathsByName(doc, f)
  IN  IF paths \cap Known(doc) # {} THEN "si"
      ELSE IF Complete(doc) THEN "no" ELSE "desconocido"
=============================================================================
