------------------------------ MODULE Firmware ------------------------------
(***************************************************************************)
(* Files of the ACS and the tasks sent to many devices at once             *)
(* (app/routers/firmware.py, app/bulk.py, the single push of               *)
(* app/routers/system.py, read-bulk of app/routers/devices.py), together   *)
(* with the guard on outgoing addresses (app/netguard.py) and the settings *)
(* that say which ACS is spoken to (app/routers/settings.py, runtime.py).  *)
(*                                                                         *)
(* Every call to the ACS or to a site is a step of its own, and each reads *)
(* the address of the ACS again: files, devices and the address may change *)
(* between two of them.  Sizes count blocks; what the blocks hold is left  *)
(* out.  "at" is the await a request stands at.                            *)
(***************************************************************************)
EXTENDS Integers, FiniteSets

CONSTANTS
  Acs, EnvAcs,      \* the servers there are, and the one of the environment
  Fleet,            \* the devices each server knows
  Devices, Isps, Admin,
  Model,            \* the product class of each device
  Names,            \* names of files
  Urls, Site,       \* what a site answers for each address
  Resolves,         \* the IPs an address resolves to
  Global,           \* IPs that are public and not multicast
  FirmwareNetworks, NbiNetworks,  \* IPs in the networks of the two settings
  Limit,            \* max_upload_mb, in blocks
  MaxRedirects,
  Stored,           \* files that may be on a server from before
  Asks,             \* uploads, pushes and bulk reads to try
  NewSettings,      \* bodies of PUT /settings to try
  Requests, MaxOps, \* handlers under way at a time, and in all
  None

ASSUME FleetAssumption == EnvAcs \in Acs /\ Fleet \in [Acs -> SUBSET Devices]
ASSUME LimitAssumption == Limit \in Nat /\ MaxRedirects \in Nat /\ MaxOps \in Nat
ASSUME DevicesAssumption == IsFiniteSet(Devices)
\* A site redirects, or sends a body; httpx ends one that declares its length
\* there.  A body its site compresses is left out.
ASSUME SiteAssumption ==
  \A u \in Urls :
    \/ Site[u].kind = "redirect" /\ Site[u].to \in Urls
    \/ /\ Site[u].kind = "body" /\ Site[u].blocks \in Nat
       /\ Site[u].declared # None => Site[u].declared \in Nat /\ Site[u].blocks <= Site[u].declared

VARIABLES
  settings,  \* the rows nbi_url and default_connection_request
  files,     \* by server and name
  tag,       \* the ISP each device is of
  req, ops

vars == <<settings, files, tag, req, ops>>

FILE_TYPE == "firmware"
Types == {"firmware", "config", "web"}

(* A file remembers, as history, the length its site declared and the      *)
(* addresses it came by.                                                   *)
File(type, size, declared, hops) ==
  [type |-> type, size |-> size, declared |-> declared, hops |-> hops]
Idle == [at |-> "idle", ask |-> None, url |-> None, size |-> 0, declared |-> None,
         hops |-> {}, left |-> 0, type |-> None, targets |-> {}, sent |-> 0,
         failed |-> 0, posted |-> {}, listed |-> None, same |-> TRUE]

Init ==
  /\ settings = [nbi |-> None, cr |-> None]
  /\ files \in [Acs -> [Names -> Stored \cup {None}]]
  /\ tag \in [Devices -> Isps]
  /\ req = [r \in Requests |-> Idle]
  /\ ops = 0

-----------------------------------------------------------------------------
(* Settings, read at every call *)

NbiUrl == IF settings.nbi = None THEN EnvAcs ELSE settings.nbi
DefaultConnectionRequest == IF settings.cr = None THEN TRUE ELSE settings.cr

CheckAllowedUrl(u) == Resolves[u] # {} /\ Resolves[u] \subseteq NbiNetworks
CheckPublicUrl(u) == Resolves[u] # {} /\ Resolves[u] \subseteq Global \cup FirmwareNetworks

\* Acs has a server for every address the networks of the setting allow.
ASSUME SettingsAssumption ==
  \A body \in NewSettings :
    /\ body.nbi # None /\ CheckAllowedUrl(body.nbi) => body.nbi \in Acs
    /\ body.cr \in BOOLEAN \cup {None}
\* The files there were came in as those that come in now.
ASSUME StoredAssumption ==
  \A file \in Stored :
    /\ file \in [type: Types, size: 1..Limit, declared: {None} \cup Nat, hops: SUBSET Urls]
    /\ file.declared # None => file.size = file.declared
    /\ \A u \in file.hops : CheckPublicUrl(u)
ASSUME AsksAssumption ==
  \A ask \in Asks :
    /\ ask.op = "upload" => ask.size \in Nat
    /\ ask.op = "url" => ask.url \in Urls
    /\ ask.op = "single" => ask.device \in Devices
    /\ ask.op # "read" => ask.name \in Names

\* history: the file or the server has changed since a push read the type
Disturbed(stale(_)) == [r \in Requests |-> [req[r] EXCEPT !.same = @ /\ ~stale(r)]]
TypeRead(r) == req[r].at \in {"targets", "post"} /\ req[r].ask.op # "read"
OfFile(name) == {r \in Requests : TypeRead(r) /\ req[r].ask.name = name}

\* the address is saved whatever it is
UpdateSettingsUnchecked(body) ==
  /\ settings' = [nbi |-> IF body.nbi = None THEN settings.nbi ELSE body.nbi,
                  cr |-> IF body.cr = None THEN settings.cr ELSE body.cr]
  /\ req' = IF body.nbi = None THEN req ELSE Disturbed(TypeRead)
  /\ UNCHANGED <<files, tag, ops>>
\* an address outside the networks: nothing of the form is saved
UpdateSettings(body) ==
  /\ body.nbi # None => CheckAllowedUrl(body.nbi)
  /\ settings' = [nbi |-> IF body.nbi = None THEN settings.nbi ELSE body.nbi,
                  cr |-> IF body.cr = None THEN settings.cr ELSE body.cr]
  /\ req' = IF body.nbi = None THEN req ELSE Disturbed(TypeRead)
  /\ UNCHANGED <<files, tag, ops>>

-----------------------------------------------------------------------------
(* A file arrives, by the form or from a site *)

Start(r, next) ==
  /\ req[r].at \in {"idle", "done"}
  /\ ops < MaxOps /\ ops' = ops + 1
  /\ req' = [req EXCEPT ![r] = next]
  /\ UNCHANGED <<settings, files, tag>>
Goes(r, next) ==
  req' = [req EXCEPT ![r] = next] /\ UNCHANGED <<settings, files, tag, ops>>
Refuses(r) == Goes(r, Idle)

\* _Spool.write: the block that passes the limit ends the request
Fits(size) == size <= Limit

\* the multipart body is there when the handler runs: a limit and no await
UploadFirmware(r, ask) ==
  Fits(ask.size) /\ Start(r, [Idle EXCEPT !.at = "store", !.ask = ask, !.size = ask.size])

UploadFirmwareUrl(r, ask) ==
  Start(r, [Idle EXCEPT !.at = "check", !.ask = ask, !.url = ask.url, !.left = MaxRedirects])

\* the address typed is looked at, those it leads to are not
CheckHopFirstOnly(r) ==
  /\ req[r].at = "check"
  /\ IF req[r].left = MaxRedirects => CheckPublicUrl(req[r].url)
     THEN Goes(r, [req[r] EXCEPT !.at = "get", !.hops = @ \cup {req[r].url}])
     ELSE Refuses(r)
CheckHop(r) ==
  /\ req[r].at = "check"
  /\ IF CheckPublicUrl(req[r].url)
     THEN Goes(r, [req[r] EXCEPT !.at = "get", !.hops = @ \cup {req[r].url}])
     ELSE Refuses(r)

GetHop(r) ==
  LET reply == Site[req[r].url] IN
  /\ req[r].at = "get"
  /\ CASE reply.kind = "redirect" /\ req[r].left > 0 ->
            Goes(r, [req[r] EXCEPT !.at = "check", !.url = reply.to, !.left = @ - 1])
       [] reply.kind = "body" /\ (reply.declared # None => reply.declared <= Limit) ->
            Goes(r, [req[r] EXCEPT !.at = "body", !.declared = reply.declared])
       [] OTHER -> Refuses(r)

Block(r) ==
  /\ req[r].at = "body" /\ req[r].size < Site[req[r].url].blocks
  /\ IF Fits(req[r].size + 1) THEN Goes(r, [req[r] EXCEPT !.size = @ + 1]) ELSE Refuses(r)
\* the connection closes: short of a declared length it is an error, without one
\* it is the end of the file
Closes(r) ==
  /\ req[r].at = "body"
  /\ IF req[r].declared # None /\ req[r].size < req[r].declared
     THEN Refuses(r)
     ELSE Goes(r, [req[r] EXCEPT !.at = "store"])

Ft(alias) == IF alias \in Types THEN alias ELSE FILE_TYPE
\* _store; the answer of the ACS may be lost, and the file is there all the same
Store(r) ==
  /\ req[r].at = "store" /\ req[r].size > 0
  /\ files' = [files EXCEPT ![NbiUrl][req[r].ask.name] =
                 File(Ft(req[r].ask.type), req[r].size, req[r].declared, req[r].hops)]
  /\ req' = [Disturbed(LAMBDA q : q \in OfFile(req[r].ask.name)) EXCEPT ![r] = Idle]
  /\ UNCHANGED <<settings, tag, ops>>
StoreEmpty(r) == req[r].at = "store" /\ req[r].size = 0 /\ Refuses(r)

DeleteFirmware(name) ==
  /\ files' = [files EXCEPT ![NbiUrl][name] = None]
  /\ req' = Disturbed(LAMBDA q : q \in OfFile(name))
  /\ UNCHANGED <<settings, tag, ops>>

-----------------------------------------------------------------------------
(* A task for many devices, or for one *)

\* an operator of an ISP sends to its own devices: authorized_device, then the type
PushFirmware(r, ask) ==
  /\ ask.device \in Fleet[NbiUrl]
  /\ ask.user # Admin => tag[ask.device] = ask.user
  /\ Start(r, [Idle EXCEPT !.at = "type", !.ask = ask])

HasTarget(ask) == ask.all \/ ask.tag # None \/ ask.model # None \/ ask.ids # {}
\* require_admin
PushFirmwareBulk(r, ask) ==
  ask.user = Admin /\ HasTarget(ask) /\ Start(r, [Idle EXCEPT !.at = "type", !.ask = ask])
ReadStatusBulk(r, ask) == Start(r, [Idle EXCEPT !.at = "targets", !.ask = ask])

\* anybody installs anything
MayInstallAny(user, file) == file # None
MayInstall(user, file) == file # None /\ (user # Admin => file.type = "firmware")
FileTypeOf(r) ==
  LET file == files[NbiUrl][req[r].ask.name] IN
  /\ req[r].at = "type"
  /\ IF MayInstall(req[r].ask.user, file)
     THEN Goes(r, IF req[r].ask.op = "single"
                  THEN [req[r] EXCEPT !.at = "post", !.type = file.type,
                                      !.targets = {req[r].ask.device}]
                  ELSE [req[r] EXCEPT !.at = "targets", !.type = file.type])
     ELSE Refuses(r)

\* the tag asked for wins over the operator's own
MatchesByTag(ask, d) ==
  /\ IF ask.tag # None THEN tag[d] = ask.tag ELSE ask.user # Admin => tag[d] = ask.user
  /\ ask.model # None => Model[d] = ask.model
  /\ ask.ids # {} => d \in ask.ids
Matches(ask, d) ==
  /\ IF ask.user # Admin THEN tag[d] = ask.user ELSE ask.tag # None => tag[d] = ask.tag
  /\ ask.model # None => Model[d] = ask.model
  /\ ask.ids # {} => d \in ask.ids
\* history: the devices the server had then, with their tags
ResolveTargets(r) ==
  LET targets == {d \in Fleet[NbiUrl] : Matches(req[r].ask, d)} IN
  /\ req[r].at = "targets"
  /\ Goes(r, [req[r] EXCEPT !.targets = targets, !.listed = [d \in Fleet[NbiUrl] |-> tag[d]],
                            !.at = IF targets = {} THEN "done"
                                   ELSE IF req[r].ask.op = "read" THEN "sample" ELSE "post"])
\* read-bulk: the names to read, from the first device
Sample(r) == req[r].at = "sample" /\ Goes(r, [req[r] EXCEPT !.at = "post"])

Task(r, d) ==
  [acs |-> NbiUrl, device |-> d, type |-> req[r].type,
   cr |-> req[r].ask.op = "single" /\ DefaultConnectionRequest]
\* history: the file the server has when the task goes, whatever was checked
FileNow(r) == IF req[r].ask.op = "read" THEN None ELSE files[NbiUrl][req[r].ask.name]

After(next) == [next EXCEPT !.at = IF next.targets = {} THEN "done" ELSE "post"]
\* the ACS takes the task; its answer arrives, or is lost and counts as a failure
PostTask(r, d) ==
  /\ req[r].at = "post" /\ d \in req[r].targets /\ d \in Fleet[NbiUrl]
  /\ \E lost \in BOOLEAN :
       Goes(r, After([req[r] EXCEPT !.targets = @ \ {d},
                        !.sent = IF lost THEN @ ELSE @ + 1,
                        !.failed = IF lost THEN @ + 1 ELSE @,
                        !.posted = @ \cup {[task |-> Task(r, d), file |-> FileNow(r),
                                             same |-> req[r].same]}]))
PostFails(r, d) ==
  /\ req[r].at = "post" /\ d \in req[r].targets
  /\ Goes(r, After([req[r] EXCEPT !.targets = @ \ {d}, !.failed = @ + 1]))

-----------------------------------------------------------------------------
\* the ACS or the site fails where the handler does not catch it
Fails(r) ==
  req[r].at \in {"get", "body", "store", "type", "targets", "sample"} /\ Refuses(r)

\* discovery or an operator of the ACS
Retag(d, isp) == tag' = [tag EXCEPT ![d] = isp] /\ UNCHANGED <<settings, files, req, ops>>

Asked(r) ==
  \E ask \in Asks :
    \/ ask.op = "upload" /\ UploadFirmware(r, ask)
    \/ ask.op = "url" /\ UploadFirmwareUrl(r, ask)
    \/ ask.op = "single" /\ PushFirmware(r, ask)
    \/ ask.op = "push" /\ PushFirmwareBulk(r, ask)
    \/ ask.op = "read" /\ ReadStatusBulk(r, ask)
Serves(r) ==
  \/ CheckHop(r) \/ GetHop(r) \/ Block(r) \/ Closes(r) \/ Store(r) \/ StoreEmpty(r)
  \/ FileTypeOf(r) \/ ResolveTargets(r) \/ Sample(r) \/ Fails(r)
  \/ \E d \in Devices : PostTask(r, d) \/ PostFails(r, d)

Next ==
  \/ \E r \in Requests : Asked(r) \/ Serves(r)
  \/ \E body \in NewSettings : UpdateSettings(body)
  \/ \E name \in Names : DeleteFirmware(name)
  \/ \E d \in Devices, isp \in Isps : Retag(d, isp)
Spec == Init /\ [][Next]_vars

-----------------------------------------------------------------------------
(* Properties *)

\* Every variable keeps its type; a saved address is one of the allowed networks,
\* so a form refused for its address has saved nothing (update_settings).
TypeOK ==
  /\ settings.nbi # None => settings.nbi \in Acs /\ CheckAllowedUrl(settings.nbi)
  /\ settings.cr \in BOOLEAN \cup {None}
  /\ \A a \in Acs, n \in Names : files[a][n] # None => files[a][n].type \in Types
  /\ tag \in [Devices -> Isps] /\ ops \in 0..MaxOps
  /\ \A r \in Requests :
       /\ req[r].at \in {"idle", "check", "get", "body", "store", "type", "targets",
                         "sample", "post", "done"}
       /\ req[r].size \in 0..Limit /\ req[r].left \in 0..MaxRedirects
       /\ req[r].targets \subseteq Devices
       /\ req[r].sent + req[r].failed <= Cardinality(Devices)

\* A file the ACS holds has something in it, no more than the limit, all of what
\* its site declared, and came only by addresses allowed one by one: a download
\* that is cut, grows past the limit or leads elsewhere leaves no file
\* (_Spool, upload_firmware_url, _store).
FilesAreWhole ==
  \A a \in Acs, n \in Names :
    LET file == files[a][n] IN
    file # None =>
      /\ file.size \in 1..Limit
      /\ file.declared # None => file.size = file.declared
      /\ \A u \in file.hops : CheckPublicUrl(u)

\* "un ISP solo instala firmware" (system.py:130, README.md:120): what a device is
\* told to download has the type that was checked and, for an operator of an ISP, is
\* firmware, by the file the server holds and not by the label of the task.  The
\* code looks at the file in one call and names it in another, so this can fail in
\* one way, and in no other: the file was replaced or deleted, or the address of
\* the ACS changed, between the two (file_type_of, push_firmware, push_firmware_bulk).
WrongFileOnlyByRace ==
  \A r \in Requests : \A p \in req[r].posted :
    req[r].ask.op # "read" /\ p.same =>
      /\ p.file # None
      /\ p.task.type = p.file.type
      /\ req[r].ask.user # Admin => p.file.type = "firmware"

\* The devices of a list that a user may reach and a filter asks for.
Selected(ask, listed) ==
  {d \in DOMAIN listed :
     /\ ask.user # Admin => listed[d] = ask.user
     /\ ask.user = Admin /\ ask.tag # None => listed[d] = ask.tag
     /\ ask.model # None => Model[d] = ask.model
     /\ ask.ids # {} => d \in ask.ids}

\* A bulk request sends a device one task at most, without asking it to connect, and
\* only to devices its user may reach and its whole filter (tag, model, ids) selects
\* among those the server listed, however tags and server change meanwhile; what it
\* answers as sent the ACS has, and when it ends sent and failed together are all the
\* devices selected (resolve_targets, push_firmware_bulk, read_status_bulk).
BulkIsExact ==
  \A r \in Requests :
    LET ask == req[r].ask
        posted == req[r].posted
        reached == {p.task.device : p \in posted}
        selected == Selected(ask, req[r].listed)
    IN  req[r].at \in {"post", "done"} /\ ask.op \in {"push", "read"} =>
          /\ Cardinality(reached) = Cardinality(posted)
          /\ reached \subseteq selected
          /\ req[r].sent <= Cardinality(posted) /\ Cardinality(posted) <= req[r].sent + req[r].failed
          /\ req[r].at = "done" => req[r].sent + req[r].failed = Cardinality(selected)
          /\ \A p \in posted : ~p.task.cr
=============================================================================
