# A TLA+ model of genieacs-api

genieacs-api is a FastAPI service (`src/app/`) in front of the NBI of a GenieACS
server: several ISPs manage their CPEs through it, each seeing the devices that
carry its tag. It is one asyncio process with a SQLite file. Its handlers are
interleaved at their `await`s only, which is where almost everything that can go
wrong goes wrong: what a handler read before it awaited the ACS may be stale when
it writes. Two background loops run in the same event loop (auto-restore and
discovery), `manage.py` is a second process on the same file, and the ACS and the
devices answer late, twice removed, or never.

## Inventory

| Component (source) | State it keeps | Operations | Interacts with | What is hard |
|---|---|---|---|---|
| Backup and auto-restore (`routers/backup.py`) | `device_config`: the backup, the switch, `attempts`, `last_attempt`, `suspended_until` | backup, restore, switch, the loop | the ACS's cached document and task queue; the setters, which merge into the backup | rows written back after awaits; cached documents; retries, crashes between sending and recording |
| Accounts and sessions (`routers/auth.py`, `deps.py`, `security.py`) | `users` with `token_version`; tokens held by clients | login, change and reset of passwords, create, (de)activate, delete | `manage.py` on the same file | check-then-act over two transactions; revocation across delete and recreate |
| Login rate limit (`ratelimit.py`) | two dictionaries of failure times | `retry_after`, `record_failure`, `record_success` | `login` | windows at their edge; what a success clears |
| System actions (`routers/system.py`) | tags of the device, a provision and a preset in the ACS | set and clear the daily reboot; reboot, factory reset, firmware | the ACS runs the provision in the device's sessions | overlapping requests; partial failure; time of day |
| Discovery (`discovery.py`, `routers/discovery.py`) | `owner_rule`, the mode, tags of devices | the loop, rules, mode, assign | the ACS; the tags of the daily reboot | lists and rules stale when used; ties |
| Configuration setters (`routers/config.py`) | none of its own | WiFi, LAN, WAN, DNS, time, IPv6, access | NBI, backup, tree profile | values decided on a part of the tree, or on a copy that is old when the task runs; a setter that does not merge |
| Devices and diagnostics (`routers/devices.py`) | labels | status, parameters, read, refresh, ping, traceroute | NBI, backup, catalogue | results cached from the previous run; one object for all the tests of a device |
| Model trees and catalogue (`routers/trees.py`, `catalog.py`, `routers/profiles.py`) | `model_tree`, `model_tree_device`, `model_profile` | learn, forget, import, export, correct by hand | devices, homologation | unions, order of imports, lost updates |
| Tree profile, parameter map (`treeprofile.py`, `parammap.py`) | none | pure functions over a document | devices, setters, catalogue | a document is the part of the tree the ACS knows; instances and precedence |
| Firmware and mass push (`routers/firmware.py`, `bulk.py`, `netguard.py`) | files in the ACS | upload, download by URL, push | NBI, settings, outgoing sites | partial failure and lost answers, limits, redirects, files and servers that change between two calls |
| Homologation (`llm.py`, `routers/homologacion.py`) | `ia_evento` | propose, confirm | an external model; the catalogue | a proposal confirmed later |
| Settings (`routers/settings.py`, `runtime.py`) | `settings` | change of ACS, of AI provider | every NBI call reads it | a change while a handler awaits |
| Provisioning (`dhcp_tr069.py`) | none | generates a script | - | - |
| Middleware (`main.py`) | `audit_log` | one line per change | all routers | - |
| Panel (`static/app.js`) | the current device, the forms | a browser client | the API | answers that arrive for another device |

For each, what makes it correct: the retry policy is bounded and gives up in
time, a backup is never older than the changes it received; a revoked session
stays revoked and no other is closed; the budget of failures holds in any window;
a device reboots once a day at its hour; a device gets the owner its address
calls for, and one owner; a model's tree only grows and does not depend on the
order it was learnt in; a diagnostic answers with its own results;
a WAN change keeps the device within reach and is whole; a file in the ACS is
whole, and an ISP installs firmware only.
`PROJECT.json` lists every component with what is and is not modelled, and every
hazard at its line.

## Modules

| Module | Models | Checked by | Proved in |
|---|---|---|---|
| `AutoRestore` | one device: its ACS document and task queue, the backup row, the loop, requests | `autorestore_*` | `AutoRestoreProofs` |
| `SessionPromise` | what the instance promises of a session (abstract) | as a property of `sessions` | - |
| `Sessions` | users, tokens, handlers, the command line; implements `SessionPromise` | `sessions` | `SessionsProofs` |
| `RateLimit` | both windows and every outcome of a login | `rate_limit` | `RateLimitProofs` |
| `ScheduledReboot` | the handlers, the provision, the clock of one device | `scheduled_reboot*` | `ScheduledRebootProofs` |
| `Discovery` | the loop, rules, mode, requests and tags | `discovery` | `DiscoveryProofs` |
| `Catalogue` | what each installation knows of each model, and the files between installations | `catalogue` | `CatalogueProofs` |
| `TreeProfile` | what is deduced from a document: roots, coverage, profile, effective parameters, capabilities (constant level) | through `device_sheet`, `half_tree` | through `DeviceSheetProofs` |
| `WanTree` | the WAN in a document: the list, the values of a change, the guards (constant level); extends `TreeProfile` | through `device_sheet` | through `DeviceSheetProofs` |
| `DeviceSheet` | one device, its ACS document and tasks, and the requests that write to it: those that decide on the document, a parameter by its path, a restore, a pass of the loop; extends `WanTree` | `device_sheet`, `half_tree` | `DeviceSheetProofs` |
| `Firmware` | the files of the ACS, uploads, downloads, pushes and bulk reads, the URL guard, the settings | `firmware` | `FirmwareProofs` |

The `MC...` modules hold the constants of the instances. `Sessions` takes the
password as checked, and `RateLimit` says what a wrong one costs; `Discovery`
knows the tags of `ScheduledReboot` as `PanelTags`. `AutoRestore` and
`DeviceSheet` look at the same device and queue from two sides: the first abstracts
which paths a request writes and follows the backup and when the loop tries, the
second computes the paths and follows what the device ends up with. There a backup
is written by the merges only (`make_backup`, which writes nothing to the device, is
in the first), there may be one from before (`Backups`), and the loop may try
whenever it comes, which is more than its policy allows. `PROJECT.json` maps every
definition to the lines it stands for.

### How an await is modelled

A handler of the service is cut where it awaits the ACS: an action runs from the
answer of one call to the request of the next, and what the handler keeps across
the await is in a record (`req[r]`, `loop`, `work`), exactly the local variables
the code reads afterwards. A call that fails, and a restart of the service, end
the handler there. Handlers that await nothing (login, the accounts) are one
action for the service, and are cut only where the command line, another process,
could come between two transactions and be noticed.

### AutoRestore

`doc` is the document the ACS has cached, `pending` the tasks it has accepted and
the device has not run, `device` the parameters as the device has them; `Inform`
is a session that runs the tasks and refreshes the document. `row` is the
`device_config` row; the loop's copy of it, taken by `ListRows`, is what
`Suspend`, `InSync`, `RecordAttempt` and `PassFails` write back. Write-only
parameters read as blank (`Reported`), a `Stubborn` one takes a value and does not
keep it. `last_attempt` and the pause are abstracted to what the code's
comparisons tell apart: whether the device has informed since the attempt, and
whether the pause is over.

### SessionPromise and Sessions

A token is the triple (`sub`, `uid`, `ver`) `create_token` signs. `Accepted` is
`current_user`. The refinement maps `open` to the tokens handed out, unexpired and
accepted, and `closed` to those a change of their account has ended: a change
closes every open session of the account at once, a closed session never opens
again, and nothing else closes one. A login overtaken by `manage.py disable`
receives a token that is already closed (`OpenTooLate`).

### RateLimit

Time counts in units finer than a second (`Second` per second), as
`time.monotonic()` does, so that the truncation in Retry-After is not vacuous. An
empty queue and an absent key are one state: no branch tells them apart.

### ScheduledReboot

The day is cut into slots, one per HH:MM. The Reboot value the ACS keeps is the
slot it was declared with and whether that was today, which is all that
`declare("Reboot", ..., {value: scheduled})` compares: the provision's date is
always today's. Of several reboot tags the one that counts depends on the ACS's
order and is left open.

### Discovery

An address is a number of `AddressBits` bits and a network the first `len` of
them, so `isp_para`'s most-specific-prefix rule and its ties are computed, not
assumed. The loop's `todo` is the list `escanear` returned, stale from then on.

### Catalogue

`cat[i][k]` is what installation `i` keeps of model `k` in three tables: the union
of the trees (`paths`, `root`, `n_params`), the devices that contributed (`seen`)
and the profile with its corrections. `recordar` commits the profile and then the
tree: `OpenDevice` does both, `OpenDeviceDies` is the crash between them. `importar`
awaits nothing but commits after every write, so it is one action per commit
(`JoinTree`, `SeedProfile`, `FillConcept`, `NextEntry`) under the state kept in
`importing[i]`, and `Restart` may cut it anywhere. `merge_model_tree`, the seeding
of a profile and the filling of free concepts are operators (`Merged`, `Seeded`,
`Filled`), of which `Imported` composes a whole import for the properties that
compare imports. A profile's evidence is the device it was deduced from: nothing
else of it identifies a fleet. `local`, `reads` and `damaged` are history that only
properties read.

An entry whose `overrides` is not an object raises and ends the import
(`ImportRaises`), with what came before it committed. That is less than what the
README of the service promises of bad entries ("cada entrada se juzga sola"), whose
list does not name that case; `OrderIsIrrelevant` and `RetryCompletes` hold with it.

### TreeProfile and WanTree

A document is a function from the paths the ACS knows to their values, so a tree
that has been told in part is a function with a smaller domain, and every "the
device exposes it" of the code is a test of `DOMAIN doc`. A path is `<<object,
instance, leaf>>`; an address is a number, a /24 is `BlockSize` of them, a mask the
size of its network. Text sorts by its characters (`FirstAsText`: relay 10 comes
before relay 2 in `_dns_activo`). Where the code takes the first path in the order of the
document (`_ruta_de_la_interfaz`, `active_wan_prefix`, the fallback of
`_active_wan`), the operators return the set of those that may come first.
`TreeProfile` states `:>` and `@@` itself, since the prover cannot expand those of
`TLC`. `RootOf` and `PickMap` are apart because the code looks for the roots in a
different order in `root_of` and `pick_map`. `WanWrites` is `wan_write_values` with
its refusals; `StaticValues` writes the gateway without asking whether the document
has it and everything else only if it does (`poner`), as the code.

### DeviceSheet

`device` is the tree the CPE has, `doc` the part of it the ACS has cached. A
session reports a part (`Report`) or runs a queued task (`RunQueued`); the device
may change by itself (`ChangesByItself`: failover, a new lease). A request is at an
await: `read` (TR-181, one read for guard and values), `prefix` and `address`
(TR-098, two reads), `interface`, `drift` (the loop's read of the copy), `send`,
`merge`, and `poll`, `check`, `results` for a diagnostic. `SetParam`, `RestoreNow`
and `EnforceDevice` write what a path, the backup, or its difference from the copy
says, without a look at what belongs together; a task of the loop asks for no
connection and always waits for a session. `SendRuns`, `SendQueues` and `AcsFails` are the three outcomes of
`_post_task`, and in the first two the answer may be lost. A task with a path the
device lacks fails as a whole. `last`, `task.seen`, `task.shown` and `alone` are
history: what the handler saw when it decided, for the properties to compare with
what the device had when the task ran. Every form is `SubmitForm` with its own
fields; the map has no `hidden` for TR-181, so the WiFi form shows a concept that is
ignored.

### Firmware

`settings` are the rows `nbi_url` and `default_connection_request`; every call
reads the address again, so `files` and `Fleet` are by server. A download goes from
`check` to `get` for each redirect and then block by block; sizes count blocks. A
push reads the type, looks up its targets and posts one task after another; an
answer that is lost counts as a failure although the ACS has the task
(`PostTask`). `posted`, `listed` and `same` are history: each task with the file the
server held when it went, the devices and tags the server listed, and whether file
and server are still those whose type was read. A name that resolves otherwise between the check and the request is
left out: `Resolves` is constant.

## Runs

| Run | Shows | Instance and bounds |
|---|---|---|
| `autorestore_safety` | the retry policy and the write-only values survive every interleaving | a readable and a write-only parameter, 2 requests of every kind, 2 attempts, 4 operations, 1 fault |
| `autorestore_live` | the device converges to its backup although one parameter is never kept | 1 request, 1 attempt, 3 operations, 1 fault, fairness |
| `autorestore_stale` (violation) | a backup made while a change is still queued stores the value from before it, one request after another | 1 request, 3 operations |
| `sessions` | revocation, no other closing, the last admin, refinement of `SessionPromise` | 2 names, 3 accounts ever, 4 changes |
| `rate_limit` | the budgets and Retry-After | 2 addresses, 3 spellings of 2 accounts, limits 2 and 3, windows of 1 s and 2 s in half seconds, 7 ticks, 4 attempts |
| `scheduled_reboot` | once a day, sets take effect, fires every day | 2 requests, 3 slots, 3 operations, 1 fault, fairness |
| `scheduled_reboot_early` (violation) | an hour already past today reboots at once | 1 request, 1 operation |
| `discovery` | no rival, a second owner only by a race with a request, covered devices get an owner | 2 devices, 2 ISPs, 3 networks, 2 addresses, 6 operations, 1 fault, fairness |
| `catalogue` | local knowledge wins, trees grow, no fleet leaves in a file, "complete" is true, imports can be moved, cut, repeated and reordered | 2 installations of disjoint fleets (2 and 1 devices), 2 models, 2 paths, 3 documents, 2 concepts, 5 requests or edits of files, 1 crash or damaged row |
| `device_sheet` | a WAN change goes to the WAN the panel shows, keeps the device in its network and is whole until its paths are written one by one; a diagnostic has its own results; every request is answered | 3 devices (TR-181 with two WANs, TR-181 whose WAN has no address, TR-098 with two IP connections and a PPP one), trees told in 2 steps after the first, a backup left by an earlier change, 2 overlapping requests out of 12 (two static addresses, one with a DNS server, DHCP, PPPoE, IPv6, the forms of the WiFi and the LAN, two tests, a parameter by its path, a restore, a pass of the loop), 1 failover, 2 polls, fairness |
| `half_tree` (violation) | a device that has told its routes and radios is taken as known in full | the first device, object by object, no requests |
| `firmware` | files are whole, another file than the one checked goes out only by a race, bulk requests reach what their whole filter selects | 2 servers that share a device, 2 devices of different models, 2 ISPs, a stored configuration, 1 name, pushes by all, by tag and by model, reads by an ISP and by a list of devices, 6 addresses (direct, redirected, redirected to a private one, for ever, without a length), limit 2 blocks, 1 redirect, 2 requests |

Why the bounds are enough: a stale write needs one reader and one writer; two
requests beside a loop give every pair and the triples with the loop. Four
operations are enough for enable, disable, enable again during one pass; three
accounts under two names for delete and recreate under the same name while another
admin exists. The windows are shorter than the clock's range, so failures leave
them; a limit is reached and passed. Three slots are the smallest day with an hour
before, at and after another. Two narrow rival networks in a wide one give a win
by length, a tie, and no match. Five requests are enough to learn, export, edit,
import, and do one thing more at the other installation; a file with two models has
an entry before and after the one at which an import is cut. Two requests on one
device give every pair of reader and writer of its document, and a failover or a
report may fall between any two of their awaits; a network of four addresses has a
gateway, two hosts and a neighbour; two polls are one that goes on and one that
gives up. A limit of two blocks is met and passed by one, one redirect is followed
and a second one refused; two servers that share one device tell the tasks of one
from those of the other. Bounds are in guards (`MaxOps`, `MaxFaults`,
`MaxChanges`, `MaxTime`...), never state constraints, so liveness is checked over
complete behaviours. `sessions`, `rate_limit` and `catalogue` are run with deadlock
checking off because their bounds stop them (no change, time or request left); the
others never stop.

### Fairness

Weak fairness of the loops' own steps (`enforce_loop` and `bucle` are
`while True` around a sleep and a `try` that catches everything; the service unit
restarts a dead process), of a request already accepted (the event loop runs it;
the NBI client has a timeout), of the device's sessions (periodic inform) and of
time. In `DeviceSheet` it is weak fairness of each request's next step, a failure
of the ACS included (`FairSpec`: the event loop resumes a handler whose call has
ended, and every call ends by the client's timeout); neither the device nor the ACS
is obliged to anything, since `EveryRequestAnswered` must not depend on them. Nothing obliges a user, a failure or a restart. `RebootsEveryDay` also
assumes a session in every slot (`EverySlot`): without it a schedule shortly before
midnight never fires on a device that does not inform before midnight, because the
provision compares with the hour of *today* only. It assumes `KnowsTime` as well:
the provision reads the clock of TR-098 devices only.

## Disagreements between the code and its documents

Three, each a violation run whose property states the quoted sentence:
`BackupNeverStale`, `NotBeforeItsTime` and `NeverNoOnHalfATree`; `PROJECT.json`
quotes the lines. What the code does keep is in passing properties: `WriteOnlyKept`,
and `SetTakesEffect` with `RebootsEveryDay`.

Four more were met while modelling, and have no run of their own. For each a
passing property states what holds in their presence:

- A pass of the loop writes the attempts of the row it read before its awaits back
  over a switch off and on meanwhile (backup.py:217-227), although db.py:214 says
  "re-activar = empezar de cero". `RetriesBounded` holds with it.
- A device that informs between the start of a pass and its task has, to the next
  pass, answered an attempt it never saw, because the time of the attempt is taken
  before the awaits (backup.py:194) and stored after them; README.md:130 says that no
  second task is queued until the device has reported. The same happens when the
  service stops, or the reply is lost, after the ACS has taken the task and before the
  attempt is recorded (backup.py:226-241). `SecondTaskOnlyByRace` says that a second
  task joins one the device has not run in these two ways and in no other.
- The loop of discovery gives a second owner to a device a request has assigned
  after its list was made (discovery.py:128); tests/test_descubrimiento.py:97 says that
  such a device is left alone. `SecondOwnerOnlyByRace` says it happens in no other way.
- "un ISP solo instala firmware" (system.py:130, README.md:120): the type of the file is
  looked at in one call (system.py:127) and the file is named in another
  (system.py:133). A file replaced in between by a provider's configuration goes to
  the device of an ISP with the label of a firmware; so does, in a mass push, a file
  whose label is no longer right. `WrongFileOnlyByRace` compares each task with the
  file the server holds when it goes, and says this happens only if the file was
  replaced or deleted, or the address of the ACS changed, between the two calls.

The properties of `DeviceSheet` have preconditions that name where the code
promises less than one may expect, and each of them fails without its own
(that on the interface number, on a device the instance does not have). On a
document that has interfaces and no pool, the only address outside the unknown LAN
is that of the LAN, and `wan_write_values` writes to it (`ChangeGoesToTheWan`). With
a tree cut before the masks, a static change writes mode and gateway and leaves the
mask of before (`NoHalfStatic`). The form of the LAN writes to interface 1 of a
TR-181 device, whichever it is, so the property leaves out a WAN that is interface 1
(`set_ip`, `parammap.py`). A parameter of the connection or a route written by its
path, restored from the backup or put back by the loop ends what `NoHalfStatic`
promises of the change before (`ByPath`, `Reaches`): it writes what it is given, so a
backup of before may leave its address with the mask and gateway of the change. On TR-098 the guard of a static change compares
the address of a PPP connection that is up, or one borrowed from another
connection, with a change to an IP connection (`LinkKept`). A second diagnostic
answers for the first (`OwnResults`).

## Proofs

For every value of the constants, from the assumptions the modules name:

- `AutoRestoreProofs`: type correctness, `RetriesBounded`, `OffStopsTheLoop`,
  `SecondTaskOnlyByRace`, `WriteOnlyKept`. The invariant `IInv` adds to the
  types what each stage of the loop may hold: the count in the loop's copy of the
  row is never behind the row's, and every task since the last reset is on record,
  in flight, or lost by a fault (`Accounted`); its `last_attempt` is the row's
  (`AttemptCopied`); and while the switch is off a task leaves only from a pass
  listed before (`OffCounted`). Without them nothing bounds what `RecordAttempt`
  writes, since it does not look at the row again. `SecondTaskOnlyByRace` needs one
  more, `HeldOnRecord`: a task the ACS holds is on record as unanswered, or in the
  pass whose reply is on its way, unless it has slipped.
- `SessionsProofs`: type correctness, `RevokedStaysRevoked`, `OthersStayOpen`,
  `ServiceKeepsAnAdmin`, and `PromiseKept`, the refinement of `SessionPromise`.
  The invariant says that no token is ahead of its account: identifiers are below
  `nextId`, and under one identifier a token's version never exceeds the row's
  (`TokensNotAhead`); and what a handler may still hold (`CallerKnown`): its
  caller's row is the current one unless the command line has disabled that account
  since. `RevokedStaysRevoked` is not inductive without the first (a later version,
  or a recreated account, could catch up with an old token), nor `OthersStayOpen`
  without the second (a login would sign a stale row).

- `CatalogueProofs`: type correctness, `LocalKnowledgeWins`, `FleetStaysHome`,
  `TreeOnlyGrows`, `CompleteIsTrue`, `RoundTrip`, `RetryCompletes`,
  `OrderIsIrrelevant`. The invariant adds `FreeOpen` to the types: a concept an
  import has still to fill is free in the row. `FillConcept` writes without looking
  again (`locales` is read once, before the loop), so `LocalKnowledgeWins` is not
  inductive without it; it holds because no other request of the installation runs
  during an import. Two more invariants rest on it. `Sound` says that the columns of
  a row agree: `n_params` is the count of its tree, a device's count is that of its
  last read, and that read is in the tree unless a row was damaged
  (`ColumnsAgree`). With it a tree listed as whole is all in one device, and an
  export imported where nothing is known is the same row. `Progress` says that an
  import under way has its earlier entries behind it for good, none of which raised,
  and of the entry it is at has written exactly what its stage says (`DoneIsDone`):
  importing the file again then does what is left and nothing else, which is
  `RetryCompletes` at any cut. `OrderIsIrrelevant` needs the types and an algebra of
  entries: importing two entries that agree gives the same row in both orders, and
  where an entry raises is decided by its file alone, so each file brings the same
  models whichever comes first (`EntriesCommute`). That a path has three values and a document a root are all the
  proofs use of the data.
- `DiscoveryProofs`: type correctness, `NeverARival`, `SecondOwnerOnlyByRace`. The
  invariant adds that the rules are finitely many, without which there need be no
  most specific one, and `FreeWhenListed`: a device on the list that has an owner by
  now got it from a request since the list was made. That is what makes the race the
  only way to a second owner. What `isp_para` returns is a lemma for every address
  plan (`IspForHolds`).
- `ScheduledRebootProofs`: `OnceADay`, `SetTakesEffect`, whatever the number of
  slots. On a day nobody touches, what the ACS remembers of the last reboot is the
  slot of a tag that is still there and today's (`RebootWasForATag`), so the
  provision asks for no other; and a request that nobody overlaps knows at each
  await the tags the device carries (`KnowsTheTags`), the only ones left when it ends.
- `RateLimitProofs`: type correctness, `IpBudget`, `AccountBudget`,
  `RetryAfterExact`, for every limit, window and length of the clock. The budgets
  speak of all the failures there have been, the code keeps a queue from which it
  drops: the invariant (`IpsKept`, `UsersKept`) is that each failure still in its
  window has a place of its own in the queue, which is never longer than the limit.
  What `_purge` drops is stated by its length (`Dropped`, a prefix out of the
  window), so that the argument needs no induction.
- `FirmwareProofs`: type correctness, `FilesAreWhole`, `WrongFileOnlyByRace`,
  `BulkIsExact`. The invariant is what each stage of a request may hold: of a
  download, hops that passed the guard and no more than its site sends
  (`Downloading`); of a push, the type an ISP may push (`Checked`) and that the file
  still has it where nothing disturbed file or server (`Fresh`); of a bulk request,
  that the devices left are some of those its whole filter selects in what the server
  listed (`Targeting`), that devices served and devices left are apart, one task each,
  and that the two counts of the answer cover them (`Counting`). What is said of every
  task sent is kept with it (`Telling`), whatever files and tags become. A task whose answer is lost is counted as
  failed although the ACS has it, so the counts are bounds on the tasks, not equal
  to them.
- `DeviceSheetProofs`: type correctness (the document of the ACS holds no path the
  device lacks, for every document, form and report), `LinkKept`, `NoHalfStatic`,
  `OwnResults`, and the TR-098 half of `ChangeGoesToTheWan`. The invariant follows a change through its awaits and the queue: from `send` on, a
  static change has been compared with the address in what its handler saw
  (`Linked`), and every task writes a diagnostic whole or not at all (`Sendable`).
  Of a diagnostic nobody disturbs it says what device and copy may hold, both the
  order or the results for its own host, and never a copy ahead of the device
  (`Own`). `OwnResults` fails without the last, since the handler reads state and
  results in two calls. For `NoHalfStatic` every task on its way is a change
  of the WAN, which writes all of its connection and turns no route away, or writes
  path by path (`ByPath`), and then either ends the history or reaches neither the
  connection nor a route, or writes none of the paths of a WAN (`Fits`, `OfTheWan`),
  which for the forms is a fact of the maps (`MappedMild`); so what a change has
  written stays (`Stands`).

The assumptions on constants are of two kinds. Bounds are numbers, and identifiers
of different kinds differ; these say nothing of the code. The others are facts of
the environment the proofs need: a site sends no more than it declares (httpx ends
the body there), and the files that were in the ACS came in as those that come in
now (`SiteAssumption`, `StoredAssumption`); a tree that has told the state of a
diagnostic has told its results with it, and the device by itself does not touch
them (`DiagnosticsAssumption`); no form has a field for the mode, address, mask or
gateway of the WAN, only for its DNS (`FormsAssumption`); there are devices, finitely many
(`DevicesAssumption`). TLC evaluates each of them on the instance of the run.

Each module is laid out the same way: a lemma per group of actions, one lemma for
the step, the invariant, and a short theorem per property. Model checking only:
the TR-181 half of `ChangeGoesToTheWan`, which is about the devices: it is false of
one whose default route or maker's mark points to its LAN, which no line of the code
rules out; and by nature everything under fairness (`Converges`, `RebootsEveryDay`,
`CoveredGetsOwner`, `EveryRequestAnswered`), liveness and ENABLED being beyond the
prover, as is anything defined by induction over data.

## What is not modelled

- HTTP, URL encoding, wording and logging; the hash and the signature (taken to be
  sound); the audit log; the language-model client, the DHCP script generator, the
  installer.
- Blanks around a key of the catalogue, which `importar` strips and `clave` keeps.
- That a damaged tree rebuilt from one reading keeps the counts of the devices read
  before, and so may be shown as complete (`CompleteIsTrue` excludes it until it is
  forgotten).
- Of the devices: traceroute (the protocol of ping with another object), labels,
  hosts and the wording of the status; of the forms, the concepts no property speaks
  of (time, remote access, the administrator's account) and the MTU.
- A name that resolves otherwise between the check and the request; the settings of
  the language model and the timeout.
- The panel: its answers for a device no longer shown are a hazard without a
  property.

GenieACS, the devices, the clock and the service manager are environment, modelled
from how the code uses them and marked external.

## Plan

1. For the TR-181 half of `ChangeGoesToTheWan`, an assumption on devices (the
   default route and the marks are outside the LAN) and a proof from it that the
   interface `WanOf` finds in any part of a tree is one `Wans` lists as active.
2. `Panel`: the current device and the answers under way; a form is saved to the
   device it was filled from.
3. Read-bulk with the names it asks for, so that the tasks for paths of the other
   data model become visible.
