--------------------------- MODULE FirmwareProofs ---------------------------
(***************************************************************************)
(* Proofs about Firmware, for any number of servers, devices, files, sites *)
(* and requests.  A request acts on what it has learnt at its earlier      *)
(* awaits; the inductive invariant is what each stage of it may rely on:   *)
(* of the download, of the type read for a push, of the devices looked up  *)
(* and of the tasks sent so far.                                           *)
(***************************************************************************)
EXTENDS Firmware, FiniteSetTheorems, TLAPS

Stages == {"idle", "check", "get", "body", "store", "type", "targets", "sample", "post", "done"}
FileRecords == [type: Types, size: 1..Limit, declared: {None} \cup Nat, hops: SUBSET Urls]
TaskRecords == [acs: Acs, device: Devices, type: Types \cup {None}, cr: BOOLEAN]
PostedRecords == [task: TaskRecords, file: FileRecords \cup {None}, same: BOOLEAN]
RequestRecords ==
  [at: Stages, ask: Asks \cup {None}, url: Urls \cup {None}, size: 0..Limit,
   declared: {None} \cup Nat, hops: SUBSET Urls, left: 0..MaxRedirects,
   type: Types \cup {None}, targets: SUBSET Devices, sent: Nat, failed: Nat,
   posted: SUBSET PostedRecords,
   listed: {None} \cup UNION {[known -> Isps] : known \in SUBSET Devices}, same: BOOLEAN]

(* Every variable but the requests has its type.                           *)
WorldType ==
  /\ settings \in [nbi: Acs \cup {None}, cr: {None} \cup BOOLEAN]
  /\ settings.nbi # None => CheckAllowedUrl(settings.nbi)
  /\ files \in [Acs -> [Names -> FileRecords \cup {None}]]
  /\ tag \in [Devices -> Isps]
  /\ ops \in 0..MaxOps

(* What a request was asked for at each stage.                             *)
Asking(q) ==
  /\ q.at # "idle" => q.ask \in Asks
  /\ q.at \in {"check", "get", "body"} => q.ask.op = "url" /\ q.url \in Urls
  /\ q.at = "store" => q.ask.op \in {"upload", "url"}
  /\ q.at = "type" => q.ask.op \in {"single", "push"}
  /\ q.at = "targets" => q.ask.op \in {"push", "read"}
  /\ q.at = "sample" => q.ask.op = "read"

(* A download has passed only by addresses looked at, has no more than the *)
(* site sends, and when it is to be stored it is what the site declared.   *)
Downloading(q) ==
  /\ \A u \in q.hops : CheckPublicUrl(u)
  /\ q.at \in {"check", "get"} => q.size = 0
  /\ q.at = "body" => /\ Site[q.url].kind = "body" /\ q.size <= Site[q.url].blocks
                      /\ q.declared = Site[q.url].declared
  /\ q.at = "store" /\ q.declared # None => q.size = q.declared

(* A user of an ISP has had the type of its file checked.                  *)
Checked(q) ==
  q.at \in {"targets", "post"} /\ q.ask.op # "read" /\ q.ask.user # Admin => q.type = "firmware"

(* The devices still to be served are some of those selected, and with the *)
(* two counts they make up all of them.                                    *)
Targeting(q) ==
  q.at \in {"sample", "post", "done"} /\ q.ask.op \in {"push", "read"} =>
    LET selected == Selected(q.ask, q.listed) IN
    /\ q.targets \subseteq selected
    /\ selected \subseteq Devices
    /\ q.sent + q.failed + Cardinality(q.targets) = Cardinality(selected)

(* The tasks sent are one per device, of those no longer to be served, and *)
(* the two counts of the answer cover them.                                *)
Counting(q) ==
  /\ IsFiniteSet(q.posted)
  /\ q.sent <= Cardinality(q.posted) /\ Cardinality(q.posted) <= q.sent + q.failed
  /\ q.sent + q.failed + Cardinality(q.targets) <= Cardinality(Devices)
  /\ \A p \in q.posted : p.task.device \notin q.targets
  /\ \A p, s \in q.posted : p.task.device = s.task.device => p = s
  /\ q.at \notin {"post", "done"} => q.posted = {} /\ q.sent = 0 /\ q.failed = 0
  /\ q.at \notin {"sample", "post"} => q.targets = {}

(* What is told of every task sent.                                        *)
Telling(q) ==
  \A p \in q.posted :
    /\ q.ask.op # "read" /\ p.same =>
         /\ p.file # None /\ p.task.type = p.file.type
         /\ q.ask.user # Admin => p.file.type = "firmware"
    /\ q.ask.op \in {"push", "read"} => ~p.task.cr /\ p.task.device \in Selected(q.ask, q.listed)

(* All that is said of a request without looking at the rest.              *)
Good(q) ==
  /\ q \in RequestRecords /\ Asking(q) /\ Downloading(q) /\ Checked(q)
  /\ Targeting(q) /\ Counting(q) /\ Telling(q)

(* What a push read of its file still holds where nothing disturbed it.    *)
Fresh(q) ==
  q.at \in {"targets", "post"} /\ q.ask.op # "read" /\ q.same =>
    LET file == files[NbiUrl][q.ask.name] IN file # None /\ file.type = q.type

IInv ==
  /\ WorldType /\ FilesAreWhole
  /\ req \in [Requests -> RequestRecords]
  /\ \A r \in Requests : Good(req[r]) /\ Fresh(req[r])

-----------------------------------------------------------------------------
(* Requests, looked at alone.                                              *)

(* A request that is not under way.                                        *)
LEMMA IdleFields ==
  /\ Idle \in RequestRecords
  /\ Idle.at = "idle" /\ Idle.hops = {} /\ Idle.size = 0 /\ Idle.posted = {}
  /\ Idle.declared = None /\ Idle.sent = 0 /\ Idle.failed = 0 /\ Idle.targets = {}
<1>1. TRUE \in BOOLEAN /\ 0 \in 0..Limit /\ 0 \in 0..MaxRedirects /\ 0 \in Nat
  BY LimitAssumption
<1>. QED
  BY <1>1 DEF Idle, RequestRecords, Stages

(* As long as no device is chosen and no task sent there is nothing to     *)
(* count.                                                                  *)
LEMMA NothingSent ==
  ASSUME NEW q, q.posted = {}, q.targets = {}, q.sent = 0, q.failed = 0,
         q.at \notin {"sample", "post", "done"}
  PROVE  Targeting(q) /\ Counting(q) /\ Telling(q)
<1>1. Cardinality({}) = 0 /\ IsFiniteSet({}) /\ Cardinality(Devices) \in Nat
  BY FS_EmptySet, DevicesAssumption, FS_CardinalityType
<1>. QED
  BY <1>1 DEF Targeting, Counting, Telling

(* A handler that has ended.                                               *)
LEMMA IdleGood == Good(Idle)
BY IdleFields, NothingSent DEF Good, Asking, Downloading, Checked

(* The four ways a request begins.                                         *)
LEMMA BegunGood ==
  ASSUME NEW ask \in Asks, NEW at \in {"type", "targets"},
         at = "type" => ask.op \in {"single", "push"},
         at = "targets" => ask.op = "read"
  PROVE  Good([Idle EXCEPT !.at = at, !.ask = ask])
<1>. DEFINE n == [Idle EXCEPT !.at = at, !.ask = ask]
<1>1. n \in RequestRecords
  BY IdleFields DEF RequestRecords, Stages
<1>2. /\ n.at = at /\ n.ask = ask /\ n.hops = {} /\ n.posted = {} /\ n.targets = {}
      /\ n.sent = 0 /\ n.failed = 0
  BY IdleFields DEF RequestRecords
<1>. HIDE DEF n
<1>3. Asking(n) /\ Downloading(n) /\ Checked(n)
  BY <1>2 DEF Asking, Downloading, Checked
<1>4. Good(n)
  BY <1>1, <1>2, <1>3, NothingSent DEF Good
<1>. QED
  BY <1>4 DEF n

(* A file of a form, within the limit, is ready to be stored.              *)
LEMMA UploadGood ==
  ASSUME NEW ask \in Asks, ask.op = "upload", Fits(ask.size)
  PROVE  Good([Idle EXCEPT !.at = "store", !.ask = ask, !.size = ask.size])
<1>. DEFINE n == [Idle EXCEPT !.at = "store", !.ask = ask, !.size = ask.size]
<1>1. ask.size \in 0..Limit
  BY AsksAssumption, LimitAssumption DEF Fits
<1>2. n \in RequestRecords
  BY <1>1, IdleFields DEF RequestRecords, Stages
<1>3. /\ n.at = "store" /\ n.ask = ask /\ n.hops = {} /\ n.posted = {} /\ n.targets = {}
      /\ n.sent = 0 /\ n.failed = 0 /\ n.declared = None
  BY IdleFields DEF RequestRecords
<1>. HIDE DEF n
<1>4. Asking(n) /\ Downloading(n) /\ Checked(n)
  BY <1>3 DEF Asking, Downloading, Checked
<1>5. Good(n)
  BY <1>2, <1>3, <1>4, NothingSent DEF Good
<1>. QED
  BY <1>5 DEF n

(* A download begins with a URL to be checked.                             *)
LEMMA UploadUrlGood ==
  ASSUME NEW ask \in Asks, ask.op = "url"
  PROVE  Good([Idle EXCEPT !.at = "check", !.ask = ask, !.url = ask.url, !.left = MaxRedirects])
<1>. DEFINE n == [Idle EXCEPT !.at = "check", !.ask = ask, !.url = ask.url, !.left = MaxRedirects]
<1>1. ask.url \in Urls /\ MaxRedirects \in 0..MaxRedirects
  BY AsksAssumption, LimitAssumption
<1>2. n \in RequestRecords
  BY <1>1, IdleFields DEF RequestRecords, Stages
<1>3. /\ n.at = "check" /\ n.ask = ask /\ n.hops = {} /\ n.posted = {} /\ n.targets = {}
      /\ n.sent = 0 /\ n.failed = 0 /\ n.url = ask.url /\ n.size = 0
  BY IdleFields DEF RequestRecords
<1>. HIDE DEF n
<1>4. Asking(n) /\ Downloading(n) /\ Checked(n)
  BY <1>1, <1>3 DEF Asking, Downloading, Checked
<1>5. Good(n)
  BY <1>2, <1>3, <1>4, NothingSent DEF Good
<1>. QED
  BY <1>5 DEF n

(* A download that goes on keeps what it has.                              *)
LEMMA StillNothingSent ==
  ASSUME NEW q, Good(q), q.at \in {"check", "get", "body", "type"}
  PROVE  q.posted = {} /\ q.targets = {} /\ q.sent = 0 /\ q.failed = 0
BY DEF Good, Counting

(* A URL that passed the check joins the hops.                             *)
LEMMA HopGood ==
  ASSUME NEW q, Good(q), q.at = "check", CheckPublicUrl(q.url)
  PROVE  Good([q EXCEPT !.at = "get", !.hops = @ \cup {q.url}])
<1>. DEFINE n == [q EXCEPT !.at = "get", !.hops = q.hops \cup {q.url}]
<1>0. q \in RequestRecords /\ q.url \in Urls /\ q.hops \in SUBSET Urls
  BY DEF Good, Asking, RequestRecords
<1>1. n \in RequestRecords
  BY <1>0 DEF RequestRecords, Stages
<1>2. /\ n.at = "get" /\ n.hops = q.hops \cup {q.url} /\ n.ask = q.ask /\ n.url = q.url
      /\ n.size = q.size /\ n.posted = q.posted /\ n.targets = q.targets
      /\ n.sent = q.sent /\ n.failed = q.failed
  BY <1>0 DEF RequestRecords
<1>3. n = [q EXCEPT !.at = "get", !.hops = @ \cup {q.url}]
  BY <1>0 DEF RequestRecords
<1>. HIDE DEF n
<1>4. Asking(n) /\ Downloading(n) /\ Checked(n)
  BY <1>2 DEF Good, Asking, Downloading, Checked
<1>5. Targeting(n) /\ Counting(n) /\ Telling(n)
  BY <1>2, StillNothingSent, NothingSent
<1>. QED
  BY <1>1, <1>3, <1>4, <1>5 DEF Good

(* A redirect is checked like the first URL.                               *)
LEMMA RedirectGood ==
  ASSUME NEW q, Good(q), q.at = "get", NEW to \in Urls, q.left > 0
  PROVE  Good([q EXCEPT !.at = "check", !.url = to, !.left = @ - 1])
<1>. DEFINE n == [q EXCEPT !.at = "check", !.url = to, !.left = q.left - 1]
<1>0. q \in RequestRecords
  BY DEF Good
<1>1. q.left - 1 \in 0..MaxRedirects
  BY <1>0, LimitAssumption DEF RequestRecords
<1>2. n \in RequestRecords
  BY <1>0, <1>1 DEF RequestRecords, Stages
<1>3. /\ n.at = "check" /\ n.hops = q.hops /\ n.ask = q.ask /\ n.url = to
      /\ n.size = q.size /\ n.posted = q.posted /\ n.targets = q.targets
      /\ n.sent = q.sent /\ n.failed = q.failed
  BY <1>0 DEF RequestRecords
<1>4. n = [q EXCEPT !.at = "check", !.url = to, !.left = @ - 1]
  BY <1>0 DEF RequestRecords
<1>. HIDE DEF n
<1>5. Asking(n) /\ Downloading(n) /\ Checked(n)
  BY <1>3 DEF Good, Asking, Downloading, Checked
<1>6. Targeting(n) /\ Counting(n) /\ Telling(n)
  BY <1>3, StillNothingSent, NothingSent
<1>. QED
  BY <1>2, <1>4, <1>5, <1>6 DEF Good

(* The body has still to be counted.                                       *)
LEMMA BodyGood ==
  ASSUME NEW q, Good(q), q.at = "get", Site[q.url].kind = "body"
  PROVE  Good([q EXCEPT !.at = "body", !.declared = Site[q.url].declared])
<1>. DEFINE n == [q EXCEPT !.at = "body", !.declared = Site[q.url].declared]
<1>0. q \in RequestRecords /\ q.url \in Urls
  BY DEF Good, Asking
<1>1. Site[q.url].declared \in {None} \cup Nat /\ Site[q.url].blocks \in Nat
  BY <1>0, SiteAssumption
<1>2. n \in RequestRecords
  BY <1>0, <1>1 DEF RequestRecords, Stages
<1>3. /\ n.at = "body" /\ n.hops = q.hops /\ n.ask = q.ask /\ n.url = q.url
      /\ n.size = q.size /\ n.posted = q.posted /\ n.targets = q.targets
      /\ n.sent = q.sent /\ n.failed = q.failed /\ n.declared = Site[q.url].declared
  BY <1>0 DEF RequestRecords
<1>. HIDE DEF n
<1>4. q.size = 0 /\ q.size <= Site[q.url].blocks
  BY <1>1 DEF Good, Downloading
<1>5. Asking(n) /\ Downloading(n) /\ Checked(n)
  BY <1>3, <1>4 DEF Good, Asking, Downloading, Checked
<1>6. Targeting(n) /\ Counting(n) /\ Telling(n)
  BY <1>3, StillNothingSent, NothingSent
<1>. QED
  BY <1>2, <1>5, <1>6 DEF Good, n

(* One block more, within the limit and within the body.                   *)
LEMMA BlockGood ==
  ASSUME NEW q, Good(q), q.at = "body", q.size < Site[q.url].blocks, Fits(q.size + 1)
  PROVE  Good([q EXCEPT !.size = @ + 1])
<1>. DEFINE n == [q EXCEPT !.size = q.size + 1]
<1>0. q \in RequestRecords /\ q.url \in Urls /\ q.size \in 0..Limit
  BY DEF Good, Asking, RequestRecords
<1>1. q.size + 1 \in 0..Limit /\ q.size + 1 <= Site[q.url].blocks
  BY <1>0, LimitAssumption, SiteAssumption DEF Fits, Good, Downloading
<1>2. n \in RequestRecords
  BY <1>0, <1>1 DEF RequestRecords
<1>3. /\ n.at = "body" /\ n.hops = q.hops /\ n.ask = q.ask /\ n.url = q.url
      /\ n.size = q.size + 1 /\ n.posted = q.posted /\ n.targets = q.targets
      /\ n.sent = q.sent /\ n.failed = q.failed /\ n.declared = q.declared
  BY <1>0 DEF RequestRecords
<1>4. n = [q EXCEPT !.size = @ + 1]
  BY <1>0 DEF RequestRecords
<1>. HIDE DEF n
<1>5. Asking(n) /\ Downloading(n) /\ Checked(n)
  BY <1>1, <1>3 DEF Good, Asking, Downloading, Checked
<1>6. Targeting(n) /\ Counting(n) /\ Telling(n)
  BY <1>3, StillNothingSent, NothingSent
<1>. QED
  BY <1>2, <1>4, <1>5, <1>6 DEF Good

(* A body that closes without an error is all of what was declared: it is  *)
(* not short, and the site cannot send more.                               *)
LEMMA ClosedGood ==
  ASSUME NEW q, Good(q), q.at = "body", ~(q.declared # None /\ q.size < q.declared)
  PROVE  Good([q EXCEPT !.at = "store"])
<1>. DEFINE n == [q EXCEPT !.at = "store"]
<1>0. q \in RequestRecords /\ q.url \in Urls /\ q.size \in 0..Limit
  BY DEF Good, Asking, RequestRecords
<1>1. q.declared # None => q.size = q.declared
  BY <1>0, LimitAssumption, SiteAssumption DEF Good, Downloading
<1>2. n \in RequestRecords
  BY <1>0 DEF RequestRecords, Stages
<1>3. /\ n.at = "store" /\ n.hops = q.hops /\ n.ask = q.ask
      /\ n.size = q.size /\ n.posted = q.posted /\ n.targets = q.targets
      /\ n.sent = q.sent /\ n.failed = q.failed /\ n.declared = q.declared
  BY <1>0 DEF RequestRecords
<1>. HIDE DEF n
<1>4. Asking(n) /\ Downloading(n) /\ Checked(n)
  BY <1>1, <1>3 DEF Good, Asking, Downloading, Checked
<1>5. Targeting(n) /\ Counting(n) /\ Telling(n)
  BY <1>3, StillNothingSent, NothingSent
<1>. QED
  BY <1>2, <1>4, <1>5 DEF Good, n

(* A single push, once the type of its file is known, has one task to send.*)
LEMMA SingleGood ==
  ASSUME NEW q, Good(q), q.at = "type", q.ask.op = "single", NEW type \in Types,
         q.ask.user # Admin => type = "firmware"
  PROVE  Good([q EXCEPT !.at = "post", !.type = type, !.targets = {q.ask.device}])
<1>. DEFINE n == [q EXCEPT !.at = "post", !.type = type, !.targets = {q.ask.device}]
<1>0. q \in RequestRecords /\ q.ask \in Asks /\ q.ask.device \in Devices
  BY AsksAssumption DEF Good, Asking
<1>1. n \in RequestRecords
  BY <1>0 DEF RequestRecords, Stages
<1>2. /\ n.at = "post" /\ n.hops = q.hops /\ n.ask = q.ask /\ n.type = type
      /\ n.posted = q.posted /\ n.targets = {q.ask.device}
      /\ n.sent = q.sent /\ n.failed = q.failed
  BY <1>0 DEF RequestRecords
<1>. HIDE DEF n
<1>3. n.posted = {} /\ n.sent = 0 /\ n.failed = 0
  BY <1>2, StillNothingSent
<1>4. Asking(n) /\ Downloading(n) /\ Checked(n) /\ Targeting(n) /\ Telling(n)
  BY <1>2, <1>3 DEF Good, Asking, Downloading, Checked, Targeting, Telling
<1>5. Cardinality(n.targets) = 1 /\ Cardinality(n.targets) <= Cardinality(Devices)
  BY <1>0, <1>2, FS_Singleton, DevicesAssumption, FS_Subset
<1>6. Cardinality(n.posted) = 0 /\ IsFiniteSet(n.posted) /\ Cardinality(Devices) \in Nat
  BY <1>3, FS_EmptySet, DevicesAssumption, FS_CardinalityType
<1>7. Counting(n)
  BY <1>2, <1>3, <1>5, <1>6 DEF Counting
<1>. QED
  BY <1>1, <1>4, <1>7 DEF Good, n

(* A bulk push goes on to look its devices up.                             *)
LEMMA BulkGood ==
  ASSUME NEW q, Good(q), q.at = "type", q.ask.op = "push", NEW type \in Types,
         q.ask.user # Admin => type = "firmware"
  PROVE  Good([q EXCEPT !.at = "targets", !.type = type])
<1>. DEFINE n == [q EXCEPT !.at = "targets", !.type = type]
<1>0. q \in RequestRecords
  BY DEF Good
<1>1. n \in RequestRecords
  BY <1>0 DEF RequestRecords, Stages
<1>2. /\ n.at = "targets" /\ n.hops = q.hops /\ n.ask = q.ask /\ n.type = type
      /\ n.posted = q.posted /\ n.targets = q.targets
      /\ n.sent = q.sent /\ n.failed = q.failed
  BY <1>0 DEF RequestRecords
<1>. HIDE DEF n
<1>3. Asking(n) /\ Downloading(n) /\ Checked(n)
  BY <1>2 DEF Good, Asking, Downloading, Checked
<1>4. Targeting(n) /\ Counting(n) /\ Telling(n)
  BY <1>2, StillNothingSent, NothingSent
<1>. QED
  BY <1>1, <1>3, <1>4 DEF Good, n

(* The devices looked up are those selected of the list of that moment.    *)
LEMMA TargetsAreSelected ==
  ASSUME NEW ask, NEW known
  PROVE  {d \in known : Matches(ask, d)} = Selected(ask, [d \in known |-> tag[d]])
<1>. DEFINE listed == [d \in known |-> tag[d]]
<1>1. DOMAIN listed = known /\ \A d \in known : listed[d] = tag[d]
  OBVIOUS
<1>. HIDE DEF listed
<1>2. \A d \in known :
        Matches(ask, d) <=> /\ ask.user # Admin => listed[d] = ask.user
                            /\ ask.user = Admin /\ ask.tag # None => listed[d] = ask.tag
                            /\ ask.model # None => Model[d] = ask.model
                            /\ ask.ids # {} => d \in ask.ids
  BY <1>1 DEF Matches
<1>3. {d \in known : Matches(ask, d)} = Selected(ask, listed)
  BY <1>1, <1>2 DEF Selected
<1>. QED
  BY <1>3 DEF listed

(* A list that has been read is what is to be served.                      *)
LEMMA TargetsGood ==
  ASSUME WorldType, NEW q, Good(q), q.at = "targets",
         NEW known \in SUBSET Devices, NEW targets, NEW listed,
         listed = [d \in known |-> tag[d]], targets = {d \in known : Matches(q.ask, d)},
         NEW at, at = (IF targets = {} THEN "done"
                       ELSE IF q.ask.op = "read" THEN "sample" ELSE "post")
  PROVE  Good([q EXCEPT !.targets = targets, !.listed = listed, !.at = at])
<1>. DEFINE n == [q EXCEPT !.targets = targets, !.listed = listed, !.at = at]
<1>0. /\ q \in RequestRecords /\ at \in {"done", "sample", "post"} /\ targets \in SUBSET Devices
      /\ listed \in {None} \cup UNION {[k -> Isps] : k \in SUBSET Devices}
  <2>1. listed \in [known -> Isps]
    BY DEF WorldType
  <2>. QED
    BY <2>1 DEF Good
<1>1. n \in RequestRecords
  <2>1. [q EXCEPT !.targets = targets] \in RequestRecords
    BY <1>0 DEF RequestRecords
  <2>2. [[q EXCEPT !.targets = targets] EXCEPT !.listed = listed] \in RequestRecords
    BY ONLY <1>0, <2>1 DEF RequestRecords
  <2>3. at \in Stages
    BY <1>0 DEF Stages
  <2>4. [[[q EXCEPT !.targets = targets] EXCEPT !.listed = listed] EXCEPT !.at = at] \in RequestRecords
    BY ONLY <2>2, <2>3 DEF RequestRecords
  <2>. QED
    BY <2>4
<1>2. /\ n.at = at /\ n.hops = q.hops /\ n.ask = q.ask /\ n.type = q.type
      /\ n.posted = q.posted /\ n.targets = targets /\ n.listed = listed
      /\ n.sent = q.sent /\ n.failed = q.failed
  BY <1>0 DEF RequestRecords
<1>. HIDE DEF n
<1>3. q.posted = {} /\ q.sent = 0 /\ q.failed = 0
  BY DEF Good, Counting
<1>4. Asking(n) /\ Downloading(n) /\ Checked(n)
  BY <1>0, <1>2 DEF Good, Asking, Downloading, Checked
<1>5. /\ Cardinality(targets) <= Cardinality(Devices) /\ Cardinality(targets) \in Nat
      /\ Cardinality({}) = 0 /\ IsFiniteSet({})
  BY <1>0, DevicesAssumption, FS_Subset, FS_CardinalityType, FS_EmptySet
<1>6. Selected(n.ask, n.listed) = targets
  BY <1>2, TargetsAreSelected
<1>7. Targeting(n) /\ Telling(n)
  BY <1>0, <1>2, <1>3, <1>5, <1>6 DEF Targeting, Telling
<1>8. Counting(n)
  BY <1>0, <1>2, <1>3, <1>5 DEF Counting
<1>. QED
  BY <1>1, <1>4, <1>7, <1>8 DEF Good, n

(* The parameters of a bulk read have been looked up.                      *)
LEMMA SampleGood ==
  ASSUME NEW q, Good(q), q.at = "sample"
  PROVE  Good([q EXCEPT !.at = "post"])
<1>. DEFINE n == [q EXCEPT !.at = "post"]
<1>0. q \in RequestRecords /\ q.ask.op = "read"
  BY DEF Good, Asking
<1>1. n \in RequestRecords
  BY <1>0 DEF RequestRecords, Stages
<1>2. /\ n.at = "post" /\ n.hops = q.hops /\ n.ask = q.ask /\ n.type = q.type
      /\ n.posted = q.posted /\ n.targets = q.targets /\ n.listed = q.listed
      /\ n.sent = q.sent /\ n.failed = q.failed
  BY <1>0 DEF RequestRecords
<1>. HIDE DEF n
<1>3. Asking(n) /\ Downloading(n) /\ Checked(n)
  BY <1>0, <1>2 DEF Good, Asking, Downloading, Checked
<1>4. Targeting(n) /\ Counting(n) /\ Telling(n)
  BY <1>0, <1>2 DEF Good, Targeting, Counting, Telling
<1>. QED
  BY <1>1, <1>3, <1>4 DEF Good, n

(* The task a request sends to a device says what it should.               *)
TaskFor(q, d, p) ==
  /\ p.task.device = d
  /\ q.ask.op # "read" /\ p.same =>
       /\ p.file # None /\ p.task.type = p.file.type
       /\ q.ask.user # Admin => p.file.type = "firmware"
  /\ q.ask.op \in {"push", "read"} => ~p.task.cr

(* A device served, with or without a task, leaves a request that counts   *)
(* one more.                                                               *)
LEMMA ServedGood ==
  ASSUME NEW q, Good(q), q.at = "post", NEW d \in q.targets,
         NEW posted \in SUBSET PostedRecords, NEW sent \in Nat, NEW failed \in Nat,
         sent + failed = q.sent + q.failed + 1,
         \/ posted = q.posted /\ sent = q.sent
         \/ \E p : TaskFor(q, d, p) /\ posted = q.posted \cup {p} /\ sent \in {q.sent, q.sent + 1},
         NEW n, n \in RequestRecords, n.at = IF n.targets = {} THEN "done" ELSE "post",
         n.targets = q.targets \ {d}, n.sent = sent, n.failed = failed, n.posted = posted,
         n.ask = q.ask, n.hops = q.hops, n.type = q.type, n.listed = q.listed
  PROVE  Good(n)
<1>0. q \in RequestRecords /\ n.at \in {"done", "post"} /\ q.ask \in Asks
  BY DEF Good, Asking
<1>1. Asking(n) /\ Downloading(n) /\ Checked(n)
  BY <1>0 DEF Good, Asking, Downloading, Checked
<1>3. /\ IsFiniteSet(q.targets) /\ Cardinality(q.targets) \in Nat
      /\ Cardinality(q.targets \ {d}) = Cardinality(q.targets) - 1
      /\ Cardinality(Devices) \in Nat
  <2>1. q.targets \in SUBSET Devices
    BY <1>0 DEF RequestRecords
  <2>2. IsFiniteSet(q.targets)
    BY <2>1, DevicesAssumption, FS_Subset
  <2>. QED
    BY <2>2, DevicesAssumption, FS_CardinalityType, FS_RemoveElement
<1>4. q.sent \in Nat /\ q.failed \in Nat /\ IsFiniteSet(q.posted)
      /\ Cardinality(q.posted) \in Nat
  BY <1>0, FS_CardinalityType DEF RequestRecords, Good, Counting
<1>2. Targeting(n)
  BY <1>0, <1>3, <1>4 DEF Good, Targeting
<1>5. CASE posted = q.posted /\ sent = q.sent
  <2>1. Counting(n)
    BY <1>0, <1>3, <1>4, <1>5 DEF Good, Counting
  <2>2. Telling(n)
    BY <1>5 DEF Good, Telling
  <2>. QED
    BY <1>1, <1>2, <2>1, <2>2 DEF Good
<1>6. CASE ~(posted = q.posted /\ sent = q.sent)
  <2>a. PICK p : TaskFor(q, d, p) /\ posted = q.posted \cup {p} /\ sent \in {q.sent, q.sent + 1}
    BY <1>6
  <2>0. /\ posted = q.posted \cup {p} /\ p.task.device = d
        /\ sent \in {q.sent, q.sent + 1}
        /\ q.ask.op # "read" /\ p.same =>
             /\ p.file # None /\ p.task.type = p.file.type
             /\ q.ask.user # Admin => p.file.type = "firmware"
        /\ q.ask.op \in {"push", "read"} => ~p.task.cr
    BY <2>a DEF TaskFor
  <2>1. p \notin q.posted
    BY <2>0 DEF Good, Counting
  <2>2. IsFiniteSet(posted) /\ Cardinality(posted) = Cardinality(q.posted) + 1
    <3>1. /\ IsFiniteSet(q.posted \cup {p})
          /\ Cardinality(q.posted \cup {p}) = Cardinality(q.posted) + 1
      BY ONLY <1>4, <2>1, FS_AddElement
    <3>. QED
      BY <2>0, <3>1
  <2>3. /\ n.sent <= Cardinality(n.posted) /\ Cardinality(n.posted) <= n.sent + n.failed
        /\ n.sent + n.failed + Cardinality(n.targets) <= Cardinality(Devices)
    BY <1>3, <1>4, <2>0, <2>2 DEF Good, Counting
  <2>4. \A s \in n.posted : s.task.device \notin n.targets
    BY <2>0 DEF Good, Counting
  <2>5. \A s, t \in n.posted : s.task.device = t.task.device => s = t
    BY <2>0 DEF Good, Counting
  <2>6. Counting(n)
    BY <1>0, <2>2, <2>3, <2>4, <2>5 DEF Counting
  <2>7. q.ask.op \in {"push", "read"} => d \in Selected(q.ask, q.listed)
    BY DEF Good, Targeting
  <2>8. ASSUME NEW s \in n.posted
        PROVE  /\ n.ask.op # "read" /\ s.same =>
                    /\ s.file # None /\ s.task.type = s.file.type
                    /\ n.ask.user # Admin => s.file.type = "firmware"
               /\ n.ask.op \in {"push", "read"} =>
                    ~s.task.cr /\ s.task.device \in Selected(n.ask, n.listed)
    <3>1. CASE s \in q.posted
      BY <3>1 DEF Good, Telling
    <3>2. CASE s = p
      BY <2>0, <2>7, <3>2
    <3>. QED
      BY <2>0, <3>1, <3>2
  <2>9. Telling(n)
    BY <2>8 DEF Telling
  <2>. QED
    BY <1>1, <1>2, <2>6, <2>9 DEF Good
<1>. QED
  BY <1>5, <1>6

(* The history of what has moved meanwhile says nothing of the request.    *)
LEMMA DisturbedGood ==
  ASSUME NEW q, Good(q), NEW b \in BOOLEAN
  PROVE  /\ Good([q EXCEPT !.same = b])
         /\ [q EXCEPT !.same = b].same = b
         /\ [q EXCEPT !.same = b].at = q.at
         /\ [q EXCEPT !.same = b].ask = q.ask
         /\ [q EXCEPT !.same = b].type = q.type
<1>. DEFINE n == [q EXCEPT !.same = b]
<1>0. q \in RequestRecords
  BY DEF Good
<1>1. n \in RequestRecords
  BY <1>0 DEF RequestRecords
<1>2. /\ n.at = q.at /\ n.ask = q.ask /\ n.url = q.url /\ n.size = q.size
      /\ n.declared = q.declared /\ n.hops = q.hops /\ n.type = q.type
      /\ n.targets = q.targets /\ n.sent = q.sent /\ n.failed = q.failed
      /\ n.posted = q.posted /\ n.listed = q.listed /\ n.same = b
  BY <1>0 DEF RequestRecords
<1>. HIDE DEF n
<1>3. Asking(n) /\ Downloading(n) /\ Checked(n)
  BY <1>2 DEF Good, Asking, Downloading, Checked
<1>4. Targeting(n) /\ Counting(n) /\ Telling(n)
  BY <1>2 DEF Good, Targeting, Counting, Telling
<1>5. Good(n)
  BY <1>1, <1>3, <1>4 DEF Good
<1>. QED
  BY <1>2, <1>5 DEF n

-----------------------------------------------------------------------------
(* The requests among the rest.                                            *)

(* The ACS spoken to is one there is.                                      *)
LEMMA NbiUrlType == WorldType => NbiUrl \in Acs
BY FleetAssumption DEF WorldType, NbiUrl

(* The initial states satisfy the invariant.                               *)
LEMMA InitIInv == Init => IInv
<1>. SUFFICES ASSUME Init PROVE IInv
  OBVIOUS
<1>1. settings = [nbi |-> None, cr |-> None]
  BY DEF Init
<1>2. settings \in [nbi: Acs \cup {None}, cr: {None} \cup BOOLEAN] /\ settings.nbi = None
  BY <1>1
<1>3. \A f \in Stored \cup {None} :
        f \in FileRecords \cup {None}
        /\ (f # None => /\ f.size \in 1..Limit
                        /\ f.declared # None => f.size = f.declared
                        /\ \A u \in f.hops : CheckPublicUrl(u))
  BY StoredAssumption DEF FileRecords
<1>4. files \in [Acs -> [Names -> FileRecords \cup {None}]]
  <2>1. files \in [Acs -> [Names -> Stored \cup {None}]]
    BY DEF Init
  <2>. QED
    BY <1>3, <2>1
<1>5. FilesAreWhole
  <2>1. files \in [Acs -> [Names -> Stored \cup {None}]]
    BY DEF Init
  <2>2. ASSUME NEW a \in Acs, NEW n \in Names PROVE files[a][n] \in Stored \cup {None}
    BY <2>1
  <2>. QED
    BY <1>3, <2>2 DEF FilesAreWhole
<1>6. tag \in [Devices -> Isps] /\ ops \in 0..MaxOps
  BY LimitAssumption DEF Init
<1>7. WorldType
  BY <1>2, <1>4, <1>6 DEF WorldType
<1>8. req \in [Requests -> RequestRecords] /\ \A r \in Requests : req[r] = Idle
  BY IdleFields DEF Init
<1>9. Good(Idle) /\ Fresh(Idle)
  BY IdleGood, IdleFields DEF Fresh
<1>. QED
  BY <1>5, <1>7, <1>8, <1>9 DEF IInv

(* A request that moves on and touches nothing else.                       *)
LEMMA GoesIInv ==
  ASSUME IInv, NEW r \in Requests, NEW next, Good(next), Fresh(next),
         req' = [req EXCEPT ![r] = next], UNCHANGED <<settings, files, tag>>, ops' \in 0..MaxOps
  PROVE  IInv'
<1>1. WorldType'
  BY DEF IInv, WorldType
<1>2. FilesAreWhole'
  BY DEF IInv, FilesAreWhole
<1>3. next \in RequestRecords
  BY DEF Good
<1>4. req' \in [Requests -> RequestRecords]
  BY <1>3 DEF IInv
<1>5. UNCHANGED NbiUrl
  BY DEF NbiUrl
<1>6. ASSUME NEW k \in Requests PROVE Good(req'[k]) /\ Fresh(req[k])' 
  <2>1. CASE k = r
    <3>1. req'[k] = next
      BY <2>1 DEF IInv
    <3>2. Good(req'[k])
      BY <3>1
    <3>3. Fresh(req[k])'
      BY <1>5, <3>1 DEF Fresh
    <3>. QED
      BY <3>2, <3>3
  <2>2. CASE k # r
    <3>1. req'[k] = req[k] /\ Good(req[k]) /\ Fresh(req[k])
      BY <2>2 DEF IInv
    <3>2. Good(req'[k])
      BY <3>1
    <3>3. Fresh(req[k])'
      BY <1>5, <3>1 DEF Fresh
    <3>. QED
      BY <3>2, <3>3
  <2>. QED
    BY <2>1, <2>2
<1>7. \A k \in Requests : Good(req[k])' /\ Fresh(req[k])'
  BY <1>6 DEF Good, Asking, Downloading, Checked, Targeting, Counting, Telling, Selected,
              CheckPublicUrl
<1>. QED
  BY <1>1, <1>2, <1>4, <1>7 DEF IInv

(* A request that is refused, or whose call fails.                         *)
LEMMA RefusesIInv ==
  ASSUME IInv, NEW r \in Requests, Refuses(r)
  PROVE  IInv'
<1>1. Fresh(Idle)
  BY IdleFields DEF Fresh
<1>2. ops' \in 0..MaxOps /\ req' = [req EXCEPT ![r] = Idle] /\ UNCHANGED <<settings, files, tag>>
  BY DEF Refuses, Goes, IInv, WorldType
<1>. QED
  BY <1>1, <1>2, IdleGood, GoesIInv

(* A request begins.                                                       *)
LEMMA AskedIInv ==
  ASSUME IInv, NEW r \in Requests, Asked(r)
  PROVE  IInv'
<1>1. ASSUME NEW next, Good(next), next.at \notin {"targets", "post"} \/ next.ask.op = "read",
             Start(r, next)
      PROVE  IInv'
  <2>1. Fresh(next)
    BY <1>1 DEF Fresh
  <2>2. ops' \in 0..MaxOps /\ req' = [req EXCEPT ![r] = next] /\ UNCHANGED <<settings, files, tag>>
    BY <1>1, LimitAssumption DEF Start, IInv, WorldType
  <2>. QED
    BY <1>1, <2>1, <2>2, GoesIInv
<1>2. ASSUME NEW ask \in Asks, ask.op = "upload", UploadFirmware(r, ask) PROVE IInv'
  <2>. DEFINE n == [Idle EXCEPT !.at = "store", !.ask = ask, !.size = ask.size]
  <2>1. Fits(ask.size) /\ Start(r, n)
    BY <1>2 DEF UploadFirmware
  <2>2. Good(n) /\ n.at = "store"
    BY <1>2, <2>1, UploadGood, IdleFields DEF RequestRecords
  <2>. HIDE DEF n
  <2>. QED
    BY <1>1, <2>1, <2>2
<1>3. ASSUME NEW ask \in Asks, ask.op = "url", UploadFirmwareUrl(r, ask) PROVE IInv'
  <2>. DEFINE n == [Idle EXCEPT !.at = "check", !.ask = ask, !.url = ask.url, !.left = MaxRedirects]
  <2>1. Start(r, n)
    BY <1>3 DEF UploadFirmwareUrl
  <2>2. Good(n) /\ n.at = "check"
    BY <1>3, UploadUrlGood, IdleFields DEF RequestRecords
  <2>. HIDE DEF n
  <2>. QED
    BY <1>1, <2>1, <2>2
<1>4. ASSUME NEW ask \in Asks,
             \/ ask.op = "single" /\ PushFirmware(r, ask)
             \/ ask.op = "push" /\ PushFirmwareBulk(r, ask)
      PROVE  IInv'
  <2>. DEFINE n == [Idle EXCEPT !.at = "type", !.ask = ask]
  <2>1. Start(r, n) /\ ask.op \in {"single", "push"}
    BY <1>4 DEF PushFirmware, PushFirmwareBulk
  <2>2. Good(n) /\ n.at = "type"
    BY <2>1, BegunGood, IdleFields DEF RequestRecords
  <2>. HIDE DEF n
  <2>. QED
    BY <1>1, <2>1, <2>2
<1>5. ASSUME NEW ask \in Asks, ask.op = "read", ReadStatusBulk(r, ask) PROVE IInv'
  <2>. DEFINE n == [Idle EXCEPT !.at = "targets", !.ask = ask]
  <2>1. Start(r, n)
    BY <1>5 DEF ReadStatusBulk
  <2>2. Good(n) /\ n.ask = ask
    BY <1>5, BegunGood, IdleFields DEF RequestRecords
  <2>. HIDE DEF n
  <2>. QED
    BY <1>1, <1>5, <2>1, <2>2
<1>. QED
  BY <1>2, <1>3, <1>4, <1>5 DEF Asked

(* A download goes on.                                                     *)
LEMMA DownloadIInv ==
  ASSUME IInv, NEW r \in Requests, CheckHop(r) \/ GetHop(r) \/ Block(r) \/ Closes(r)
  PROVE  IInv'
<1>. DEFINE q == req[r]
<1>0. Good(q) /\ q \in RequestRecords
  BY DEF IInv
<1>1. ASSUME NEW next, Good(next), next.at \notin {"targets", "post"}, Goes(r, next)
      PROVE  IInv'
  <2>1. Fresh(next)
    BY <1>1 DEF Fresh
  <2>2. ops' \in 0..MaxOps /\ req' = [req EXCEPT ![r] = next] /\ UNCHANGED <<settings, files, tag>>
    BY <1>1 DEF Goes, IInv, WorldType
  <2>. QED
    BY <1>1, <2>1, <2>2, GoesIInv
<1>2. CASE CheckHop(r)
  <2>. DEFINE n == [q EXCEPT !.at = "get", !.hops = @ \cup {q.url}]
  <2>1. CASE CheckPublicUrl(q.url)
    <3>1. Goes(r, n) /\ q.at = "check"
      BY <1>2, <2>1 DEF CheckHop
    <3>2. Good(n) /\ n.at = "get"
      BY <1>0, <2>1, <3>1, HopGood DEF RequestRecords
    <3>. HIDE DEF n
    <3>. QED
      BY <1>1, <3>1, <3>2
  <2>2. CASE ~CheckPublicUrl(q.url)
    BY <1>2, <2>2, RefusesIInv DEF CheckHop
  <2>. QED
    BY <2>1, <2>2
<1>3. CASE GetHop(r)
  <2>. DEFINE reply == Site[q.url]
  <2>0. q.at = "get" /\ q.url \in Urls
    BY <1>0, <1>3 DEF GetHop, Good, Asking
  <2>1. CASE reply.kind = "redirect" /\ q.left > 0
    <3>. DEFINE n == [q EXCEPT !.at = "check", !.url = reply.to, !.left = @ - 1]
    <3>1. Goes(r, n) /\ reply.to \in Urls
      BY <1>3, <2>0, <2>1, SiteAssumption DEF GetHop
    <3>2. Good(n) /\ n.at = "check"
      BY <1>0, <2>0, <2>1, <3>1, RedirectGood DEF RequestRecords
    <3>. HIDE DEF n
    <3>. QED
      BY <1>1, <3>1, <3>2
  <2>2. CASE reply.kind = "body" /\ (reply.declared # None => reply.declared <= Limit)
    <3>. DEFINE n == [q EXCEPT !.at = "body", !.declared = reply.declared]
    <3>1. Goes(r, n)
      BY <1>3, <2>0, <2>2 DEF GetHop
    <3>2. Good(n) /\ n.at = "body"
      BY <1>0, <2>0, <2>2, BodyGood DEF RequestRecords
    <3>. HIDE DEF n
    <3>. QED
      BY <1>1, <3>1, <3>2
  <2>3. CASE /\ ~(reply.kind = "redirect" /\ q.left > 0)
             /\ ~(reply.kind = "body" /\ (reply.declared # None => reply.declared <= Limit))
    <3>1. Refuses(r)
      BY <1>3, <2>3 DEF GetHop
    <3>. QED
      BY <3>1, RefusesIInv
  <2>. QED
    BY <2>1, <2>2, <2>3
<1>4. CASE Block(r)
  <2>. DEFINE n == [q EXCEPT !.size = @ + 1]
  <2>0. q.at = "body" /\ q.size < Site[q.url].blocks
    BY <1>4 DEF Block
  <2>1. CASE Fits(q.size + 1)
    <3>1. Goes(r, n)
      BY <1>4, <2>1 DEF Block
    <3>2. Good(n) /\ n.at = "body"
      BY <1>0, <2>0, <2>1, BlockGood DEF RequestRecords
    <3>. HIDE DEF n
    <3>. QED
      BY <1>1, <3>1, <3>2
  <2>2. CASE ~Fits(q.size + 1)
    BY <1>4, <2>2, RefusesIInv DEF Block
  <2>. QED
    BY <2>1, <2>2
<1>5. CASE Closes(r)
  <2>. DEFINE n == [q EXCEPT !.at = "store"]
  <2>1. CASE q.declared # None /\ q.size < q.declared
    BY <1>5, <2>1, RefusesIInv DEF Closes
  <2>2. CASE ~(q.declared # None /\ q.size < q.declared)
    <3>1. Goes(r, n) /\ q.at = "body"
      BY <1>5, <2>2 DEF Closes
    <3>2. Good(n) /\ n.at = "store"
      BY <1>0, <2>2, <3>1, ClosedGood DEF RequestRecords
    <3>. HIDE DEF n
    <3>. QED
      BY <1>1, <3>1, <3>2
  <2>. QED
    BY <2>1, <2>2
<1>. QED
  BY <1>2, <1>3, <1>4, <1>5

(* A push or a bulk read goes on.                                          *)
LEMMA PushIInv ==
  ASSUME IInv, NEW r \in Requests, FileTypeOf(r) \/ ResolveTargets(r) \/ Sample(r)
  PROVE  IInv'
<1>. DEFINE q == req[r]
<1>0. Good(q) /\ q \in RequestRecords /\ Fresh(q) /\ WorldType
  BY DEF IInv
<1>1. ASSUME NEW next, Good(next), Fresh(next), Goes(r, next) PROVE IInv'
  <2>1. ops' \in 0..MaxOps /\ req' = [req EXCEPT ![r] = next] /\ UNCHANGED <<settings, files, tag>>
    BY <1>1 DEF Goes, IInv, WorldType
  <2>. QED
    BY <1>1, <2>1, GoesIInv
<1>2. CASE FileTypeOf(r)
  <2>. DEFINE file == files[NbiUrl][q.ask.name]
  <2>0. q.at = "type" /\ q.ask \in Asks /\ q.ask.op \in {"single", "push"}
    BY <1>0, <1>2 DEF FileTypeOf, Good, Asking
  <2>1. CASE file = None \/ (q.ask.user # Admin /\ file.type # "firmware")
    <3>1. Refuses(r)
      BY <1>2, <2>1 DEF FileTypeOf, MayInstall
    <3>. QED
      BY <3>1, RefusesIInv
  <2>2. CASE ~(file = None \/ (q.ask.user # Admin /\ file.type # "firmware"))
    <3>1. q.ask.name \in Names
      BY <2>0, AsksAssumption
    <3>2. file.type \in Types /\ (q.ask.user # Admin => file.type = "firmware")
      BY <1>0, <2>2, <3>1, NbiUrlType DEF WorldType, FileRecords
    <3>3. CASE q.ask.op = "single"
      <4>. DEFINE n == [q EXCEPT !.at = "post", !.type = file.type, !.targets = {q.ask.device}]
      <4>1. Goes(r, n)
        BY <1>2, <2>2, <3>3 DEF FileTypeOf, MayInstall
      <4>2. Good(n) /\ n.type = file.type /\ n.ask = q.ask
        BY <1>0, <2>0, <3>2, <3>3, SingleGood DEF RequestRecords
      <4>. HIDE DEF n
      <4>3. Fresh(n)
        BY <2>2, <4>2 DEF Fresh
      <4>. QED
        BY <1>1, <4>1, <4>2, <4>3
    <3>4. CASE q.ask.op = "push"
      <4>. DEFINE n == [q EXCEPT !.at = "targets", !.type = file.type]
      <4>1. Goes(r, n)
        BY <1>2, <2>2, <3>4 DEF FileTypeOf, MayInstall
      <4>2. Good(n) /\ n.type = file.type /\ n.ask = q.ask
        BY <1>0, <2>0, <3>2, <3>4, BulkGood DEF RequestRecords
      <4>. HIDE DEF n
      <4>3. Fresh(n)
        BY <2>2, <4>2 DEF Fresh
      <4>. QED
        BY <1>1, <4>1, <4>2, <4>3
    <3>. QED
      BY <2>0, <3>3, <3>4
  <2>. QED
    BY <2>1, <2>2
<1>3. CASE ResolveTargets(r)
  <2>. DEFINE targets == {d \in Fleet[NbiUrl] : Matches(q.ask, d)}
              at == IF targets = {} THEN "done"
                    ELSE IF q.ask.op = "read" THEN "sample" ELSE "post"
              listed == [d \in Fleet[NbiUrl] |-> tag[d]]
              n == [q EXCEPT !.targets = targets, !.listed = listed, !.at = at]
  <2>1. q.at = "targets" /\ Goes(r, n)
    BY <1>3 DEF ResolveTargets
  <2>2. Fleet[NbiUrl] \in SUBSET Devices
    BY <1>0, NbiUrlType, FleetAssumption
  <2>3. n.at = at /\ n.ask = q.ask /\ n.type = q.type /\ n.same = q.same
    BY <1>0 DEF RequestRecords
  <2>4. Good(n)
    <3>1. listed = [d \in Fleet[NbiUrl] |-> tag[d]]
      OBVIOUS
    <3>2. targets = {d \in Fleet[NbiUrl] : Matches(q.ask, d)}
      OBVIOUS
    <3>. HIDE DEF targets, listed
    <3>. QED
      BY <1>0, <2>1, <2>2, <3>1, <3>2, TargetsGood
  <2>. HIDE DEF targets, listed, n
  <2>5. Fresh(n)
    BY <1>0, <2>1, <2>3 DEF Fresh
  <2>. QED
    BY <1>1, <2>1, <2>4, <2>5
<1>4. CASE Sample(r)
  <2>. DEFINE n == [q EXCEPT !.at = "post"]
  <2>1. q.at = "sample" /\ Goes(r, n)
    BY <1>4 DEF Sample
  <2>2. Good(n) /\ n.ask = q.ask /\ q.ask.op = "read"
    BY <1>0, <2>1, SampleGood DEF RequestRecords, Good, Asking
  <2>. HIDE DEF n
  <2>3. Fresh(n)
    BY <2>2 DEF Fresh
  <2>. QED
    BY <1>1, <2>1, <2>2, <2>3
<1>. QED
  BY <1>2, <1>3, <1>4

(* A task goes out, or fails to, and the request has one device less.      *)
LEMMA ServedIInv ==
  ASSUME IInv, NEW r \in Requests, req[r].at = "post", NEW d \in req[r].targets,
         NEW posted \in SUBSET PostedRecords, NEW sent \in Nat, NEW failed \in Nat,
         sent + failed = req[r].sent + req[r].failed + 1,
         \/ posted = req[r].posted /\ sent = req[r].sent
         \/ \E p : /\ TaskFor(req[r], d, p) /\ posted = req[r].posted \cup {p}
                   /\ sent \in {req[r].sent, req[r].sent + 1},
         Goes(r, After([req[r] EXCEPT !.targets = req[r].targets \ {d}, !.sent = sent,
                                      !.failed = failed, !.posted = posted]))
  PROVE  IInv'
<1>. DEFINE q == req[r]
            t == [q EXCEPT !.targets = q.targets \ {d}]
            c == [t EXCEPT !.sent = sent]
            f == [c EXCEPT !.failed = failed]
            m == [f EXCEPT !.posted = posted]
            at == IF m.targets = {} THEN "done" ELSE "post"
            n == [m EXCEPT !.at = at]
<1>0. Good(q) /\ Fresh(q) /\ q \in RequestRecords
  BY DEF IInv
<1>1. t \in RequestRecords
  BY <1>0 DEF RequestRecords
<1>2. c \in RequestRecords
  <2>. HIDE DEF t
  <2>. QED
    BY <1>1 DEF RequestRecords
<1>3. f \in RequestRecords
  <2>. HIDE DEF c
  <2>. QED
    BY <1>2 DEF RequestRecords
<1>4. m \in RequestRecords
  <2>. HIDE DEF f
  <2>. QED
    BY <1>3 DEF RequestRecords
<1>5. n \in RequestRecords
  <2>1. at \in Stages
    BY DEF Stages
  <2>. HIDE DEF m, at
  <2>. QED
    BY <1>4, <2>1 DEF RequestRecords
<1>6. /\ n.at = (IF n.targets = {} THEN "done" ELSE "post")
      /\ n.targets = q.targets \ {d} /\ n.sent = sent /\ n.failed = failed
      /\ n.posted = posted /\ n.ask = q.ask /\ n.hops = q.hops /\ n.type = q.type
      /\ n.listed = q.listed /\ n.same = q.same
  BY <1>0 DEF RequestRecords
<1>7. m = [q EXCEPT !.targets = q.targets \ {d}, !.sent = sent, !.failed = failed,
                    !.posted = posted]
  BY <1>0 DEF RequestRecords
<1>8. Goes(r, n)
  BY <1>7 DEF After
<1>. HIDE DEF n
<1>9. Good(n)
  <2>. HIDE DEF q
  <2>1. /\ q.at = "post" /\ d \in q.targets /\ sent + failed = q.sent + q.failed + 1
        /\ \/ posted = q.posted /\ sent = q.sent
           \/ \E p : TaskFor(q, d, p) /\ posted = q.posted \cup {p} /\ sent \in {q.sent, q.sent + 1}
    BY DEF q
  <2>. QED
    BY ONLY <1>0, <1>5, <1>6, <2>1, ServedGood, posted \in SUBSET PostedRecords,
       sent \in Nat, failed \in Nat
<1>10. Fresh(n)
  BY <1>0, <1>6 DEF Fresh
<1>11. ops' \in 0..MaxOps /\ req' = [req EXCEPT ![r] = n] /\ UNCHANGED <<settings, files, tag>>
  BY <1>8 DEF Goes, IInv, WorldType
<1>. QED
  BY <1>9, <1>10, <1>11, GoesIInv

(* The task a request sends is the one for the device and the file.        *)
LEMMA TaskGood ==
  ASSUME IInv, NEW r \in Requests, req[r].at = "post", NEW d \in req[r].targets
  PROVE  /\ TaskFor(req[r], d, [task |-> Task(r, d), file |-> FileNow(r), same |-> req[r].same])
         /\ [task |-> Task(r, d), file |-> FileNow(r), same |-> req[r].same] \in PostedRecords
<1>. DEFINE q == req[r]
<1>0. Good(q) /\ Fresh(q) /\ q \in RequestRecords /\ WorldType /\ q.ask \in Asks
  BY DEF IInv, Good, Asking
<1>1. DefaultConnectionRequest \in BOOLEAN
  <2>1. settings.cr = None \/ settings.cr \in BOOLEAN
    BY <1>0 DEF WorldType
  <2>2. CASE settings.cr = None
    <3>1. DefaultConnectionRequest = TRUE
      BY <2>2 DEF DefaultConnectionRequest
    <3>. QED
      BY <3>1
  <2>3. CASE settings.cr # None /\ settings.cr \in BOOLEAN
    <3>1. DefaultConnectionRequest = settings.cr
      BY <2>3 DEF DefaultConnectionRequest
    <3>. QED
      BY <2>3, <3>1, Zenon
  <2>. QED
    BY <2>1, <2>2, <2>3
<1>2. PICK b \in BOOLEAN : b = (q.ask.op = "single" /\ DefaultConnectionRequest)
  BY Zenon
<1>3. Task(r, d) = [acs |-> NbiUrl, device |-> d, type |-> q.type, cr |-> b]
  BY <1>2, Zenon DEF Task
<1>4. d \in Devices /\ q.type \in Types \cup {None} /\ NbiUrl \in Acs
  BY <1>0, NbiUrlType DEF RequestRecords
<1>5. Task(r, d) \in TaskRecords
  BY <1>3, <1>4 DEF TaskRecords
<1>6. FileNow(r) \in FileRecords \cup {None}
  <2>1. CASE q.ask.op # "read"
    <3>1. q.ask.name \in Names
      BY <1>0, <2>1, AsksAssumption
    <3>2. files[NbiUrl][q.ask.name] \in FileRecords \cup {None}
      BY <1>0, <1>4, <3>1 DEF WorldType
    <3>. QED
      BY <2>1, <3>2 DEF FileNow
  <2>2. CASE q.ask.op = "read"
    BY <2>2 DEF FileNow
  <2>. QED
    BY <2>1, <2>2
<1>7. q.ask.op # "read" /\ q.same => FileNow(r) # None /\ q.type = FileNow(r).type
  BY <1>0 DEF FileNow, Fresh
<1>8. q.ask.op # "read" /\ q.ask.user # Admin => q.type = "firmware"
  BY <1>0 DEF Good, Checked
<1>9. q.ask.op \in {"push", "read"} => ~b
  BY <1>2
<1>10. /\ Task(r, d).device = d /\ Task(r, d).type = q.type /\ Task(r, d).cr = b
  BY <1>3
<1>11. [task |-> Task(r, d), file |-> FileNow(r), same |-> req[r].same] \in PostedRecords
  <2>1. req[r].same \in BOOLEAN
    BY <1>0 DEF RequestRecords
  <2>. QED
    BY <1>5, <1>6, <2>1 DEF PostedRecords
<1>12. TaskFor(q, d, [task |-> Task(r, d), file |-> FileNow(r), same |-> req[r].same])
  <2>. DEFINE p == [task |-> Task(r, d), file |-> FileNow(r), same |-> req[r].same]
  <2>1. p.task = Task(r, d) /\ p.file = FileNow(r) /\ p.same = q.same
    OBVIOUS
  <2>2. ~b => ~p.task.cr
    BY <1>10, <2>1
  <2>. HIDE DEF p
  <2>. QED
    BY <1>7, <1>8, <1>9, <1>10, <2>1, <2>2 DEF TaskFor, p
<1>. QED
  BY <1>11, <1>12

(* A task is sent, whether its answer arrives or not, or its call fails.   *)
LEMMA PostIInv ==
  ASSUME IInv, NEW r \in Requests, NEW d \in Devices, PostTask(r, d) \/ PostFails(r, d)
  PROVE  IInv'
<1>. DEFINE q == req[r]
<1>0. /\ q \in RequestRecords /\ q.at = "post" /\ d \in q.targets
      /\ q.sent \in Nat /\ q.failed \in Nat /\ q.posted \in SUBSET PostedRecords
  BY DEF IInv, PostTask, PostFails, RequestRecords
<1>1. CASE PostTask(r, d)
  <2>. DEFINE p == [task |-> Task(r, d), file |-> FileNow(r), same |-> req[r].same]
  <2>1. PICK lost \in BOOLEAN :
          Goes(r, After([q EXCEPT !.targets = @ \ {d},
                        !.sent = IF lost THEN @ ELSE @ + 1,
                        !.failed = IF lost THEN @ + 1 ELSE @,
                        !.posted = @ \cup {p}]))
    BY <1>1 DEF PostTask
  <2>2. TaskFor(q, d, p) /\ p \in PostedRecords
    BY <1>0, TaskGood
  <2>. HIDE DEF p
  <2>. DEFINE sent == IF lost THEN q.sent ELSE q.sent + 1
              failed == IF lost THEN q.failed + 1 ELSE q.failed
              posted == q.posted \cup {p}
  <2>3. [q EXCEPT !.targets = @ \ {d}, !.sent = IF lost THEN @ ELSE @ + 1,
                  !.failed = IF lost THEN @ + 1 ELSE @, !.posted = @ \cup {p}]
        = [q EXCEPT !.targets = q.targets \ {d}, !.sent = sent, !.failed = failed,
                    !.posted = posted]
    BY <1>0 DEF RequestRecords
  <2>4. /\ sent \in Nat /\ failed \in Nat /\ sent + failed = q.sent + q.failed + 1
        /\ sent \in {q.sent, q.sent + 1} /\ posted \in SUBSET PostedRecords
    BY <1>0, <2>2
  <2>5. Goes(r, After([q EXCEPT !.targets = q.targets \ {d}, !.sent = sent, !.failed = failed,
                                !.posted = posted]))
    BY <2>1, <2>3
  <2>6. \E s : TaskFor(q, d, s) /\ posted = q.posted \cup {s} /\ sent \in {q.sent, q.sent + 1}
    BY <2>2, <2>4
  <2>. HIDE DEF sent, failed, posted
  <2>. QED
    BY <1>0, <2>4, <2>5, <2>6, ServedIInv
<1>2. CASE PostFails(r, d)
  <2>. DEFINE failed == q.failed + 1
  <2>1. [q EXCEPT !.targets = @ \ {d}, !.failed = @ + 1]
        = [q EXCEPT !.targets = q.targets \ {d}, !.sent = q.sent, !.failed = failed,
                    !.posted = q.posted]
    BY <1>0 DEF RequestRecords
  <2>2. failed \in Nat /\ q.sent + failed = q.sent + q.failed + 1
    BY <1>0
  <2>3. Goes(r, After([q EXCEPT !.targets = q.targets \ {d}, !.sent = q.sent,
                                !.failed = failed, !.posted = q.posted]))
    BY <1>2, <2>1 DEF PostFails
  <2>. HIDE DEF failed
  <2>. QED
    BY <1>0, <2>2, <2>3, ServedIInv
<1>. QED
  BY <1>1, <1>2

(* The file or the address of the ACS moves: what the requests that rely   *)
(* on it have read is marked; those of ended end, and nothing else changes.*)
LEMMA MovedIInv ==
  ASSUME IInv, NEW moved \in SUBSET Requests, NEW ended \in SUBSET Requests,
         WorldType', FilesAreWhole',
         req' = [r \in Requests |-> IF r \in ended THEN Idle
                                    ELSE [req[r] EXCEPT !.same = @ /\ ~(r \in moved)]],
         \A r \in Requests \ moved :
            req[r].at \in {"targets", "post"} /\ req[r].ask.op # "read" =>
              files'[NbiUrl'][req[r].ask.name] = files[NbiUrl][req[r].ask.name]
  PROVE  IInv'
<1>1. ASSUME NEW r \in Requests, r \notin ended
      PROVE  /\ Good(req'[r]) /\ req'[r].at = req[r].at /\ req'[r].ask = req[r].ask
             /\ req'[r].type = req[r].type
             /\ req'[r].same => req[r].same /\ r \notin moved
  <2>0. Good(req[r]) /\ req[r] \in RequestRecords
    BY DEF IInv
  <2>1. PICK b \in BOOLEAN : b = (req[r].same /\ ~(r \in moved))
    BY Zenon
  <2>2. req'[r] = [req[r] EXCEPT !.same = b]
    <3>1. req'[r] = [req[r] EXCEPT !.same = @ /\ ~(r \in moved)]
      BY <1>1
    <3>. QED
      BY <2>1, <3>1
  <2>3. /\ Good(req'[r]) /\ req'[r].at = req[r].at /\ req'[r].ask = req[r].ask
        /\ req'[r].type = req[r].type /\ req'[r].same = b
    <3>. DEFINE n == [req[r] EXCEPT !.same = b]
    <3>1. Good(n) /\ n.same = b /\ n.at = req[r].at /\ n.ask = req[r].ask /\ n.type = req[r].type
      BY <2>0, DisturbedGood
    <3>. HIDE DEF n
    <3>2. req'[r] = n
      BY <2>2 DEF n
    <3>. QED
      BY ONLY <3>1, <3>2
  <2>4. b => req[r].same /\ r \notin moved
    BY <2>1
  <2>. QED
    BY <2>3, <2>4
<1>2. ASSUME NEW r \in ended PROVE req'[r] = Idle /\ Good(Idle) /\ Idle.at = "idle"
  BY IdleGood, IdleFields
<1>3. \A r \in Requests : Good(req'[r])
  BY <1>1, <1>2
<1>4. req' \in [Requests -> RequestRecords]
  BY <1>3 DEF Good
<1>5. ASSUME NEW r \in Requests PROVE Fresh(req[r])'
  <2>1. CASE r \in ended
    BY <1>2, <2>1 DEF Fresh
  <2>2. CASE r \notin ended
    BY <1>1, <2>2 DEF IInv, Fresh
  <2>. QED
    BY <2>1, <2>2
<1>6. ASSUME NEW r \in Requests PROVE Good(req[r])'
  BY ONLY <1>3 DEF Good, Asking, Downloading, Checked, Targeting, Counting, Telling, Selected,
     CheckPublicUrl
<1>. QED
  BY <1>4, <1>5, <1>6 DEF IInv

(* The settings are saved: the address only if it is allowed.              *)
LEMMA UpdateSettingsIInv ==
  ASSUME IInv, NEW body \in NewSettings, UpdateSettings(body)
  PROVE  IInv'
<1>1. WorldType /\ FilesAreWhole /\ req \in [Requests -> RequestRecords]
  BY DEF IInv
<1>2. /\ body.nbi # None => body.nbi \in Acs /\ CheckAllowedUrl(body.nbi)
      /\ body.cr \in {None} \cup BOOLEAN
  BY SettingsAssumption DEF UpdateSettings
<1>3. settings' \in [nbi: Acs \cup {None}, cr: {None} \cup BOOLEAN]
  <2>. DEFINE nbi == IF body.nbi = None THEN settings.nbi ELSE body.nbi
              cr == IF body.cr = None THEN settings.cr ELSE body.cr
  <2>1. nbi \in Acs \cup {None}
    BY <1>1, <1>2 DEF WorldType
  <2>2. cr \in {None} \cup BOOLEAN
    <3>1. settings.cr \in {None} \cup BOOLEAN
      BY <1>1 DEF WorldType
    <3>. QED
      BY <1>2, <3>1, Zenon
  <2>3. settings' = [nbi |-> nbi, cr |-> cr]
    BY DEF UpdateSettings
  <2>. HIDE DEF nbi, cr
  <2>. QED
    BY <2>1, <2>2, <2>3
<1>4. settings'.nbi # None => CheckAllowedUrl(settings'.nbi)
  BY <1>1, <1>2 DEF UpdateSettings, WorldType
<1>5. UNCHANGED <<files, tag, ops>>
  BY DEF UpdateSettings
<1>6. WorldType' /\ FilesAreWhole'
  <2>1. WorldType'
    BY <1>1, <1>3, <1>4, <1>5 DEF WorldType, CheckAllowedUrl
  <2>2. FilesAreWhole'
    BY <1>1, <1>5 DEF FilesAreWhole, CheckPublicUrl
  <2>. QED
    BY <2>1, <2>2
<1>7. CASE body.nbi = None
  <2>1. req' = req
    BY <1>7 DEF UpdateSettings
  <2>2. NbiUrl' = NbiUrl
    BY <1>7 DEF UpdateSettings, NbiUrl
  <2>3. ASSUME NEW r \in Requests PROVE Good(req[r])' /\ Fresh(req[r])'
    <3>1. Good(req[r]) /\ Fresh(req[r]) /\ req'[r] = req[r] /\ files' = files
      BY <1>5, <2>1 DEF IInv
    <3>2. Good(req[r])'
      BY ONLY <3>1 DEF Good, Asking, Downloading, Checked, Targeting, Counting, Telling,
         Selected, CheckPublicUrl
    <3>3. Fresh(req[r])'
      BY ONLY <2>2, <3>1 DEF Fresh
    <3>. QED
      BY <3>2, <3>3
  <2>. QED
    BY <1>1, <1>6, <2>1, <2>3 DEF IInv
<1>8. CASE body.nbi # None
  <2>. DEFINE moved == {r \in Requests : TypeRead(r)}
  <2>1. req' = [r \in Requests |-> [req[r] EXCEPT !.same = @ /\ ~TypeRead(r)]]
    BY <1>8 DEF UpdateSettings, Disturbed
  <2>2. \A r \in Requests : TypeRead(r) <=> r \in moved
    OBVIOUS
  <2>3. req' = [r \in Requests |-> IF r \in {} THEN Idle
                                    ELSE [req[r] EXCEPT !.same = @ /\ ~(r \in moved)]]
    BY <2>1
  <2>4. \A r \in Requests \ moved : ~(req[r].at \in {"targets", "post"} /\ req[r].ask.op # "read")
    BY DEF TypeRead
  <2>. HIDE DEF moved
  <2>5. moved \in SUBSET Requests
    BY DEF moved
  <2>6. {} \in SUBSET Requests
    OBVIOUS
  <2>. QED
    BY <1>6, <2>3, <2>4, <2>5, <2>6, MovedIInv
<1>. QED
  BY <1>7, <1>8

(* A file is put on the server spoken to, or taken from it, and no other.  *)
LEMMA FileMoves ==
  ASSUME IInv, NEW name \in Names, NEW f \in FileRecords \cup {None},
         f # None => /\ f.declared # None => f.size = f.declared
                     /\ \A u \in f.hops : CheckPublicUrl(u),
         files' = [files EXCEPT ![NbiUrl][name] = f], UNCHANGED <<settings, tag, ops>>
  PROVE  /\ WorldType' /\ FilesAreWhole' /\ NbiUrl' = NbiUrl
         /\ \A n \in Names \ {name} : files'[NbiUrl][n] = files[NbiUrl][n]
<1>0. /\ WorldType /\ FilesAreWhole /\ NbiUrl \in Acs
      /\ files \in [Acs -> [Names -> FileRecords \cup {None}]]
  BY NbiUrlType DEF IInv, WorldType
<1>. DEFINE row == [files[NbiUrl] EXCEPT ![name] = f]
<1>1. row \in [Names -> FileRecords \cup {None}]
  BY <1>0
<1>2. /\ row[name] = f
      /\ \A n \in Names \ {name} : row[n] = files[NbiUrl][n]
  BY <1>0
<1>3. files' = [files EXCEPT ![NbiUrl] = row]
  OBVIOUS
<1>. HIDE DEF row
<1>4. files' \in [Acs -> [Names -> FileRecords \cup {None}]]
  BY <1>0, <1>1, <1>3
<1>5. files'[NbiUrl] = row /\ \A a \in Acs \ {NbiUrl} : files'[a] = files[a]
  BY <1>0, <1>3
<1>6. WorldType'
  BY <1>0, <1>4 DEF WorldType, CheckAllowedUrl
<1>7. ASSUME NEW a \in Acs, NEW n \in Names, files'[a][n] # None
      PROVE  /\ files'[a][n].size \in 1..Limit
             /\ files'[a][n].declared # None => files'[a][n].size = files'[a][n].declared
             /\ \A u \in files'[a][n].hops : CheckPublicUrl(u)
  <2>1. CASE a = NbiUrl /\ n = name
    BY <1>2, <1>5, <1>7, <2>1 DEF FileRecords
  <2>2. CASE ~(a = NbiUrl /\ n = name)
    <3>1. files'[a][n] = files[a][n]
      BY <1>2, <1>5, <2>2
    <3>. QED
      BY <1>0, <1>7, <3>1 DEF FilesAreWhole
  <2>. QED
    BY <2>1, <2>2
<1>8. FilesAreWhole'
  BY <1>7 DEF FilesAreWhole, CheckPublicUrl
<1>9. NbiUrl' = NbiUrl
  BY DEF NbiUrl
<1>. QED
  BY <1>2, <1>5, <1>6, <1>8, <1>9

(* What has come in is stored, whole, with its type.                       *)
LEMMA StoreIInv ==
  ASSUME IInv, NEW r \in Requests, Store(r)
  PROVE  IInv'
<1>. DEFINE q == req[r]
            name == q.ask.name
            f == File(Ft(q.ask.type), q.size, q.declared, q.hops)
            moved == OfFile(name)
<1>0. /\ Good(q) /\ q \in RequestRecords /\ q.at = "store" /\ q.size > 0
      /\ q.ask \in Asks /\ q.ask.op \in {"upload", "url"}
  BY DEF IInv, Store, Good, Asking
<1>1. name \in Names
  BY <1>0, AsksAssumption
<1>2. Ft(q.ask.type) \in Types
  BY DEF Ft, Types, FILE_TYPE
<1>3. q.size \in 1..Limit /\ q.declared \in {None} \cup Nat /\ q.hops \in SUBSET Urls
  BY <1>0, LimitAssumption DEF RequestRecords
<1>4. /\ f \in FileRecords /\ f.size = q.size /\ f.declared = q.declared /\ f.hops = q.hops
  BY <1>2, <1>3 DEF File, FileRecords
<1>5. /\ f.declared # None => f.size = f.declared
      /\ \A u \in f.hops : CheckPublicUrl(u)
  BY <1>0, <1>4 DEF Good, Downloading
<1>6. files' = [files EXCEPT ![NbiUrl][name] = f] /\ UNCHANGED <<settings, tag, ops>>
  BY DEF Store
<1>7. req' = [[k \in Requests |-> [req[k] EXCEPT !.same = @ /\ ~(k \in moved)]] EXCEPT ![r] = Idle]
  BY DEF Store, Disturbed
<1>8. \A k \in Requests \ moved :
        req[k].at \in {"targets", "post"} /\ req[k].ask.op # "read" => req[k].ask.name # name
  BY DEF OfFile, TypeRead
<1>9. moved \in SUBSET Requests
  BY DEF OfFile
<1>10. \A k \in Requests : req[k].at \in {"targets", "post"} /\ req[k].ask.op # "read" =>
         req[k].ask.name \in Names
  BY AsksAssumption DEF IInv, Good, Asking
<1>. HIDE DEF f, name, moved
<1>11. /\ WorldType' /\ FilesAreWhole' /\ NbiUrl' = NbiUrl
       /\ \A n \in Names \ {name} : files'[NbiUrl][n] = files[NbiUrl][n]
  BY <1>1, <1>4, <1>5, <1>6, FileMoves
<1>12. \A k \in Requests \ moved :
         req[k].at \in {"targets", "post"} /\ req[k].ask.op # "read" =>
           files'[NbiUrl'][req[k].ask.name] = files[NbiUrl][req[k].ask.name]
  BY <1>8, <1>10, <1>11
<1>13. req' = [k \in Requests |-> IF k \in {r} THEN Idle
                                  ELSE [req[k] EXCEPT !.same = @ /\ ~(k \in moved)]]
  BY <1>7
<1>14. {r} \in SUBSET Requests
  OBVIOUS
<1>. QED
  BY <1>9, <1>11, <1>12, <1>13, <1>14, MovedIInv

(* A file is deleted.                                                      *)
LEMMA DeleteIInv ==
  ASSUME IInv, NEW name \in Names, DeleteFirmware(name)
  PROVE  IInv'
<1>. DEFINE moved == OfFile(name)
<1>1. files' = [files EXCEPT ![NbiUrl][name] = None] /\ UNCHANGED <<settings, tag, ops>>
  BY DEF DeleteFirmware
<1>2. req' = [k \in Requests |-> [req[k] EXCEPT !.same = @ /\ ~(k \in moved)]]
  BY DEF DeleteFirmware, Disturbed
<1>3. \A k \in Requests \ moved :
        req[k].at \in {"targets", "post"} /\ req[k].ask.op # "read" => req[k].ask.name # name
  BY DEF OfFile, TypeRead
<1>4. moved \in SUBSET Requests
  BY DEF OfFile
<1>5. \A k \in Requests : req[k].at \in {"targets", "post"} /\ req[k].ask.op # "read" =>
         req[k].ask.name \in Names
  BY AsksAssumption DEF IInv, Good, Asking
<1>. HIDE DEF moved
<1>6. /\ WorldType' /\ FilesAreWhole' /\ NbiUrl' = NbiUrl
      /\ \A n \in Names \ {name} : files'[NbiUrl][n] = files[NbiUrl][n]
  BY <1>1, FileMoves
<1>7. \A k \in Requests \ moved :
         req[k].at \in {"targets", "post"} /\ req[k].ask.op # "read" =>
           files'[NbiUrl'][req[k].ask.name] = files[NbiUrl][req[k].ask.name]
  BY <1>3, <1>5, <1>6
<1>8. req' = [k \in Requests |-> IF k \in {} THEN Idle
                                 ELSE [req[k] EXCEPT !.same = @ /\ ~(k \in moved)]]
  BY <1>2
<1>9. {} \in SUBSET Requests
  OBVIOUS
<1>. QED
  BY <1>4, <1>6, <1>7, <1>8, <1>9, MovedIInv

(* A device changes hands: no request has looked at it yet, or it keeps    *)
(* the tags it looked at.                                                  *)
LEMMA RetagIInv ==
  ASSUME IInv, NEW d \in Devices, NEW isp \in Isps, Retag(d, isp)
  PROVE  IInv'
<1>0. UNCHANGED <<settings, files, req, ops>> /\ tag' = [tag EXCEPT ![d] = isp]
  BY DEF Retag
<1>1. WorldType'
  <2>1. tag' \in [Devices -> Isps]
    BY <1>0 DEF IInv, WorldType
  <2>. QED
    BY <1>0, <2>1 DEF IInv, WorldType, CheckAllowedUrl
<1>2. FilesAreWhole' /\ req' \in [Requests -> RequestRecords]
  BY <1>0 DEF IInv, FilesAreWhole, CheckPublicUrl
<1>3. \A r \in Requests : Good(req'[r]) /\ Fresh(req[r])
  BY <1>0 DEF IInv
<1>4. ASSUME NEW r \in Requests PROVE Good(req[r])'
  BY ONLY <1>3 DEF Good, Asking, Downloading, Checked, Targeting, Counting, Telling, Selected,
     CheckPublicUrl
<1>5. ASSUME NEW r \in Requests PROVE Fresh(req[r])'
  BY <1>0, <1>3 DEF Fresh, NbiUrl
<1>. QED
  BY <1>1, <1>2, <1>4, <1>5 DEF IInv

(* Every step keeps the invariant.                                         *)
LEMMA StepIInv == IInv /\ [Next]_vars => IInv'
<1>. SUFFICES ASSUME IInv, [Next]_vars PROVE IInv'
  OBVIOUS
<1>1. CASE UNCHANGED vars
  <2>0. UNCHANGED <<settings, files, req, ops, tag>>
    BY <1>1 DEF vars
  <2>1. WorldType' /\ FilesAreWhole' /\ req' \in [Requests -> RequestRecords]
    BY <2>0 DEF IInv, WorldType, FilesAreWhole, CheckPublicUrl, CheckAllowedUrl
  <2>2. \A r \in Requests : Good(req'[r]) /\ Fresh(req[r])
    BY <2>0 DEF IInv
  <2>3. ASSUME NEW r \in Requests PROVE Good(req[r])'
    BY ONLY <2>2 DEF Good, Asking, Downloading, Checked, Targeting, Counting, Telling, Selected,
       CheckPublicUrl
  <2>4. ASSUME NEW r \in Requests PROVE Fresh(req[r])'
    BY <2>0, <2>2 DEF Fresh, NbiUrl
  <2>. QED
    BY <2>1, <2>3, <2>4 DEF IInv
<1>2. ASSUME NEW r \in Requests, Asked(r) PROVE IInv'
  BY <1>2, AskedIInv
<1>3. ASSUME NEW r \in Requests, Serves(r) PROVE IInv'
  <2>1. CASE CheckHop(r) \/ GetHop(r) \/ Block(r) \/ Closes(r)
    BY <2>1, DownloadIInv
  <2>2. CASE Store(r)
    BY <2>2, StoreIInv
  <2>3. CASE StoreEmpty(r) \/ Fails(r)
    <3>1. Refuses(r)
      BY <2>3 DEF StoreEmpty, Fails
    <3>. QED
      BY <3>1, RefusesIInv
  <2>4. CASE FileTypeOf(r) \/ ResolveTargets(r) \/ Sample(r)
    BY <2>4, PushIInv
  <2>5. CASE \E d \in Devices : PostTask(r, d) \/ PostFails(r, d)
    BY <2>5, PostIInv
  <2>. QED
    BY <1>3, <2>1, <2>2, <2>3, <2>4, <2>5 DEF Serves
<1>4. ASSUME NEW body \in NewSettings, UpdateSettings(body) PROVE IInv'
  BY <1>4, UpdateSettingsIInv
<1>5. ASSUME NEW name \in Names, DeleteFirmware(name) PROVE IInv'
  BY <1>5, DeleteIInv
<1>6. ASSUME NEW d \in Devices, NEW isp \in Isps, Retag(d, isp) PROVE IInv'
  BY <1>6, RetagIInv
<1>. QED
  BY <1>1, <1>2, <1>3, <1>4, <1>5, <1>6 DEF Next

-----------------------------------------------------------------------------
(* Theorems *)

(* Every request, at every stage, is what its earlier awaits make it, and  *)
(* every file on a server is whole (app/routers/firmware.py, app/bulk.py). *)
THEOREM Invariant == Spec => []IInv
<1>1. Init => IInv
  BY InitIInv
<1>2. IInv /\ [Next]_vars => IInv'
  BY StepIInv
<1>. QED
  BY <1>1, <1>2, PTL DEF Spec

(* Every variable keeps its type, and a saved address is one of the        *)
(* networks allowed (update_settings).                                     *)
THEOREM TypeCorrect == Spec => []TypeOK
<1>1. IInv => TypeOK
  <2>. SUFFICES ASSUME IInv PROVE TypeOK
    OBVIOUS
  <2>1. /\ settings.nbi # None => settings.nbi \in Acs /\ CheckAllowedUrl(settings.nbi)
        /\ settings.cr \in BOOLEAN \cup {None}
    BY DEF IInv, WorldType
  <2>2. \A a \in Acs, n \in Names : files[a][n] # None => files[a][n].type \in Types
    BY DEF IInv, WorldType, FileRecords
  <2>3. tag \in [Devices -> Isps] /\ ops \in 0..MaxOps
    BY DEF IInv, WorldType
  <2>4. ASSUME NEW r \in Requests
        PROVE  /\ req[r].at \in {"idle", "check", "get", "body", "store", "type", "targets",
                                 "sample", "post", "done"}
               /\ req[r].size \in 0..Limit /\ req[r].left \in 0..MaxRedirects
               /\ req[r].targets \subseteq Devices
               /\ req[r].sent + req[r].failed <= Cardinality(Devices)
    <3>1. Good(req[r]) /\ req[r] \in RequestRecords
      BY DEF IInv
    <3>2. req[r].targets \subseteq Devices /\ req[r].sent \in Nat /\ req[r].failed \in Nat
      BY <3>1 DEF RequestRecords
    <3>3. Cardinality(req[r].targets) \in Nat /\ Cardinality(Devices) \in Nat
      BY <3>2, DevicesAssumption, FS_Subset, FS_CardinalityType
    <3>4. req[r].sent + req[r].failed <= Cardinality(Devices)
      BY <3>1, <3>2, <3>3 DEF Good, Counting
    <3>. QED
      BY <3>1, <3>2, <3>4 DEF RequestRecords, Stages
  <2>. QED
    BY <2>1, <2>2, <2>3, <2>4 DEF TypeOK
<1>. QED
  BY <1>1, Invariant, PTL

(* A file on a server is all of what its site declared, no more than the   *)
(* limit, and came only by addresses looked at one by one (_Spool,         *)
(* upload_firmware_url, _store).                                           *)
THEOREM FilesWhole == Spec => []FilesAreWhole
<1>1. IInv => FilesAreWhole
  BY DEF IInv
<1>. QED
  BY <1>1, Invariant, PTL

(* What a device is told to download has, by the file the server holds,    *)
(* the type that was checked, and is firmware for an operator of an ISP,   *)
(* unless the file or the server changed between the check and the task    *)
(* (file_type_of, push_firmware, push_firmware_bulk).                      *)
THEOREM WrongFileByRace == Spec => []WrongFileOnlyByRace
<1>1. IInv => WrongFileOnlyByRace
  BY DEF IInv, WrongFileOnlyByRace, Good, Telling
<1>. QED
  BY <1>1, Invariant, PTL

(* A bulk request reaches each device once at most, and only those its     *)
(* whole filter and its user's ISP select of the list it was answered; its *)
(* counts cover the tasks sent and, at the end, all the devices selected   *)
(* (resolve_targets, push_firmware_bulk, read_status_bulk).                *)
THEOREM BulkExact == Spec => []BulkIsExact
<1>1. IInv => BulkIsExact
  <2>. SUFFICES ASSUME IInv, NEW r \in Requests,
                       req[r].at \in {"post", "done"} /\ req[r].ask.op \in {"push", "read"}
                PROVE  LET ask == req[r].ask
                           posted == req[r].posted
                           reached == {p.task.device : p \in posted}
                           selected == Selected(ask, req[r].listed)
                       IN  /\ Cardinality(reached) = Cardinality(posted)
                           /\ reached \subseteq selected
                           /\ req[r].sent <= Cardinality(posted)
                           /\ Cardinality(posted) <= req[r].sent + req[r].failed
                           /\ req[r].at = "done" =>
                                req[r].sent + req[r].failed = Cardinality(selected)
                           /\ \A p \in posted : ~p.task.cr
    BY Zenon DEF BulkIsExact
  <2>. DEFINE posted == req[r].posted
              reached == {p.task.device : p \in posted}
              selected == Selected(req[r].ask, req[r].listed)
              device == [p \in posted |-> p.task.device]
  <2>1. req[r] \in RequestRecords /\ Counting(req[r]) /\ Telling(req[r]) /\ Targeting(req[r])
    BY DEF IInv, Good
  <2>2. IsFiniteSet(posted) /\ \A p, s \in posted : p.task.device = s.task.device => p = s
    BY <2>1 DEF Counting
  <2>3. device \in Bijection(posted, reached)
    BY <2>2 DEF Bijection, Injection, Surjection, IsInjective
  <2>. HIDE DEF device
  <2>4. Cardinality(reached) = Cardinality(posted)
    <3>. HIDE DEF posted, reached
    <3>1. ExistsBijection(posted, reached)
      BY <2>3 DEF ExistsBijection
    <3>. QED
      BY <2>2, <3>1, FS_Bijection
  <2>5. /\ req[r].sent <= Cardinality(posted)
        /\ Cardinality(posted) <= req[r].sent + req[r].failed
    BY <2>1 DEF Counting
  <2>6. reached \subseteq selected /\ \A p \in posted : ~p.task.cr
    BY <2>1 DEF Telling
  <2>7. ASSUME req[r].at = "done" PROVE req[r].sent + req[r].failed = Cardinality(selected)
    <3>1. req[r].targets = {} /\ req[r].sent \in Nat /\ req[r].failed \in Nat
      BY <2>1, <2>7 DEF Counting, RequestRecords
    <3>2. req[r].sent + req[r].failed + Cardinality(req[r].targets) = Cardinality(selected)
      BY <2>1, <2>7 DEF Targeting
    <3>. HIDE DEF selected
    <3>. QED
      BY <3>1, <3>2, FS_EmptySet
  <2>. QED
    BY <2>4, <2>5, <2>6, <2>7
<1>. QED
  BY <1>1, Invariant, PTL
=============================================================================
