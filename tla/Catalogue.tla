----------------------------- MODULE Catalogue -----------------------------
(***************************************************************************)
(* What an installation knows of each model of CPE, and the files that     *)
(* carry it to another installation (app/catalog.py, routers/trees.py,     *)
(* routers/profiles.py, routers/homologacion.py, and the model_profile,    *)
(* model_tree and model_tree_device tables of app/db.py).                  *)
(*                                                                         *)
(* No handler awaits between two writes, so within an installation only a  *)
(* crash falls between the commits of one: an import is one action per     *)
(* commit, and nothing else of its installation runs until it ends.        *)
(*                                                                         *)
(* A path is unknown (0), known (1) or known to be writable (2).  The      *)
(* columns that only identify or date a row are left out.  A key has no    *)
(* blanks around it (clave keeps them, importar strips them), and a file   *)
(* names it once, in the order in which it was exported.                   *)
(***************************************************************************)
EXTENDS Naturals, Sequences, FiniteSets

CONSTANTS
  Installations,  \* each with a database of its own
  KeyOrder,       \* the keys fabricante|clase|modelo|firmware, as SQLite sorts them
  Paths,          \* parameter paths a model may have
  Docs,           \* documents of the ACS: [paths, deduced], what derive finds in it
  Deductions,     \* profiles derive can find
  Concepts,       \* concepts an admin may correct
  Routes,         \* paths written as corrections
  Devices,        \* CPEs
  Fleet,          \* which of them each installation has
  Absent,         \* no value
  NoTree,         \* no row in model_tree
  Corrupt,        \* model_tree.paths that is not a JSON object
  NoRow,          \* no row in model_profile
  NoProfile,      \* a row whose profile is {}, or a file without one
  NoEntry,        \* a file says nothing of this key
  Malformed,      \* overrides of a file that are not an object
  MaxOps,         \* bound: requests, and edits of files
  MaxFaults       \* bound: crashes and damaged rows

Positions == 1..Len(KeyOrder)
Keys == {KeyOrder[n] : n \in Positions}
Tree == [Paths -> 0..2]
Unknown == [p \in Paths |-> 0]
Profile == [deduced: Deductions, evidence: Devices \cup {Absent}]
Overrides == [Concepts -> Routes \cup {Absent}]
FileEntry ==
  [paths: Tree, root: {"none", "Device"}, profile: Profile \cup {NoProfile},
   overrides: Overrides \cup {Malformed}]

ASSUME DataAssumption ==
  /\ IsFiniteSet(Paths)
  /\ Docs \subseteq [paths: Tree, deduced: Deductions]
  /\ Fleet \in [Installations -> SUBSET Devices]
ASSUME KeysAssumption ==
  /\ KeyOrder \in Seq(Keys) \ {<<>>}
  /\ \A m, n \in Positions : m # n => KeyOrder[m] # KeyOrder[n]
ASSUME ValuesAssumption ==
  /\ Absent \notin Nat \cup Routes \cup Devices
  /\ {NoTree, Corrupt} \cap Tree = {}
  /\ NoTree # Corrupt
  /\ {NoRow, NoProfile} \cap Profile = {}
  /\ NoRow # NoProfile
  /\ Malformed \notin Overrides
  /\ NoEntry \notin FileEntry
ASSUME BoundsAssumption ==
  /\ MaxOps \in Nat
  /\ MaxFaults \in Nat

VARIABLES
  cat,        \* per installation and key: its rows
  importing,  \* per installation: the import being served, and how far it is
  files,      \* exported catalogues: per key, its entry
  ops,        \* operations so far (bound)
  faults,     \* faults so far (bound)
  local,      \* history: what was last deduced here, and corrected here by hand
  reads,      \* history: the paths each device had when it was last read
  damaged     \* history: the tree was damaged since it was last forgotten

vars == <<cat, importing, files, ops, faults, local, reads, damaged>>

NoOverrides == [c \in Concepts |-> Absent]
NoDevices == [d \in Devices |-> Absent]
Blank ==
  [paths |-> NoTree, root |-> "none", n_params |-> 0, seen |-> NoDevices,
   profile |-> NoRow, overrides |-> NoOverrides]
Idle == [file |-> [k \in Keys |-> NoEntry], at |-> 0, stage |-> "merge", free |-> {}]

-----------------------------------------------------------------------------
(* merge_model_tree.                                                       *)
Known(tree) == {p \in Paths : tree[p] > 0}

(* The flag of the last tree wins.                                         *)
UnionOfLastFlag(a, b) == [p \in Paths |-> IF b[p] > 0 THEN b[p] ELSE a[p]]

Union(a, b) == [p \in Paths |-> IF a[p] >= b[p] THEN a[p] ELSE b[p]]

RootOf(tree) == IF Known(tree) = {} THEN "none" ELSE "Device"

Merged(r, tree, root, d) ==
  LET before == IF r.paths \in Tree THEN r.paths ELSE Unknown
      union == Union(before, tree)
      counted == IF d = Absent THEN r.seen
                 ELSE [r.seen EXCEPT ![d] = Cardinality(Known(tree))]
  IN IF r.paths = NoTree \/ union # before
     THEN [r EXCEPT !.paths = union,
                    !.root = IF root = "none" THEN @ ELSE root,
                    !.n_params = Cardinality(Known(union)),
                    !.seen = counted]
     ELSE [r EXCEPT !.seen = counted]

(* A tree no device answers for counts as whole.                           *)
IncompleteByAnyDevice(r) ==
  LET counts == {r.seen[d] : d \in Devices} \ {Absent}
  IN IF \E n \in counts : n < r.n_params THEN "yes" ELSE "no"

(* listar: whether some device alone has as much as the union.             *)
Incomplete(r) ==
  LET counts == {r.seen[d] : d \in Devices} \ {Absent}
  IN IF counts = {} THEN "unknown"
     ELSE IF \A n \in counts : n < r.n_params THEN "yes" ELSE "no"

(* The profile as it is.                                                   *)
WithItsEvidence(profile) == IF profile = NoRow THEN NoProfile ELSE profile

(* _perfil_sin_evidencia.                                                  *)
WithoutEvidence(profile) ==
  IF profile \in {NoRow, NoProfile} THEN NoProfile
  ELSE [profile EXCEPT !.evidence = Absent]

(* The three writes of importar for one entry.                             *)
Joined(r, e) == Merged(r, e.paths, e.root, Absent)

(* The profile of the file wins.                                           *)
SeededOver(r, e) ==
  IF r.profile = NoRow \/ e.profile # NoProfile
  THEN [r EXCEPT !.profile = WithoutEvidence(e.profile)]
  ELSE r

(* A row without profile counts as a profile.                              *)
SeededWithoutRow(r, e) ==
  IF r.profile = NoRow
  THEN [r EXCEPT !.profile = WithoutEvidence(e.profile)]
  ELSE r

Seeded(r, e) ==
  IF r.profile = NoRow \/ (r.profile = NoProfile /\ e.profile # NoProfile)
  THEN [r EXCEPT !.profile = WithoutEvidence(e.profile)]
  ELSE r

FreeConcepts(r, e) ==
  IF e.overrides = Malformed THEN {}
  ELSE {c \in Concepts : e.overrides[c] # Absent /\ r.overrides[c] = Absent}

Filled(r, e, concepts) ==
  [r EXCEPT !.overrides =
     [c \in Concepts |-> IF c \in concepts THEN e.overrides[c] ELSE @[c]]]

(* The entries importar does not put on its list of ignored ones.          *)
Accepted(e) == e # NoEntry /\ Known(e.paths) # {}

-----------------------------------------------------------------------------
Init ==
  /\ cat = [i \in Installations |-> [k \in Keys |-> Blank]]
  /\ importing = [i \in Installations |-> Idle]
  /\ files = {}
  /\ ops = 0
  /\ faults = 0
  /\ local = [i \in Installations |-> [k \in Keys |->
                [profile |-> NoProfile, overrides |-> NoOverrides]]]
  /\ reads = [i \in Installations |-> [k \in Keys |-> [d \in Devices |-> {}]]]
  /\ damaged = [i \in Installations |-> [k \in Keys |-> FALSE]]

Request(i) ==
  /\ importing[i] = Idle
  /\ ops < MaxOps
  /\ ops' = ops + 1

Fault ==
  /\ faults < MaxFaults
  /\ faults' = faults + 1

Deduce(i, k, profile) ==
  local' = [local EXCEPT ![i][k].profile = profile]

(* recordar: a device's page is opened, or a mapping is asked for it.      *)
OpenDevice(i) ==
  /\ Request(i)
  /\ \E d \in Fleet[i], k \in Keys, doc \in Docs :
       LET profile == [deduced |-> doc.deduced, evidence |-> d] IN
       /\ cat' = [cat EXCEPT ![i][k] =
            Merged([@ EXCEPT !.profile = profile], doc.paths, RootOf(doc.paths), d)]
       /\ Deduce(i, k, profile)
       /\ reads' = [reads EXCEPT ![i][k][d] = Known(doc.paths)]
  /\ UNCHANGED <<importing, files, faults, damaged>>

(* The same, and the service dies before the tree is written.              *)
OpenDeviceDies(i) ==
  /\ Request(i)
  /\ Fault
  /\ \E d \in Fleet[i], k \in Keys, doc \in Docs :
       LET profile == [deduced |-> doc.deduced, evidence |-> d] IN
       /\ cat' = [cat EXCEPT ![i][k].profile = profile]
       /\ Deduce(i, k, profile)
  /\ UNCHANGED <<importing, files, reads, damaged>>

(* set_override, confirmar: a correction by hand, or (Absent) its removal. *)
Correct(i) ==
  /\ Request(i)
  /\ \E k \in Keys, c \in Concepts, route \in Routes \cup {Absent} :
       /\ cat[i][k].profile # NoRow
       /\ cat' = [cat EXCEPT ![i][k].overrides[c] = route]
       /\ local' = [local EXCEPT ![i][k].overrides[c] = route]
  /\ UNCHANGED <<importing, files, faults, reads, damaged>>

(* borrar_model_tree: the profile and its corrections stay.                *)
Forget(i) ==
  /\ Request(i)
  /\ \E k \in Keys :
       /\ cat[i][k].paths # NoTree
       /\ cat' = [cat EXCEPT ![i][k] =
            [@ EXCEPT !.paths = NoTree, !.root = "none", !.n_params = 0, !.seen = NoDevices]]
       /\ damaged' = [damaged EXCEPT ![i][k] = FALSE]
  /\ UNCHANGED <<importing, files, faults, local, reads>>

(* exportar: the models whose tree can be read; no device, no evidence.    *)
Entry(r) ==
  [paths |-> r.paths, root |-> r.root, profile |-> WithoutEvidence(r.profile),
   overrides |-> r.overrides]

(* A JOIN instead of a LEFT JOIN.                                          *)
ExportedWithProfile(c) ==
  [k \in Keys |->
     IF c[k].paths \in Tree /\ c[k].profile # NoRow THEN Entry(c[k]) ELSE NoEntry]

Exported(c) ==
  [k \in Keys |-> IF c[k].paths \in Tree THEN Entry(c[k]) ELSE NoEntry]

Export(i) ==
  /\ Request(i)
  /\ files' = files \cup {Exported(cat[i])}
  /\ UNCHANGED <<cat, importing, faults, local, reads, damaged>>

(* A file edited by hand, or written by another version.                   *)
Edited(e) ==
  {[e EXCEPT !.paths = Unknown], [e EXCEPT !.root = "none"],
   [e EXCEPT !.profile = NoProfile], [e EXCEPT !.overrides = Malformed]}
  \cup {[e EXCEPT !.profile.evidence = d] :
          d \in IF e.profile = NoProfile THEN {} ELSE Devices}

Edit ==
  /\ ops < MaxOps
  /\ ops' = ops + 1
  /\ \E f \in files, k \in Keys :
       /\ f[k] # NoEntry
       /\ \E e \in Edited(f[k]) : files' = files \cup {[f EXCEPT ![k] = e]}
  /\ UNCHANGED <<cat, importing, faults, local, reads, damaged>>

(* importar, one action per commit.                                        *)
Import(i) ==
  /\ Request(i)
  /\ \E f \in files :
       importing' = [importing EXCEPT ![i] = [@ EXCEPT !.file = f, !.at = 1]]
  /\ UNCHANGED <<cat, files, faults, local, reads, damaged>>

Here(i) == KeyOrder[importing[i].at]
Current(i) == importing[i].file[Here(i)]

Write(i, stage, r) ==
  /\ importing[i] # Idle
  /\ importing[i].stage = stage
  /\ Accepted(Current(i))
  /\ cat' = [cat EXCEPT ![i][Here(i)] = r]
  /\ UNCHANGED <<files, ops, faults, local, reads, damaged>>

(* An entry that brings no path is taken for one already imported.         *)
JoinTreeIfNew(i) ==
  LET row == Joined(cat[i][Here(i)], Current(i)) IN
  /\ Write(i, "merge", row)
  /\ importing' = [importing EXCEPT ![i].stage =
       IF row = cat[i][Here(i)] THEN "fill" ELSE "seed"]

JoinTree(i) ==
  /\ Write(i, "merge", Joined(cat[i][Here(i)], Current(i)))
  /\ importing' = [importing EXCEPT ![i].stage = "seed"]

SeedProfile(i) ==
  LET row == Seeded(cat[i][Here(i)], Current(i)) IN
  /\ Write(i, "seed", row)
  /\ importing' = [importing EXCEPT ![i] =
       [@ EXCEPT !.stage = "fill", !.free = FreeConcepts(row, Current(i))]]

FillConcept(i) ==
  \E c \in importing[i].free :
    /\ Write(i, "fill", Filled(cat[i][Here(i)], Current(i), {c}))
    /\ importing' = [importing EXCEPT ![i].free = @ \ {c}]

(* One entry too many.                                                     *)
AdvancedPastTheEnd(im) ==
  IF im.at > Len(KeyOrder) THEN Idle
  ELSE [im EXCEPT !.at = @ + 1, !.stage = "merge"]

(* The next entry, or the answer.                                          *)
Advanced(im) ==
  IF im.at = Len(KeyOrder) THEN Idle
  ELSE [im EXCEPT !.at = @ + 1, !.stage = "merge"]

NextEntry(i) ==
  /\ importing[i].free = {}
  /\ Write(i, "fill", cat[i][Here(i)])
  /\ Current(i).overrides # Malformed
  /\ importing' = [importing EXCEPT ![i] = Advanced(@)]

IgnoreEntry(i) ==
  /\ importing[i] # Idle
  /\ ~Accepted(Current(i))
  /\ importing' = [importing EXCEPT ![i] = Advanced(@)]
  /\ UNCHANGED <<cat, files, ops, faults, local, reads, damaged>>

(* (m.get("overrides") or {}).items() raises on what is not an object: the *)
(* request fails, and what it has committed stays.                         *)
ImportRaises(i) ==
  /\ Write(i, "fill", cat[i][Here(i)])
  /\ Current(i).overrides = Malformed
  /\ importing' = [importing EXCEPT ![i] = Idle]

(* The service stops in the middle of an import.                           *)
Restart(i) ==
  /\ Fault
  /\ importing[i] # Idle
  /\ importing' = [importing EXCEPT ![i] = Idle]
  /\ UNCHANGED <<cat, files, ops, local, reads, damaged>>

(* A restore cut short or an edit by hand leaves a tree nobody can read.   *)
Damage(i) ==
  /\ Fault
  /\ importing[i] = Idle
  /\ \E k \in Keys :
       /\ cat[i][k].paths \in Tree
       /\ cat' = [cat EXCEPT ![i][k].paths = Corrupt]
       /\ damaged' = [damaged EXCEPT ![i][k] = TRUE]
  /\ UNCHANGED <<importing, files, ops, local, reads>>

Next ==
  \/ \E i \in Installations :
       \/ OpenDevice(i) \/ OpenDeviceDies(i) \/ Correct(i) \/ Forget(i)
       \/ Export(i) \/ Import(i) \/ Restart(i) \/ Damage(i)
       \/ JoinTree(i) \/ SeedProfile(i) \/ FillConcept(i) \/ NextEntry(i)
       \/ IgnoreEntry(i) \/ ImportRaises(i)
  \/ Edit

Spec == Init /\ [][Next]_vars

-----------------------------------------------------------------------------
File == [Keys -> FileEntry \cup {NoEntry}]
Row ==
  [paths: Tree \cup {NoTree, Corrupt}, root: {"none", "Device"},
   n_params: 0..Cardinality(Paths), seen: [Devices -> 0..Cardinality(Paths) \cup {Absent}],
   profile: Profile \cup {NoRow, NoProfile}, overrides: Overrides]

ImportState ==
  [file: File, at: 0..Len(KeyOrder), stage: {"merge", "seed", "fill"},
   free: SUBSET Concepts]

(* Every column, file entry and stage of an import has its type.           *)
TypeOK ==
  /\ cat \in [Installations -> [Keys -> Row]]
  /\ files \subseteq File
  /\ importing \in [Installations -> ImportState]
  /\ \A i \in Installations : importing[i] = Idle \/ importing[i].at \in Positions
  /\ ops \in 0..MaxOps
  /\ faults \in 0..MaxFaults
  /\ local \in [Installations -> [Keys ->
       [profile: Profile \cup {NoProfile}, overrides: Overrides]]]
  /\ reads \in [Installations -> [Keys -> [Devices -> SUBSET Paths]]]
  /\ damaged \in [Installations -> [Keys -> BOOLEAN]]

(* importar "sin pisar lo local": whatever is imported, forgotten or cut   *)
(* short, an installation keeps the profile it last deduced from a device  *)
(* of its own and the corrections last made in it by hand.                 *)
LocalKnowledgeWins ==
  \A i \in Installations, k \in Keys :
    /\ local[i][k].profile # NoProfile => cat[i][k].profile = local[i][k].profile
    /\ \A c \in Concepts : local[i][k].overrides[c] # Absent =>
         cat[i][k].overrides[c] = local[i][k].overrides[c]

(* A tree that can be read never loses a path, the mark of a writable one  *)
(* or its root, unless it is forgotten or damaged.                         *)
TreeOnlyGrows ==
  [][\A i \in Installations, k \in Keys :
       cat[i][k].paths \in Tree /\ cat'[i][k].paths \in Tree =>
         /\ \A p \in Paths : cat[i][k].paths[p] <= cat'[i][k].paths[p]
         /\ cat[i][k].root # "none" => cat'[i][k].root = cat[i][k].root]_vars

(* "El archivo cruza empresas": a catalogue names devices of its own       *)
(* installation only, wherever its files came from.                        *)
FleetStaysHome ==
  \A i \in Installations, k \in Keys, d \in Devices :
    \/ cat[i][k].seen[d] # Absent
    \/ cat[i][k].profile \in [deduced: Deductions, evidence: {d}]
    => d \in Fleet[i]

(* listar says a tree is whole only if some device alone has all of it:    *)
(* half a tree must not be taken for what the model supports.              *)
CompleteIsTrue ==
  \A i \in Installations, k \in Keys :
    Incomplete(cat[i][k]) = "no" /\ ~damaged[i][k] =>
      \E d \in Devices :
        cat[i][k].seen[d] # Absent /\ reads[i][k][d] = Known(cat[i][k].paths)

-----------------------------------------------------------------------------
(* What a whole import makes of a catalogue, from the n-th key on: every   *)
(* entry up to the first that raises.                                      *)
WholeEntry(r, e) ==
  LET s == Seeded(Joined(r, e), e) IN Filled(s, e, FreeConcepts(s, e))

Raises(e) == Accepted(e) /\ e.overrides = Malformed

Reached(f, n) ==
  {KeyOrder[m] : m \in {m \in n..Len(KeyOrder) :
                          \A l \in n..(m - 1) : ~Raises(f[KeyOrder[l]])}}

ImportedFrom(c, f, n) ==
  [k \in Keys |-> IF k \in Reached(f, n) /\ Accepted(f[k])
                   THEN WholeEntry(c[k], f[k]) ELSE c[k]]

Imported(c, f) == ImportedFrom(c, f, 1)

(* The laboratory's catalogue, exported and imported into an empty         *)
(* installation, is the same but for the devices and the evidence.         *)
Portable(r) == [r EXCEPT !.seen = NoDevices, !.profile = WithoutEvidence(@)]
RoundTrip ==
  \A i \in Installations, k \in Keys :
    cat[i][k].paths \in Tree \ {Unknown} =>
      Imported([x \in Keys |-> Blank], Exported(cat[i]))[k] = Portable(cat[i][k])

(* What is left of an import under way.                                    *)
Finished(i) ==
  LET im == importing[i]
      row == IF im.stage = "seed" THEN WholeEntry(cat[i][Here(i)], Current(i))
             ELSE Filled(cat[i][Here(i)], Current(i), im.free)
      done == [cat[i] EXCEPT ![Here(i)] = row]
  IN IF im.stage = "merge" THEN ImportedFrom(cat[i], im.file, im.at)
     ELSE IF Raises(Current(i)) THEN done
     ELSE ImportedFrom(done, im.file, im.at + 1)

(* An import cut short is repaired by importing the same file again: the   *)
(* result is that of an import that was not cut.                           *)
RetryCompletes ==
  \A i \in Installations :
    importing[i] # Idle => Imported(cat[i], importing[i].file) = Finished(i)

(* "el resultado no depende del orden en que se importen los archivos": so *)
(* it is for two files that do not contradict each other on a model.       *)
Agree(d, e) ==
  /\ d.root = e.root
  /\ \/ NoProfile \in {d.profile, e.profile}
     \/ WithoutEvidence(d.profile) = WithoutEvidence(e.profile)
  /\ \/ Malformed \in {d.overrides, e.overrides}
     \/ \A c \in Concepts :
          Absent \in {d.overrides[c], e.overrides[c]} \/ d.overrides[c] = e.overrides[c]

OrderIsIrrelevant ==
  \A i \in Installations, f, g \in files :
    (\A k \in Keys : NoEntry \in {f[k], g[k]} \/ Agree(f[k], g[k])) =>
      Imported(Imported(cat[i], f), g) = Imported(Imported(cat[i], g), f)
=============================================================================
