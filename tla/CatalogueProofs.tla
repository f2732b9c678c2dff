-------------------------- MODULE CatalogueProofs --------------------------
(***************************************************************************)
(* Proofs about Catalogue, for every set of installations, models, paths,  *)
(* documents and devices, and every bound.  Three invariants, each on top  *)
(* of the one before: types and what an import has still to fill, from     *)
(* which come LocalKnowledgeWins, FleetStaysHome and TreeOnlyGrows; that   *)
(* the columns of a row agree (Sound), for CompleteIsTrue and RoundTrip;   *)
(* and that what an import has behind it is done for good (Progress), for  *)
(* RetryCompletes.  OrderIsIrrelevant rests on the types and on the algebra*)
(* of entries alone.                                                       *)
(***************************************************************************)
EXTENDS Catalogue, FiniteSetTheorems, TLAPS

(* At most as many paths are known as there are.                           *)
LEMMA KnownCount ==
  ASSUME NEW t \in Tree
  PROVE  Cardinality(Known(t)) \in 0..Cardinality(Paths)
<1>1. Known(t) \subseteq Paths
  BY DEF Known
<1>2. IsFiniteSet(Paths)
  BY DataAssumption
<1>3. IsFiniteSet(Known(t)) /\ Cardinality(Known(t)) <= Cardinality(Paths)
  BY <1>1, <1>2, FS_Subset
<1>4. Cardinality(Known(t)) \in Nat /\ Cardinality(Paths) \in Nat
  BY <1>2, <1>3, FS_CardinalityType
<1> QED BY <1>3, <1>4

(* A union of trees is a tree and no less than either.                     *)
LEMMA UnionGrows ==
  ASSUME NEW a \in Tree, NEW b \in Tree
  PROVE  /\ Union(a, b) \in Tree
         /\ \A p \in Paths : a[p] <= Union(a, b)[p] /\ b[p] <= Union(a, b)[p]
<1>1. ASSUME NEW p \in Paths
      PROVE  a[p] \in 0..2 /\ b[p] \in 0..2
  BY DEF Tree
<1> QED BY <1>1 DEF Union, Tree

(* merge_model_tree leaves the profile and its corrections, registers no   *)
(* device but the one it is given, and only adds to a tree it can read.    *)
LEMMA MergedRow ==
  ASSUME NEW r \in Row, NEW t \in Tree, NEW root \in {"none", "Device"},
         NEW d \in Devices \cup {Absent}
  PROVE  LET m == Merged(r, t, root, d) IN
         /\ m \in Row
         /\ m.profile = r.profile
         /\ m.overrides = r.overrides
         /\ \A x \in Devices : x # d => m.seen[x] = r.seen[x]
         /\ r.paths \in Tree =>
              /\ m.paths \in Tree
              /\ \A p \in Paths : r.paths[p] <= m.paths[p]
         /\ r.root # "none" => m.root = r.root
<1> DEFINE before == IF r.paths \in Tree THEN r.paths ELSE Unknown
           union == Union(before, t)
           counted == IF d = Absent THEN r.seen
                      ELSE [r.seen EXCEPT ![d] = Cardinality(Known(t))]
           newRoot == IF root = "none" THEN r.root ELSE root
           m == Merged(r, t, root, d)
<1>1. before \in Tree
  BY DEF Unknown, Tree
<1>2. union \in Tree /\ \A p \in Paths : before[p] <= union[p]
  BY <1>1, UnionGrows
<1>3. Cardinality(Known(union)) \in 0..Cardinality(Paths)
  BY <1>2, KnownCount
<1>4. /\ counted \in [Devices -> 0..Cardinality(Paths) \cup {Absent}]
      /\ \A x \in Devices : x # d => counted[x] = r.seen[x]
  BY KnownCount DEF Row
<1>5. /\ newRoot \in {"none", "Device"}
      /\ r.root # "none" => newRoot = r.root
  BY DEF Row
<1>6. CASE r.paths = NoTree \/ union # before
  <2>1. m = [paths |-> union, root |-> newRoot, n_params |-> Cardinality(Known(union)),
             seen |-> counted, profile |-> r.profile, overrides |-> r.overrides]
    BY <1>6 DEF Merged, Row
  <2> HIDE DEF m, before, union, counted, newRoot
  <2>2. m \in Row
    BY <1>2, <1>3, <1>4, <1>5, <2>1 DEF Row
  <2>3. r.paths \in Tree => before = r.paths
    BY DEF before
  <2> QED BY <1>2, <1>4, <1>5, <2>1, <2>2, <2>3 DEF m
<1>7. CASE ~(r.paths = NoTree \/ union # before)
  <2>1. m = [paths |-> r.paths, root |-> r.root, n_params |-> r.n_params,
             seen |-> counted, profile |-> r.profile, overrides |-> r.overrides]
    BY <1>7 DEF Merged, Row
  <2> HIDE DEF m, before, union, counted, newRoot
  <2>2. m \in Row
    BY <1>4, <2>1 DEF Row
  <2>3. r.paths \in Tree => \A p \in Paths : r.paths[p] <= r.paths[p]
    BY DEF Tree
  <2> QED BY <1>4, <2>1, <2>2, <2>3 DEF m
<1> QED BY <1>6, <1>7

(* importar's second write: a profile deduced anywhere stays, a seed       *)
(* carries no evidence, and nothing else changes.                          *)
LEMMA SeededRow ==
  ASSUME NEW r \in Row, NEW e \in FileEntry
  PROVE  LET s == Seeded(r, e) IN
         /\ s \in Row
         /\ s = [r EXCEPT !.profile = s.profile]
         /\ r.profile \in Profile => s.profile = r.profile
         /\ \/ s.profile = r.profile
            \/ s.profile = NoProfile
            \/ s.profile \in [deduced: Deductions, evidence: {Absent}]
<1>1. e.profile \in Profile \cup {NoProfile}
  BY DEF FileEntry
<1>2. WithoutEvidence(e.profile) \in {NoProfile} \cup [deduced: Deductions, evidence: {Absent}]
  BY <1>1, ValuesAssumption DEF WithoutEvidence, Profile
<1>3. WithoutEvidence(e.profile) \in Profile \cup {NoRow, NoProfile}
  BY <1>2 DEF Profile
<1>4. CASE r.profile = NoRow \/ (r.profile = NoProfile /\ e.profile # NoProfile)
  <2>1. Seeded(r, e) = [paths |-> r.paths, root |-> r.root, n_params |-> r.n_params,
          seen |-> r.seen, profile |-> WithoutEvidence(e.profile), overrides |-> r.overrides]
    BY <1>4 DEF Seeded, Row
  <2>2. Seeded(r, e) \in Row
    BY <1>3, <2>1 DEF Row
  <2>3. r.profile \notin Profile
    BY <1>4, ValuesAssumption
  <2>4. Seeded(r, e).profile = WithoutEvidence(e.profile)
    BY <2>1
  <2>5. Seeded(r, e) = [r EXCEPT !.profile = Seeded(r, e).profile]
    BY <2>1, <2>4 DEF Row
  <2> QED BY <1>2, <2>2, <2>3, <2>4, <2>5
<1>5. CASE ~(r.profile = NoRow \/ (r.profile = NoProfile /\ e.profile # NoProfile))
  <2>1. Seeded(r, e) = r
    BY <1>5 DEF Seeded
  <2>2. r = [r EXCEPT !.profile = r.profile]
    BY DEF Row
  <2> QED BY <2>1, <2>2
<1> QED BY <1>4, <1>5

(* set_override for a concept of a file: the others stay.                  *)
LEMMA FilledRow ==
  ASSUME NEW r \in Row, NEW e \in FileEntry, e.overrides # Malformed, NEW c \in Concepts
  PROVE  LET f == Filled(r, e, {c}) IN
         /\ f \in Row
         /\ f.seen = r.seen /\ f.profile = r.profile
         /\ f.paths = r.paths /\ f.root = r.root /\ f.n_params = r.n_params
         /\ \A x \in Concepts : x # c => f.overrides[x] = r.overrides[x]
<1> DEFINE corrections ==
             [x \in Concepts |-> IF x \in {c} THEN e.overrides[x] ELSE r.overrides[x]]
<1>1. e.overrides \in Overrides
  BY DEF FileEntry
<1>2. corrections \in Overrides
  BY <1>1 DEF Overrides, Row
<1>3. Filled(r, e, {c}) =
        [paths |-> r.paths, root |-> r.root, n_params |-> r.n_params, seen |-> r.seen,
         profile |-> r.profile, overrides |-> corrections]
  BY DEF Filled, Row
<1>4. \A x \in Concepts : x # c => corrections[x] = r.overrides[x]
  OBVIOUS
<1> HIDE DEF corrections
<1>5. Filled(r, e, {c}) \in Row
  BY <1>2, <1>3 DEF Row
<1> QED BY <1>3, <1>4, <1>5

-----------------------------------------------------------------------------
(* A concept an import has still to fill is free in the row: nothing else  *)
(* of the installation runs while it is imported.                          *)
FreeOpen ==
  \A i \in Installations :
    importing[i].free # {} =>
      /\ importing[i] # Idle
      /\ importing[i].stage = "fill"
      /\ Accepted(Current(i))
      /\ Current(i).overrides # Malformed
      /\ \A c \in importing[i].free : cat[i][Here(i)].overrides[c] = Absent

IInv ==
  /\ TypeOK
  /\ FreeOpen
  /\ LocalKnowledgeWins
  /\ FleetStaysHome

(* Writing one row.                                                        *)
LEMMA RowWritten ==
  ASSUME TypeOK, NEW i \in Installations, NEW k \in Keys, NEW x \in Row,
         cat' = [cat EXCEPT ![i][k] = x]
  PROVE  /\ cat' \in [Installations -> [Keys -> Row]]
         /\ cat'[i][k] = x
         /\ \A j \in Installations, q \in Keys :
              (j # i \/ q # k) => cat'[j][q] = cat[j][q]
<1>1. cat \in [Installations -> [Keys -> Row]]
  BY DEF TypeOK
<1> QED BY <1>1

(* What an import works on.                                                *)
LEMMA Working ==
  ASSUME TypeOK, NEW i \in Installations, importing[i] # Idle
  PROVE  /\ importing[i].at \in Positions
         /\ Here(i) \in Keys
         /\ Accepted(Current(i)) => Current(i) \in FileEntry
         /\ cat[i][Here(i)] \in Row
<1>1. importing[i].at \in Positions /\ importing[i].file \in File
  BY DEF TypeOK, ImportState
<1>2. Here(i) \in Keys
  BY <1>1 DEF Here, Keys
<1>3. Current(i) \in FileEntry \cup {NoEntry}
  BY <1>1, <1>2 DEF Current, File
<1>4. cat[i][Here(i)] \in Row
  BY <1>2 DEF TypeOK
<1> QED BY <1>1, <1>2, <1>3, <1>4 DEF Accepted

(* No import is under way.                                                 *)
LEMMA IdleState == Idle \in ImportState
<1>1. KeyOrder \in Seq(Keys)
  BY KeysAssumption
<1>2. 0 \in 0..Len(KeyOrder)
  BY <1>1
<1> QED BY <1>2 DEF Idle, ImportState, File

(* A step that keeps profiles deduced and corrections made keeps           *)
(* LocalKnowledgeWins, and one that names no new device FleetStaysHome.    *)
LEMMA KnowledgeKept ==
  ASSUME TypeOK, LocalKnowledgeWins, local' = local,
         \A j \in Installations, q \in Keys :
           /\ cat[j][q].profile \in Profile => cat'[j][q].profile = cat[j][q].profile
           /\ \A c \in Concepts : cat[j][q].overrides[c] # Absent =>
                cat'[j][q].overrides[c] = cat[j][q].overrides[c]
  PROVE  LocalKnowledgeWins'
<1>1. ASSUME NEW j \in Installations, NEW q \in Keys
      PROVE  local[j][q].profile \in Profile \cup {NoProfile}
  BY DEF TypeOK
<1> QED BY <1>1 DEF LocalKnowledgeWins

(* A step that registers no device keeps the fleets apart.                 *)
LEMMA FleetKept ==
  ASSUME FleetStaysHome,
         \A j \in Installations, q \in Keys, x \in Devices :
           /\ cat'[j][q].seen[x] # Absent => cat[j][q].seen[x] # Absent
           /\ cat'[j][q].profile \in [deduced: Deductions, evidence: {x}] =>
                cat'[j][q].profile = cat[j][q].profile
  PROVE  FleetStaysHome'
BY DEF FleetStaysHome

(* A step of an import under way: it writes one row, x, and leaves the     *)
(* import in state s.                                                      *)
LEMMA ImportStep ==
  ASSUME IInv, NEW i \in Installations, NEW k \in Keys, NEW x \in Row,
         NEW s \in ImportState, s = Idle \/ s.at \in Positions,
         cat' = [cat EXCEPT ![i][k] = x],
         importing' = [importing EXCEPT ![i] = s],
         UNCHANGED <<files, ops, faults, local, reads, damaged>>,
         cat[i][k].profile \in Profile => x.profile = cat[i][k].profile,
         \/ x.profile = cat[i][k].profile
         \/ x.profile = NoProfile
         \/ x.profile \in [deduced: Deductions, evidence: {Absent}],
         x.seen = cat[i][k].seen,
         \A c \in Concepts : cat[i][k].overrides[c] # Absent =>
           x.overrides[c] = cat[i][k].overrides[c],
         s.free # {} =>
           /\ s # Idle
           /\ s.stage = "fill"
           /\ k = KeyOrder[s.at]
           /\ Accepted(s.file[k])
           /\ s.file[k].overrides # Malformed
           /\ \A c \in s.free : x.overrides[c] = Absent
  PROVE  IInv'
<1> USE DEF IInv
<1>1. /\ cat' \in [Installations -> [Keys -> Row]]
      /\ cat'[i][k] = x
      /\ \A j \in Installations, q \in Keys : (j # i \/ q # k) => cat'[j][q] = cat[j][q]
  BY RowWritten
<1>2. /\ importing' \in [Installations -> ImportState]
      /\ importing'[i] = s
      /\ \A j \in Installations : j # i => importing'[j] = importing[j]
  BY DEF TypeOK
<1>3. TypeOK'
  <2>1. \A j \in Installations : importing'[j] = Idle \/ importing'[j].at \in Positions
    BY <1>2 DEF TypeOK
  <2> QED BY <1>1, <1>2, <2>1 DEF TypeOK
<1>4. FreeOpen'
  <2> SUFFICES ASSUME NEW j \in Installations, importing'[j].free # {}
               PROVE  /\ importing'[j] # Idle
                      /\ importing'[j].stage = "fill"
                      /\ Accepted(Current(j))'
                      /\ (Current(j).overrides # Malformed)'
                      /\ \A c \in importing'[j].free :
                           cat'[j][Here(j)'].overrides[c] = Absent
    BY DEF FreeOpen, Idle
  <2>1. CASE j = i
    <3>1. Here(i)' = k /\ Current(i)' = s.file[k]
      BY <1>2, <2>1 DEF Here, Current
    <3> QED BY <1>1, <1>2, <2>1, <3>1 DEF Accepted, Known
  <2>2. CASE j # i
    <3>1. importing'[j] = importing[j] /\ Here(j)' = Here(j) /\ Current(j)' = Current(j)
      BY <1>2, <2>2 DEF Here, Current
    <3>2. importing[j] # Idle
      BY <3>1 DEF FreeOpen
    <3>3. Here(j) \in Keys
      BY <3>2, Working
    <3>4. cat'[j][Here(j)] = cat[j][Here(j)]
      BY <1>1, <2>2, <3>3
    <3> QED BY <3>1, <3>4 DEF FreeOpen, Accepted, Known
  <2> QED BY <2>1, <2>2
<1>5. LocalKnowledgeWins'
  <2>1. \A j \in Installations, q \in Keys :
          /\ cat[j][q].profile \in Profile => cat'[j][q].profile = cat[j][q].profile
          /\ \A c \in Concepts : cat[j][q].overrides[c] # Absent =>
               cat'[j][q].overrides[c] = cat[j][q].overrides[c]
    BY <1>1
  <2> QED BY <2>1, KnowledgeKept
<1>6. FleetStaysHome'
  <2>1. ASSUME NEW d \in Devices, x.profile \in [deduced: Deductions, evidence: {d}]
        PROVE  x.profile = cat[i][k].profile
    <3>1. x.profile # NoProfile
      <4>1. x.profile \in Profile
        BY <2>1 DEF Profile
      <4> QED BY <4>1, ValuesAssumption
    <3>2. x.profile \notin [deduced: Deductions, evidence: {Absent}]
      <4>1. d # Absent
        BY ValuesAssumption
      <4> QED BY <2>1, <4>1
    <3> QED BY <3>1, <3>2
  <2>2. \A j \in Installations, q \in Keys, d \in Devices :
          /\ cat'[j][q].seen[d] # Absent => cat[j][q].seen[d] # Absent
          /\ cat'[j][q].profile \in [deduced: Deductions, evidence: {d}] =>
               cat'[j][q].profile = cat[j][q].profile
    BY <1>1, <2>1
  <2> QED BY <2>2, FleetKept
<1> QED BY <1>3, <1>4, <1>5, <1>6

(* The fields of the state of an import.                                   *)
LEMMA ImportFields ==
  ASSUME NEW im \in ImportState, NEW t, NEW u
  PROVE  /\ [im EXCEPT !.stage = t, !.free = u] =
              [file |-> im.file, at |-> im.at, stage |-> t, free |-> u]
         /\ [im EXCEPT !.free = u] =
              [file |-> im.file, at |-> im.at, stage |-> im.stage, free |-> u]
         /\ [im EXCEPT !.at = u, !.stage = t] =
              [file |-> im.file, at |-> u, stage |-> t, free |-> im.free]
<1> DEFINE n == [file |-> im.file, at |-> im.at, stage |-> im.stage, free |-> im.free]
           nt == [file |-> im.file, at |-> im.at, stage |-> t, free |-> im.free]
           nu == [file |-> im.file, at |-> u, stage |-> im.stage, free |-> im.free]
<1>1. im = n
  BY DEF ImportState
<1>2. [n EXCEPT !.free = u] = [file |-> im.file, at |-> im.at, stage |-> im.stage, free |-> u]
  OBVIOUS
<1>3. /\ [n EXCEPT !.stage = t, !.free = u] = [[n EXCEPT !.stage = t] EXCEPT !.free = u]
      /\ [n EXCEPT !.at = u, !.stage = t] = [[n EXCEPT !.at = u] EXCEPT !.stage = t]
  OBVIOUS
<1>4. /\ [n EXCEPT !.stage = t] = nt
      /\ [n EXCEPT !.at = u] = nu
  OBVIOUS
<1>5. /\ [nt EXCEPT !.free = u] = [file |-> im.file, at |-> im.at, stage |-> t, free |-> u]
      /\ [nu EXCEPT !.stage = t] = [file |-> im.file, at |-> u, stage |-> t, free |-> im.free]
  OBVIOUS
<1> HIDE DEF n, nt, nu
<1> QED BY <1>1, <1>2, <1>3, <1>4, <1>5

(* The first write of an import joins the trees.                           *)
LEMMA JoinTreeKeeps ==
  ASSUME IInv, NEW i \in Installations, JoinTree(i)
  PROVE  IInv'
<1> DEFINE e == Current(i)
           x == Joined(cat[i][Here(i)], e)
           s == [importing[i] EXCEPT !.stage = "seed"]
<1>1. TypeOK /\ importing[i] # Idle /\ importing[i].stage = "merge" /\ Accepted(e)
  BY DEF IInv, JoinTree, Write
<1>2. Here(i) \in Keys /\ e \in FileEntry /\ cat[i][Here(i)] \in Row
  BY <1>1, Working
<1>3. e.paths \in Tree /\ e.root \in {"none", "Device"}
  BY <1>2 DEF FileEntry
<1>4. /\ x \in Row
      /\ x.profile = cat[i][Here(i)].profile
      /\ x.overrides = cat[i][Here(i)].overrides
      /\ \A d \in Devices : x.seen[d] = cat[i][Here(i)].seen[d]
  <2>1. \A d \in Devices : d # Absent
    BY ValuesAssumption
  <2> QED BY <1>2, <1>3, <2>1, MergedRow DEF Joined
<1>5. x.seen = cat[i][Here(i)].seen
  BY <1>2, <1>4 DEF Row
<1>6. importing[i] \in ImportState /\ importing[i].free = {} /\ importing[i].at \in Positions
  <2>1. importing[i].stage # "fill"
    BY <1>1
  <2> QED BY <1>1, <2>1, Working DEF IInv, FreeOpen, TypeOK
<1>7. s \in ImportState /\ s.free = {} /\ s.at \in Positions
  BY <1>6 DEF ImportState
<1>8. cat' = [cat EXCEPT ![i][Here(i)] = x]
      /\ importing' = [importing EXCEPT ![i] = s]
      /\ UNCHANGED <<files, ops, faults, local, reads, damaged>>
  BY DEF JoinTree, Write
<1> HIDE DEF e, x, s
<1> QED BY <1>2, <1>4, <1>5, <1>7, <1>8, ImportStep

(* The second seeds the profile.                                           *)
LEMMA SeedProfileKeeps ==
  ASSUME IInv, NEW i \in Installations, SeedProfile(i)
  PROVE  IInv'
<1> DEFINE e == Current(i)
           x == Seeded(cat[i][Here(i)], e)
           s == [importing[i] EXCEPT !.stage = "fill", !.free = FreeConcepts(x, e)]
<1>1. TypeOK /\ importing[i] # Idle /\ Accepted(e)
  BY DEF IInv, SeedProfile, Write
<1>2. /\ Here(i) \in Keys /\ e \in FileEntry /\ cat[i][Here(i)] \in Row
      /\ importing[i].at \in Positions /\ importing[i] \in ImportState
  BY <1>1, Working DEF TypeOK
<1>3. /\ x \in Row
      /\ x = [cat[i][Here(i)] EXCEPT !.profile = x.profile]
      /\ cat[i][Here(i)].profile \in Profile => x.profile = cat[i][Here(i)].profile
      /\ \/ x.profile = cat[i][Here(i)].profile
         \/ x.profile = NoProfile
         \/ x.profile \in [deduced: Deductions, evidence: {Absent}]
  BY <1>2, SeededRow
<1>4. x.seen = cat[i][Here(i)].seen /\ x.overrides = cat[i][Here(i)].overrides
  <2> HIDE DEF x
  <2> QED BY <1>2, <1>3 DEF Row
<1>5. /\ FreeConcepts(x, e) \subseteq Concepts
      /\ FreeConcepts(x, e) # {} => e.overrides # Malformed
      /\ \A c \in FreeConcepts(x, e) : x.overrides[c] = Absent
  BY DEF FreeConcepts
<1>6. s = [file |-> importing[i].file, at |-> importing[i].at, stage |-> "fill",
           free |-> FreeConcepts(x, e)]
  BY <1>2, ImportFields
<1>7. s \in ImportState /\ s # Idle /\ s.at \in Positions
  <2>1. s \in ImportState /\ s.at \in Positions
    BY <1>2, <1>5, <1>6 DEF ImportState
  <2>2. s.at # Idle.at
    BY <2>1 DEF Idle, Positions
  <2> QED BY <2>1, <2>2
<1>8. s.file[Here(i)] = e /\ Here(i) = KeyOrder[s.at]
  BY <1>6 DEF Current, Here
<1>9. cat' = [cat EXCEPT ![i][Here(i)] = x]
      /\ importing' = [importing EXCEPT ![i] = s]
      /\ UNCHANGED <<files, ops, faults, local, reads, damaged>>
  BY DEF SeedProfile, Write
<1>10. s.free = FreeConcepts(x, e) /\ s.stage = "fill"
  BY <1>6
<1> HIDE DEF e, x, s
<1>11. \A c \in Concepts : cat[i][Here(i)].overrides[c] # Absent =>
         x.overrides[c] = cat[i][Here(i)].overrides[c]
  BY <1>4
<1>12. s.free # {} =>
         /\ s # Idle
         /\ s.stage = "fill"
         /\ Here(i) = KeyOrder[s.at]
         /\ Accepted(s.file[Here(i)])
         /\ s.file[Here(i)].overrides # Malformed
         /\ \A c \in s.free : x.overrides[c] = Absent
  BY <1>1, <1>5, <1>7, <1>8, <1>10
<1> QED BY <1>2, <1>3, <1>4, <1>7, <1>9, <1>11, <1>12, ImportStep

(* The third fills the corrections, one after another.                     *)
LEMMA FillConceptKeeps ==
  ASSUME IInv, NEW i \in Installations, FillConcept(i)
  PROVE  IInv'
<1>1. PICK c \in importing[i].free :
        /\ Write(i, "fill", Filled(cat[i][Here(i)], Current(i), {c}))
        /\ importing' = [importing EXCEPT ![i].free = @ \ {c}]
  BY DEF FillConcept
<1> DEFINE e == Current(i)
           x == Filled(cat[i][Here(i)], e, {c})
           s == [importing[i] EXCEPT !.free = @ \ {c}]
<1>2. TypeOK /\ importing[i] # Idle /\ Accepted(e) /\ importing[i].stage = "fill"
  BY <1>1 DEF IInv, Write
<1>3. /\ Here(i) \in Keys /\ e \in FileEntry /\ cat[i][Here(i)] \in Row
      /\ importing[i].at \in Positions /\ importing[i] \in ImportState
  BY <1>2, Working DEF TypeOK
<1>4. /\ e.overrides # Malformed
      /\ \A b \in importing[i].free : cat[i][Here(i)].overrides[b] = Absent
  BY <1>1 DEF IInv, FreeOpen
<1>5. c \in Concepts
  BY <1>1, <1>3 DEF ImportState
<1>6. /\ x \in Row
      /\ x.seen = cat[i][Here(i)].seen /\ x.profile = cat[i][Here(i)].profile
      /\ \A b \in Concepts : b # c => x.overrides[b] = cat[i][Here(i)].overrides[b]
  BY <1>3, <1>4, <1>5, FilledRow
<1>7. s = [file |-> importing[i].file, at |-> importing[i].at, stage |-> "fill",
           free |-> importing[i].free \ {c}]
  BY <1>2, <1>3, ImportFields
<1>8. s \in ImportState /\ s # Idle /\ s.at \in Positions
  <2>1. s \in ImportState /\ s.at \in Positions
    BY <1>3, <1>7 DEF ImportState
  <2>2. s.at # Idle.at
    BY <2>1 DEF Idle, Positions
  <2> QED BY <2>1, <2>2
<1>9. s.file[Here(i)] = e /\ Here(i) = KeyOrder[s.at]
  BY <1>7 DEF Current, Here
<1>10. cat' = [cat EXCEPT ![i][Here(i)] = x]
       /\ importing' = [importing EXCEPT ![i] = s]
       /\ UNCHANGED <<files, ops, faults, local, reads, damaged>>
  BY <1>1 DEF Write
<1>11. /\ s.stage = "fill"
       /\ \A b \in s.free : x.overrides[b] = Absent
  <2>1. s.free = importing[i].free \ {c} /\ s.free \subseteq Concepts
    BY <1>3, <1>7 DEF ImportState
  <2> HIDE DEF x, s
  <2> QED BY <1>4, <1>6, <1>7, <2>1
<1>12. \A b \in Concepts : cat[i][Here(i)].overrides[b] # Absent =>
         x.overrides[b] = cat[i][Here(i)].overrides[b]
  BY <1>1, <1>4, <1>6
<1> HIDE DEF e, x, s
<1> QED BY <1>2, <1>3, <1>4, <1>6, <1>8, <1>9, <1>10, <1>11, <1>12, ImportStep

(* A step that only moves an import on: to the next entry, to its end, or  *)
(* to its beginning.                                                       *)
LEMMA ImportMoves ==
  ASSUME IInv, NEW i \in Installations,
         NEW s \in ImportState, s = Idle \/ s.at \in Positions, s.free = {},
         importing' = [importing EXCEPT ![i] = s],
         ops' \in 0..MaxOps, faults' \in 0..MaxFaults,
         UNCHANGED <<cat, files, local, reads, damaged>>
  PROVE  IInv'
<1> USE DEF IInv
<1>1. /\ importing' \in [Installations -> ImportState]
      /\ importing'[i] = s
      /\ \A j \in Installations : j # i => importing'[j] = importing[j]
  BY DEF TypeOK
<1>2. TypeOK'
  <2>1. \A j \in Installations : importing'[j] = Idle \/ importing'[j].at \in Positions
    BY <1>1 DEF TypeOK
  <2> QED BY <1>1, <2>1 DEF TypeOK
<1>3. FreeOpen'
  <2> SUFFICES ASSUME NEW j \in Installations, importing'[j].free # {}
               PROVE  /\ importing'[j] # Idle
                      /\ importing'[j].stage = "fill"
                      /\ Accepted(Current(j))'
                      /\ (Current(j).overrides # Malformed)'
                      /\ \A c \in importing'[j].free :
                           cat'[j][Here(j)'].overrides[c] = Absent
    BY DEF FreeOpen, Idle
  <2>1. importing'[j] = importing[j]
    BY <1>1
  <2>2. Here(j)' = Here(j) /\ Current(j)' = Current(j)
    BY <2>1 DEF Here, Current
  <2> QED BY <2>1, <2>2 DEF FreeOpen, Accepted, Known
<1>4. LocalKnowledgeWins' /\ FleetStaysHome'
  BY DEF LocalKnowledgeWins, FleetStaysHome
<1> QED BY <1>2, <1>3, <1>4

(* The next entry of a file, or none.                                      *)
LEMMA AdvancedState ==
  ASSUME NEW im \in ImportState, im.at \in Positions, im.free = {}
  PROVE  /\ Advanced(im) \in ImportState
         /\ Advanced(im) = Idle \/ Advanced(im).at \in Positions
         /\ Advanced(im).free = {}
<1>1. Len(KeyOrder) \in Nat
  BY KeysAssumption
<1>2. CASE im.at = Len(KeyOrder)
  BY <1>2, IdleState DEF Advanced, Idle
<1>3. CASE im.at # Len(KeyOrder)
  <2>1. im.at + 1 \in Positions /\ im.at + 1 \in 0..Len(KeyOrder)
    BY <1>1, <1>3 DEF Positions
  <2> DEFINE next == im.at + 1
  <2>2. Advanced(im) = [im EXCEPT !.at = next, !.stage = "merge"]
    BY <1>3 DEF Advanced
  <2>3. Advanced(im) = [file |-> im.file, at |-> next, stage |-> "merge", free |-> im.free]
    <3> HIDE DEF next
    <3> QED BY <2>2, ImportFields
  <2>4. im.file \in File /\ im.free \subseteq Concepts
    BY DEF ImportState
  <2>5. Advanced(im) \in ImportState
    BY <2>1, <2>3, <2>4 DEF ImportState
  <2> QED BY <2>1, <2>3, <2>5
<1> QED BY <1>2, <1>3

(* An entry has been imported.                                             *)
LEMMA NextEntryKeeps ==
  ASSUME IInv, NEW i \in Installations, NextEntry(i)
  PROVE  IInv'
<1>1. /\ TypeOK /\ importing[i] # Idle /\ importing[i].free = {}
      /\ cat' = [cat EXCEPT ![i][Here(i)] = cat[i][Here(i)]]
      /\ importing' = [importing EXCEPT ![i] = Advanced(importing[i])]
      /\ UNCHANGED <<files, ops, faults, local, reads, damaged>>
  BY DEF IInv, NextEntry, Write
<1>2. Here(i) \in Keys /\ importing[i].at \in Positions
  BY <1>1, Working
<1>3. cat' = cat
  BY <1>1, <1>2 DEF TypeOK
<1>4. importing[i] \in ImportState /\ ops \in 0..MaxOps /\ faults \in 0..MaxFaults
  BY <1>1 DEF TypeOK
<1> QED BY <1>1, <1>2, <1>3, <1>4, AdvancedState, ImportMoves

(* An entry is not imported.                                               *)
LEMMA IgnoreEntryKeeps ==
  ASSUME IInv, NEW i \in Installations, IgnoreEntry(i)
  PROVE  IInv'
<1>1. /\ TypeOK /\ importing[i] # Idle /\ importing[i].free = {}
      /\ importing' = [importing EXCEPT ![i] = Advanced(importing[i])]
      /\ UNCHANGED <<cat, files, ops, faults, local, reads, damaged>>
  BY DEF IInv, FreeOpen, IgnoreEntry
<1>2. importing[i].at \in Positions
  BY <1>1, Working
<1>3. importing[i] \in ImportState /\ ops \in 0..MaxOps /\ faults \in 0..MaxFaults
  BY <1>1 DEF TypeOK
<1> QED BY <1>1, <1>2, <1>3, AdvancedState, ImportMoves

(* An import ends before its file does.                                    *)
LEMMA ImportEndsKeeps ==
  ASSUME IInv, NEW i \in Installations, ImportRaises(i) \/ Restart(i)
  PROVE  IInv'
<1>1. TypeOK /\ ops \in 0..MaxOps /\ faults \in 0..MaxFaults
  BY DEF IInv, TypeOK
<1>2. importing' = [importing EXCEPT ![i] = Idle] /\ importing[i] # Idle
  BY DEF ImportRaises, Restart, Write
<1>3. Idle \in ImportState /\ Idle.free = {}
  BY IdleState DEF Idle
<1>4. cat' = cat /\ UNCHANGED <<files, ops, local, reads, damaged>>
  <2>1. CASE ImportRaises(i)
    <3>1. Here(i) \in Keys
      BY <1>1, <1>2, Working
    <3> QED BY <1>1, <2>1, <3>1 DEF ImportRaises, Write, TypeOK
  <2> QED BY <2>1 DEF Restart
<1>5. faults' \in 0..MaxFaults
  BY <1>1, BoundsAssumption DEF ImportRaises, Write, Restart, Fault
<1> QED BY <1>1, <1>2, <1>3, <1>4, <1>5, ImportMoves

(* An import begins.                                                       *)
LEMMA ImportKeeps ==
  ASSUME IInv, NEW i \in Installations, Import(i)
  PROVE  IInv'
<1>1. PICK f \in files : importing' =
        [importing EXCEPT ![i] = [importing[i] EXCEPT !.file = f, !.at = 1]]
  BY DEF Import
<1>2. importing[i] = Idle /\ Idle \in ImportState /\ f \in File
  BY IdleState DEF IInv, TypeOK, Import, Request
<1> DEFINE first == 1
           s == [Idle EXCEPT !.file = f, !.at = first]
<1>3. s = [file |-> f, at |-> first, stage |-> "merge", free |-> {}]
  <2> DEFINE opened == [file |-> f, at |-> 0, stage |-> "merge", free |-> {}]
  <2> HIDE DEF first
  <2>1. s = [[Idle EXCEPT !.file = f] EXCEPT !.at = first]
    BY DEF Idle
  <2>2. [Idle EXCEPT !.file = f] = opened
    BY DEF Idle
  <2>3. [opened EXCEPT !.at = first] = [file |-> f, at |-> first, stage |-> "merge", free |-> {}]
    OBVIOUS
  <2> HIDE DEF s, opened
  <2> QED BY <2>1, <2>2, <2>3
<1>4. 1 \in Positions /\ 1 \in 0..Len(KeyOrder)
  BY KeysAssumption DEF Positions
<1>5. s \in ImportState /\ s.at \in Positions /\ s.free = {}
  BY <1>2, <1>3, <1>4 DEF ImportState, Idle
<1>6. ops' \in 0..MaxOps /\ faults' \in 0..MaxFaults
  BY BoundsAssumption DEF IInv, TypeOK, Import, Request
<1>7. UNCHANGED <<cat, files, local, reads, damaged>>
  BY DEF Import
<1>8. importing' = [importing EXCEPT ![i] = s]
  BY <1>1, <1>2
<1> HIDE DEF s
<1> QED BY <1>5, <1>6, <1>7, <1>8, ImportMoves

-----------------------------------------------------------------------------
(* A request that writes a row: no import runs, so FreeOpen stands.        *)
LEMMA RequestKeepsFree ==
  ASSUME IInv, NEW i \in Installations, importing[i] = Idle, importing' = importing,
         NEW k \in Keys, NEW x \in Row, cat' = [cat EXCEPT ![i][k] = x]
  PROVE  FreeOpen'
<1>1. /\ TypeOK
      /\ \A j \in Installations, q \in Keys : (j # i \/ q # k) => cat'[j][q] = cat[j][q]
  BY RowWritten DEF IInv
<1> SUFFICES ASSUME NEW j \in Installations, importing'[j].free # {}
             PROVE  /\ importing'[j] # Idle
                    /\ importing'[j].stage = "fill"
                    /\ Accepted(Current(j))'
                    /\ (Current(j).overrides # Malformed)'
                    /\ \A c \in importing'[j].free :
                         cat'[j][Here(j)'].overrides[c] = Absent
  BY DEF FreeOpen, Idle
<1>2. importing[j] # Idle /\ j # i
  BY DEF Idle
<1>3. Here(j) \in Keys
  BY <1>1, <1>2, Working
<1>4. Here(j)' = Here(j) /\ Current(j)' = Current(j)
  BY DEF Here, Current
<1>5. cat'[j][Here(j)] = cat[j][Here(j)]
  BY <1>1, <1>2, <1>3
<1> QED BY <1>4, <1>5 DEF IInv, FreeOpen, Accepted, Known

(* Operations and faults are counted within their bounds.                  *)
LEMMA Counted ==
  ASSUME TypeOK
  PROVE  /\ (ops < MaxOps /\ ops' = ops + 1) => ops' \in 0..MaxOps
         /\ (faults < MaxFaults /\ faults' = faults + 1) => faults' \in 0..MaxFaults
BY BoundsAssumption DEF TypeOK

Memory == [profile: Profile \cup {NoProfile}, overrides: Overrides]

(* Writing what the history keeps of one model.                            *)
LEMMA MemoryWritten ==
  ASSUME TypeOK, NEW i \in Installations, NEW k \in Keys, NEW y \in Memory,
         local' = [local EXCEPT ![i][k] = y]
  PROVE  /\ local' \in [Installations -> [Keys -> Memory]]
         /\ local'[i][k] = y
         /\ \A j \in Installations, q \in Keys :
              (j # i \/ q # k) => local'[j][q] = local[j][q]
<1>1. local \in [Installations -> [Keys -> Memory]]
  BY DEF TypeOK, Memory
<1> QED BY <1>1

(* A device of the installation is read: its profile replaces the one      *)
(* there was, and nobody else's device appears.                            *)
LEMMA ProfileWritten ==
  ASSUME IInv, NEW i \in Installations, NEW k \in Keys, NEW d \in Fleet[i],
         \A j \in Installations, q \in Keys : (j # i \/ q # k) =>
           cat'[j][q] = cat[j][q] /\ local'[j][q] = local[j][q],
         cat'[i][k].profile \in Profile, cat'[i][k].profile.evidence = d,
         cat'[i][k].overrides = cat[i][k].overrides,
         \A b \in Devices : b # d => cat'[i][k].seen[b] = cat[i][k].seen[b],
         local'[i][k].profile = cat'[i][k].profile,
         local'[i][k].overrides = local[i][k].overrides
  PROVE  LocalKnowledgeWins' /\ FleetStaysHome'
<1> USE DEF IInv
<1>5. LocalKnowledgeWins'
  <2> SUFFICES ASSUME NEW j \in Installations, NEW q \in Keys
               PROVE  /\ local'[j][q].profile # NoProfile =>
                           cat'[j][q].profile = local'[j][q].profile
                      /\ \A c \in Concepts : local'[j][q].overrides[c] # Absent =>
                           cat'[j][q].overrides[c] = local'[j][q].overrides[c]
    BY DEF LocalKnowledgeWins
  <2>1. CASE j = i /\ q = k
    BY <2>1 DEF LocalKnowledgeWins
  <2>2. CASE j # i \/ q # k
    BY <2>2 DEF LocalKnowledgeWins
  <2> QED BY <2>1, <2>2
<1>6. ASSUME NEW j \in Installations, NEW q \in Keys, NEW b \in Devices,
             \/ cat'[j][q].seen[b] # Absent
             \/ cat'[j][q].profile \in [deduced: Deductions, evidence: {b}]
      PROVE  b \in Fleet[j]
  <2>1. CASE j # i \/ q # k
    BY <1>6, <2>1 DEF FleetStaysHome
  <2>2. CASE j = i /\ q = k
    <3>1. CASE b = d
      BY <2>2, <3>1
    <3>2. CASE b # d
      <4>1. cat'[i][k].profile \notin [deduced: Deductions, evidence: {b}]
        BY <3>2
      <4> QED BY <1>6, <2>2, <3>2, <4>1 DEF FleetStaysHome
    <3> QED BY <3>1, <3>2
  <2> QED BY <2>1, <2>2
<1>7. FleetStaysHome'
  BY <1>6 DEF FleetStaysHome
<1> QED BY <1>5, <1>7

(* A device's page is opened.                                              *)
LEMMA OpenDeviceKeeps ==
  ASSUME IInv, NEW i \in Installations, OpenDevice(i)
  PROVE  IInv'
<1> DEFINE Deducted(d, doc) == [deduced |-> doc.deduced, evidence |-> d]
<1>1. PICK d \in Fleet[i], k \in Keys, doc \in Docs :
        /\ cat' = [cat EXCEPT ![i][k] =
             Merged([cat[i][k] EXCEPT !.profile = Deducted(d, doc)],
                    doc.paths, RootOf(doc.paths), d)]
        /\ Deduce(i, k, Deducted(d, doc))
        /\ reads' = [reads EXCEPT ![i][k][d] = Known(doc.paths)]
  BY DEF OpenDevice, IInv, TypeOK
<1> DEFINE profile == Deducted(d, doc)
           r == [cat[i][k] EXCEPT !.profile = profile]
           tree == doc.paths
           root == RootOf(tree)
           x == Merged(r, tree, root, d)
           y == [profile |-> profile, overrides |-> local[i][k].overrides]
<1>2. /\ TypeOK /\ importing[i] = Idle
      /\ UNCHANGED <<importing, files, faults, damaged>>
      /\ ops < MaxOps /\ ops' = ops + 1
  BY DEF IInv, OpenDevice, Request
<1>3. /\ d \in Fleet[i] /\ d \in Devices /\ tree \in Tree /\ doc.deduced \in Deductions
      /\ cat[i][k] \in Row
  BY <1>2, DataAssumption DEF TypeOK
<1>5. profile \in Profile /\ profile.evidence = d
  BY <1>3 DEF Profile
<1>6. /\ r \in Row /\ r.profile = profile
      /\ r.overrides = cat[i][k].overrides /\ r.seen = cat[i][k].seen
  <2> HIDE DEF profile
  <2> QED BY <1>3, <1>5 DEF Row
<1>7. /\ x \in Row /\ x.profile = profile /\ x.overrides = cat[i][k].overrides
      /\ \A b \in Devices : b # d => x.seen[b] = cat[i][k].seen[b]
  <2>1. root \in {"none", "Device"} /\ d \in Devices \cup {Absent}
    BY <1>3 DEF RootOf
  <2> HIDE DEF r, profile, tree, root
  <2>2. /\ x \in Row /\ x.profile = r.profile /\ x.overrides = r.overrides
        /\ \A b \in Devices : b # d => x.seen[b] = r.seen[b]
    BY <1>3, <1>6, <2>1, MergedRow
  <2> HIDE DEF x
  <2> QED BY <1>6, <2>2
<1>8. cat' = [cat EXCEPT ![i][k] = x]
  BY <1>1
<1>9. y \in Memory /\ local' = [local EXCEPT ![i][k] = y]
  <2>1. local \in [Installations -> [Keys -> Memory]]
    BY <1>2 DEF TypeOK, Memory
  <2>2. local' = [local EXCEPT ![i][k] = [local[i][k] EXCEPT !.profile = profile]]
    BY <1>1, <2>1 DEF Deduce
  <2> HIDE DEF profile
  <2>3. [local[i][k] EXCEPT !.profile = profile] = y /\ y \in Memory
    BY <1>5, <2>1 DEF Memory
  <2> QED BY <2>2, <2>3
<1>10. y.profile = profile /\ y.overrides = local[i][k].overrides
  OBVIOUS
<1> HIDE DEF x, r, profile, tree, root, y
<1>11. LocalKnowledgeWins' /\ FleetStaysHome'
  <2>1. /\ cat'[i][k] = x
        /\ \A j \in Installations, q \in Keys : (j # i \/ q # k) => cat'[j][q] = cat[j][q]
    BY <1>2, <1>7, <1>8, RowWritten
  <2>2. /\ local'[i][k] = y
        /\ \A j \in Installations, q \in Keys :
             (j # i \/ q # k) => local'[j][q] = local[j][q]
    BY <1>2, <1>9, MemoryWritten
  <2> QED BY <1>3, <1>5, <1>7, <1>10, <2>1, <2>2, ProfileWritten
<1>12. FreeOpen'
  BY <1>2, <1>7, <1>8, RequestKeepsFree
<1>13. TypeOK'
  <2>1. cat' \in [Installations -> [Keys -> Row]]
    BY <1>2, <1>7, <1>8, RowWritten
  <2>2. local' \in [Installations -> [Keys -> Memory]]
    BY <1>2, <1>9, MemoryWritten
  <2>3. reads' \in [Installations -> [Keys -> [Devices -> SUBSET Paths]]]
    <3>1. Known(tree) \in SUBSET Paths
      BY DEF Known
    <3> QED BY <1>1, <1>2, <1>3, <3>1 DEF TypeOK, tree
  <2>4. ops' \in 0..MaxOps
    BY <1>2, Counted
  <2> QED BY <1>2, <2>1, <2>2, <2>3, <2>4 DEF TypeOK, Memory
<1> QED BY <1>11, <1>12, <1>13 DEF IInv

(* The same, up to the profile.                                            *)
LEMMA OpenDeviceDiesKeeps ==
  ASSUME IInv, NEW i \in Installations, OpenDeviceDies(i)
  PROVE  IInv'
<1> DEFINE Deducted(d, doc) == [deduced |-> doc.deduced, evidence |-> d]
<1>1. PICK d \in Fleet[i], k \in Keys, doc \in Docs :
        /\ cat' = [cat EXCEPT ![i][k].profile = Deducted(d, doc)]
        /\ Deduce(i, k, Deducted(d, doc))
  BY DEF OpenDeviceDies
<1> DEFINE profile == Deducted(d, doc)
           x == [cat[i][k] EXCEPT !.profile = profile]
           y == [profile |-> profile, overrides |-> local[i][k].overrides]
<1>2. /\ TypeOK /\ importing[i] = Idle
      /\ UNCHANGED <<importing, files, reads, damaged>>
      /\ ops < MaxOps /\ ops' = ops + 1
      /\ faults < MaxFaults /\ faults' = faults + 1
  BY DEF IInv, OpenDeviceDies, Request, Fault
<1>3. d \in Fleet[i] /\ d \in Devices /\ doc.deduced \in Deductions /\ cat[i][k] \in Row
  BY <1>2, DataAssumption DEF TypeOK
<1>4. profile \in Profile /\ profile.evidence = d
  BY <1>3 DEF Profile
<1>5. /\ x \in Row /\ x.profile = profile
      /\ x.overrides = cat[i][k].overrides /\ x.seen = cat[i][k].seen
  <2> HIDE DEF profile
  <2> QED BY <1>3, <1>4 DEF Row
<1>6. cat' = [cat EXCEPT ![i][k] = x]
  BY <1>1, <1>2 DEF TypeOK
<1>7. y \in Memory /\ local' = [local EXCEPT ![i][k] = y]
  <2>1. local \in [Installations -> [Keys -> Memory]]
    BY <1>2 DEF TypeOK, Memory
  <2>2. local' = [local EXCEPT ![i][k] = [local[i][k] EXCEPT !.profile = profile]]
    BY <1>1, <2>1 DEF Deduce
  <2> HIDE DEF profile
  <2>3. [local[i][k] EXCEPT !.profile = profile] = y /\ y \in Memory
    BY <1>4, <2>1 DEF Memory
  <2> QED BY <2>2, <2>3
<1>8. y.profile = profile /\ y.overrides = local[i][k].overrides
  OBVIOUS
<1> HIDE DEF x, profile, y
<1>9. LocalKnowledgeWins' /\ FleetStaysHome'
  <2>1. /\ cat'[i][k] = x
        /\ \A j \in Installations, q \in Keys : (j # i \/ q # k) => cat'[j][q] = cat[j][q]
    BY <1>2, <1>5, <1>6, RowWritten
  <2>2. /\ local'[i][k] = y
        /\ \A j \in Installations, q \in Keys :
             (j # i \/ q # k) => local'[j][q] = local[j][q]
    BY <1>2, <1>7, MemoryWritten
  <2> QED BY <1>3, <1>4, <1>5, <1>8, <2>1, <2>2, ProfileWritten
<1>10. FreeOpen'
  BY <1>2, <1>5, <1>6, RequestKeepsFree
<1>11. TypeOK'
  <2>1. cat' \in [Installations -> [Keys -> Row]]
    BY <1>2, <1>5, <1>6, RowWritten
  <2>2. local' \in [Installations -> [Keys -> Memory]]
    BY <1>2, <1>7, MemoryWritten
  <2>3. ops' \in 0..MaxOps /\ faults' \in 0..MaxFaults
    BY <1>2, Counted
  <2> QED BY <1>2, <2>1, <2>2, <2>3 DEF TypeOK, Memory
<1> QED BY <1>9, <1>10, <1>11 DEF IInv

(* An admin corrects a concept.                                            *)
LEMMA CorrectKeeps ==
  ASSUME IInv, NEW i \in Installations, Correct(i)
  PROVE  IInv'
<1>1. PICK k \in Keys, c \in Concepts, route \in Routes \cup {Absent} :
        /\ cat[i][k].profile # NoRow
        /\ cat' = [cat EXCEPT ![i][k].overrides[c] = route]
        /\ local' = [local EXCEPT ![i][k].overrides[c] = route]
  BY DEF Correct
<1> DEFINE v == [cat[i][k].overrides EXCEPT ![c] = route]
           w == [local[i][k].overrides EXCEPT ![c] = route]
           x == [cat[i][k] EXCEPT !.overrides = v]
           y == [local[i][k] EXCEPT !.overrides = w]
<1>2. /\ TypeOK /\ importing[i] = Idle
      /\ UNCHANGED <<importing, files, faults, reads, damaged>>
      /\ ops < MaxOps /\ ops' = ops + 1
  BY DEF IInv, Correct, Request
<1>3. cat[i][k] \in Row /\ local[i][k] \in Memory
  BY <1>2 DEF TypeOK, Memory
<1>4. v \in Overrides /\ w \in Overrides
  BY <1>3 DEF Row, Memory, Overrides
<1>5. /\ x \in Row /\ x.overrides = v /\ x.profile = cat[i][k].profile
      /\ x.seen = cat[i][k].seen
  <2> HIDE DEF v
  <2> QED BY <1>3, <1>4 DEF Row
<1>6. y \in Memory /\ y.overrides = w /\ y.profile = local[i][k].profile
  <2> HIDE DEF w
  <2> QED BY <1>3, <1>4 DEF Memory
<1>7. cat' = [cat EXCEPT ![i][k] = x]
  BY <1>1, <1>2 DEF TypeOK
<1>8. local' = [local EXCEPT ![i][k] = y]
  BY <1>1, <1>2 DEF TypeOK
<1>9. \A b \in Concepts : v[b] = IF b = c THEN route ELSE cat[i][k].overrides[b]
  BY <1>3 DEF Row, Overrides
<1>10. \A b \in Concepts : w[b] = IF b = c THEN route ELSE local[i][k].overrides[b]
  BY <1>3 DEF Memory, Overrides
<1> HIDE DEF v, w, x, y
<1>11. /\ cat' \in [Installations -> [Keys -> Row]]
       /\ cat'[i][k] = x
       /\ \A j \in Installations, q \in Keys : (j # i \/ q # k) => cat'[j][q] = cat[j][q]
  BY <1>2, <1>5, <1>7, RowWritten
<1>12. /\ local' \in [Installations -> [Keys -> Memory]]
       /\ local'[i][k] = y
       /\ \A j \in Installations, q \in Keys :
            (j # i \/ q # k) => local'[j][q] = local[j][q]
  BY <1>2, <1>6, <1>8, MemoryWritten
<1>13. LocalKnowledgeWins'
  <2> SUFFICES ASSUME NEW j \in Installations, NEW q \in Keys
               PROVE  /\ local'[j][q].profile # NoProfile =>
                           cat'[j][q].profile = local'[j][q].profile
                      /\ \A b \in Concepts : local'[j][q].overrides[b] # Absent =>
                           cat'[j][q].overrides[b] = local'[j][q].overrides[b]
    BY DEF LocalKnowledgeWins
  <2>1. CASE j = i /\ q = k
    <3>1. /\ local[i][k].profile # NoProfile => cat[i][k].profile = local[i][k].profile
          /\ \A b \in Concepts : local[i][k].overrides[b] # Absent =>
               cat[i][k].overrides[b] = local[i][k].overrides[b]
      BY DEF IInv, LocalKnowledgeWins
    <3>2. local'[i][k].profile # NoProfile => cat'[i][k].profile = local'[i][k].profile
      BY <1>5, <1>6, <1>11, <1>12, <3>1
    <3>3. \A b \in Concepts : w[b] # Absent => v[b] = w[b]
      BY <1>9, <1>10, <3>1
    <3>4. cat'[i][k].overrides = v /\ local'[i][k].overrides = w
      BY <1>5, <1>6, <1>11, <1>12
    <3> QED BY <2>1, <3>2, <3>3, <3>4
  <2>2. CASE j # i \/ q # k
    BY <1>11, <1>12, <2>2 DEF IInv, LocalKnowledgeWins
  <2> QED BY <2>1, <2>2
<1>14. FleetStaysHome'
  <2>1. \A j \in Installations, q \in Keys, b \in Devices :
          /\ cat'[j][q].seen[b] # Absent => cat[j][q].seen[b] # Absent
          /\ cat'[j][q].profile \in [deduced: Deductions, evidence: {b}] =>
               cat'[j][q].profile = cat[j][q].profile
    BY <1>5, <1>11
  <2> QED BY <2>1, FleetKept DEF IInv
<1>15. FreeOpen'
  BY <1>2, <1>5, <1>7, RequestKeepsFree
<1>16. TypeOK'
  <2>1. ops' \in 0..MaxOps
    BY <1>2, Counted
  <2> QED BY <1>2, <1>11, <1>12, <2>1 DEF TypeOK, Memory
<1> QED BY <1>13, <1>14, <1>15, <1>16 DEF IInv

(* Forgetting or damaging a tree: the profile and its corrections stay,    *)
(* and no device is added.                                                 *)
LEMMA TreeLost ==
  ASSUME IInv, NEW i \in Installations, importing[i] = Idle,
         UNCHANGED <<importing, files, local, reads>>,
         NEW k \in Keys, NEW x \in Row, cat' = [cat EXCEPT ![i][k] = x],
         x.profile = cat[i][k].profile, x.overrides = cat[i][k].overrides,
         x.seen \in {cat[i][k].seen, NoDevices},
         NEW b \in BOOLEAN, damaged' = [damaged EXCEPT ![i][k] = b],
         ops' \in 0..MaxOps, faults' \in 0..MaxFaults
  PROVE  IInv'
<1> USE DEF IInv
<1>1. /\ cat' \in [Installations -> [Keys -> Row]]
      /\ cat'[i][k] = x
      /\ \A j \in Installations, q \in Keys : (j # i \/ q # k) => cat'[j][q] = cat[j][q]
  BY RowWritten
<1>2. damaged' \in [Installations -> [Keys -> BOOLEAN]]
  BY DEF TypeOK
<1>3. TypeOK'
  BY <1>1, <1>2 DEF TypeOK
<1>4. FreeOpen'
  BY RequestKeepsFree
<1>5. LocalKnowledgeWins'
  <2>1. \A j \in Installations, q \in Keys :
          /\ cat[j][q].profile \in Profile => cat'[j][q].profile = cat[j][q].profile
          /\ \A c \in Concepts : cat[j][q].overrides[c] # Absent =>
               cat'[j][q].overrides[c] = cat[j][q].overrides[c]
    BY <1>1
  <2> QED BY <2>1, KnowledgeKept
<1>6. FleetStaysHome'
  <2>1. \A j \in Installations, q \in Keys, d \in Devices :
          /\ cat'[j][q].seen[d] # Absent => cat[j][q].seen[d] # Absent
          /\ cat'[j][q].profile \in [deduced: Deductions, evidence: {d}] =>
               cat'[j][q].profile = cat[j][q].profile
    BY <1>1 DEF NoDevices
  <2> QED BY <2>1, FleetKept
<1> QED BY <1>3, <1>4, <1>5, <1>6

(* What is left of a forgotten tree.                                       *)
LEMMA ForgottenRow ==
  ASSUME NEW r \in Row
  PROVE  LET x == [r EXCEPT !.paths = NoTree, !.root = "none", !.n_params = 0,
                            !.seen = NoDevices]
         IN /\ x \in Row
            /\ x.profile = r.profile /\ x.overrides = r.overrides /\ x.seen = NoDevices
<1> DEFINE x == [r EXCEPT !.paths = NoTree, !.root = "none", !.n_params = 0,
                          !.seen = NoDevices]
           r1 == [paths |-> NoTree, root |-> r.root, n_params |-> r.n_params,
                  seen |-> r.seen, profile |-> r.profile, overrides |-> r.overrides]
           r2 == [paths |-> NoTree, root |-> "none", n_params |-> r.n_params,
                  seen |-> r.seen, profile |-> r.profile, overrides |-> r.overrides]
           r3 == [paths |-> NoTree, root |-> "none", n_params |-> 0,
                  seen |-> r.seen, profile |-> r.profile, overrides |-> r.overrides]
           r4 == [paths |-> NoTree, root |-> "none", n_params |-> 0,
                  seen |-> NoDevices, profile |-> r.profile, overrides |-> r.overrides]
<1>1. x = [[[[r EXCEPT !.paths = NoTree] EXCEPT !.root = "none"] EXCEPT !.n_params = 0]
             EXCEPT !.seen = NoDevices]
  BY DEF Row
<1>2. [r EXCEPT !.paths = NoTree] = r1
  BY DEF Row
<1>3. /\ [r1 EXCEPT !.root = "none"] = r2
      /\ [r2 EXCEPT !.n_params = 0] = r3
      /\ [r3 EXCEPT !.seen = NoDevices] = r4
  OBVIOUS
<1>4. Cardinality(Paths) \in Nat
  BY DataAssumption, FS_CardinalityType
<1>5. r4 \in Row
  BY <1>4 DEF Row, NoDevices
<1>6. r4.profile = r.profile /\ r4.overrides = r.overrides /\ r4.seen = NoDevices
  OBVIOUS
<1>7. x = r4
  <2> HIDE DEF x, r1, r2, r3, r4
  <2> QED BY <1>1, <1>2, <1>3
<1> HIDE DEF r1, r2, r3, r4
<1> QED BY <1>5, <1>6, <1>7

(* An admin forgets a tree.                                                *)
LEMMA ForgetKeeps ==
  ASSUME IInv, NEW i \in Installations, Forget(i)
  PROVE  IInv'
<1>1. PICK k \in Keys :
        /\ cat[i][k].paths # NoTree
        /\ cat' = [cat EXCEPT ![i][k] =
             [@ EXCEPT !.paths = NoTree, !.root = "none", !.n_params = 0, !.seen = NoDevices]]
        /\ damaged' = [damaged EXCEPT ![i][k] = FALSE]
  BY DEF Forget
<1> DEFINE x == [cat[i][k] EXCEPT !.paths = NoTree, !.root = "none", !.n_params = 0,
                                  !.seen = NoDevices]
<1>2. /\ TypeOK /\ importing[i] = Idle
      /\ UNCHANGED <<importing, files, faults, local, reads>>
      /\ ops < MaxOps /\ ops' = ops + 1
  BY DEF IInv, Forget, Request
<1>3. cat[i][k] \in Row
  BY <1>2 DEF TypeOK
<1>4. /\ x \in Row
      /\ x.profile = cat[i][k].profile /\ x.overrides = cat[i][k].overrides
      /\ x.seen = NoDevices
  BY <1>3, ForgottenRow
<1>5. cat' = [cat EXCEPT ![i][k] = x]
  BY <1>1, <1>2 DEF TypeOK
<1>6. ops' \in 0..MaxOps /\ faults' \in 0..MaxFaults
  BY <1>2, Counted DEF TypeOK
<1> HIDE DEF x
<1> QED BY <1>1, <1>2, <1>4, <1>5, <1>6, TreeLost

(* A tree is damaged.                                                      *)
LEMMA DamageKeeps ==
  ASSUME IInv, NEW i \in Installations, Damage(i)
  PROVE  IInv'
<1>1. PICK k \in Keys :
        /\ cat[i][k].paths \in Tree
        /\ cat' = [cat EXCEPT ![i][k].paths = Corrupt]
        /\ damaged' = [damaged EXCEPT ![i][k] = TRUE]
  BY DEF Damage
<1> DEFINE x == [cat[i][k] EXCEPT !.paths = Corrupt]
<1>2. /\ TypeOK /\ importing[i] = Idle
      /\ UNCHANGED <<importing, files, ops, local, reads>>
      /\ faults < MaxFaults /\ faults' = faults + 1
  BY DEF IInv, Damage, Fault
<1>3. cat[i][k] \in Row
  BY <1>2 DEF TypeOK
<1>4. /\ x \in Row
      /\ x.profile = cat[i][k].profile /\ x.overrides = cat[i][k].overrides
      /\ x.seen = cat[i][k].seen
  BY <1>3 DEF Row
<1>5. cat' = [cat EXCEPT ![i][k] = x]
  BY <1>1, <1>2 DEF TypeOK
<1>6. ops' \in 0..MaxOps /\ faults' \in 0..MaxFaults
  BY <1>2, Counted DEF TypeOK
<1> HIDE DEF x
<1> QED BY <1>1, <1>2, <1>4, <1>5, <1>6, TreeLost

(* A step that only writes a file.                                         *)
LEMMA FileWritten ==
  ASSUME IInv, NEW f \in File, files' = files \cup {f}, ops' \in 0..MaxOps,
         UNCHANGED <<cat, importing, faults, local, reads, damaged>>
  PROVE  IInv'
<1>1. TypeOK'
  BY DEF IInv, TypeOK
<1>2. FreeOpen'
  BY DEF IInv, FreeOpen, Here, Current, Accepted, Known
<1>3. LocalKnowledgeWins' /\ FleetStaysHome'
  BY DEF IInv, LocalKnowledgeWins, FleetStaysHome
<1> QED BY <1>1, <1>2, <1>3 DEF IInv

(* A catalogue is exported.                                                *)
LEMMA ExportKeeps ==
  ASSUME IInv, NEW i \in Installations, Export(i)
  PROVE  IInv'
<1>1. ASSUME NEW k \in Keys, cat[i][k].paths \in Tree
      PROVE  Entry(cat[i][k]) \in FileEntry
  <2>1. cat[i][k] \in Row
    BY DEF IInv, TypeOK
  <2>2. WithoutEvidence(cat[i][k].profile) \in Profile \cup {NoProfile}
    BY <2>1 DEF WithoutEvidence, Profile, Row
  <2> QED BY <1>1, <2>1, <2>2 DEF Entry, FileEntry, Row
<1>2. Exported(cat[i]) \in File
  BY <1>1 DEF Exported, File
<1>3. /\ TypeOK /\ ops < MaxOps /\ ops' = ops + 1
      /\ files' = files \cup {Exported(cat[i])}
      /\ UNCHANGED <<cat, importing, faults, local, reads, damaged>>
  BY DEF IInv, Export, Request
<1>4. ops' \in 0..MaxOps
  BY <1>3, Counted
<1> QED BY <1>2, <1>3, <1>4, FileWritten

(* An edited entry is one a file may have.                                 *)
LEMMA EditedEntry ==
  ASSUME NEW e \in FileEntry, NEW g \in Edited(e)
  PROVE  g \in FileEntry
<1>1. /\ [e EXCEPT !.paths = Unknown] \in FileEntry
      /\ [e EXCEPT !.root = "none"] \in FileEntry
      /\ [e EXCEPT !.profile = NoProfile] \in FileEntry
      /\ [e EXCEPT !.overrides = Malformed] \in FileEntry
  <2>1. Unknown \in Tree
    BY DEF Unknown, Tree
  <2> QED BY <2>1 DEF FileEntry
<1>2. ASSUME NEW d \in Devices, e.profile # NoProfile
      PROVE  [e EXCEPT !.profile.evidence = d] \in FileEntry
  <2>1. e.profile \in Profile
    BY <1>2 DEF FileEntry
  <2>2. [e.profile EXCEPT !.evidence = d] \in Profile
    BY <2>1 DEF Profile
  <2> QED BY <2>2 DEF FileEntry
<1> QED BY <1>1, <1>2 DEF Edited

(* A file is edited.                                                       *)
LEMMA EditKeeps ==
  ASSUME IInv, Edit
  PROVE  IInv'
<1>1. /\ TypeOK /\ ops < MaxOps /\ ops' = ops + 1
      /\ UNCHANGED <<cat, importing, faults, local, reads, damaged>>
  BY DEF IInv, Edit
<1>2. PICK f \in files, k \in Keys :
        /\ f[k] # NoEntry
        /\ \E e \in Edited(f[k]) : files' = files \cup {[f EXCEPT ![k] = e]}
  BY DEF Edit
<1>3. PICK e \in Edited(f[k]) : files' = files \cup {[f EXCEPT ![k] = e]}
  BY <1>2
<1>4. f \in File /\ f[k] \in FileEntry
  BY <1>1, <1>2 DEF TypeOK, File
<1>5. e \in FileEntry
  BY <1>4, EditedEntry
<1>6. [f EXCEPT ![k] = e] \in File
  BY <1>4, <1>5 DEF File
<1>7. ops' \in 0..MaxOps
  BY <1>1, Counted
<1> QED BY <1>1, <1>3, <1>6, <1>7, FileWritten

-----------------------------------------------------------------------------
(* The initial states satisfy the invariant.                               *)
LEMMA InitInv == Init => IInv
<1> SUFFICES ASSUME Init PROVE IInv
  OBVIOUS
<1>1. Cardinality(Paths) \in Nat
  BY DataAssumption, FS_CardinalityType
<1>2. Blank \in Row
  BY <1>1 DEF Blank, Row, NoDevices, NoOverrides, Overrides
<1>3. TypeOK
  <2>1. importing \in [Installations -> ImportState]
    BY IdleState DEF Init
  <2>2. NoOverrides \in Overrides
    BY DEF NoOverrides, Overrides
  <2>3. local \in [Installations -> [Keys ->
          [profile: Profile \cup {NoProfile}, overrides: Overrides]]]
    BY <2>2 DEF Init
  <2>4. cat \in [Installations -> [Keys -> Row]]
    BY <1>2 DEF Init
  <2>5. /\ reads \in [Installations -> [Keys -> [Devices -> SUBSET Paths]]]
        /\ damaged \in [Installations -> [Keys -> BOOLEAN]]
    BY DEF Init
  <2>6. ops \in 0..MaxOps /\ faults \in 0..MaxFaults
    BY BoundsAssumption DEF Init
  <2>7. files \subseteq File /\ \A i \in Installations : importing[i] = Idle
    BY DEF Init
  <2> QED BY <2>1, <2>3, <2>4, <2>5, <2>6, <2>7 DEF TypeOK
<1>4. FreeOpen
  BY DEF Init, FreeOpen, Idle
<1>5. LocalKnowledgeWins
  BY DEF Init, LocalKnowledgeWins, NoOverrides
<1>6. FleetStaysHome
  <2>1. ASSUME NEW d \in Devices
        PROVE  NoRow \notin [deduced: Deductions, evidence: {d}]
    BY ValuesAssumption DEF Profile
  <2> QED BY <2>1 DEF Init, FleetStaysHome, Blank, NoDevices
<1> QED BY <1>3, <1>4, <1>5, <1>6 DEF IInv

(* Every step keeps it.                                                    *)
LEMMA NextInv == IInv /\ [Next]_vars => IInv'
<1> SUFFICES ASSUME IInv, [Next]_vars PROVE IInv'
  OBVIOUS
<1>1. ASSUME NEW i \in Installations,
             \/ OpenDevice(i) \/ OpenDeviceDies(i) \/ Correct(i) \/ Forget(i) \/ Damage(i)
      PROVE  IInv'
  BY <1>1, OpenDeviceKeeps, OpenDeviceDiesKeeps, CorrectKeeps, ForgetKeeps, DamageKeeps
<1>2. ASSUME NEW i \in Installations,
             \/ Import(i) \/ JoinTree(i) \/ SeedProfile(i) \/ FillConcept(i)
      PROVE  IInv'
  BY <1>2, ImportKeeps, JoinTreeKeeps, SeedProfileKeeps, FillConceptKeeps
<1>3. ASSUME NEW i \in Installations,
             \/ NextEntry(i) \/ IgnoreEntry(i) \/ ImportRaises(i) \/ Restart(i)
      PROVE  IInv'
  BY <1>3, NextEntryKeeps, IgnoreEntryKeeps, ImportEndsKeeps
<1>4. ASSUME NEW i \in Installations, Export(i)
      PROVE  IInv'
  BY <1>4, ExportKeeps
<1>5. CASE UNCHANGED vars
  <2>1. TypeOK'
    BY <1>5 DEF IInv, TypeOK, vars
  <2>2. FreeOpen'
    BY <1>5 DEF IInv, FreeOpen, Here, Current, Accepted, Known, vars
  <2>3. LocalKnowledgeWins' /\ FleetStaysHome'
    BY <1>5 DEF IInv, LocalKnowledgeWins, FleetStaysHome, vars
  <2> QED BY <2>1, <2>2, <2>3 DEF IInv
<1> QED BY <1>1, <1>2, <1>3, <1>4, <1>5, EditKeeps DEF Next

(* The strengthening is an invariant, whatever the installations, their    *)
(* fleets, the models and the files between them.                          *)
THEOREM Invariant == Spec => []IInv
BY InitInv, NextInv, PTL DEF Spec

(* Every column, file entry and stage of an import has its type.           *)
THEOREM TypeCorrect == Spec => []TypeOK
<1>1. IInv => TypeOK
  BY DEF IInv
<1> QED BY <1>1, Invariant, PTL

(* No import, crash or forgotten tree takes away what an installation last *)
(* deduced from its own devices or an admin last corrected in it.          *)
THEOREM LocalWins == Spec => []LocalKnowledgeWins
<1>1. IInv => LocalKnowledgeWins
  BY DEF IInv
<1> QED BY <1>1, Invariant, PTL

(* No file, not even one edited to name devices, brings a device of        *)
(* another fleet into a catalogue.                                         *)
THEOREM FleetHome == Spec => []FleetStaysHome
<1>1. IInv => FleetStaysHome
  BY DEF IInv
<1> QED BY <1>1, Invariant, PTL

-----------------------------------------------------------------------------
Grows(r, x) ==
  r.paths \in Tree /\ x.paths \in Tree =>
    /\ \A p \in Paths : r.paths[p] <= x.paths[p]
    /\ r.root # "none" => x.root = r.root

AllGrow == \A i \in Installations, k \in Keys : Grows(cat[i][k], cat'[i][k])

(* A tree left alone counts as one that grew.                              *)
LEMMA SameTreeGrows ==
  ASSUME NEW r, NEW x, x.paths = r.paths, x.root = r.root
  PROVE  Grows(r, x)
BY DEF Grows, Tree

(* One row is written, and it grows.                                       *)
LEMMA RowGrows ==
  ASSUME TypeOK, NEW i \in Installations, NEW k \in Keys, NEW x \in Row,
         cat' = [cat EXCEPT ![i][k] = x], Grows(cat[i][k], x)
  PROVE  AllGrow
<1>1. /\ cat'[i][k] = x
      /\ \A j \in Installations, q \in Keys : (j # i \/ q # k) => cat'[j][q] = cat[j][q]
  BY RowWritten
<1> SUFFICES ASSUME NEW j \in Installations, NEW q \in Keys
             PROVE  Grows(cat[j][q], cat'[j][q])
  BY DEF AllGrow
<1>2. CASE j = i /\ q = k
  BY <1>1, <1>2
<1>3. CASE j # i \/ q # k
  BY <1>1, <1>3, SameTreeGrows
<1> QED BY <1>2, <1>3

(* merge_model_tree only adds.                                             *)
LEMMA MergeGrows ==
  ASSUME NEW r \in Row, NEW t \in Tree, NEW root \in {"none", "Device"},
         NEW d \in Devices \cup {Absent}
  PROVE  Merged(r, t, root, d) \in Row /\ Grows(r, Merged(r, t, root, d))
BY MergedRow DEF Grows

(* So does every write of an import.                                       *)
LEMMA ImportGrows ==
  ASSUME IInv, NEW i \in Installations,
         \/ JoinTree(i) \/ SeedProfile(i) \/ FillConcept(i)
         \/ NextEntry(i) \/ ImportRaises(i)
  PROVE  AllGrow
<1> DEFINE e == Current(i)
           r == cat[i][Here(i)]
<1>1. TypeOK /\ importing[i] # Idle /\ Accepted(e)
  BY DEF IInv, JoinTree, SeedProfile, FillConcept, NextEntry, ImportRaises, Write
<1>2. Here(i) \in Keys /\ e \in FileEntry /\ r \in Row
  BY <1>1, Working
<1>3. CASE JoinTree(i)
  <2> DEFINE tree == e.paths
             root == e.root
             x == Merged(r, tree, root, Absent)
  <2>1. tree \in Tree /\ root \in {"none", "Device"} /\ Absent \in Devices \cup {Absent}
    BY <1>2 DEF FileEntry
  <2>2. cat' = [cat EXCEPT ![i][Here(i)] = x]
    BY <1>3 DEF JoinTree, Write, Joined
  <2> HIDE DEF e, r, tree, root
  <2>3. x \in Row /\ Grows(r, x)
    BY <1>2, <2>1, MergeGrows
  <2> HIDE DEF x
  <2> QED BY <1>1, <1>2, <2>2, <2>3, RowGrows DEF r
<1>4. CASE SeedProfile(i)
  <2> DEFINE x == Seeded(r, e)
  <2>1. cat' = [cat EXCEPT ![i][Here(i)] = x]
    BY <1>4 DEF SeedProfile, Write
  <2>2. x \in Row /\ x = [r EXCEPT !.profile = x.profile]
    BY <1>2, SeededRow
  <2> HIDE DEF x, r, e
  <2>3. x.paths = r.paths /\ x.root = r.root
    BY <1>2, <2>2 DEF Row
  <2>4. Grows(r, x)
    BY <2>3, SameTreeGrows
  <2> QED BY <1>1, <1>2, <2>1, <2>2, <2>4, RowGrows DEF r
<1>5. CASE FillConcept(i)
  <2>1. PICK c \in importing[i].free : cat' = [cat EXCEPT ![i][Here(i)] = Filled(r, e, {c})]
    BY <1>5 DEF FillConcept, Write
  <2>2. c \in Concepts /\ e.overrides # Malformed
    BY <1>1, <2>1 DEF IInv, FreeOpen, TypeOK, ImportState
  <2> DEFINE x == Filled(r, e, {c})
  <2>3. x \in Row /\ x.paths = r.paths /\ x.root = r.root
    BY <1>2, <2>2, FilledRow
  <2> HIDE DEF x, r, e
  <2>4. Grows(r, x)
    BY <2>3, SameTreeGrows
  <2>5. cat' = [cat EXCEPT ![i][Here(i)] = x]
    BY <2>1 DEF x
  <2> QED BY <1>1, <1>2, <2>3, <2>4, <2>5, RowGrows DEF r
<1>6. CASE NextEntry(i) \/ ImportRaises(i)
  <2>1. cat' = [cat EXCEPT ![i][Here(i)] = r]
    BY <1>6 DEF NextEntry, ImportRaises, Write
  <2>2. Grows(r, r)
    BY SameTreeGrows
  <2> HIDE DEF e, r
  <2> QED BY <1>1, <1>2, <2>1, <2>2, RowGrows DEF r
<1> QED BY <1>3, <1>4, <1>5, <1>6

(* So does every request, where the tree stays readable.                   *)
LEMMA RequestGrows ==
  ASSUME IInv, NEW i \in Installations,
         \/ OpenDevice(i) \/ OpenDeviceDies(i) \/ Correct(i) \/ Forget(i) \/ Damage(i)
  PROVE  AllGrow
<1> DEFINE Deducted(d, doc) == [deduced |-> doc.deduced, evidence |-> d]
<1>1. TypeOK
  BY DEF IInv
<1>2. CASE OpenDevice(i)
  <2>1. PICK d \in Fleet[i], k \in Keys, doc \in Docs :
          /\ cat' = [cat EXCEPT ![i][k] =
               Merged([cat[i][k] EXCEPT !.profile = Deducted(d, doc)],
                      doc.paths, RootOf(doc.paths), d)]
          /\ Deduce(i, k, Deducted(d, doc))
          /\ reads' = [reads EXCEPT ![i][k][d] = Known(doc.paths)]
    BY <1>1, <1>2 DEF OpenDevice, TypeOK
  <2> DEFINE profile == Deducted(d, doc)
             q == [cat[i][k] EXCEPT !.profile = profile]
             tree == doc.paths
             root == RootOf(tree)
             x == Merged(q, tree, root, d)
  <2>2. /\ d \in Devices \cup {Absent} /\ tree \in Tree /\ root \in {"none", "Device"}
        /\ profile \in Profile /\ cat[i][k] \in Row
    BY <1>1, DataAssumption DEF TypeOK, RootOf, Profile
  <2>3. q \in Row /\ q.paths = cat[i][k].paths /\ q.root = cat[i][k].root
    <3> HIDE DEF profile
    <3> QED BY <2>2 DEF Row
  <2>4. cat' = [cat EXCEPT ![i][k] = x]
    BY <2>1
  <2> HIDE DEF profile, q, tree, root
  <2>5. x \in Row /\ Grows(q, x)
    BY <2>2, <2>3, MergeGrows
  <2> HIDE DEF x
  <2>6. Grows(cat[i][k], x)
    BY <2>3, <2>5 DEF Grows
  <2> QED BY <1>1, <2>4, <2>5, <2>6, RowGrows
<1>3. CASE OpenDeviceDies(i)
  <2>1. PICK d \in Fleet[i], k \in Keys, doc \in Docs :
          /\ cat' = [cat EXCEPT ![i][k].profile = Deducted(d, doc)]
          /\ Deduce(i, k, Deducted(d, doc))
    BY <1>3 DEF OpenDeviceDies
  <2> DEFINE profile == Deducted(d, doc)
             x == [cat[i][k] EXCEPT !.profile = profile]
  <2>2. profile \in Profile /\ cat[i][k] \in Row
    BY <1>1, DataAssumption DEF TypeOK, Profile
  <2>3. cat' = [cat EXCEPT ![i][k] = x]
    BY <1>1, <2>1 DEF TypeOK
  <2> HIDE DEF profile
  <2>4. x \in Row /\ x.paths = cat[i][k].paths /\ x.root = cat[i][k].root
    BY <2>2 DEF Row
  <2> HIDE DEF x
  <2> QED BY <1>1, <2>3, <2>4, SameTreeGrows, RowGrows
<1>4. CASE Correct(i)
  <2>1. PICK k \in Keys, c \in Concepts, route \in Routes \cup {Absent} :
          /\ cat[i][k].profile # NoRow
          /\ cat' = [cat EXCEPT ![i][k].overrides[c] = route]
          /\ local' = [local EXCEPT ![i][k].overrides[c] = route]
    BY <1>4 DEF Correct
  <2> DEFINE v == [cat[i][k].overrides EXCEPT ![c] = route]
             x == [cat[i][k] EXCEPT !.overrides = v]
  <2>2. cat[i][k] \in Row
    BY <1>1 DEF TypeOK
  <2>3. v \in Overrides
    BY <2>2 DEF Row, Overrides
  <2>4. cat' = [cat EXCEPT ![i][k] = x]
    BY <1>1, <2>1 DEF TypeOK
  <2> HIDE DEF v
  <2>5. x \in Row /\ x.paths = cat[i][k].paths /\ x.root = cat[i][k].root
    BY <2>2, <2>3 DEF Row
  <2> HIDE DEF x
  <2> QED BY <1>1, <2>4, <2>5, SameTreeGrows, RowGrows
<1>5. CASE Forget(i)
  <2>1. PICK k \in Keys :
          /\ cat[i][k].paths # NoTree
          /\ cat' = [cat EXCEPT ![i][k] =
               [@ EXCEPT !.paths = NoTree, !.root = "none", !.n_params = 0, !.seen = NoDevices]]
          /\ damaged' = [damaged EXCEPT ![i][k] = FALSE]
    BY <1>5 DEF Forget
  <2> DEFINE x == [cat[i][k] EXCEPT !.paths = NoTree, !.root = "none", !.n_params = 0,
                                    !.seen = NoDevices]
  <2>2. cat[i][k] \in Row
    BY <1>1 DEF TypeOK
  <2>3. x \in Row
    BY <2>2, ForgottenRow
  <2>4. x.paths \notin Tree
    BY <2>2, ValuesAssumption DEF Row
  <2>5. cat' = [cat EXCEPT ![i][k] = x]
    BY <1>1, <2>1 DEF TypeOK
  <2> HIDE DEF x
  <2> QED BY <1>1, <2>3, <2>4, <2>5, RowGrows DEF Grows
<1>6. CASE Damage(i)
  <2>1. PICK k \in Keys :
          /\ cat[i][k].paths \in Tree
          /\ cat' = [cat EXCEPT ![i][k].paths = Corrupt]
          /\ damaged' = [damaged EXCEPT ![i][k] = TRUE]
    BY <1>6 DEF Damage
  <2> DEFINE x == [cat[i][k] EXCEPT !.paths = Corrupt]
  <2>2. x \in Row /\ x.paths \notin Tree
    <3>1. cat[i][k] \in Row
      BY <1>1 DEF TypeOK
    <3>2. x \in Row /\ x.paths = Corrupt
      BY <3>1 DEF Row
    <3> QED BY <3>2, ValuesAssumption
  <2>3. cat' = [cat EXCEPT ![i][k] = x]
    BY <1>1, <2>1 DEF TypeOK
  <2> HIDE DEF x
  <2> QED BY <1>1, <2>2, <2>3, RowGrows DEF Grows
<1> QED BY <1>2, <1>3, <1>4, <1>5, <1>6

(* A tree that can be read never loses a path, the mark of a writable one  *)
(* or its root, unless it is forgotten or damaged.                         *)
THEOREM TreeGrows == Spec => TreeOnlyGrows
<1>1. IInv /\ [Next]_vars => [AllGrow]_vars
  <2> SUFFICES ASSUME IInv, Next PROVE AllGrow \/ UNCHANGED vars
    OBVIOUS
  <2>1. ASSUME UNCHANGED cat PROVE AllGrow
    BY <2>1, SameTreeGrows DEF AllGrow
  <2>2. ASSUME NEW i \in Installations,
               Export(i) \/ Import(i) \/ Restart(i) \/ IgnoreEntry(i)
        PROVE  AllGrow
    BY <2>1, <2>2 DEF Export, Import, Restart, IgnoreEntry
  <2>3. Edit => AllGrow
    BY <2>1 DEF Edit
  <2>4. ASSUME NEW i \in Installations,
               \/ OpenDevice(i) \/ OpenDeviceDies(i) \/ Correct(i) \/ Forget(i) \/ Damage(i)
        PROVE  AllGrow
    BY <2>4, RequestGrows
  <2>5. ASSUME NEW i \in Installations,
               \/ JoinTree(i) \/ SeedProfile(i) \/ FillConcept(i)
               \/ NextEntry(i) \/ ImportRaises(i)
        PROVE  AllGrow
    BY <2>5, ImportGrows
  <2> QED BY <2>2, <2>3, <2>4, <2>5 DEF Next
<1>2. [][AllGrow]_vars => TreeOnlyGrows
  BY PTL DEF TreeOnlyGrows, AllGrow, Grows
<1> QED BY <1>1, <1>2, Invariant, PTL DEF Spec

-----------------------------------------------------------------------------
(* What the counts of a row mean *)

(* The columns of a row agree: the number of paths is that of its tree, a  *)
(* forgotten tree has no devices, and a device counts as many paths as it  *)
(* had when it was last read, all of them in the tree but where the tree   *)
(* was damaged since.                                                      *)
RowSound(r, read, broken) ==
  /\ r.paths \in Tree => r.n_params = Cardinality(Known(r.paths))
  /\ r.paths = NoTree => r.seen = NoDevices
  /\ r.paths = Corrupt => broken
  /\ \A d \in Devices : r.seen[d] # Absent =>
       /\ r.seen[d] = Cardinality(read[d])
       /\ ~broken => read[d] \subseteq Known(r.paths)

Sound == \A i \in Installations, k \in Keys : RowSound(cat[i][k], reads[i][k], damaged[i][k])

(* The union knows what either tree knows.                                 *)
LEMMA UnionKnown ==
  ASSUME NEW a \in Tree, NEW b \in Tree
  PROVE  Known(Union(a, b)) = Known(a) \cup Known(b)
<1>1. \A p \in Paths : a[p] \in 0..2 /\ b[p] \in 0..2
  BY DEF Tree
<1>. QED
  BY <1>1 DEF Known, Union

(* Nothing is known of the tree of no device.                              *)
LEMMA UnknownTree == Unknown \in Tree /\ Known(Unknown) = {}
BY DEF Unknown, Tree, Known

(* merge_model_tree keeps the columns in agreement: it counts the device   *)
(* it is given, and the other ones still have nothing the tree lacks.      *)
LEMMA MergeSound ==
  ASSUME NEW r \in Row, NEW t \in Tree, NEW root \in {"none", "Device"},
         NEW d \in Devices \cup {Absent}, NEW read, NEW read2, NEW broken \in BOOLEAN,
         RowSound(r, read, broken),
         \A x \in Devices : x # d => read2[x] = read[x],
         d # Absent => read2[d] = Known(t)
  PROVE  RowSound(Merged(r, t, root, d), read2, broken)
<1>. DEFINE before == IF r.paths \in Tree THEN r.paths ELSE Unknown
            union == Union(before, t)
            counted == IF d = Absent THEN r.seen
                       ELSE [r.seen EXCEPT ![d] = Cardinality(Known(t))]
            newRoot == IF root = "none" THEN r.root ELSE root
            m == Merged(r, t, root, d)
<1>1. before \in Tree
  BY UnknownTree
<1>2. union \in Tree /\ Known(union) = Known(before) \cup Known(t)
  BY <1>1, UnionGrows, UnionKnown
<1>3. /\ r.seen \in [Devices -> 0..Cardinality(Paths) \cup {Absent}]
      /\ r.paths \in Tree \cup {NoTree, Corrupt}
  BY DEF Row
<1>4. /\ \A x \in Devices : x # d => counted[x] = r.seen[x]
      /\ d \in Devices => counted[d] = Cardinality(Known(t))
  BY <1>3, ValuesAssumption
<1>5. Union(before, t) = before => union = before
  OBVIOUS
<1>6. /\ NoTree \notin Tree /\ Corrupt \notin Tree /\ NoTree # Corrupt
  BY ValuesAssumption
<1>7. r.paths \in Tree => before = r.paths
  OBVIOUS
<1>8. r.paths \notin Tree => Known(before) = {}
  BY UnknownTree
<1>9. Absent \notin Devices
  BY ValuesAssumption
<1>10. ASSUME NEW x \in Devices, counted[x] # Absent
       PROVE  /\ counted[x] = Cardinality(read2[x])
              /\ ~broken => read2[x] \subseteq Known(union)
  <2>1. CASE x = d
    BY <1>2, <1>4, <1>9, <2>1
  <2>2. CASE x # d
    <3>1. r.seen[x] # Absent /\ counted[x] = r.seen[x] /\ read2[x] = read[x]
      BY <1>4, <1>10, <2>2
    <3>2. r.seen[x] = Cardinality(read[x]) /\ (~broken => read[x] \subseteq Known(r.paths))
      BY <3>1 DEF RowSound
    <3>3. ~broken => r.paths \in Tree
      <4>1. r.paths # NoTree
        BY <3>1 DEF RowSound, NoDevices
      <4>. QED
        BY <1>3, <4>1 DEF RowSound
    <3>. QED
      BY <1>2, <1>7, <3>1, <3>2, <3>3
  <2>. QED
    BY <2>1, <2>2
<1>11. CASE r.paths = NoTree \/ union # before
  <2>1. m = [paths |-> union, root |-> newRoot, n_params |-> Cardinality(Known(union)),
             seen |-> counted, profile |-> r.profile, overrides |-> r.overrides]
    BY <1>11 DEF Merged, Row
  <2>. HIDE DEF m, before, union, counted, newRoot
  <2>2. m.paths = union /\ m.n_params = Cardinality(Known(union)) /\ m.seen = counted
    BY <2>1
  <2>3. RowSound(m, read2, broken)
    BY <1>2, <1>6, <1>10, <2>2 DEF RowSound
  <2>. QED
    BY <2>3 DEF m
<1>12. CASE ~(r.paths = NoTree \/ union # before)
  <2>1. m = [paths |-> r.paths, root |-> r.root, n_params |-> r.n_params,
             seen |-> counted, profile |-> r.profile, overrides |-> r.overrides]
    BY <1>12 DEF Merged, Row
  <2>. HIDE DEF m, before, union, counted, newRoot
  <2>2. m.paths = r.paths /\ m.n_params = r.n_params /\ m.seen = counted
    BY <2>1
  <2>3. ~broken => r.paths = union
    BY <1>3, <1>7, <1>12 DEF RowSound
  <2>4. /\ m.paths \in Tree => m.n_params = Cardinality(Known(m.paths))
        /\ m.paths # NoTree
        /\ m.paths = Corrupt => broken
    BY <1>12, <2>2 DEF RowSound
  <2>5. RowSound(m, read2, broken)
    BY <1>10, <2>2, <2>3, <2>4 DEF RowSound
  <2>. QED
    BY <2>5 DEF m
<1>. QED
  BY <1>11, <1>12

(* Profile and corrections are no part of it.                              *)
LEMMA SameSound ==
  ASSUME NEW r, NEW x, NEW read, NEW broken, RowSound(r, read, broken),
         x.paths = r.paths, x.n_params = r.n_params, x.seen = r.seen
  PROVE  RowSound(x, read, broken)
BY DEF RowSound

(* One row is written, and it is sound.                                    *)
LEMMA SoundWritten ==
  ASSUME TypeOK, Sound, NEW i \in Installations, NEW k \in Keys, NEW x \in Row,
         cat' = [cat EXCEPT ![i][k] = x],
         \A j \in Installations, q \in Keys : (j # i \/ q # k) =>
           reads'[j][q] = reads[j][q] /\ damaged'[j][q] = damaged[j][q],
         RowSound(x, reads'[i][k], damaged'[i][k])
  PROVE  Sound'
<1>1. /\ cat'[i][k] = x
      /\ \A j \in Installations, q \in Keys : (j # i \/ q # k) => cat'[j][q] = cat[j][q]
  BY RowWritten
<1>2. ASSUME NEW j \in Installations, NEW q \in Keys
      PROVE  RowSound(cat'[j][q], reads'[j][q], damaged'[j][q])
  <2>1. CASE j = i /\ q = k
    BY <1>1, <2>1
  <2>2. CASE j # i \/ q # k
    <3>1. RowSound(cat[j][q], reads[j][q], damaged[j][q])
      BY DEF Sound
    <3>. QED
      BY <1>1, <2>2, <3>1
  <2>. QED
    BY <2>1, <2>2
<1>. QED
  BY <1>2 DEF Sound

(* The writes of an import.                                                *)
LEMMA ImportSound ==
  ASSUME IInv, Sound, NEW i \in Installations,
         \/ JoinTree(i) \/ SeedProfile(i) \/ FillConcept(i)
         \/ NextEntry(i) \/ ImportRaises(i)
  PROVE  Sound'
<1>. DEFINE e == Current(i)
            k == Here(i)
            r == cat[i][k]
            read == reads[i][k]
            broken == damaged[i][k]
<1>1. TypeOK /\ importing[i] # Idle /\ Accepted(e) /\ UNCHANGED <<reads, damaged>>
  BY DEF IInv, JoinTree, SeedProfile, FillConcept, NextEntry, ImportRaises, Write
<1>2. k \in Keys /\ e \in FileEntry /\ r \in Row
  BY <1>1, Working
<1>3. broken \in BOOLEAN /\ RowSound(r, read, broken)
  BY <1>1, <1>2 DEF TypeOK, Sound
<1>4. ASSUME NEW x \in Row, cat' = [cat EXCEPT ![i][k] = x], RowSound(x, read, broken)
      PROVE  Sound'
  <2>. HIDE DEF k
  <2>. QED
    BY <1>1, <1>2, <1>4, SoundWritten
<1>5. CASE JoinTree(i)
  <2>. DEFINE tree == e.paths
              root == e.root
              x == Merged(r, tree, root, Absent)
  <2>1. tree \in Tree /\ root \in {"none", "Device"} /\ Absent \in Devices \cup {Absent}
    BY <1>2 DEF FileEntry
  <2>2. cat' = [cat EXCEPT ![i][k] = x]
    BY <1>5 DEF JoinTree, Write, Joined
  <2>. HIDE DEF e, k, r, read, broken, tree, root
  <2>3. x \in Row
    BY <1>2, <2>1, MergeGrows
  <2>4. RowSound(x, read, broken)
    BY <1>2, <1>3, <2>1, MergeSound
  <2>. HIDE DEF x
  <2>. QED
    BY <1>4, <2>2, <2>3, <2>4
<1>6. CASE SeedProfile(i)
  <2>. DEFINE x == Seeded(r, e)
  <2>1. cat' = [cat EXCEPT ![i][k] = x]
    BY <1>6 DEF SeedProfile, Write
  <2>2. x \in Row /\ x = [r EXCEPT !.profile = x.profile]
    BY <1>2, SeededRow
  <2>. HIDE DEF x, e, k, r, read, broken
  <2>3. x.paths = r.paths /\ x.n_params = r.n_params /\ x.seen = r.seen
    BY <1>2, <2>2 DEF Row
  <2>. QED
    BY <1>3, <1>4, <2>1, <2>2, <2>3, SameSound
<1>7. CASE FillConcept(i)
  <2>1. PICK c \in importing[i].free : cat' = [cat EXCEPT ![i][k] = Filled(r, e, {c})]
    BY <1>7 DEF FillConcept, Write
  <2>2. c \in Concepts /\ e.overrides # Malformed
    BY <1>1, <2>1 DEF IInv, FreeOpen, TypeOK, ImportState
  <2>. DEFINE x == Filled(r, e, {c})
  <2>3. x \in Row /\ x.paths = r.paths /\ x.n_params = r.n_params /\ x.seen = r.seen
    BY <1>2, <2>2, FilledRow
  <2>4. cat' = [cat EXCEPT ![i][k] = x]
    BY <2>1
  <2>. HIDE DEF x, e, k, r, read, broken
  <2>. QED
    BY <1>3, <1>4, <2>3, <2>4, SameSound
<1>8. CASE NextEntry(i) \/ ImportRaises(i)
  <2>1. cat' = [cat EXCEPT ![i][k] = r]
    BY <1>8 DEF NextEntry, ImportRaises, Write
  <2>. HIDE DEF e, k, r, read, broken
  <2>. QED
    BY <1>2, <1>3, <1>4, <2>1
<1>. QED
  BY <1>5, <1>6, <1>7, <1>8

(* The requests.                                                           *)
LEMMA RequestSound ==
  ASSUME IInv, Sound, NEW i \in Installations,
         \/ OpenDevice(i) \/ OpenDeviceDies(i) \/ Correct(i) \/ Forget(i) \/ Damage(i)
  PROVE  Sound'
<1>. DEFINE Deducted(d, doc) == [deduced |-> doc.deduced, evidence |-> d]
<1>1. TypeOK /\ \A q \in Keys : cat[i][q] \in Row /\ damaged[i][q] \in BOOLEAN
  BY DEF IInv, TypeOK
<1>2. \A q \in Keys : RowSound(cat[i][q], reads[i][q], damaged[i][q])
  BY DEF Sound
<1>3. CASE OpenDevice(i)
  <2>1. PICK d \in Fleet[i], k \in Keys, doc \in Docs :
          /\ cat' = [cat EXCEPT ![i][k] =
               Merged([cat[i][k] EXCEPT !.profile = Deducted(d, doc)],
                      doc.paths, RootOf(doc.paths), d)]
          /\ Deduce(i, k, Deducted(d, doc))
          /\ reads' = [reads EXCEPT ![i][k][d] = Known(doc.paths)]
    BY <1>1, <1>3 DEF OpenDevice, TypeOK
  <2>2. damaged' = damaged
    BY <1>3 DEF OpenDevice
  <2>. DEFINE profile == Deducted(d, doc)
              q == [cat[i][k] EXCEPT !.profile = profile]
              tree == doc.paths
              root == RootOf(tree)
              x == Merged(q, tree, root, d)
              read == reads[i][k]
              read2 == [read EXCEPT ![d] = Known(tree)]
  <2>3. /\ d \in Devices /\ d \in Devices \cup {Absent} /\ tree \in Tree
        /\ root \in {"none", "Device"} /\ profile \in Profile
    BY DataAssumption DEF RootOf, Profile
  <2>4. q \in Row /\ q.paths = cat[i][k].paths /\ q.n_params = cat[i][k].n_params
        /\ q.seen = cat[i][k].seen
    <3>. HIDE DEF profile
    <3>. QED
      BY <1>1, <2>3 DEF Row
  <2>5. read \in [Devices -> SUBSET Paths]
    BY <1>1 DEF TypeOK
  <2>6. /\ \A y \in Devices : y # d => read2[y] = read[y]
        /\ d # Absent => read2[d] = Known(tree)
    BY <2>3, <2>5
  <2>7. reads' = [reads EXCEPT ![i][k] = read2]
    BY <2>1
  <2>8. reads'[i][k] = read2 /\ \A j \in Installations, y \in Keys :
          (j # i \/ y # k) => reads'[j][y] = reads[j][y]
    <3>. HIDE DEF read2
    <3>. QED
      BY <1>1, <2>7 DEF TypeOK
  <2>9. cat' = [cat EXCEPT ![i][k] = x]
    BY <2>1
  <2>. HIDE DEF profile, q, tree, root, read, read2
  <2>10. RowSound(q, read, damaged[i][k])
    BY <1>2, <2>4, SameSound DEF read
  <2>11. x \in Row
    BY <2>3, <2>4, MergeGrows
  <2>12. RowSound(x, read2, damaged[i][k])
    BY <1>1, <2>3, <2>4, <2>6, <2>10, MergeSound
  <2>. HIDE DEF x
  <2>. QED
    BY <1>1, <2>2, <2>8, <2>9, <2>11, <2>12, SoundWritten
<1>4. CASE OpenDeviceDies(i)
  <2>1. PICK d \in Fleet[i], k \in Keys, doc \in Docs :
          cat' = [cat EXCEPT ![i][k].profile = Deducted(d, doc)]
    BY <1>4 DEF OpenDeviceDies
  <2>2. UNCHANGED <<reads, damaged>>
    BY <1>4 DEF OpenDeviceDies
  <2>. DEFINE profile == Deducted(d, doc)
              x == [cat[i][k] EXCEPT !.profile = profile]
  <2>3. profile \in Profile
    BY DataAssumption DEF Profile
  <2>4. cat' = [cat EXCEPT ![i][k] = x]
    BY <1>1, <2>1 DEF TypeOK
  <2>. HIDE DEF profile
  <2>5. x \in Row /\ x.paths = cat[i][k].paths /\ x.n_params = cat[i][k].n_params
        /\ x.seen = cat[i][k].seen
    BY <1>1, <2>3 DEF Row
  <2>. HIDE DEF x
  <2>. QED
    BY <1>1, <1>2, <2>2, <2>4, <2>5, SameSound, SoundWritten
<1>5. CASE Correct(i)
  <2>1. PICK k \in Keys, c \in Concepts, route \in Routes \cup {Absent} :
          /\ cat[i][k].profile # NoRow
          /\ cat' = [cat EXCEPT ![i][k].overrides[c] = route]
          /\ local' = [local EXCEPT ![i][k].overrides[c] = route]
    BY <1>5 DEF Correct
  <2>2. UNCHANGED <<reads, damaged>>
    BY <1>5 DEF Correct
  <2>. DEFINE v == [cat[i][k].overrides EXCEPT ![c] = route]
              x == [cat[i][k] EXCEPT !.overrides = v]
  <2>3. v \in Overrides
    BY <1>1 DEF Row, Overrides
  <2>4. cat' = [cat EXCEPT ![i][k] = x]
    BY <1>1, <2>1 DEF TypeOK
  <2>. HIDE DEF v
  <2>5. x \in Row /\ x.paths = cat[i][k].paths /\ x.n_params = cat[i][k].n_params
        /\ x.seen = cat[i][k].seen
    BY <1>1, <2>3 DEF Row
  <2>. HIDE DEF x
  <2>. QED
    BY <1>1, <1>2, <2>2, <2>4, <2>5, SameSound, SoundWritten
<1>6. CASE Forget(i)
  <2>1. PICK k \in Keys :
          /\ cat' = [cat EXCEPT ![i][k] =
               [@ EXCEPT !.paths = NoTree, !.root = "none", !.n_params = 0, !.seen = NoDevices]]
          /\ damaged' = [damaged EXCEPT ![i][k] = FALSE]
    BY <1>6 DEF Forget
  <2>2. reads' = reads
    BY <1>6 DEF Forget
  <2>. DEFINE x == [cat[i][k] EXCEPT !.paths = NoTree, !.root = "none", !.n_params = 0,
                                     !.seen = NoDevices]
  <2>3. x \in Row /\ x.seen = NoDevices
    BY <1>1, ForgottenRow
  <2>4. x.paths = NoTree
    BY <1>1 DEF Row
  <2>5. cat' = [cat EXCEPT ![i][k] = x]
    BY <1>1, <2>1 DEF TypeOK
  <2>6. \A j \in Installations, y \in Keys :
          (j # i \/ y # k) => damaged'[j][y] = damaged[j][y]
    BY <1>1, <2>1 DEF TypeOK
  <2>. HIDE DEF x
  <2>7. RowSound(x, reads'[i][k], damaged'[i][k])
    BY <2>3, <2>4, ValuesAssumption DEF RowSound, NoDevices
  <2>. QED
    BY <1>1, <2>2, <2>3, <2>5, <2>6, <2>7, SoundWritten
<1>7. CASE Damage(i)
  <2>1. PICK k \in Keys :
          /\ cat[i][k].paths \in Tree
          /\ cat' = [cat EXCEPT ![i][k].paths = Corrupt]
          /\ damaged' = [damaged EXCEPT ![i][k] = TRUE]
    BY <1>7 DEF Damage
  <2>2. reads' = reads
    BY <1>7 DEF Damage
  <2>. DEFINE x == [cat[i][k] EXCEPT !.paths = Corrupt]
  <2>3. x \in Row /\ x.paths = Corrupt /\ x.seen = cat[i][k].seen
    BY <1>1 DEF Row
  <2>4. cat' = [cat EXCEPT ![i][k] = x]
    BY <1>1, <2>1 DEF TypeOK
  <2>5. damaged'[i][k] = TRUE /\ \A j \in Installations, y \in Keys :
          (j # i \/ y # k) => damaged'[j][y] = damaged[j][y]
    BY <1>1, <2>1 DEF TypeOK
  <2>. HIDE DEF x
  <2>6. RowSound(x, reads'[i][k], damaged'[i][k])
    <3>1. RowSound(cat[i][k], reads[i][k], damaged[i][k])
      BY <1>2
    <3>. QED
      BY <2>2, <2>3, <2>5, <3>1, ValuesAssumption DEF RowSound
  <2>. QED
    BY <1>1, <2>2, <2>3, <2>4, <2>5, <2>6, SoundWritten
<1>. QED
  BY <1>3, <1>4, <1>5, <1>6, <1>7

(* Every step keeps the columns in agreement.                              *)
LEMMA NextSound == IInv /\ Sound /\ [Next]_vars => Sound'
<1>. SUFFICES ASSUME IInv, Sound, [Next]_vars PROVE Sound'
  OBVIOUS
<1>1. ASSUME UNCHANGED <<cat, reads, damaged>> PROVE Sound'
  BY <1>1 DEF Sound
<1>2. ASSUME NEW i \in Installations,
             Export(i) \/ Import(i) \/ Restart(i) \/ IgnoreEntry(i)
      PROVE  Sound'
  BY <1>1, <1>2 DEF Export, Import, Restart, IgnoreEntry
<1>3. Edit => Sound'
  BY <1>1 DEF Edit
<1>4. UNCHANGED vars => Sound'
  BY <1>1 DEF vars
<1>5. ASSUME NEW i \in Installations,
             \/ OpenDevice(i) \/ OpenDeviceDies(i) \/ Correct(i) \/ Forget(i) \/ Damage(i)
      PROVE  Sound'
  BY <1>5, RequestSound
<1>6. ASSUME NEW i \in Installations,
             \/ JoinTree(i) \/ SeedProfile(i) \/ FillConcept(i)
             \/ NextEntry(i) \/ ImportRaises(i)
      PROVE  Sound'
  BY <1>6, ImportSound
<1>. QED
  BY <1>2, <1>3, <1>4, <1>5, <1>6 DEF Next

(* The columns of every row agree, whatever the documents and the files.   *)
THEOREM ColumnsAgree == Spec => []Sound
<1>1. Init => Sound
  <2>. SUFFICES ASSUME Init, NEW i \in Installations, NEW k \in Keys
                PROVE  RowSound(cat[i][k], reads[i][k], damaged[i][k])
    BY DEF Sound
  <2>1. cat[i][k] = Blank
    BY DEF Init
  <2>2. Blank.paths = NoTree /\ Blank.seen = NoDevices
    BY DEF Blank
  <2>. QED
    BY <2>1, <2>2, ValuesAssumption DEF RowSound, NoDevices
<1>. QED
  BY <1>1, NextSound, Invariant, PTL DEF Spec

(* A tree listed as whole is all in one device, as it was last read: never *)
(* is the union of several halves, or of half a device, taken for what the *)
(* model supports.                                                         *)
THEOREM WholeTreesAreWhole == Spec => []CompleteIsTrue
<1>1. IInv /\ Sound => CompleteIsTrue
  <2>. SUFFICES ASSUME IInv, Sound, NEW i \in Installations, NEW k \in Keys,
                       Incomplete(cat[i][k]) = "no", ~damaged[i][k]
                PROVE  \E d \in Devices :
                         cat[i][k].seen[d] # Absent /\ reads[i][k][d] = Known(cat[i][k].paths)
    BY DEF CompleteIsTrue
  <2>. DEFINE r == cat[i][k]
  <2>1. r \in Row /\ RowSound(r, reads[i][k], damaged[i][k])
    BY DEF IInv, TypeOK, Sound
  <2>2. PICK n \in {r.seen[d] : d \in Devices} \ {Absent} : ~(n < r.n_params)
    BY DEF Incomplete
  <2>3. PICK d \in Devices : n = r.seen[d] /\ r.seen[d] # Absent
    BY <2>2
  <2>4. r.paths \in Tree
    BY <2>1, <2>3 DEF RowSound, Row, NoDevices
  <2>5. /\ n = Cardinality(reads[i][k][d]) /\ reads[i][k][d] \subseteq Known(r.paths)
        /\ r.n_params = Cardinality(Known(r.paths))
    BY <2>1, <2>3, <2>4 DEF RowSound
  <2>6. IsFiniteSet(Known(r.paths))
    BY DataAssumption, FS_Subset DEF Known
  <2>7. /\ IsFiniteSet(reads[i][k][d])
        /\ Cardinality(reads[i][k][d]) <= Cardinality(Known(r.paths))
        /\ Cardinality(reads[i][k][d]) = Cardinality(Known(r.paths)) =>
             reads[i][k][d] = Known(r.paths)
    BY <2>5, <2>6, FS_Subset
  <2>8. Cardinality(reads[i][k][d]) \in Nat /\ Cardinality(Known(r.paths)) \in Nat
    BY <2>6, <2>7, FS_CardinalityType
  <2>9. reads[i][k][d] = Known(r.paths)
    BY <2>2, <2>5, <2>7, <2>8
  <2>. QED
    BY <2>3, <2>9
<1>. QED
  BY <1>1, Invariant, ColumnsAgree, PTL

-----------------------------------------------------------------------------
(* What a whole import makes of a row, column by column *)

(* The tree of a row, of which nothing is known if it cannot be read.      *)
Readable(r) == IF r.paths \in Tree THEN r.paths ELSE Unknown
Grown(r, t) == Union(Readable(r), t)
Wider(r, t) == r.paths \notin Tree \/ Grown(r, t) # r.paths

SeedOf(mine, theirs) ==
  IF mine = NoRow \/ (mine = NoProfile /\ theirs # NoProfile) THEN WithoutEvidence(theirs)
  ELSE mine

FillOf(mine, theirs) ==
  [c \in Concepts |-> IF theirs # Malformed /\ mine[c] = Absent THEN theirs[c] ELSE mine[c]]

RootWith(r, e) == IF Wider(r, e.paths) /\ e.root # "none" THEN e.root ELSE r.root
CountWith(r, t) == IF Wider(r, t) THEN Cardinality(Known(Grown(r, t))) ELSE r.n_params

JoinedColumns(r, e) ==
  [paths |-> Grown(r, e.paths), root |-> RootWith(r, e), n_params |-> CountWith(r, e.paths),
   seen |-> r.seen, profile |-> r.profile, overrides |-> r.overrides]

Columns(r, e) ==
  [paths |-> Grown(r, e.paths), root |-> RootWith(r, e), n_params |-> CountWith(r, e.paths),
   seen |-> r.seen, profile |-> SeedOf(r.profile, e.profile),
   overrides |-> FillOf(r.overrides, e.overrides)]

(* The first write: an entry brings a path, so the tree becomes one that   *)
(* can be read, and the rest changes only if it becomes wider.             *)
LEMMA JoinedForm ==
  ASSUME NEW r \in Row, NEW e \in FileEntry, Known(e.paths) # {}
  PROVE  Joined(r, e) = JoinedColumns(r, e) /\ Joined(r, e) \in Row
<1>. DEFINE t == e.paths
            root == e.root
            before == IF r.paths \in Tree THEN r.paths ELSE Unknown
            union == Union(before, t)
            newRoot == IF root = "none" THEN r.root ELSE root
            m == Merged(r, t, root, Absent)
            wide == r.paths = NoTree \/ union # before
<1>1. t \in Tree /\ root \in {"none", "Device"} /\ before \in Tree
  BY UnknownTree DEF FileEntry
<1>2. Joined(r, e) = m
  BY DEF Joined
<1>3. m \in Row
  BY <1>1, MergeGrows
<1>4. union = Grown(r, t)
  BY DEF Grown, Readable
<1>5. r.paths \in Tree \cup {NoTree, Corrupt} /\ NoTree \notin Tree
  BY ValuesAssumption DEF Row
<1>6. wide <=> Wider(r, t)
  <2>1. CASE r.paths \in Tree
    BY <1>4, <1>5, <2>1 DEF Wider
  <2>2. CASE r.paths \notin Tree
    <3>1. Known(union) = Known(Unknown) \cup Known(t)
      BY <1>1, <2>2, UnknownTree, UnionKnown
    <3>2. union # Unknown
      BY <3>1, UnknownTree
    <3>. QED
      BY <2>2, <3>2 DEF Wider
  <2>. QED
    BY <2>1, <2>2
<1>7. CASE wide
  <2>1. m = [paths |-> union, root |-> newRoot, n_params |-> Cardinality(Known(union)),
             seen |-> r.seen, profile |-> r.profile, overrides |-> r.overrides]
    BY <1>7 DEF Merged, Row
  <2>. HIDE DEF m, union, before
  <2>. QED
    BY <1>2, <1>3, <1>4, <1>6, <1>7, <2>1 DEF JoinedColumns, RootWith, CountWith
<1>8. CASE ~wide
  <2>1. m = [paths |-> r.paths, root |-> r.root, n_params |-> r.n_params,
             seen |-> r.seen, profile |-> r.profile, overrides |-> r.overrides]
    BY <1>8 DEF Merged, Row
  <2>2. union = r.paths
    BY <1>4, <1>6, <1>8 DEF Wider
  <2>. HIDE DEF m, union, before
  <2>. QED
    BY <1>2, <1>3, <1>4, <1>6, <1>8, <2>1, <2>2 DEF JoinedColumns, RootWith, CountWith
<1>. QED
  BY <1>7, <1>8

(* The three writes together.                                              *)
LEMMA WholeForm ==
  ASSUME NEW r \in Row, NEW e \in FileEntry, Known(e.paths) # {}
  PROVE  WholeEntry(r, e) = Columns(r, e) /\ WholeEntry(r, e) \in Row
<1>. DEFINE j == Joined(r, e)
            s == Seeded(j, e)
            w == Filled(s, e, FreeConcepts(s, e))
            filled == FillOf(r.overrides, e.overrides)
<1>1. j = JoinedColumns(r, e) /\ j \in Row
  BY JoinedForm
<1>2. j.profile = r.profile /\ j.overrides = r.overrides
  BY <1>1 DEF JoinedColumns
<1>. HIDE DEF j
<1>3. s \in Row /\ s = [j EXCEPT !.profile = s.profile]
  BY <1>1, SeededRow
<1>4. s.profile = SeedOf(r.profile, e.profile)
  BY <1>1, <1>2 DEF Seeded, SeedOf, Row
<1>. HIDE DEF s
<1>5. s.overrides = r.overrides /\ r.overrides \in Overrides
  BY <1>1, <1>2, <1>3 DEF Row
<1>6. [c \in Concepts |-> IF c \in FreeConcepts(s, e) THEN e.overrides[c] ELSE s.overrides[c]]
        = filled
  <2>1. CASE e.overrides = Malformed
    BY <1>5, <2>1 DEF FreeConcepts, FillOf
  <2>2. CASE e.overrides # Malformed
    <3>1. ASSUME NEW c \in Concepts
          PROVE  (IF c \in FreeConcepts(s, e) THEN e.overrides[c] ELSE s.overrides[c])
                   = filled[c]
      BY <1>5, <2>2 DEF FreeConcepts, FillOf
    <3>. QED
      BY <3>1 DEF FillOf
  <2>. QED
    BY <2>1, <2>2
<1>7. w = [s EXCEPT !.overrides = filled]
  BY <1>6 DEF Filled
<1>8. filled \in Overrides
  <2>1. e.overrides \in Overrides \cup {Malformed}
    BY DEF FileEntry
  <2>. QED
    BY <1>5, <2>1 DEF FillOf, Overrides
<1>9. WholeEntry(r, e) = w
  BY DEF WholeEntry, s, j
<1>. HIDE DEF w, filled
<1>10. w \in Row
  BY <1>3, <1>7, <1>8 DEF Row
<1>11. w = [paths |-> s.paths, root |-> s.root, n_params |-> s.n_params, seen |-> s.seen,
             profile |-> s.profile, overrides |-> filled]
  BY <1>3, <1>7 DEF Row
<1>12. s.paths = j.paths /\ s.root = j.root /\ s.n_params = j.n_params /\ s.seen = j.seen
  BY <1>1, <1>3 DEF Row
<1>13. /\ j.paths = Grown(r, e.paths) /\ j.root = RootWith(r, e)
       /\ j.n_params = CountWith(r, e.paths) /\ j.seen = r.seen
  BY <1>1 DEF JoinedColumns
<1>14. w = Columns(r, e)
  BY <1>4, <1>11, <1>12, <1>13, Zenon DEF Columns, filled
<1>. QED
  BY <1>9, <1>10, <1>14, Zenon

(* Unions are taken path by path, in any order.                            *)
LEMMA UnionLaws ==
  ASSUME NEW a \in Tree, NEW b \in Tree, NEW c \in Tree
  PROVE  /\ Union(Union(a, b), c) = Union(Union(a, c), b)
         /\ Union(Union(a, b), b) = Union(a, b)
         /\ Union(Unknown, a) = a
         /\ Union(Union(a, b), c) = a => Union(a, b) = a
         /\ (\A p \in Paths : b[p] <= a[p]) => Union(a, b) = a
         /\ \A p \in Paths : b[p] <= Union(a, b)[p]
<1>1. ASSUME NEW p \in Paths
      PROVE  a[p] \in 0..2 /\ b[p] \in 0..2 /\ c[p] \in 0..2
  BY DEF Tree
<1>2. Union(Union(a, b), c) = Union(Union(a, c), b)
  <2>1. \A p \in Paths : Union(Union(a, b), c)[p] = Union(Union(a, c), b)[p]
    BY <1>1 DEF Union
  <2>. QED
    BY <2>1 DEF Union
<1>3. Union(Union(a, b), b) = Union(a, b)
  <2>1. \A p \in Paths : Union(Union(a, b), b)[p] = Union(a, b)[p]
    BY <1>1 DEF Union
  <2>. QED
    BY <2>1 DEF Union
<1>4. a = [p \in Paths |-> a[p]]
  BY DEF Tree
<1>5. Union(Unknown, a) = a
  <2>1. \A p \in Paths : Union(Unknown, a)[p] = a[p]
    BY <1>1 DEF Union, Unknown
  <2>. QED
    BY <1>4, <2>1 DEF Union
<1>6. ASSUME Union(Union(a, b), c) = a PROVE Union(a, b) = a
  <2>1. ASSUME NEW p \in Paths PROVE Union(a, b)[p] = a[p]
    <3>1. Union(Union(a, b), c)[p] = a[p]
      BY <1>6
    <3>. QED
      BY <1>1, <3>1 DEF Union
  <2>. QED
    BY <1>4, <2>1 DEF Union
<1>7. ASSUME \A p \in Paths : b[p] <= a[p] PROVE Union(a, b) = a
  <2>1. \A p \in Paths : Union(a, b)[p] = a[p]
    BY <1>1, <1>7 DEF Union
  <2>. QED
    BY <1>4, <2>1 DEF Union
<1>8. \A p \in Paths : b[p] <= Union(a, b)[p]
  BY UnionGrows
<1>. QED
  BY <1>2, <1>3, <1>5, <1>6, <1>7, <1>8

-----------------------------------------------------------------------------
(* Two entries, one after the other.                                       *)
LEMMA TwiceForm ==
  ASSUME NEW r \in Row, NEW d \in FileEntry, NEW e \in FileEntry,
         Known(d.paths) # {}, Known(e.paths) # {}, d.root = e.root
  PROVE  LET all == Union(Union(Readable(r), d.paths), e.paths)
             wider == r.paths \notin Tree \/ all # r.paths
         IN WholeEntry(WholeEntry(r, d), e) =
              [paths |-> all,
               root |-> IF wider /\ e.root # "none" THEN e.root ELSE r.root,
               n_params |-> IF wider THEN Cardinality(Known(all)) ELSE r.n_params,
               seen |-> r.seen,
               profile |-> SeedOf(SeedOf(r.profile, d.profile), e.profile),
               overrides |-> FillOf(FillOf(r.overrides, d.overrides), e.overrides)]
<1>. DEFINE one == WholeEntry(r, d)
            first == Union(Readable(r), d.paths)
            all == Union(first, e.paths)
            wider == r.paths \notin Tree \/ all # r.paths
<1>1. one = Columns(r, d) /\ one \in Row
  BY WholeForm
<1>2. /\ Readable(r) \in Tree /\ d.paths \in Tree /\ e.paths \in Tree
      /\ r.paths \in Tree => Readable(r) = r.paths
  BY UnknownTree DEF Readable, FileEntry
<1>3. first \in Tree
  BY <1>2, UnionGrows
<1>4. /\ one.paths = first
      /\ one.root = IF Wider(r, d.paths) /\ d.root # "none" THEN d.root ELSE r.root
      /\ one.n_params = IF Wider(r, d.paths) THEN Cardinality(Known(first)) ELSE r.n_params
      /\ one.seen = r.seen /\ one.profile = SeedOf(r.profile, d.profile)
      /\ one.overrides = FillOf(r.overrides, d.overrides)
  BY <1>1 DEF Columns, RootWith, CountWith, Grown
<1>5. WholeEntry(one, e) = Columns(one, e)
  BY <1>1, WholeForm
<1>. HIDE DEF one, first
<1>6. Grown(one, e.paths) = all
  BY <1>3, <1>4 DEF Grown, Readable
<1>7. Wider(one, e.paths) <=> all # first
  BY <1>3, <1>4, <1>6 DEF Wider
<1>8. Wider(r, d.paths) <=> r.paths \notin Tree \/ first # r.paths
  BY DEF Wider, Grown, first
<1>9. ASSUME r.paths \in Tree, all = r.paths
      PROVE  first = r.paths
  BY <1>2, <1>9, UnionLaws DEF first
<1>10. wider <=> Wider(r, d.paths) \/ all # first
  BY <1>8, <1>9
<1>. HIDE DEF all
<1>11. RootWith(one, e) = IF wider /\ e.root # "none" THEN e.root ELSE r.root
  BY <1>4, <1>7, <1>10 DEF RootWith
<1>12. CountWith(one, e.paths) = IF wider THEN Cardinality(Known(all)) ELSE r.n_params
  BY <1>4, <1>6, <1>7, <1>10 DEF CountWith
<1>. HIDE DEF wider
<1>. QED
  BY <1>4, <1>5, <1>6, <1>11, <1>12, Zenon DEF Columns, all, wider, one, first

(* Evidence is lost once, and with it nothing else of a profile.           *)
LEMMA EvidenceLost ==
  ASSUME NEW p \in Profile \cup {NoProfile}
  PROVE  /\ WithoutEvidence(p) \in Profile \cup {NoProfile}
         /\ WithoutEvidence(p) # NoRow
         /\ WithoutEvidence(p) = NoProfile <=> p = NoProfile
         /\ WithoutEvidence(WithoutEvidence(p)) = WithoutEvidence(p)
<1>1. CASE p = NoProfile
  BY <1>1, ValuesAssumption DEF WithoutEvidence
<1>2. CASE p # NoProfile
  <2>1. p \in Profile /\ p # NoRow
    BY <1>2, ValuesAssumption
  <2>2. WithoutEvidence(p) = [deduced |-> p.deduced, evidence |-> Absent]
    BY <1>2, <2>1 DEF WithoutEvidence, Profile
  <2>3. WithoutEvidence(p) \in Profile
    BY <2>1, <2>2 DEF Profile
  <2>4. WithoutEvidence(p) \notin {NoRow, NoProfile}
    BY <2>3, ValuesAssumption
  <2>5. WithoutEvidence(WithoutEvidence(p)) = [WithoutEvidence(p) EXCEPT !.evidence = Absent]
    BY <2>4 DEF WithoutEvidence
  <2>6. [WithoutEvidence(p) EXCEPT !.evidence = Absent] = WithoutEvidence(p)
    BY <2>2
  <2>. QED
    BY <1>2, <2>3, <2>4, <2>5, <2>6
<1>. QED
  BY <1>1, <1>2

(* Which of two files seeds a profile first is the same if they agree.     *)
LEMMA SeedsCommute ==
  ASSUME NEW mine, NEW p \in Profile \cup {NoProfile}, NEW q \in Profile \cup {NoProfile},
         NoProfile \in {p, q} \/ WithoutEvidence(p) = WithoutEvidence(q)
  PROVE  SeedOf(SeedOf(mine, p), q) = SeedOf(SeedOf(mine, q), p)
<1>1. /\ WithoutEvidence(p) # NoRow /\ (WithoutEvidence(p) = NoProfile <=> p = NoProfile)
      /\ WithoutEvidence(q) # NoRow /\ (WithoutEvidence(q) = NoProfile <=> q = NoProfile)
  BY EvidenceLost
<1>2. NoRow # NoProfile
  BY ValuesAssumption
<1>. QED
  BY <1>1, <1>2 DEF SeedOf

(* So it is with the corrections.                                          *)
LEMMA FillsCommute ==
  ASSUME NEW mine, NEW o \in Overrides \cup {Malformed}, NEW u \in Overrides \cup {Malformed},
         \/ Malformed \in {o, u}
         \/ \A c \in Concepts : Absent \in {o[c], u[c]} \/ o[c] = u[c]
  PROVE  FillOf(FillOf(mine, o), u) = FillOf(FillOf(mine, u), o)
<1>1. \A c \in Concepts : FillOf(FillOf(mine, o), u)[c] = FillOf(FillOf(mine, u), o)[c]
  BY DEF FillOf
<1>. QED
  BY <1>1 DEF FillOf

(* Entries that agree are imported in any order.                           *)
LEMMA EntriesCommute ==
  ASSUME NEW r \in Row, NEW d \in FileEntry, NEW e \in FileEntry,
         Known(d.paths) # {}, Known(e.paths) # {}, Agree(d, e)
  PROVE  WholeEntry(WholeEntry(r, d), e) = WholeEntry(WholeEntry(r, e), d)
<1>1. /\ Readable(r) \in Tree /\ d.paths \in Tree /\ e.paths \in Tree
      /\ d.profile \in Profile \cup {NoProfile} /\ e.profile \in Profile \cup {NoProfile}
      /\ d.overrides \in Overrides \cup {Malformed} /\ e.overrides \in Overrides \cup {Malformed}
  BY UnknownTree DEF Readable, FileEntry
<1>2. Union(Union(Readable(r), d.paths), e.paths) = Union(Union(Readable(r), e.paths), d.paths)
  BY <1>1, UnionLaws
<1>3. SeedOf(SeedOf(r.profile, d.profile), e.profile)
        = SeedOf(SeedOf(r.profile, e.profile), d.profile)
  BY <1>1, SeedsCommute DEF Agree
<1>4. FillOf(FillOf(r.overrides, d.overrides), e.overrides)
        = FillOf(FillOf(r.overrides, e.overrides), d.overrides)
  BY <1>1, FillsCommute DEF Agree
<1>5. d.root = e.root
  BY DEF Agree
<1>6. Known(e.paths) # {} /\ Known(d.paths) # {}
  OBVIOUS
<1>. DEFINE all == Union(Union(Readable(r), d.paths), e.paths)
            other == Union(Union(Readable(r), e.paths), d.paths)
            Row2(tree, root, profile, overrides) ==
              [paths |-> tree,
               root |-> IF (r.paths \notin Tree \/ tree # r.paths) /\ root # "none"
                        THEN root ELSE r.root,
               n_params |-> IF r.paths \notin Tree \/ tree # r.paths
                            THEN Cardinality(Known(tree)) ELSE r.n_params,
               seen |-> r.seen, profile |-> profile, overrides |-> overrides]
<1>7. WholeEntry(WholeEntry(r, d), e) =
        Row2(all, e.root, SeedOf(SeedOf(r.profile, d.profile), e.profile),
             FillOf(FillOf(r.overrides, d.overrides), e.overrides))
  BY <1>5, <1>6, TwiceForm, Zenon
<1>8. WholeEntry(WholeEntry(r, e), d) =
        Row2(other, d.root, SeedOf(SeedOf(r.profile, e.profile), d.profile),
             FillOf(FillOf(r.overrides, e.overrides), d.overrides))
  BY <1>5, <1>6, TwiceForm, Zenon
<1>. HIDE DEF Row2
<1>. QED
  BY <1>2, <1>3, <1>4, <1>5, <1>7, <1>8, Zenon

(* "el resultado no depende del orden en que se importen los archivos":    *)
(* two files that agree on every model leave the same catalogue in either  *)
(* order, whatever the installation knew before, and even if one of them   *)
(* is cut short by an entry that raises.                                   *)
THEOREM AnyOrder == Spec => []OrderIsIrrelevant
<1>1. TypeOK => OrderIsIrrelevant
  <2>. SUFFICES ASSUME TypeOK, NEW i \in Installations, NEW f \in files, NEW g \in files,
                       \A k \in Keys : NoEntry \in {f[k], g[k]} \/ Agree(f[k], g[k])
                PROVE  Imported(Imported(cat[i], f), g) = Imported(Imported(cat[i], g), f)
    BY DEF OrderIsIrrelevant
  <2>. DEFINE Brings(h, k) == k \in Reached(h, 1) /\ Accepted(h[k])
  <2>1. \A c, h : Imported(c, h) =
          [k \in Keys |-> IF Brings(h, k) THEN WholeEntry(c[k], h[k]) ELSE c[k]]
    BY DEF Imported, ImportedFrom
  <2>2. ASSUME NEW k \in Keys
        PROVE  Imported(Imported(cat[i], f), g)[k] = Imported(Imported(cat[i], g), f)[k]
    <3>. DEFINE r == cat[i][k]
    <3>1. /\ Imported(cat[i], f)[k] = IF Brings(f, k) THEN WholeEntry(r, f[k]) ELSE r
          /\ Imported(cat[i], g)[k] = IF Brings(g, k) THEN WholeEntry(r, g[k]) ELSE r
      BY <2>1
    <3>2. /\ Imported(Imported(cat[i], f), g)[k] =
               IF Brings(g, k) THEN WholeEntry(Imported(cat[i], f)[k], g[k])
               ELSE Imported(cat[i], f)[k]
          /\ Imported(Imported(cat[i], g), f)[k] =
               IF Brings(f, k) THEN WholeEntry(Imported(cat[i], g)[k], f[k])
               ELSE Imported(cat[i], g)[k]
      BY <2>1
    <3>3. CASE Brings(f, k) /\ Brings(g, k)
      <4>1. Accepted(f[k]) /\ Accepted(g[k])
        BY <3>3
      <4>2. /\ r \in Row /\ f[k] \in FileEntry /\ g[k] \in FileEntry
            /\ Known(f[k].paths) # {} /\ Known(g[k].paths) # {} /\ Agree(f[k], g[k])
        BY <4>1 DEF TypeOK, File, Accepted
      <4>3. WholeEntry(WholeEntry(r, f[k]), g[k]) = WholeEntry(WholeEntry(r, g[k]), f[k])
        BY <4>2, EntriesCommute
      <4>. HIDE DEF Brings, r
      <4>. QED
        BY <3>1, <3>2, <3>3, <4>3
    <3>4. CASE ~(Brings(f, k) /\ Brings(g, k))
      <4>. HIDE DEF Brings
      <4>. QED
        BY <3>1, <3>2, <3>4
    <3>. QED
      BY <3>3, <3>4
  <2>. QED
    BY <2>1, <2>2
<1>. QED
  BY <1>1, TypeCorrect, PTL

-----------------------------------------------------------------------------
(* How far an import gets: the keys come in order, each once.              *)
Clear(f, n, m) == \A l \in n..(m - 1) : ~Raises(f[KeyOrder[l]])

(* A model is reached exactly if no entry between the start and it         *)
(* raises.                                                                 *)
LEMMA ReachedKeys ==
  ASSUME NEW f, NEW n \in Nat \ {0}, NEW m \in Positions
  PROVE  KeyOrder[m] \in Reached(f, n) <=> n <= m /\ Clear(f, n, m)
<1>1. Len(KeyOrder) \in Nat
  BY KeysAssumption
<1>2. KeyOrder[m] \in Reached(f, n) <=>
        \E x \in n..Len(KeyOrder) : Clear(f, n, x) /\ KeyOrder[m] = KeyOrder[x]
  BY DEF Reached, Clear
<1>3. ASSUME NEW x \in n..Len(KeyOrder), Clear(f, n, x), KeyOrder[m] = KeyOrder[x]
      PROVE  n <= m /\ Clear(f, n, m)
  <2>1. x \in Positions
    BY <1>1 DEF Positions
  <2>2. x = m
    BY <1>3, <2>1, KeysAssumption
  <2>. QED
    BY <1>1, <1>3, <2>2
<1>4. ASSUME n <= m, Clear(f, n, m)
      PROVE  \E x \in n..Len(KeyOrder) : Clear(f, n, x) /\ KeyOrder[m] = KeyOrder[x]
  <2>1. m \in n..Len(KeyOrder)
    BY <1>1, <1>4 DEF Positions
  <2>. QED
    BY <1>4, <2>1
<1>. QED
  BY <1>2, <1>3, <1>4

(* Every key has its place.                                                *)
LEMMA EveryKey == \A k \in Keys : \E m \in Positions : k = KeyOrder[m]
BY DEF Keys

(* What an installation exports of a row is an entry of a file.            *)
LEMMA EntryType ==
  ASSUME NEW r \in Row, r.paths \in Tree
  PROVE  Entry(r) \in FileEntry /\ Entry(r).overrides # Malformed
<1>1. WithoutEvidence(r.profile) \in Profile \cup {NoProfile}
  <2>1. CASE r.profile = NoRow
    BY <2>1 DEF WithoutEvidence
  <2>2. CASE r.profile # NoRow
    <3>1. r.profile \in Profile \cup {NoProfile}
      BY <2>2 DEF Row
    <3>. QED
      BY <3>1, EvidenceLost
  <2>. QED
    BY <2>1, <2>2
<1>2. r.root \in {"none", "Device"} /\ r.overrides \in Overrides
  BY DEF Row
<1>3. Entry(r) = [paths |-> r.paths, root |-> r.root,
                  profile |-> WithoutEvidence(r.profile), overrides |-> r.overrides]
  BY DEF Entry
<1>4. Entry(r).overrides = r.overrides
  BY <1>3
<1>. QED
  BY <1>1, <1>2, <1>3, <1>4, ValuesAssumption DEF FileEntry

(* The exported row, imported where nothing is known, is the row without   *)
(* its devices and its evidence.                                           *)
LEMMA EntryRoundTrip ==
  ASSUME NEW r \in Row, r.paths \in Tree, Known(r.paths) # {},
         r.n_params = Cardinality(Known(r.paths))
  PROVE  WholeEntry(Blank, Entry(r)) = Portable(r)
<1>. DEFINE e == Entry(r)
<1>1. /\ Blank \in Row /\ Blank.paths = NoTree /\ Blank.root = "none" /\ Blank.seen = NoDevices
      /\ Blank.profile = NoRow /\ Blank.overrides = NoOverrides
  <2>1. Cardinality(Paths) \in Nat
    BY DataAssumption, FS_CardinalityType
  <2>. QED
    BY <2>1 DEF Blank, Row, NoDevices, NoOverrides, Overrides
<1>2. /\ e \in FileEntry /\ e.paths = r.paths /\ e.root = r.root
      /\ e.profile = WithoutEvidence(r.profile) /\ e.overrides = r.overrides
      /\ e.overrides # Malformed
  BY EntryType DEF Entry
<1>. HIDE DEF e
<1>3. WholeEntry(Blank, e) = Columns(Blank, e)
  BY <1>1, <1>2, WholeForm
<1>4. NoTree \notin Tree
  BY ValuesAssumption
<1>5. Grown(Blank, r.paths) = r.paths /\ Wider(Blank, r.paths)
  BY <1>1, <1>4, UnionLaws DEF Grown, Readable, Wider
<1>6. RootWith(Blank, e) = r.root
  BY <1>1, <1>2, <1>5 DEF RootWith
<1>7. CountWith(Blank, e.paths) = r.n_params
  BY <1>2, <1>5 DEF CountWith
<1>8. SeedOf(Blank.profile, e.profile) = WithoutEvidence(r.profile)
  <2>1. CASE r.profile = NoRow
    BY <1>1, <1>2, <2>1 DEF SeedOf, WithoutEvidence
  <2>2. CASE r.profile # NoRow
    <3>1. r.profile \in Profile \cup {NoProfile}
      BY <2>2 DEF Row
    <3>2. WithoutEvidence(WithoutEvidence(r.profile)) = WithoutEvidence(r.profile)
      BY <3>1, EvidenceLost
    <3>. QED
      BY <1>1, <1>2, <3>2 DEF SeedOf
  <2>. QED
    BY <2>1, <2>2
<1>9. FillOf(Blank.overrides, e.overrides) = r.overrides
  <2>1. r.overrides \in Overrides
    BY DEF Row
  <2>2. \A c \in Concepts : FillOf(Blank.overrides, e.overrides)[c] = r.overrides[c]
    BY <1>1, <1>2 DEF FillOf, NoOverrides
  <2>. QED
    BY <2>1, <2>2 DEF Overrides, FillOf
<1>10. Columns(Blank, e) =
         [paths |-> r.paths, root |-> r.root, n_params |-> r.n_params, seen |-> NoDevices,
          profile |-> WithoutEvidence(r.profile), overrides |-> r.overrides]
  BY <1>1, <1>2, <1>5, <1>6, <1>7, <1>8, <1>9, Zenon DEF Columns
<1>11. Portable(r) =
         [paths |-> r.paths, root |-> r.root, n_params |-> r.n_params, seen |-> NoDevices,
          profile |-> WithoutEvidence(r.profile), overrides |-> r.overrides]
  <2>. DEFINE w == WithoutEvidence(r.profile)
  <2>1. Portable(r) = [r EXCEPT !.seen = NoDevices, !.profile = w]
    BY DEF Portable
  <2>. HIDE DEF w
  <2>2. [r EXCEPT !.seen = NoDevices, !.profile = w] =
          [paths |-> r.paths, root |-> r.root, n_params |-> r.n_params, seen |-> NoDevices,
           profile |-> w, overrides |-> r.overrides]
    <3>. DEFINE x == [r EXCEPT !.seen = NoDevices, !.profile = w]
                r1 == [paths |-> r.paths, root |-> r.root, n_params |-> r.n_params,
                       seen |-> NoDevices, profile |-> r.profile, overrides |-> r.overrides]
                r2 == [paths |-> r.paths, root |-> r.root, n_params |-> r.n_params,
                       seen |-> NoDevices, profile |-> w, overrides |-> r.overrides]
    <3>1. x = [[r EXCEPT !.seen = NoDevices] EXCEPT !.profile = w]
      BY DEF Row
    <3>2. [r EXCEPT !.seen = NoDevices] = r1
      BY DEF Row
    <3>3. [r1 EXCEPT !.profile = w] = r2
      OBVIOUS
    <3>4. x = r2
      <4>. HIDE DEF x, r1, r2
      <4>. QED
        BY <3>1, <3>2, <3>3
    <3>. QED
      BY <3>4
  <2>. QED
    BY <2>1, <2>2, Zenon DEF w
<1>. QED
  BY <1>3, <1>10, <1>11, Zenon DEF e

(* A catalogue exported whole and imported where nothing is known is the   *)
(* same but for the devices and the evidence.                              *)
THEOREM TravelsWhole == Spec => []RoundTrip
<1>1. TypeOK /\ Sound => RoundTrip
  <2>. SUFFICES ASSUME TypeOK, Sound, NEW i \in Installations, NEW k \in Keys,
                       cat[i][k].paths \in Tree \ {Unknown}
                PROVE  Imported([x \in Keys |-> Blank], Exported(cat[i]))[k]
                         = Portable(cat[i][k])
    BY DEF RoundTrip
  <2>. DEFINE r == cat[i][k]
              f == Exported(cat[i])
  <2>1. r \in Row /\ r.paths \in Tree /\ r.n_params = Cardinality(Known(r.paths))
    BY DEF TypeOK, Sound, RowSound
  <2>2. Known(r.paths) # {}
    <3>1. \E p \in Paths : r.paths[p] # 0
      <4>1. \A t \in Tree : (\A p \in Paths : t[p] = 0) => t = Unknown
        BY DEF Tree, Unknown
      <4>. QED
        BY <2>1, <4>1
    <3>. QED
      BY <2>1, <3>1 DEF Known, Tree
  <2>3. \A q \in Keys : ~Raises(f[q])
    <3>. SUFFICES ASSUME NEW q \in Keys, Accepted(f[q])
                  PROVE  f[q].overrides # Malformed
      BY DEF Raises
    <3>1. cat[i][q] \in Row
      BY DEF TypeOK
    <3>2. f[q] = IF cat[i][q].paths \in Tree THEN Entry(cat[i][q]) ELSE NoEntry
      BY DEF Exported
    <3>3. cat[i][q].paths \in Tree /\ f[q] = Entry(cat[i][q])
      BY <3>2 DEF Accepted
    <3>. QED
      BY <3>1, <3>3, EntryType
  <2>4. f[k] = Entry(r)
    BY <2>1 DEF Exported
  <2>5. Accepted(f[k])
    <3>1. Entry(r) \in FileEntry /\ Entry(r).paths = r.paths
      BY <2>1, EntryType DEF Entry
    <3>. QED
      BY <2>2, <2>4, <3>1, ValuesAssumption DEF Accepted
  <2>6. k \in Reached(f, 1)
    <3>1. PICK m \in Positions : k = KeyOrder[m]
      BY EveryKey
    <3>2. Len(KeyOrder) \in Nat /\ 1 <= m
      BY KeysAssumption DEF Positions
    <3>3. \A l \in 1..(m - 1) : KeyOrder[l] \in Keys
      BY <3>2 DEF Positions, Keys
    <3>4. Clear(f, 1, m)
      BY <2>3, <3>3 DEF Clear
    <3>. HIDE DEF f
    <3>. QED
      BY <3>1, <3>2, <3>4, ReachedKeys
  <2>. HIDE DEF f
  <2>7. Imported([x \in Keys |-> Blank], f)[k] = WholeEntry(Blank, f[k])
    BY <2>5, <2>6 DEF Imported, ImportedFrom
  <2>. QED
    BY <2>1, <2>2, <2>4, <2>7, EntryRoundTrip DEF f
<1>. QED
  BY <1>1, TypeCorrect, ColumnsAgree, PTL

-----------------------------------------------------------------------------
(* How much of an entry a row has taken up already.                        *)
TreeIn(r, e) == r.paths \in Tree /\ \A p \in Paths : e.paths[p] <= r.paths[p]
ProfileIn(r, e) == r.profile # NoRow /\ (r.profile = NoProfile => e.profile = NoProfile)

(* What was written once is not written again.                             *)
LEMMA TakenUp ==
  ASSUME NEW r \in Row, NEW e \in FileEntry, Known(e.paths) # {}
  PROVE  /\ TreeIn(Joined(r, e), e)
         /\ TreeIn(r, e) => Joined(r, e) = r
         /\ ProfileIn(Seeded(r, e), e)
         /\ ProfileIn(r, e) => Seeded(r, e) = r
<1>1. TreeIn(Joined(r, e), e)
  <2>1. Readable(r) \in Tree /\ e.paths \in Tree
    BY UnknownTree DEF Readable, FileEntry
  <2>2. Grown(r, e.paths) \in Tree /\ \A p \in Paths : e.paths[p] <= Grown(r, e.paths)[p]
    BY <2>1, UnionGrows DEF Grown
  <2>3. Joined(r, e).paths = Grown(r, e.paths)
    BY JoinedForm DEF JoinedColumns
  <2>. QED
    BY <2>2, <2>3 DEF TreeIn
<1>2. ASSUME TreeIn(r, e) PROVE Joined(r, e) = r
  <2>1. r.paths \in Tree /\ e.paths \in Tree
    BY <1>2 DEF TreeIn, FileEntry
  <2>2. Grown(r, e.paths) = r.paths
    BY <1>2, <2>1, UnionLaws DEF TreeIn, Grown, Readable
  <2>3. RootWith(r, e) = r.root /\ CountWith(r, e.paths) = r.n_params
    BY <2>1, <2>2 DEF RootWith, CountWith, Wider
  <2>4. r = [paths |-> r.paths, root |-> r.root, n_params |-> r.n_params,
             seen |-> r.seen, profile |-> r.profile, overrides |-> r.overrides]
    BY DEF Row
  <2>5. JoinedColumns(r, e) = r
    BY <2>2, <2>3, <2>4, Zenon DEF JoinedColumns
  <2>. QED
    BY <2>5, JoinedForm
<1>3. ProfileIn(Seeded(r, e), e)
  <2>1. e.profile \in Profile \cup {NoProfile} /\ NoRow # NoProfile
    BY ValuesAssumption DEF FileEntry
  <2>2. /\ WithoutEvidence(e.profile) # NoRow
        /\ WithoutEvidence(e.profile) = NoProfile => e.profile = NoProfile
    BY <2>1, EvidenceLost
  <2>3. Seeded(r, e).profile = SeedOf(r.profile, e.profile)
    BY DEF Seeded, SeedOf, Row
  <2>. QED
    BY <2>1, <2>2, <2>3 DEF ProfileIn, SeedOf
<1>4. ProfileIn(r, e) => Seeded(r, e) = r
  BY DEF ProfileIn, Seeded
<1>. QED
  BY <1>1, <1>2, <1>3, <1>4

(* What is left of an entry whose tree and profile the row has.            *)
LEMMA LeftToFill ==
  ASSUME NEW r \in Row, NEW e \in FileEntry, Known(e.paths) # {},
         TreeIn(r, e), ProfileIn(r, e)
  PROVE  /\ WholeEntry(r, e) = Filled(r, e, FreeConcepts(r, e))
         /\ FreeConcepts(r, e) = {} => WholeEntry(r, e) = r
<1>1. Joined(r, e) = r /\ Seeded(r, e) = r
  BY TakenUp
<1>2. WholeEntry(r, e) = Filled(r, e, FreeConcepts(r, e))
  BY <1>1 DEF WholeEntry
<1>3. ASSUME FreeConcepts(r, e) = {} PROVE Filled(r, e, FreeConcepts(r, e)) = r
  <2>1. r.overrides = [c \in Concepts |-> r.overrides[c]]
    BY DEF Row, Overrides
  <2>2. Filled(r, e, {}) = [r EXCEPT !.overrides = r.overrides]
    BY <2>1 DEF Filled
  <2>. QED
    BY <1>3, <2>2 DEF Row
<1>. QED
  BY <1>2, <1>3

(* An entry an import has left behind: it did not raise, and importing it  *)
(* again changes nothing.                                                  *)
Taken(rows, file, m) ==
  /\ ~Raises(file[KeyOrder[m]])
  /\ Accepted(file[KeyOrder[m]]) =>
       WholeEntry(rows[KeyOrder[m]], file[KeyOrder[m]]) = rows[KeyOrder[m]]

(* The entry it is at: what it has written, and what it has still to fill. *)
Begun(im, r, e) ==
  /\ im.stage # "merge" => Accepted(e) /\ TreeIn(r, e)
  /\ im.stage = "fill" => ProfileIn(r, e) /\ im.free = FreeConcepts(r, e)

Halfway(im, rows) ==
  /\ \A m \in 1..(im.at - 1) : Taken(rows, im.file, m)
  /\ Begun(im, rows[KeyOrder[im.at]], im.file[KeyOrder[im.at]])

Progress == \A i \in Installations : importing[i] # Idle => Halfway(importing[i], cat[i])

(* The other installations do not move.                                    *)
LEMMA ProgressHere ==
  ASSUME TypeOK, Progress, NEW i \in Installations,
         \A j \in Installations : j # i => cat'[j] = cat[j] /\ importing'[j] = importing[j],
         importing'[i] # Idle => Halfway(importing'[i], cat'[i])
  PROVE  Progress'
<1>1. ASSUME NEW j \in Installations, importing'[j] # Idle
      PROVE  Halfway(importing'[j], cat'[j])
  <2>1. CASE j = i
    BY <1>1, <2>1
  <2>2. CASE j # i
    <3>1. Halfway(importing[j], cat[j])
      BY <1>1, <2>2 DEF Progress
    <3>. QED
      BY <2>2, <3>1
  <2>. QED
    BY <2>1, <2>2
<1>. QED
  BY <1>1 DEF Progress

(* A write of an import touches the row it is at, and no earlier one.      *)
LEMMA WriteProgress ==
  ASSUME TypeOK, Progress, NEW i \in Installations, importing[i] # Idle, NEW x \in Row,
         NEW s, s.file = importing[i].file, s.at = importing[i].at,
         cat' = [cat EXCEPT ![i][Here(i)] = x],
         importing' = [importing EXCEPT ![i] = s],
         Begun(s, x, Current(i))
  PROVE  Progress'
<1>. DEFINE im == importing[i]
            file == im.file
<1>1. Halfway(im, cat[i]) /\ im.at \in Positions /\ Here(i) \in Keys
  BY Working DEF Progress
<1>2. /\ importing'[i] = s /\ cat'[i][Here(i)] = x
      /\ \A j \in Installations : j # i => cat'[j] = cat[j] /\ importing'[j] = importing[j]
      /\ \A q \in Keys : q # Here(i) => cat'[i][q] = cat[i][q]
  BY <1>1 DEF TypeOK
<1>3. Here(i) = KeyOrder[im.at] /\ Current(i) = file[KeyOrder[im.at]]
  BY DEF Here, Current
<1>4. Len(KeyOrder) \in Nat
  BY KeysAssumption
<1>5. ASSUME NEW m \in 1..(im.at - 1) PROVE Taken(cat'[i], file, m)
  <2>1. m \in Positions /\ m # im.at
    BY <1>1, <1>4 DEF Positions
  <2>2. KeyOrder[m] # Here(i) /\ KeyOrder[m] \in Keys
    BY <1>1, <1>3, <2>1, KeysAssumption DEF Keys
  <2>3. cat'[i][KeyOrder[m]] = cat[i][KeyOrder[m]]
    BY <1>2, <2>2
  <2>4. Taken(cat[i], file, m)
    BY <1>1 DEF Halfway
  <2>. QED
    BY <2>3, <2>4 DEF Taken
<1>6. Begun(s, cat'[i][KeyOrder[s.at]], s.file[KeyOrder[s.at]])
  BY <1>2, <1>3
<1>7. Halfway(s, cat'[i])
  BY <1>5, <1>6 DEF Halfway
<1>. QED
  BY <1>2, <1>7, ProgressHere

(* An import that goes on leaves nothing behind.                           *)
LEMMA AdvanceProgress ==
  ASSUME TypeOK, Progress, NEW i \in Installations, importing[i] # Idle,
         importing[i].free = {}, cat' = cat,
         importing' = [importing EXCEPT ![i] = Advanced(importing[i])],
         Taken(cat[i], importing[i].file, importing[i].at)
  PROVE  Progress'
<1>. DEFINE im == importing[i]
            next == im.at + 1
<1>1. Halfway(im, cat[i]) /\ im.at \in Positions /\ im \in ImportState
  BY Working DEF Progress, TypeOK
<1>2. /\ importing'[i] = Advanced(im)
      /\ \A j \in Installations : j # i => importing'[j] = importing[j]
  BY DEF TypeOK
<1>3. CASE im.at = Len(KeyOrder)
  <2>1. importing'[i] = Idle
    BY <1>2, <1>3 DEF Advanced
  <2>. QED
    BY <1>2, <2>1, ProgressHere
<1>4. CASE im.at # Len(KeyOrder)
  <2>1. Advanced(im) = [im EXCEPT !.at = next, !.stage = "merge"]
    BY <1>4 DEF Advanced
  <2>2. Advanced(im) = [file |-> im.file, at |-> next, stage |-> "merge", free |-> im.free]
    <3>. HIDE DEF next, im
    <3>. QED
      BY <1>1, <2>1, ImportFields
  <2>3. ASSUME NEW m \in 1..(next - 1) PROVE Taken(cat[i], im.file, m)
    <3>1. m \in 1..(im.at - 1) \/ m = im.at
      BY <1>1 DEF Positions
    <3>. QED
      BY <1>1, <3>1 DEF Halfway
  <2>4. Advanced(im).stage = "merge" /\ Advanced(im).at = next /\ Advanced(im).file = im.file
    BY <2>2
  <2>5. Halfway(Advanced(im), cat[i])
    <3>. HIDE DEF next
    <3>. QED
      BY <2>3, <2>4 DEF Halfway, Begun
  <2>. QED
    BY <1>2, <2>5, ProgressHere
<1>. QED
  BY <1>3, <1>4

(* Every step of an import.                                                *)
LEMMA JoinTreeProgress ==
  ASSUME IInv, Progress, NEW i \in Installations, JoinTree(i)
  PROVE  Progress'
<1>. DEFINE e == Current(i)
            r == cat[i][Here(i)]
            x == Joined(r, e)
            s == [importing[i] EXCEPT !.stage = "seed"]
<1>1. TypeOK /\ importing[i] # Idle /\ Accepted(e)
  BY DEF IInv, JoinTree, Write
<1>2. e \in FileEntry /\ r \in Row /\ Known(e.paths) # {} /\ importing[i] \in ImportState
  BY <1>1, Working DEF Accepted, TypeOK
<1>3. x \in Row /\ TreeIn(x, e)
  BY <1>2, JoinedForm, TakenUp
<1>4. s.file = importing[i].file /\ s.at = importing[i].at /\ s.stage = "seed"
  BY <1>2 DEF ImportState
<1>5. cat' = [cat EXCEPT ![i][Here(i)] = x] /\ importing' = [importing EXCEPT ![i] = s]
  BY DEF JoinTree, Write
<1>. HIDE DEF x, s
<1>6. Begun(s, x, e)
  BY <1>1, <1>3, <1>4 DEF Begun
<1>. QED
  BY <1>1, <1>3, <1>4, <1>5, <1>6, WriteProgress

(* The seeded profile leaves to fill exactly the concepts it lists as      *)
(* free.                                                                   *)
LEMMA SeedProfileProgress ==
  ASSUME IInv, Progress, NEW i \in Installations, SeedProfile(i)
  PROVE  Progress'
<1>. DEFINE e == Current(i)
            r == cat[i][Here(i)]
            x == Seeded(r, e)
            free == FreeConcepts(x, e)
            im == importing[i]
            s == [im EXCEPT !.stage = "fill", !.free = free]
<1>1. TypeOK /\ im # Idle /\ Accepted(e) /\ im.stage = "seed"
  BY DEF IInv, SeedProfile, Write
<1>2. e \in FileEntry /\ r \in Row /\ Known(e.paths) # {} /\ im \in ImportState
  BY <1>1, Working DEF Accepted, TypeOK
<1>3. TreeIn(r, e)
  BY <1>1 DEF Progress, Halfway, Begun, Here, Current
<1>4. x \in Row /\ x = [r EXCEPT !.profile = x.profile] /\ ProfileIn(x, e)
  BY <1>2, SeededRow, TakenUp
<1>5. cat' = [cat EXCEPT ![i][Here(i)] = x] /\ importing' = [importing EXCEPT ![i] = s]
  BY DEF SeedProfile, Write
<1>6. s = [file |-> im.file, at |-> im.at, stage |-> "fill", free |-> free]
  <2>. HIDE DEF free, im
  <2>. QED
    BY <1>2, ImportFields
<1>7. s.file = im.file /\ s.at = im.at /\ s.stage = "fill" /\ s.free = free
  BY <1>6
<1>. HIDE DEF x, s
<1>8. x.paths = r.paths
  BY <1>2, <1>4 DEF Row
<1>9. Begun(s, x, e)
  BY <1>1, <1>3, <1>4, <1>7, <1>8 DEF Begun, TreeIn
<1>. QED
  BY <1>1, <1>4, <1>5, <1>7, <1>9, WriteProgress

(* A concept filled is off the list, and no other goes or comes.           *)
LEMMA FillConceptProgress ==
  ASSUME IInv, Progress, NEW i \in Installations, FillConcept(i)
  PROVE  Progress'
<1>. DEFINE e == Current(i)
            r == cat[i][Here(i)]
            im == importing[i]
<1>1. PICK c \in im.free :
        /\ Write(i, "fill", Filled(r, e, {c}))
        /\ importing' = [importing EXCEPT ![i].free = @ \ {c}]
  BY DEF FillConcept
<1>. DEFINE x == Filled(r, e, {c})
            rest == im.free \ {c}
            s == [im EXCEPT !.free = rest]
<1>2. TypeOK /\ im # Idle /\ Accepted(e) /\ im.stage = "fill"
  BY <1>1 DEF IInv, Write
<1>3. e \in FileEntry /\ r \in Row /\ Known(e.paths) # {} /\ im \in ImportState
  BY <1>2, Working DEF Accepted, TypeOK
<1>4. TreeIn(r, e) /\ ProfileIn(r, e) /\ im.free = FreeConcepts(r, e)
  BY <1>2 DEF Progress, Halfway, Begun, Here, Current
<1>5. c \in Concepts /\ e.overrides # Malformed /\ e.overrides[c] # Absent
  BY <1>1, <1>4 DEF FreeConcepts
<1>6. /\ x \in Row /\ x.profile = r.profile /\ x.paths = r.paths
      /\ \A b \in Concepts : b # c => x.overrides[b] = r.overrides[b]
  BY <1>3, <1>5, FilledRow
<1>7. x.overrides[c] = e.overrides[c]
  BY <1>3, <1>5 DEF Filled, Row
<1>8. FreeConcepts(x, e) = rest
  <2>. HIDE DEF x
  <2>. QED
    BY <1>4, <1>5, <1>6, <1>7 DEF FreeConcepts
<1>9. cat' = [cat EXCEPT ![i][Here(i)] = x] /\ importing' = [importing EXCEPT ![i] = s]
  BY <1>1 DEF Write
<1>10. s.file = im.file /\ s.at = im.at /\ s.stage = "fill" /\ s.free = rest
  BY <1>2, <1>3 DEF ImportState
<1>. HIDE DEF x, s
<1>11. Begun(s, x, e)
  BY <1>2, <1>4, <1>6, <1>8, <1>10 DEF Begun, TreeIn, ProfileIn
<1>. QED
  BY <1>2, <1>6, <1>9, <1>10, <1>11, WriteProgress

(* An entry left behind, imported or not, would change nothing if it came  *)
(* again.                                                                  *)
LEMMA AdvancesProgress ==
  ASSUME IInv, Progress, NEW i \in Installations, NextEntry(i) \/ IgnoreEntry(i)
  PROVE  Progress'
<1>. DEFINE e == Current(i)
            r == cat[i][Here(i)]
            im == importing[i]
<1>1. /\ TypeOK /\ im # Idle /\ importing' = [importing EXCEPT ![i] = Advanced(im)]
  BY DEF IInv, NextEntry, IgnoreEntry, Write
<1>2. Here(i) \in Keys /\ r \in Row /\ (Accepted(e) => e \in FileEntry)
  BY <1>1, Working
<1>3. Here(i) = KeyOrder[im.at] /\ e = im.file[KeyOrder[im.at]]
  BY DEF Here, Current
<1>4. CASE NextEntry(i)
  <2>1. Accepted(e) /\ im.free = {} /\ e.overrides # Malformed /\ im.stage = "fill"
    BY <1>4 DEF NextEntry, Write
  <2>2. TreeIn(r, e) /\ ProfileIn(r, e) /\ FreeConcepts(r, e) = {}
    BY <1>1, <2>1 DEF Progress, Halfway, Begun, Here, Current
  <2>3. WholeEntry(r, e) = r
    BY <1>2, <2>1, <2>2, LeftToFill DEF Accepted
  <2>4. Taken(cat[i], im.file, im.at)
    BY <1>3, <2>1, <2>3 DEF Taken, Raises
  <2>5. cat' = cat
    BY <1>1, <1>2, <1>4 DEF NextEntry, Write, TypeOK
  <2>. QED
    BY <1>1, <2>1, <2>4, <2>5, AdvanceProgress
<1>5. CASE IgnoreEntry(i)
  <2>1. ~Accepted(e) /\ cat' = cat
    BY <1>5 DEF IgnoreEntry
  <2>2. im.free = {}
    BY <2>1 DEF IInv, FreeOpen
  <2>3. Taken(cat[i], im.file, im.at)
    BY <1>3, <2>1 DEF Taken, Raises
  <2>. QED
    BY <1>1, <2>1, <2>2, <2>3, AdvanceProgress
<1>. QED
  BY <1>4, <1>5

(* An import that begins, or ends, leaves nothing half done.               *)
LEMMA EdgesProgress ==
  ASSUME IInv, Progress, NEW i \in Installations,
         Import(i) \/ ImportRaises(i) \/ Restart(i)
  PROVE  Progress'
<1>1. TypeOK
  BY DEF IInv
<1>2. CASE Import(i)
  <2>1. PICK f \in files : importing' =
          [importing EXCEPT ![i] = [importing[i] EXCEPT !.file = f, !.at = 1]]
    BY <1>2 DEF Import
  <2>2. importing[i] = Idle /\ cat' = cat
    BY <1>2 DEF Import, Request
  <2>. DEFINE s == [Idle EXCEPT !.file = f, !.at = 1]
  <2>3. s.at = 1 /\ s.stage = "merge"
    BY DEF Idle
  <2>4. /\ importing'[i] = s
        /\ \A j \in Installations : j # i => importing'[j] = importing[j]
    BY <1>1, <2>1, <2>2 DEF TypeOK
  <2>. HIDE DEF s
  <2>5. Halfway(s, cat[i])
    BY <2>3 DEF Halfway, Begun
  <2>. QED
    BY <1>1, <2>2, <2>4, <2>5, ProgressHere
<1>3. CASE ImportRaises(i) \/ Restart(i)
  <2>1. importing' = [importing EXCEPT ![i] = Idle]
    BY <1>3 DEF ImportRaises, Restart
  <2>2. \A j \in Installations : j # i => cat'[j] = cat[j]
    BY <1>1, <1>3 DEF ImportRaises, Restart, Write, TypeOK
  <2>3. importing'[i] = Idle /\ \A j \in Installations : j # i => importing'[j] = importing[j]
    BY <1>1, <2>1 DEF TypeOK
  <2>. QED
    BY <1>1, <2>2, <2>3, ProgressHere
<1>. QED
  BY <1>2, <1>3

(* No request of an installation runs during its import.                   *)
LEMMA RequestProgress ==
  ASSUME IInv, Progress, NEW i \in Installations,
         \/ OpenDevice(i) \/ OpenDeviceDies(i) \/ Correct(i) \/ Forget(i) \/ Damage(i)
         \/ Export(i)
  PROVE  Progress'
<1>1. TypeOK /\ importing' = importing /\ importing[i] = Idle
  BY DEF IInv, OpenDevice, OpenDeviceDies, Correct, Forget, Damage, Export, Request
<1>2. \A j \in Installations : j # i => cat'[j] = cat[j]
  BY <1>1 DEF OpenDevice, OpenDeviceDies, Correct, Forget, Damage, Export, TypeOK
<1>. QED
  BY <1>1, <1>2, ProgressHere

(* Every step keeps what an import has behind it done.                     *)
LEMMA NextProgress == IInv /\ Progress /\ [Next]_vars => Progress'
<1>. SUFFICES ASSUME IInv, Progress, [Next]_vars PROVE Progress'
  OBVIOUS
<1>1. ASSUME UNCHANGED <<cat, importing>> PROVE Progress'
  BY <1>1 DEF Progress
<1>2. Edit => Progress'
  BY <1>1 DEF Edit
<1>3. UNCHANGED vars => Progress'
  BY <1>1 DEF vars
<1>4. ASSUME NEW i \in Installations,
             \/ OpenDevice(i) \/ OpenDeviceDies(i) \/ Correct(i) \/ Forget(i) \/ Damage(i)
             \/ Export(i)
      PROVE  Progress'
  BY <1>4, RequestProgress
<1>5. ASSUME NEW i \in Installations, JoinTree(i) \/ SeedProfile(i) \/ FillConcept(i)
      PROVE  Progress'
  BY <1>5, JoinTreeProgress, SeedProfileProgress, FillConceptProgress
<1>6. ASSUME NEW i \in Installations,
             \/ NextEntry(i) \/ IgnoreEntry(i) \/ Import(i) \/ ImportRaises(i) \/ Restart(i)
      PROVE  Progress'
  BY <1>6, AdvancesProgress, EdgesProgress
<1>. QED
  BY <1>2, <1>3, <1>4, <1>5, <1>6 DEF Next

(* What an import under way has behind it is done for good: importing it   *)
(* again would change nothing.                                             *)
THEOREM DoneIsDone == Spec => []Progress
<1>1. Init => Progress
  BY DEF Init, Progress
<1>. QED
  BY <1>1, NextProgress, Invariant, PTL DEF Spec

(* What is left of an import from its at-th entry on: all of it, if that   *)
(* entry has not been begun; the entries after it, if row is what it makes *)
(* of its own; nothing, if it raises.                                      *)
IsWhatIsLeft(c, f, at, row, here, done) ==
  /\ ImportedFrom(c, f, 1) = ImportedFrom(c, f, at)
  /\ Accepted(f[here]) /\ row = WholeEntry(c[here], f[here]) =>
       /\ Raises(f[here]) => ImportedFrom(c, f, 1) = done
       /\ ~Raises(f[here]) => ImportedFrom(c, f, 1) = ImportedFrom(done, f, at + 1)

(* It is what is left when the entries before the cut have been taken.     *)
LEMMA Resumed ==
  ASSUME NEW c, NEW f, NEW at \in Positions, NEW row, NEW here, NEW done,
         c = [k \in Keys |-> c[k]], \A m \in 1..(at - 1) : Taken(c, f, m),
         here = KeyOrder[at], done = [c EXCEPT ![here] = row]
  PROVE  IsWhatIsLeft(c, f, at, row, here, done)
<1>. DEFINE Brings(n, m) == n <= m /\ Clear(f, n, m) /\ Accepted(f[KeyOrder[m]])
            next == at + 1
            e == f[here]
<1>1. Len(KeyOrder) \in Nat /\ at \in Nat \ {0} /\ next \in Nat \ {0} /\ 1 \in Nat \ {0}
  BY KeysAssumption DEF Positions
<1>2. ASSUME NEW n \in Nat \ {0}, NEW m \in Positions, NEW h
      PROVE  ImportedFrom(h, f, n)[KeyOrder[m]] =
               IF Brings(n, m) THEN WholeEntry(h[KeyOrder[m]], f[KeyOrder[m]])
               ELSE h[KeyOrder[m]]
  <2>1. KeyOrder[m] \in Keys
    BY DEF Keys
  <2>2. KeyOrder[m] \in Reached(f, n) <=> n <= m /\ Clear(f, n, m)
    BY ReachedKeys
  <2>. QED
    BY <2>1, <2>2 DEF ImportedFrom
<1>3. ASSUME NEW m \in Positions
      PROVE  done[KeyOrder[m]] = IF m = at THEN row ELSE c[KeyOrder[m]]
  <2>1. KeyOrder[m] \in Keys /\ here \in Keys /\ (KeyOrder[m] = here <=> m = at)
    BY KeysAssumption DEF Keys
  <2>. QED
    BY <2>1
<1>4. ASSUME NEW m \in Positions, m < at
      PROVE  ImportedFrom(c, f, 1)[KeyOrder[m]] = c[KeyOrder[m]]
  <2>1. m \in 1..(at - 1)
    BY <1>1, <1>4 DEF Positions
  <2>2. Taken(c, f, m)
    BY <2>1
  <2>3. Accepted(f[KeyOrder[m]]) => WholeEntry(c[KeyOrder[m]], f[KeyOrder[m]]) = c[KeyOrder[m]]
    BY <2>2 DEF Taken
  <2>. HIDE DEF Brings
  <2>4. ImportedFrom(c, f, 1)[KeyOrder[m]] =
          IF Brings(1, m) THEN WholeEntry(c[KeyOrder[m]], f[KeyOrder[m]]) ELSE c[KeyOrder[m]]
    BY <1>1, <1>2
  <2>5. Brings(1, m) => Accepted(f[KeyOrder[m]])
    BY DEF Brings
  <2>. QED
    BY <2>3, <2>4, <2>5
<1>5. ASSUME NEW m \in Positions
      PROVE  /\ m < at => ~Brings(at, m) /\ ~Brings(next, m)
             /\ m = at => (Brings(1, m) <=> Accepted(e)) /\ (Brings(at, m) <=> Accepted(e))
                          /\ ~Brings(next, m)
             /\ m > at => (Brings(1, m) <=> Brings(at, m))
                          /\ (Raises(e) => ~Brings(1, m))
                          /\ (~Raises(e) => (Brings(1, m) <=> Brings(next, m)))
  <2>1. \A l \in 1..(at - 1) : ~Raises(f[KeyOrder[l]])
    BY DEF Taken
  <2>2. m \in Nat /\ 1 <= m
    BY <1>1 DEF Positions
  <2>3. CASE m < at
    BY <1>1, <2>2, <2>3
  <2>4. CASE m = at
    <3>1. Clear(f, 1, m) /\ Clear(f, at, m)
      BY <1>1, <2>1, <2>4 DEF Clear
    <3>. QED
      BY <1>1, <2>2, <2>4, <3>1
  <2>5. CASE m > at
    <3>1. /\ Clear(f, 1, m) <=> Clear(f, at, m)
          /\ Clear(f, at, m) <=> ~Raises(e) /\ Clear(f, next, m)
      BY <1>1, <2>1, <2>2, <2>5 DEF Clear
    <3>. QED
      BY <1>1, <2>2, <2>5, <3>1
  <2>. QED
    BY <1>1, <2>2, <2>3, <2>4, <2>5
<1>6. \A h, n : ImportedFrom(h, f, n) = [k \in Keys |-> ImportedFrom(h, f, n)[k]]
  BY DEF ImportedFrom
<1>7. done = [k \in Keys |-> done[k]]
  OBVIOUS
<1>. HIDE DEF Brings, next, e
<1>8. \A m \in Positions : m \in Nat
  BY <1>1 DEF Positions
<1>9. ImportedFrom(c, f, 1) = ImportedFrom(c, f, at)
  <2>1. ASSUME NEW m \in Positions
        PROVE  ImportedFrom(c, f, 1)[KeyOrder[m]] = ImportedFrom(c, f, at)[KeyOrder[m]]
    <3>1. CASE m < at
      BY <1>1, <1>2, <1>4, <1>5, <3>1
    <3>2. CASE ~(m < at)
      <4>1. Brings(1, m) <=> Brings(at, m)
        BY <1>1, <1>5, <1>8, <3>2
      <4>2. ImportedFrom(c, f, 1)[KeyOrder[m]] =
              IF Brings(1, m) THEN WholeEntry(c[KeyOrder[m]], f[KeyOrder[m]]) ELSE c[KeyOrder[m]]
        BY <1>1, <1>2, Zenon
      <4>3. ImportedFrom(c, f, at)[KeyOrder[m]] =
              IF Brings(at, m) THEN WholeEntry(c[KeyOrder[m]], f[KeyOrder[m]]) ELSE c[KeyOrder[m]]
        BY <1>1, <1>2, Zenon
      <4>. QED
        BY ONLY <4>1, <4>2, <4>3
    <3>. QED
      BY <3>1, <3>2
  <2>2. \A k \in Keys : ImportedFrom(c, f, 1)[k] = ImportedFrom(c, f, at)[k]
    BY <2>1, EveryKey
  <2>. QED
    BY <1>6, <2>2
<1>10. ASSUME Accepted(e), row = WholeEntry(c[here], e)
       PROVE  /\ Raises(e) => ImportedFrom(c, f, 1) = done
              /\ ~Raises(e) => ImportedFrom(c, f, 1) = ImportedFrom(done, f, next)
  <2>1. ASSUME NEW m \in Positions
        PROVE  /\ Raises(e) => ImportedFrom(c, f, 1)[KeyOrder[m]] = done[KeyOrder[m]]
               /\ ~Raises(e) => ImportedFrom(c, f, 1)[KeyOrder[m]]
                                  = ImportedFrom(done, f, next)[KeyOrder[m]]
    <3>1. CASE m < at
      <4>1. m # at /\ ~Brings(next, m) /\ ImportedFrom(c, f, 1)[KeyOrder[m]] = c[KeyOrder[m]]
        BY <1>1, <1>4, <1>5, <1>8, <3>1
      <4>2. done[KeyOrder[m]] = c[KeyOrder[m]]
        BY <1>3, <4>1
      <4>3. ImportedFrom(done, f, next)[KeyOrder[m]] =
              IF Brings(next, m) THEN WholeEntry(done[KeyOrder[m]], f[KeyOrder[m]])
              ELSE done[KeyOrder[m]]
        BY <1>1, <1>2, Zenon
      <4>. QED
        BY ONLY <4>1, <4>2, <4>3
    <3>2. CASE m = at
      <4>1. ImportedFrom(c, f, 1)[KeyOrder[m]] = row
        BY <1>1, <1>2, <1>5, <1>10, <3>2 DEF e
      <4>2. done[KeyOrder[m]] = row /\ ImportedFrom(done, f, next)[KeyOrder[m]] = row
        <5>1. done[KeyOrder[m]] = row /\ ~Brings(next, m)
          BY <1>3, <1>5, <3>2
        <5>2. ImportedFrom(done, f, next)[KeyOrder[m]] =
                IF Brings(next, m) THEN WholeEntry(done[KeyOrder[m]], f[KeyOrder[m]])
                ELSE done[KeyOrder[m]]
          BY <1>1, <1>2, Zenon
        <5>. QED
          BY ONLY <5>1, <5>2
      <4>. QED
        BY <4>1, <4>2
    <3>3. CASE m > at
      <4>. DEFINE k == KeyOrder[m]
      <4>1. ImportedFrom(c, f, 1)[k] = IF Brings(1, m) THEN WholeEntry(c[k], f[k]) ELSE c[k]
        BY <1>1, <1>2, Zenon
      <4>2. ImportedFrom(done, f, next)[k] =
              IF Brings(next, m) THEN WholeEntry(done[k], f[k]) ELSE done[k]
        BY <1>1, <1>2, Zenon
      <4>3. m # at
        BY <1>1, <1>8, <3>3
      <4>4. done[k] = c[k]
        BY <1>3, <4>3
      <4>5. /\ Raises(e) => ~Brings(1, m)
            /\ ~Raises(e) => (Brings(1, m) <=> Brings(next, m))
        BY <1>5, <3>3
      <4>. HIDE DEF k
      <4>6. /\ Raises(e) => ImportedFrom(c, f, 1)[k] = done[k]
            /\ ~Raises(e) => ImportedFrom(c, f, 1)[k] = ImportedFrom(done, f, next)[k]
        BY ONLY <4>1, <4>2, <4>4, <4>5
      <4>. QED
        BY <4>6 DEF k
    <3>. QED
      BY <1>1, <1>8, <3>1, <3>2, <3>3
  <2>2. \A k \in Keys :
          /\ Raises(e) => ImportedFrom(c, f, 1)[k] = done[k]
          /\ ~Raises(e) => ImportedFrom(c, f, 1)[k] = ImportedFrom(done, f, next)[k]
    BY <2>1, EveryKey
  <2>3. ASSUME Raises(e) PROVE ImportedFrom(c, f, 1) = done
    <3>1. \A k \in Keys : ImportedFrom(c, f, 1)[k] = done[k]
      BY <2>2, <2>3
    <3>2. ImportedFrom(c, f, 1) = [k \in Keys |-> ImportedFrom(c, f, 1)[k]]
      BY <1>6
    <3>. QED
      BY ONLY <1>7, <3>1, <3>2
  <2>4. ASSUME ~Raises(e) PROVE ImportedFrom(c, f, 1) = ImportedFrom(done, f, next)
    <3>1. \A k \in Keys : ImportedFrom(c, f, 1)[k] = ImportedFrom(done, f, next)[k]
      BY <2>2, <2>4
    <3>2. /\ ImportedFrom(c, f, 1) = [k \in Keys |-> ImportedFrom(c, f, 1)[k]]
          /\ ImportedFrom(done, f, next) = [k \in Keys |-> ImportedFrom(done, f, next)[k]]
      BY <1>6
    <3>. QED
      BY ONLY <3>1, <3>2
  <2>. QED
    BY <2>3, <2>4
<1>. QED
  BY <1>9, <1>10 DEF IsWhatIsLeft, e, next

(* Whatever entry an import is cut at, and after whichever of its commits, *)
(* importing the same file again ends as the import that is not cut.       *)
THEOREM RetryRepairs == Spec => []RetryCompletes
<1>1. IInv /\ Progress => RetryCompletes
  <2>. SUFFICES ASSUME IInv, Progress, NEW i \in Installations, importing[i] # Idle
                PROVE  Imported(cat[i], importing[i].file) = Finished(i)
    BY DEF RetryCompletes
  <2>. DEFINE im == importing[i]
              f == im.file
              at == im.at
              c == cat[i]
              e == Current(i)
              r == c[Here(i)]
              row == IF im.stage = "seed" THEN WholeEntry(r, e) ELSE Filled(r, e, im.free)
              done == [c EXCEPT ![Here(i)] = row]
  <2>1. /\ TypeOK /\ at \in Positions /\ r \in Row
        /\ Accepted(e) => e \in FileEntry
    BY Working DEF IInv
  <2>2. Here(i) = KeyOrder[at] /\ e = f[KeyOrder[at]]
    BY DEF Here, Current
  <2>3. /\ \A m \in 1..(at - 1) : Taken(c, f, m)
        /\ Begun(im, r, e)
    BY <2>2 DEF Progress, Halfway
  <2>4. c = [k \in Keys |-> c[k]]
    BY <2>1 DEF TypeOK
  <2>5. im.stage # "merge" => Accepted(e) /\ row = WholeEntry(r, e)
    <3>1. CASE im.stage = "fill"
      <4>1. Accepted(e) /\ TreeIn(r, e) /\ ProfileIn(r, e) /\ im.free = FreeConcepts(r, e)
        BY <2>3, <3>1 DEF Begun
      <4>. QED
        BY <2>1, <3>1, <4>1, LeftToFill DEF Accepted
    <3>2. CASE im.stage = "seed"
      BY <2>3, <3>2 DEF Begun
    <3>3. im.stage \in {"merge", "seed", "fill"}
      BY <2>1 DEF TypeOK, ImportState
    <3>. QED
      BY <3>1, <3>2, <3>3
  <2>6. Imported(c, f) = ImportedFrom(c, f, 1)
    BY DEF Imported
  <2>7. Finished(i) = IF im.stage = "merge" THEN ImportedFrom(c, f, at)
                      ELSE IF Raises(e) THEN done ELSE ImportedFrom(done, f, at + 1)
    BY DEF Finished
  <2>8. done = [c EXCEPT ![KeyOrder[at]] = row]
    BY <2>2
  <2>9. r = c[KeyOrder[at]]
    BY <2>2
  <2>. HIDE DEF im, f, at, c, e, r, row, done
  <2>10. /\ ImportedFrom(c, f, 1) = ImportedFrom(c, f, at)
         /\ Accepted(e) /\ row = WholeEntry(r, e) =>
              /\ Raises(e) => ImportedFrom(c, f, 1) = done
              /\ ~Raises(e) => ImportedFrom(c, f, 1) = ImportedFrom(done, f, at + 1)
    <3>1. \A m \in 1..(at - 1) : Taken(c, f, m)
      BY <2>3
    <3>. DEFINE here == KeyOrder[at]
    <3>2. here = KeyOrder[at] /\ done = [c EXCEPT ![here] = row] /\ at \in Positions
      BY <2>1, <2>8
    <3>3. r = c[here] /\ e = f[here]
      BY <2>2, <2>9
    <3>. HIDE DEF here
    <3>4. IsWhatIsLeft(c, f, at, row, here, done)
      BY <2>4, <3>1, <3>2, Resumed, Zenon
    <3>. QED
      BY ONLY <3>3, <3>4, Zenon DEF IsWhatIsLeft
  <2>11. Imported(c, f) = Finished(i)
    BY <2>5, <2>6, <2>7, <2>10
  <2>. QED
    BY <2>11 DEF c, f, im
<1>. QED
  BY <1>1, Invariant, DoneIsDone, PTL
=============================================================================
